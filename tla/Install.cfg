\* Setups, their Repairs flows and what is done to the file system, one CLI directory or another.
CONSTANTS
  Blueprints = {blueprint}
  Tools = {tool}
  Dirs = {here, there}
  Env <- Everything
  MaxTrouble = 3
  None = None
SPECIFICATION FairSpec
INVARIANTS
  Accounted
  TokenUsable
PROPERTIES
  NothingClobbered
  OptionsTakeEffect
CHECK_DEADLOCK FALSE

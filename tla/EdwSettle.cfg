\* Names, ids, caches, aliases and keys drift, and every repair is submitted in some order.
CONSTANTS
  lamp = lamp
  spot = spot
  helper = helper
  morning = morning
  evening = evening
  a = a
  b = b
  Device <- TwoOfADevice
  Others <- HelperAndScripts
  Scripts = {morning, evening}
  Fleets <- DevicesOrScripts
  Rests = {a, b, None}
  Checks <- AllChecks
  Env = {"id", "name", "cache", "unhide"}
  MaxTrouble = 1
  None = None
SPECIFICATION Spec
SYMMETRY AnyName
INVARIANTS
  FixesDoNotClash
  FixesEnd
CHECK_DEADLOCK FALSE

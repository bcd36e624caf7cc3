\* Everything that happens to a watchdog.
CONSTANTS
  Ids = {scan, renamed}
  Findings <- ThreeFindings
  Fixable <- TwoFixable
  MaxRepairs = 1
  MaxNotes = 1
  MaxTrouble = 4
  Env <- Life
  None = None
SPECIFICATION FairSpec
INVARIANTS
  OneSurface
  SubmitFixes
  UnloadedIsQuiet
PROPERTY FindingsSettle
CHECK_DEADLOCK FALSE

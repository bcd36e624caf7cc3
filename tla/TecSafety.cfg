\* Two lights, a motion sensor, and what can go wrong around them.
CONSTANTS
  Controlled = {light, fan}
  Triggers = {motion}
  TriggerDisabling = {}
  AutoOffDisabling = {occupied}
  TriggerPeriod = "always"
  TriggerDisablingPeriod = "always"
  ForcesOn = FALSE
  AutoOff = 2
  Ids = {tec, renamed}
  Env <- Accidents
  MaxQueue = 2
  MaxCmds = 2
  None = None
SYMMETRY Interchangeable
SPECIFICATION Spec
INVARIANTS
  TypeOK
  WakeupOfCountdown
PROPERTIES
  NoEarlyOff
  NoOffWhileTriggered

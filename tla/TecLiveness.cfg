\* Auto-off and force-on happen, through whatever befalls the automation.
CONSTANTS
  Controlled = {light}
  Triggers = {motion}
  TriggerDisabling = {occupied}
  AutoOffDisabling = {occupied}
  TriggerPeriod = "night-time"
  TriggerDisablingPeriod = "always"
  ForcesOn = TRUE
  AutoOff = 1
  Ids = {tec}
  Env <- Nights
  MaxQueue = 2
  MaxCmds = 2
  None = None
SPECIFICATION FairSpec
INVARIANT NoLostWakeup
PROPERTIES
  AutoOffHappens
  MotionTurnsOn
  ForcedBackOn

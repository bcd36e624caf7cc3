\* Whatever loses a run, a call or a countdown.
SPECIFICATION FairSpec
CONSTANTS
  None = None
  Controlled = {fan}
  Values = {0, 2}
  TriggerThreshold = 1
  ReleaseThreshold = 0
  SamplingWindow = 0
  DisableWindow = 0
  AutoOff = 1
  Minute = 1
  Env <- Losses
  MaxQueue = 2
  MaxCmds = 1
  MaxSamples = 2
PROPERTY AutoOffHappens

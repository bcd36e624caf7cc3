\* Two lights under a sensor: people, a sensor that repeats itself, HA restarting.
SPECIFICATION FairSpec
CONSTANTS
  None = None
  Controlled = {fan, light}
  Values = {0, 2}
  TriggerThreshold = 1
  ReleaseThreshold = 0
  SamplingWindow = 1
  DisableWindow = 1
  AutoOff = 1
  Minute = 1
  Env <- Evenings
  MaxQueue = 2
  MaxCmds = 1
  MaxSamples = 2
PROPERTIES
  NoEarlyOff
  KeepsContract
  SettledTurnsOff
  ManagedStaysOn

\* A lamp, a lock and a plug; files come and go, answers are late or partial.
CONSTANTS
  lamp = lamp
  lock = lock
  plug = plug
  ghost = ghost
  Devices <- House
  ControllerSpeed = 3
  DefaultSpeed = None
  Bad = Bad
  None = None
  Types = {"suc"}
  Sleepy <- Sleepers
  Negotiated <- SpeedsOfHouse
  HandRoutes <- NoRoutes
  Files <- AllFiles
  ClearUnmanaged = TRUE
  Threshold = 2
  MaxHidden = 1
  Env <- Losses
SPECIFICATION Spec
INVARIANTS
  ListedNeverCleared
  NoEarlyResend
  AppliedLanded
  BackOff

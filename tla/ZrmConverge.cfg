\* Connections fail in every way, then no more.
CONSTANTS
  lamp = lamp
  lock = lock
  plug = plug
  ghost = ghost
  Devices <- House
  ControllerSpeed = 3
  DefaultSpeed = None
  Bad = Bad
  None = None
  Types = {"suc"}
  Sleepy <- Sleepers
  Negotiated <- SpeedsOfHouse
  HandRoutes <- ByHand
  Files <- OneFile
  ClearUnmanaged = TRUE
  Threshold = 2
  MaxHidden = 0
  Env <- Failures
SPECIFICATION FairSpec
PROPERTIES
  RoutesConverge
  NotesSettle

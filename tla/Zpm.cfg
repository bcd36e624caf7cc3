\* One parameter; the file is edited, or zwavectl runs; HA and the driver restart.
CONSTANTS
  Catalog <- Samples
  Locators <- Where
  Quirks <- NoQuirk
  OnLabels = {}
  OffLabels = {}
  LowLabels = {}
  HighLabels = {}
  PercentUnits <- NoUnits
  TimeUnits <- NoUnits
  DeviceTypes = {}
  Yes = Yes
  No = No
  Bad = Bad
  None = None
  Nodes <- Pir
  Texts <- AllTexts
  CliTexts <- OneText
  Factory = 0
  Reporting = TRUE
  MaxCount = 1
  MaxRestarts = 1
  MaxCli = 1
  MaxResets = 1
  Env <- Changes
SPECIFICATION FairSpec
INVARIANTS
  PendingIsQueued
  RepeatsFollowReset
PROPERTIES
  ParametersConverge
  ReportsSettle

\* Small parameters, plans of overlapping policies; small houses.
CONSTANTS
  Catalog <- Samples
  Locators <- Where
  Quirks <- Odd
  OnLabels = {"on"}
  OffLabels = {"off"}
  LowLabels = {"low"}
  HighLabels = {"high"}
  PercentUnits <- Percent
  TimeUnits <- Seconds
  DeviceTypes <- Kinds
  Yes = Yes
  No = No
  Bad = Bad
  None = None
  Nodes <- AllNodes
  Fleet <- House
  Policies <- SomePolicies
  Recommended <- Diagnostics
  Houses <- SomeHouses
  DwOptions <- SomeDwOptions
  BwOptions <- SomeBwOptions
  Nothing = Nothing
SPECIFICATION Spec
INVARIANTS
  ScaleKeepsOrder
  QuantityIsNearest
  OneAnswer
  UnusedIsUseless
  UnmatchedIsUseless
  FixLeavesNothing

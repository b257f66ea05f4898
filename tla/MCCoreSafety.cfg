SPECIFICATION FairSpec
CONSTANTS
  Nil = Nil
  NoObject = NoObject
  NoInstance = NoInstance
  Changed = Changed
  Instances <- Nested
  Versions = {"plain", "disabled"}
  SpecOf <- MCSpecOf
  Functions5G = {"nrf"}
  OtherKeys <- OtherService
  Lagging = {"Deployment"}
  MaxLag = 1
  Exposed <- SomeKeys
  DriftFields = {"spec"}
  Contested <- SomeKeys
  MonitorCRDAtStart = TRUE
  Bound <- BoundSafety
INVARIANT TypeOK
PROPERTY UpdatesOnlyOwned
PROPERTY InstancesApart
PROPERTY ForeignSpared
PROPERTY NothingLeft
CHECK_DEADLOCK FALSE

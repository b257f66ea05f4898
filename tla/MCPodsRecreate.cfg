SPECIFICATION PodsSpec
CONSTANTS
  Nil = Nil
  NoObject = NoObject
  NoInstance = NoInstance
  Changed = Changed
  Instances <- Core
  Versions = {"plain", "plmn"}
  SpecOf <- MCSpecOf
  Functions5G = {"nrf"}
  OtherKeys <- NoOthers
  Lagging = {}
  MaxLag = 2
  Exposed <- NoOthers
  DriftFields = {}
  Contested <- NoOthers
  MonitorCRDAtStart = TRUE
  Bound <- BoundTwice
  NoPod = NoPod
  PodRestarts = 0
PROPERTY PodsConverge
CHECK_DEADLOCK FALSE

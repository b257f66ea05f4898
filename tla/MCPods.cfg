SPECIFICATION PodsSpec
CONSTANTS
  Nil = Nil
  NoObject = NoObject
  NoInstance = NoInstance
  Changed = Changed
  Instances <- Core
  Versions = {"plain", "plmn", "nodePortAccount", "disabled"}
  SpecOf <- MCSpecOf
  Functions5G = {"amf"}
  OtherKeys <- NoOthers
  Lagging = {"Service"}
  MaxLag = 2
  Exposed <- NoOthers
  DriftFields = {}
  Contested <- NoOthers
  MonitorCRDAtStart = TRUE
  Bound <- BoundPods
  NoPod = NoPod
  PodRestarts = 1
PROPERTY Converges
PROPERTY UnwantedRemoved
PROPERTY PodsConverge
CHECK_DEADLOCK FALSE

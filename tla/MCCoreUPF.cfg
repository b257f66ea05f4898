SPECIFICATION FairSpec
CONSTANTS
  Nil = Nil
  NoObject = NoObject
  NoInstance = NoInstance
  Changed = Changed
  Instances <- Core
  Versions = {"plain", "unmetered"}
  SpecOf <- MCSpecOf
  Functions5G = {"upf"}
  OtherKeys <- NoOthers
  Lagging = {"ConfigMap"}
  MaxLag = 1
  Exposed <- OneOfEach
  DriftFields = {"spec"}
  Contested <- NoOthers
  MonitorCRDAtStart = FALSE
  Bound <- BoundUPF
PROPERTY Converges
PROPERTY RolloutAfterConfig
CHECK_DEADLOCK FALSE

SPECIFICATION OperatorSpec
CONSTANTS
  Nil = Nil
  NoObject = NoObject
  NoInstance = NoInstance
  Changed = Changed
  Instances <- Core
  Versions = {"plain", "disabled"}
  SpecOf <- MCSpecOf
  Functions5G = {"mongodb"}
  OtherKeys <- NoOthers
  Lagging = {}
  MaxLag = 1
  Exposed <- TheClaim
  DriftFields = {"spec"}
  Contested <- NoOthers
  MonitorCRDAtStart = FALSE
  Bound <- BoundOperator
  Namespace = "ns1"
  u1 = u1
  Users = {u1}
  SpecsOf <- MCSpecsOf
  UserBound <- BoundOperatorUser
  NoUser = NoUser
  NoSpec = NoSpec
  IMSIs = {"imsi1"}
  UserKeys = {"k1"}
  OPCs = {"opc"}
  SSTs = {"1"}
  SDs = {"0x1"}
  APNs = {"ims"}
  AtoiTable <- MCAtoiTable
  NoField = NoField
PROPERTY Provisioned
PROPERTY EveryDocumentOwned
PROPERTY Converges
CHECK_DEADLOCK FALSE

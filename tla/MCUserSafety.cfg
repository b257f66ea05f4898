SPECIFICATION Spec
CONSTANTS
  u1 = u1
  u2 = u2
  Users = {u1, u2}
  IMSIs = {"imsi1", "imsi2"}
  Keys = {"k1", "k2"}
  OPCs = {"opc"}
  SSTs <- MCSSTs
  SDs <- MCSDs
  APNs <- MCAPNs
  AtoiTable <- MCAtoiTable
  NoField = NoField
  NoSpec = NoSpec
  NoUser = NoUser
  NoCore = NoCore
  CoreNames = {"core"}
  Namespaces = {"ns1"}
  NamespaceOf <- OneNamespace
  SpecsOf <- SharedIMSI
  ExternalDocuments = {}
  InitialInstances <- CoreInNs1
  Bound <- BoundSafety
INVARIANT TypeOK
INVARIANT WriteUnderFinalizer
INVARIANT NoOrphan
INVARIANT AtMostOneDocument
PROPERTY ImplementsStore
CHECK_DEADLOCK FALSE

SPECIFICATION Spec
CONSTANTS
  u1 = u1
  u2 = u2
  Users = {u1}
  IMSIs = {"imsi1", "imsi2"}
  Keys = {"k1", "k2"}
  OPCs = {"opc"}
  SSTs <- MCSSTs
  SDs <- MCSDs
  APNs <- MCAPNs
  AtoiTable <- MCAtoiTable
  NoField = NoField
  NoSpec = NoSpec
  NoUser = NoUser
  NoCore = NoCore
  CoreNames = {"core"}
  Namespaces = {"ns1"}
  NamespaceOf <- OneNamespace
  SpecsOf <- RotatingKeys
  ExternalDocuments <- ScriptDocuments
  InitialInstances <- CoreInNs1
  Bound <- BoundLate
PROPERTY UnmanagedUnaltered
CHECK_DEADLOCK FALSE

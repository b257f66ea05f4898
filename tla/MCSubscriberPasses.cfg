SPECIFICATION Spec
CONSTANTS
  IMSIs = {"imsi1"}
  Keys = {"k1", "k2"}
  OPCs = {"opc1", "opc2"}
  SSTs = {"", "1", "2", "none"}
  SDs = {"", "0x1", "0x2"}
  APNs = {"", "ims"}
  AtoiTable <- MCAtoiTable
  NoField = NoField
  Documents <- MCDocuments
INVARIANT TypeOK
INVARIANT OnePassSettles
INVARIANT CredentialsFollow
INVARIANT WritingEnds

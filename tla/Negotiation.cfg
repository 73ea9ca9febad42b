SPECIFICATION Spec
CONSTANTS
  Params <- MCParams
  Configs <- MCConfigs
  Peers <- MCPeers
  Offers <- MCOffers
  MaxConnects = 3
INVARIANTS
  AddressesAgree FirstAuthEncrypted ExchangeIsGenuine GradesFit ResumesRunning
  SessionIsComplete CheckerAgrees
PROPERTY LossKeepsSession
CHECK_DEADLOCK FALSE

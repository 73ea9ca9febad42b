SPECIFICATION Spec
CONSTANTS
  Registrars <- MCRegistrars
  Keys <- MCKeys
  Locals <- MCLocals
  Extensions <- MCExtensions
  Registration <- MCRegistration
  Builtin <- MCBuiltin
  Tokens <- MCTokens
  Openings <- MCOpenings
  Elements <- MCElements
  Requests <- MCRequests
  Tables <- MCTables
  Lowered <- MCLowered
  MaxDepth = 3
  MaxPackets = 2
INVARIANTS RegistrationsKept PeersAgree FirstRouteTakes
PROPERTY DecodesAsTree
CHECK_DEADLOCK FALSE

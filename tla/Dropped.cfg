SPECIFICATION Spec
CONSTANTS
  MaxCalls = 3
  MayCancel = TRUE
  Faults = {}
  HandleReuse = {"replace"}
  EagerHeader = TRUE
  Credit = 1000
  LowCredit = 300
INVARIANTS QuietCallReturnsOwnReply NeverRejected
PROPERTY CallReturns

SPECIFICATION Spec
CONSTANTS
  MaxCalls = 6
  MayCancel = FALSE
  Faults = {"disconnect", "refuse_login"}
  HandleReuse = {"replace", "end"}
  EagerHeader = TRUE
  Credit = 1000
  LowCredit = 300
INVARIANTS ReadyMeansAttached PanicMeansSessionLost NothingLeftBehind CallReturnsOwnReply
PROPERTIES NewSucceeds CallSucceeds ImplementsService

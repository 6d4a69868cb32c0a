\* A broker that ignores an attach leaves the call waiting: the system may stop.
CHECK_DEADLOCK FALSE
SPECIFICATION Spec
CONSTANTS
  MaxCalls = 2
  MayCancel = TRUE
  Faults = {"refuse_login", "refuse_link", "reorder", "disconnect"}
  HandleReuse = {"replace", "end", "ignore"}
  EagerHeader = TRUE
  Credit = 2
  LowCredit = 1
INVARIANTS TypeOK ReadyMeansSession RepliesAreReal

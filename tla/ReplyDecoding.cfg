SPECIFICATION Spec
CONSTANTS
  MaxFields = 5
INVARIANTS SnapshotExactly WholeRepliesReturn PiecesNeverReturn

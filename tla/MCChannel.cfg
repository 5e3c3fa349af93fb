\* Two requests, each answered up to twice, on three cores, a connection that
\* moves once between them; assertions compiled out.
SPECIFICATION FairSpec
CONSTANTS
  Cores = 3
  Request = {"r1", "r2"}
  Byte = {"a", "b", "c", "d", "e", "x", "y", "z"}
  Args <- MCArgs
  Code <- MCCode
  MaxCalls = 2
  Result <- MCResult
  MaxMoves = 1
  NDEBUG = TRUE
INVARIANTS
  BodiesIntact
  OneReplyPerCall
  LeavesWhereHeard
PROPERTIES
  RepliesArrive

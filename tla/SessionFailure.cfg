\* A response that is not 200 OK.
SPECIFICATION Spec
CONSTANTS
  MaySplit = FALSE
INVARIANTS
  ResolvedIsSuccess

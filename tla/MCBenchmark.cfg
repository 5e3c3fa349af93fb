\* Two rounds of up to three runs; assertions compiled out.
SPECIFICATION FairSpec
CONSTANTS
  Lines <- MCLines
  MaxRounds = 2
  MaxRuns = 3
  NDEBUG = TRUE
INVARIANTS
  PoolNeverNegative
  NoStall
PROPERTIES
  RoundEnds

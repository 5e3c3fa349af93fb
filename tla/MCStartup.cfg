\* A node of four cores, up to three requests; a host of six cpus; kassert compiled
\* out.
SPECIFICATION SFairSpec
CONSTANTS
  Count = 4
  MaxRequests = 3
  NDEBUG = TRUE
  Options <- MCOptions
  PhysCpus = 6
INVARIANTS
  SnapshotsInOrder
  OneHaltPerRun
  STypeOK
  CpusDisjoint
  LimitsArrive
PROPERTIES
  BootEnds
  Serves

\* Spawned events run at once or are queued; responses come whole or split.
SPECIFICATION FairSpec
CONSTANTS
  MaySplit = TRUE
INVARIANTS
  AlwaysGuarded
  TimerMatchesPhase
  InitBeforeRun
  SuccessIsGenuine
PROPERTIES
  Contract

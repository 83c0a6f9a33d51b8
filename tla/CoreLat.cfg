\* OMP_DYNAMIC: the second region may have another team, and then hangs.
CONSTANTS
  MaxTeam = 5
  Loops = 3
  Dynamic = TRUE
SPECIFICATION CoreSpec
INVARIANTS
  StoreOwnsToken
  LapBalance
  RingIsWholeTeam
PROPERTIES
  KeepsPromise
  ActsAtomically
  EqualTeamsFinish
CHECK_DEADLOCK FALSE

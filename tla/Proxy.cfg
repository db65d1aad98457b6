CONSTANTS
  r1 = r1
  r2 = r2
  Request = {r1, r2}
SPECIFICATION FairSpec
INVARIANTS ActiveCounted DrainedIsDone EvidenceFirst GuaranteeTruth
PROPERTIES SettledIsFinal AttemptsSettle ShutdownEnds
CHECK_DEADLOCK FALSE

CONSTANTS
  a = a
  b = b
  c = c
  Proc = {a, b, c}
  Environments <- PromptOrMixed
  NoDir = NoDir
  NoOwner = NoOwner
  Nobody = Nobody
SPECIFICATION FairSpec
INVARIANTS OneWriter OwnershipInv ReclaimMutex
PROPERTIES StartRefusedForCause AttemptEnds
CHECK_DEADLOCK FALSE

CONSTANTS
  b1 = b1
  b2 = b2
  user = user
  echo = echo
  answer = answer
  Branch = {b1, b2}
  NoBranch = NoBranch
  Item = {user, echo, answer}
  UserItems = {user, echo}
  SignedItems = {echo}
  Echoes <- MCEchoes
  MaxLength = 3
  Window = 2
  MaxRestarts = 1
  Worlds <- OnlyReplay
SPECIFICATION Spec
SYMMETRY BranchSymmetry
INVARIANT RestartKeepsIdentity
CHECK_DEADLOCK FALSE

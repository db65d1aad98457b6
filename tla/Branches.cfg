CONSTANTS
  b1 = b1
  b2 = b2
  user = user
  echo = echo
  answer = answer
  Branch = {b1, b2}
  NoBranch = NoBranch
  Item = {user, echo, answer}
  UserItems = {user, echo}
  SignedItems = {echo}
  Echoes <- MCEchoes
  MaxLength = 3
  Window = 2
  MaxRestarts = 1
  Worlds <- AnyOrForward
SPECIFICATION Spec
SYMMETRY BranchSymmetry
INVARIANTS TypeOK AnchorReconciled OneOwner ForwardKeepsIdentity CataloguedIsDurable
PROPERTY DecisionIsFinal
CHECK_DEADLOCK FALSE

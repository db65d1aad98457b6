CONSTANTS
  a = a
  b = b
  c = c
  Proc = {a, b, c}
  Environments <- AllClose
  NoDir = NoDir
  NoOwner = NoOwner
  Nobody = Nobody
SPECIFICATION Spec
SYMMETRY ProcSymmetry
INVARIANT OneServing
CHECK_DEADLOCK FALSE

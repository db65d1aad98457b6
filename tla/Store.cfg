CONSTANTS
  c1 = c1
  c2 = c2
  b1 = b1
  b2 = b2
  b3 = b3
  Command = {c1, c2}
  Bootstrap = {b1, b2, b3}
  BranchOf <- MCBranchOf
  MaxBootstrapReceipts = 2
  NoOp = NoOp
  Torn = Torn
SYMMETRY OpSymmetry
SPECIFICATION Spec
INVARIANTS StoreInv RevisionsAreHistory AckedDurable PublishedDurable
PROPERTIES ReceiptsAreFinal QuarantineFreezes LogSpec
CHECK_DEADLOCK FALSE

SPECIFICATION Spec
CONSTANTS
  Words = {"a", "b", "blank", "evicted"}
  Blank = "blank"
  Evicted = "evicted"
  Requests <- AllRequests
  Contents = {"a", "blank"}
  Signed = {"b"}
  MaxRequests = 3
  MaxOrders = 2
INVARIANTS
  SameHistory ExactEdit ResultsTruthful RefusedForCause
CHECK_DEADLOCK FALSE

SPECIFICATION Spec
CONSTANTS
  Words = {"a", "b", "blank", "evicted"}
  Blank = "blank"
  Evicted = "evicted"
  Requests <- AllRequests
  Contents = {"a", "blank"}
  Signed = {"b"}
  MaxRequests = 3
  MaxOrders = 2
INVARIANT UnknownFieldsKept
CHECK_DEADLOCK FALSE

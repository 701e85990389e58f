\* A subscription ends while a publisher fans out.
CONSTANTS
  Publishers = {p1}
  Subscribers = {s1}
  BufferCap = 2
  MaxMessages = 2
SPECIFICATION BusSpec
INVARIANTS SafeForConcurrentUse
CHECK_DEADLOCK FALSE

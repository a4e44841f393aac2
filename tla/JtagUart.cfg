CONSTANTS
  BufLen    = 3
  FifoDepth = 1
  Typed     = {"a"}
  Printed   = {"c"}
  MaxCall   = 2
  IntMax    = 4
  Timeouts  = {2}
  Free      = "free"
SPECIFICATION FairSpec
INVARIANTS ReceivesUnlessFull SendsWhatWaits
PROPERTIES ReceivedInOrder SentInOrder WriteReturns

SPECIFICATION FairSpec
CONSTANTS
  MaxStreams = 2
  MaxRetries = 1
  MaxAsked = 2
  Orders = {"shutdown"}
INVARIANTS
  
  AckIsTrue

  
CHECK_DEADLOCK FALSE

SPECIFICATION Spec
CONSTANTS
  MaxTasks = 1
  MaxRequests = 1
  MaxMessages = 1
  MaxLines = 1
  MaxTroubles = 0
INVARIANT AnsweredIsClosed

SPECIFICATION FairSpec
CONSTANTS
  MaxTasks = 2
  MaxRequests = 2
  MaxMessages = 2
  MaxLines = 2
  MaxTroubles = 1
INVARIANTS RequestIsShown ShownIsWaited SettledWasShown BusyIsTrue
PROPERTY BusyEnds

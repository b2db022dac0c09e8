CONSTANTS
  Calls = 2
  Limited <- FirstCall
  MaxLines = 3
  None = None
SPECIFICATION FairSpec
CHECK_DEADLOCK FALSE
INVARIANTS
  RunsWhatWasAllowed
PROPERTIES
  InputEndFinishes

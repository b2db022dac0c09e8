SPECIFICATION FairSpec
CONSTANTS
  s1 = s1  s2 = s2  r1 = r1  r2 = r2  c1 = c1  m1 = m1  m2 = m2
  None = None  Dead = Dead
  Sessions = {s1, s2}
  Runs = {r1}
  CliRuns = {}
  Volatile = {}
  Lessons = {m1, m2}
  Candidates <- SharedCandidates
  PromptCreator = TRUE
  MaxCrashes = 2
  MaxFaults = 1
INVARIANTS TypeOK AcceptedIsBacked
  VerdictsAgree UnfinishedAcceptKeepsReceipt
PROPERTIES ImplementsContract DecidedIsCompleted

SPECIFICATION Spec
CONSTANTS
  s1 = s1  s2 = s2  r1 = r1  r2 = r2  c1 = c1  m1 = m1  m2 = m2
  None = None  Dead = Dead
  Sessions = {s1, s2}
  Runs = {r1, r2, c1}
  CliRuns = {c1}
  Volatile = {r1}
  Lessons = {m1, m2}
  Candidates <- OverlappingCandidates
  PromptCreator = TRUE
  MaxCrashes = 0
  MaxFaults = 1
SYMMETRY SessionSymmetry
CONSTRAINT TwoRuns
INVARIANTS LearnedOnlyFromAccepted CommittedIsLearned
PROPERTIES OnlyLateSavesUndo

SPECIFICATION FairSpec
CONSTANTS
  s1 = s1  s2 = s2  f1 = f1  g1 = g1
  None = None
  Sessions = {s1, s2}
  Lessons = {f1}
  Insights = {g1}
  Inputs = {1, 2}
  Budgets <- Lives
INVARIANT ActiveIsApproved
PROPERTIES RollbackStaysPossible NothingLost CertificateFollowsMemory InterruptedActivationFinishes

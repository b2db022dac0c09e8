SPECIFICATION FairSpec
CONSTANTS
  b1 = b1  t1 = t1  t2 = t2  d1 = d1
  None = None  NoCycle = NoCycle
  Bridges = {b1}
  Tasks = {t1, t2}
  Dreams = {d1}
  Cap = 1
  TrustAfter = 1
  Faults = {"receipt", "decision", "pack", "kpi", "spend"}
  MaxQueue = 1
  Budgets <- Troubles
INVARIANTS AcceptedIsBacked OneVerdict CycleAgreesWithLedger HeldIsRecoverable
PROPERTIES CancelEnds DecidedIsSettled

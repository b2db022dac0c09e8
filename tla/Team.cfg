SPECIFICATION FairSpec
CONSTANTS
  w1 = w1
  o1 = o1
  w2 = w2
  c1 = c1
  c2 = c2
  Requests = {w1, w2}
  Commands = {c1, c2}
  Trials = {t1}
  Tasks = {k1}
  Offs = {o1, o2}
  Required = {"read"}
  Conditional = {"search"}
  None = None
  Budgets <- TeamBudgets
CHECK_DEADLOCK FALSE
INVARIANTS OneActive FiredIsExported ReceiptIsTrue TrialLedgersAgree
PROPERTIES PurgeSparesActive

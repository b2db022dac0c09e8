SPECIFICATION Spec
CONSTANTS
  w1 = w1
  w2 = w2
  c1 = c1
  c2 = c2
  o1 = o1
  Requests = {w1, w2}
  Commands = {c1, c2}
  Trials = {t1}
  Tasks = {k1}
  Offs = {o1, o2}
  Required = {"read"}
  Conditional = {"search"}
  None = None
  Budgets <- LegacyBudgets
CHECK_DEADLOCK FALSE
INVARIANT RosterStaysReadable

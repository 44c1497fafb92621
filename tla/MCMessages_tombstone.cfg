SPECIFICATION Spec
CONSTANTS
  User = {a, b}
  Creator = a
  Draft = {c1}
  Message = {m1}
  Media = {}
  Slot = {t1, t2}
  MayRetry = {c1}
  MaxTries = 2
  MaxFull = 1
  MaxNotices = 2
  None = None
  a = a
  b = b
  c1 = c1
  c2 = c2
  m1 = m1
  m2 = m2
  d1 = d1
  t1 = t1
  t2 = t2
INVARIANTS TombstonesStayEmpty
CHECK_DEADLOCK FALSE

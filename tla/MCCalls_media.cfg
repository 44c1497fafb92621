SPECIFICATION Spec
SYMMETRY Symmetric
CONSTANTS
  User = {a, b}
  Call = {c1}
  Slot = {t1, t2}
  MayCall <- OneWay
  MayDrop = {}
  MayLag = {}
  MaxRequests = 2
  MaxInterruptions = 0
  None = None
  a = a
  b = b
  c1 = c1
  t1 = t1
  t2 = t2
INVARIANTS AnsweredCallsConnect
CHECK_DEADLOCK FALSE

SPECIFICATION Spec
SYMMETRY Symmetric
CONSTANTS
  User = {a, b}
  Call = {c1}
  Slot = {t1, t2}
  MayCall <- OneWay
  MayDrop = {b}
  MayLag = {b}
  MaxRequests = 2
  MaxInterruptions = 1
  None = None
  a = a
  b = b
  c1 = c1
  t1 = t1
  t2 = t2
INVARIANTS IInv  MediaNeedsBothParties ActiveWasAnswered
PROPERTIES LeftStaysLeft
CHECK_DEADLOCK FALSE

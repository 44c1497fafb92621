SPECIFICATION Spec
CONSTANTS
  Event = {e1, e2}
  Person = {p, k}
  Kin = {k}
  Slot = {t1}
  MaxFailures = 2
  None = None
  e1 = e1
  e2 = e2
  p = p
  k = k
  t1 = t1
  t2 = t2
INVARIANTS IInv EscalatedMeansEveryoneTold CancelledIsSilent
PROPERTIES EveryAlarmIsSettled
CHECK_DEADLOCK FALSE

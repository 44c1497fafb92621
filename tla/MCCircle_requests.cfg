SPECIFICATION Spec
SYMMETRY Symmetric
CONSTANTS
  User = {a, b}
  Request = {q1, q2}
  Slot = {t1, t2}
  MaxKeys = 2
  MayAddDevice = {a, b}
  MaxOverlap = 1
  None = None
  a = a
  b = b
  q1 = q1
  q2 = q2
  t1 = t1
  t2 = t2
INVARIANTS IInv OnePendingPerPair NeverHalfAccepted BlockSevers TrustIsRenewed
PROPERTIES AnswerIsFinal

SPECIFICATION MCSpec
CONSTANTS
  Slot = {s1, s2}
  Job = {auto}
  Row = {p1, p2, p3}
  User = {u1}
  None = None
  Host = Host
  Guest = Guest
  Cap = 2
  Minutes = 3
  KycAttempts = 2
  ForcedStates = {"active", "suspended", "manual_review"}
  LoginLimit = 2
  LoginWindow = 1
  FaceValid = 1
  Horizon = 3
  MaxRequests <- Bounds
CHECK_DEADLOCK FALSE
INVARIANTS
  TypedBackendInv
  NothingUnearned
  OneOfEach
  RecordsAreTrue
  SentIsReadable
  SomeoneInCharge
PROPERTIES
  OverIsOver
  WaitingGetsIn
  NoActiveDeleted

SPECIFICATION Spec
CONSTANTS
  User = {u1}
  DeviceName = {phone}
  Device = {d1, d2}
  Session = {s1, s2, s3}
  Request = {r1}
  MayExpire = {s1, s2}
  None = None
  u1 = u1
  d1 = d1
  d2 = d2
  s1 = s1
  s2 = s2
  s3 = s3
  r1 = r1
  r2 = r2
  phone = phone
INVARIANTS SerialInv OneLivePerFamily
PROPERTIES RevocationEndsLogins RecoveryLeavesOneDevice ImplementsTokenFamilies

SPECIFICATION PhoneSpec
CONSTANTS
  User = {u1}
  DeviceName = {phone1}
  Device = {d1}
  Session = {s1, s2, s3}
  Request = {r1, r2}
  MayExpire = {s1}
  None = None
  User0 = u1
  Name0 = phone1
  MaxAttempts = 2
  u1 = u1
  d1 = d1
  d2 = d2
  s1 = s1
  s2 = s2
  s3 = s3
  r1 = r1
  r2 = r2
  phone1 = phone1
INVARIANTS PhoneTypeOK IInv LiveSessionIsLeaf
PROPERTIES CallsEnd RevokedStaysRevoked

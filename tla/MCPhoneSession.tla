--------------------------- MODULE MCPhoneSession ---------------------------
(* One phone that may overlap its own attempts.                            *)
EXTENDS PhoneSession, SessionsInvariant, TLC

CONSTANTS u1, d1, d2, s1, s2, s3, r1, r2, phone1

Symmetric ==
  Permutations(Device) \cup Permutations(Session) \cup Permutations(Request)
=============================================================================

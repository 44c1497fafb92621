----------------------------- MODULE MCSessions -----------------------------
(* Sessions on small instances.  Sessions, devices and users are            *)
(* interchangeable, so the runs of invariants are checked up to renaming.   *)
EXTENDS SessionsInvariant, TLC

CONSTANTS u1, d1, d2, s1, s2, s3, r1, r2, phone

Symmetric ==
  Permutations(Device) \cup Permutations(Session) \cup Permutations(Request)
=============================================================================

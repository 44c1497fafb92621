----------------------------- MODULE MCMessages -----------------------------
(* Two users, one of whom creates the group; the draft c1 may be sent      *)
(* twice.                                                                  *)
EXTENDS MessagesInvariant

CONSTANTS a, b, c1, c2, m1, m2, d1, t1, t2
=============================================================================

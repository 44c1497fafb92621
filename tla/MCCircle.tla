------------------------------ MODULE MCCircle ------------------------------
(* Circle for two users, who are interchangeable, as are requests and slots.*)
EXTENDS CircleInvariant, TLC

CONSTANTS a, b, q1, q2, t1, t2

Symmetric == Permutations(User) \cup Permutations(Request) \cup Permutations(Slot)
=============================================================================

------------------------------- MODULE MCCalls ------------------------------
(* Calls for one call between two users.                                   *)
EXTENDS CallsInvariant, TLC

CONSTANTS a, b, c1, t1, t2

OneWay == {<<a, b>>}
Symmetric == Permutations(Slot)
=============================================================================

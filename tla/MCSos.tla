------------------------------- MODULE MCSos --------------------------------
(* Sos for a trusted contact and a next of kin, who are told differently.  *)
EXTENDS SosInvariant, TLC

CONSTANTS e1, e2, p, k, t1, t2

Symmetric == Permutations(Event) \cup Permutations(Slot)
=============================================================================

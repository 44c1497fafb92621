------------------------ MODULE SessionsRefinement -------------------------
(* Requests handled one at a time keep the promise of TokenFamilies.       *)
EXTENDS Sessions

LiveIn(f) == {s \in Session : Live(s) /\ sessions[s].family = f}

Current == [f \in Session |-> IF LiveIn(f) = {} THEN None
                              ELSE CHOOSE s \in LiveIn(f) : TRUE]
Spent == {s \in Session : Revoked(s)}

Families == INSTANCE TokenFamilies WITH Token <- Session, current <- Current,
                                        spent <- Spent

(* Every request's writes are a step of the abstract rotation protocol or  *)
(* leave its tokens alone.                                                 *)
ImplementsTokenFamilies == Families!Spec
=============================================================================

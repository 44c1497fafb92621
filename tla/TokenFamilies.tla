--------------------------- MODULE TokenFamilies ---------------------------
(***************************************************************************)
(* What refresh-token rotation promises (docs/adr/0004): a login is a      *)
(* family of tokens of which one at most is accepted; refreshing replaces  *)
(* it by a token never used before; ending a login spends its token; and a *)
(* spent token is never accepted again.                                    *)
(***************************************************************************)
CONSTANTS Token, None

VARIABLES
  current,  \* the token each login accepts, a login being named by its first token
  spent     \* tokens that were accepted once and no longer are

fvars == <<current, spent>>

Held == {current[f] : f \in Token} \ {None}

Init ==
  /\ current = [f \in Token |-> None]
  /\ spent = {}

(* End the logins in ended and, if started is a token, start one with it.  *)
EndAndStart(ended, started) ==
  /\ started \notin Held \cup spent
  /\ current' = [f \in Token |-> IF f = started THEN f
                                 ELSE IF f \in ended THEN None ELSE current[f]]
  /\ spent' = spent \cup ({current[f] : f \in ended} \ {None})

Rotate(f, t) ==
  /\ current[f] # None
  /\ t \in Token \ (Held \cup spent)
  /\ current' = [current EXCEPT ![f] = t]
  /\ spent' = spent \cup {current[f]}

Next ==
  \/ \E ended \in SUBSET Token, started \in Token \cup {None} : EndAndStart(ended, started)
  \/ \E f, t \in Token : Rotate(f, t)

Spec == Init /\ [][Next]_fvars
=============================================================================

---------------------------- MODULE SosInvariant ----------------------------
(* The invariant from which the properties of Sos are proved: what an open *)
(* escalation has done so far, and what a commit may rely on when nothing  *)
(* else ran since its transaction read the table.                          *)
EXTENDS Sos

(* Once the button was pressed, what the phone asks for is about an event. *)
AskedForMine ==
  \/ mine \in Event
  \/ /\ shown = "idle" /\ asked = "nothing"
     /\ \A t \in Slot : tx[t].kind # "request"

Everyone(e) == \A p \in Person : alerts[e][p] > 0
Nobody(e) == \A p \in Person : alerts[e][p] = 0

(* An escalation has alerted everyone for the events it is done with, and  *)
(* for the event it is at everyone but those who are left.                 *)
ToldSoFar ==
  \A t \in Slot : Escalating(t) =>
    /\ \A e \in tx[t].done : Everyone(e)
    /\ tx[t].at = None => tx[t].left = {}
    /\ tx[t].at # None => \A p \in Person \ tx[t].left : alerts[tx[t].at][p] > 0

(* From here on, nothing else runs beside a transaction.                   *)
OneAtATime == \A s, t \in Slot : s = t

(* Nobody is alerted within the cancel window.                             *)
WindowIsSilent == \A e \in Event \ past : Nobody(e)

(* An attempt reaches the service at most once, so an event is armed once. *)
ArmedOnce ==
  /\ \A e \in requests : status[e] = "absent"
  /\ \A t \in Slot : tx[t].kind = "arm" =>
       status[tx[t].event] = "absent" /\ tx[t].event \notin requests

(* What an open transaction read still holds when it commits.              *)
ReadStillHolds ==
  \A t \in Slot :
    /\ tx[t].kind = "cancel" =>
         status[tx[t].event] = "armed" /\ Nobody(tx[t].event)
    /\ Escalating(t) => \A e \in Event :
         e \in tx[t].todo \cup tx[t].done \/ e = tx[t].at =>
           status[e] = "armed" /\ e \in past

(* The inductive invariant of the proofs.                                  *)
IInv ==
  /\ TypeOK
  /\ AskedForMine
  /\ ToldSoFar
  /\ EscalatedMeansEveryoneTold
  /\ OneAtATime => /\ WindowIsSilent /\ ArmedOnce /\ ReadStillHolds
                   /\ CancelledIsSilent
=============================================================================

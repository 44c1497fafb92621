----------------------------- MODULE SosProofs ------------------------------
(***************************************************************************)
(* Any number of alarms, people and transactions: what an escalated alarm  *)
(* promises. One transaction at a time: whom a cancelled alarm has reached *)
(* and how often anybody is alerted.                                       *)
(***************************************************************************)
EXTENDS SosInvariant, TLAPS

-----------------------------------------------------------------------------
(* The kinds of transactions are told apart by their records.              *)

LEMMA TransactionType ==
  ASSUME TypeOK, NEW t \in Slot
  PROVE  /\ tx[t].kind \in {"idle", "arm", "cancel", "request", "sweep"}
         /\ tx[t].kind = "idle" => tx[t] = Idle
         /\ tx[t].kind \in {"arm", "cancel"} =>
              tx[t] \in [kind : {"arm", "cancel"}, event : Event]
         /\ Escalating(t) => tx[t] \in Escalation
<1>1. tx[t] \in Transaction
  BY DEF TypeOK
<1>2. CASE tx[t] = Idle
  BY <1>2 DEF Idle, Escalating
<1>3. CASE tx[t] \in [kind : {"arm", "cancel"}, event : Event]
  BY <1>3 DEF Escalating
<1>4. CASE tx[t] \in Escalation
  BY <1>4 DEF Escalation
<1> QED BY <1>1, <1>2, <1>3, <1>4 DEF Transaction

LEMMA EscalateType ==
  ASSUME NEW kind \in {"request", "sweep"}, NEW events \in SUBSET Event
  PROVE  Escalate(kind, events) \in Escalation
BY DEF Escalate, Escalation

LEMMA ToldType ==
  ASSUME TypeOK, NEW t \in Slot, Escalating(t), NEW p \in tx[t].left, tx[t].at # None
  PROVE  /\ Told(t, p) \in Escalation
         /\ Told(t, p).kind = tx[t].kind
         /\ Told(t, p).todo = tx[t].todo
         /\ Told(t, p).left = tx[t].left \ {p}
         /\ Told(t, p).left = {} => /\ Told(t, p).at = None
                                    /\ Told(t, p).done = tx[t].done \cup {tx[t].at}
         /\ Told(t, p).left # {} => /\ Told(t, p).at = tx[t].at
                                    /\ Told(t, p).done = tx[t].done
<1>1. tx[t] \in Escalation
  BY TransactionType
<1> QED BY <1>1 DEF Told, Escalation

-----------------------------------------------------------------------------
(* The steps of the screen and of the network leave what the service does  *)
(* alone.                                                                  *)
Elsewhere == UNCHANGED <<status, log, past, alerts, tx, failures>>

LEMMA ScreenSteps ==
  ASSUME \/ \E e \in Event : Press(e) \/ Retry(e) \/ LoseRequest(e)
         \/ LeaveScreen \/ Withdraw \/ Triggered \/ PressCancel \/ TimerFires
         \/ AskFails \/ RefuseCancel \/ EscalateNothing \/ UNCHANGED vars
  PROVE  Elsewhere
BY DEF Press, Retry, LoseRequest, LeaveScreen, Withdraw, Triggered, PressCancel, TimerFires,
       AskFails, RefuseCancel, EscalateNothing, Elsewhere, vars, table

(* Every step is one of the screen, the clock, or one transaction.         *)
LEMMA StepCases ==
  ASSUME [Next]_vars
  PROVE  \/ Elsewhere
         \/ \E e \in Event : WindowElapses(e)
         \/ Crash
         \/ \E t \in Slot :
              \/ Cancel(t) \/ EscalateRequest(t) \/ Sweep(t)
              \/ CommitTrigger(t) \/ CommitCancel(t) \/ CommitEscalation(t)
              \/ \E e \in Event : Trigger(t, e) \/ Flush(t, e)
              \/ \E p \in Person : Alert(t, p) \/ DeliveryFails(t, p)
BY ScreenSteps DEF Next, Service

-----------------------------------------------------------------------------
LEMMA StepKeepsType ==
  ASSUME TypeOK, AskedForMine, ToldSoFar, [Next]_vars
  PROVE  TypeOK'
<1> USE DEF table, screen, wire
<1>1. ASSUME NEW e \in Event, Press(e) \/ Retry(e) \/ LoseRequest(e) \/ WindowElapses(e)
      PROVE  TypeOK'
  BY <1>1 DEF Press, Retry, LoseRequest, WindowElapses, Attempt, TypeOK
<1>2. CASE LeaveScreen \/ Withdraw \/ Triggered \/ PressCancel \/ TimerFires
  BY <1>2 DEF LeaveScreen, Withdraw, Triggered, PressCancel, TimerFires, TypeOK
<1>3. CASE AskFails \/ RefuseCancel
  BY <1>3 DEF AskFails, RefuseCancel, TypeOK
<1>4. CASE EscalateNothing
  <2>1. mine \in Event
    BY <1>4 DEF EscalateNothing, AskedForMine
  <2>2. shown' \in {"idle", "sending", "armed", "cancelled", "escalated", "withdrawn"}
    BY <1>4, <2>1 DEF EscalateNothing, TypeOK, Status
  <2> QED BY <1>4, <2>2 DEF EscalateNothing, TypeOK
<1>5. CASE Crash
  <2>1. failures' \in 0..MaxFailures
    BY <1>5, SosAssumption DEF Crash, Fail, TypeOK
  <2> QED BY <1>5, <2>1 DEF Crash, TypeOK, Transaction
<1>6. ASSUME NEW t \in Slot, NEW e \in Event, Trigger(t, e) PROVE TypeOK'
  BY <1>6 DEF Trigger, Begin, TypeOK, Transaction
<1>7. ASSUME NEW t \in Slot, Cancel(t) PROVE TypeOK'
  <2>1. mine \in Event
    BY <1>7 DEF Cancel, AskedForMine
  <2> QED BY <1>7, <2>1 DEF Cancel, Begin, TypeOK, Transaction
<1>8. ASSUME NEW t \in Slot, EscalateRequest(t) PROVE TypeOK'
  <2>1. mine \in Event
    BY <1>8 DEF EscalateRequest, AskedForMine
  <2>2. Escalate("request", {mine}) \in Escalation
    BY <2>1, EscalateType
  <2> QED BY <1>8, <2>2 DEF EscalateRequest, Begin, TypeOK, Transaction
<1>9. ASSUME NEW t \in Slot, Sweep(t) PROVE TypeOK'
  <2>1. Escalate("sweep", Due) \in Escalation
    BY EscalateType DEF Due, TypeOK
  <2> QED BY <1>9, <2>1 DEF Sweep, Begin, TypeOK, Transaction
<1>10. ASSUME NEW t \in Slot, CommitTrigger(t) \/ CommitCancel(t) PROVE TypeOK'
  <2>1. tx[t].event \in Event
    BY <1>10, TransactionType DEF CommitTrigger, CommitCancel
  <2> QED BY <1>10, <2>1 DEF CommitTrigger, CommitCancel, End, TypeOK, Transaction, Status
<1>11. ASSUME NEW t \in Slot, CommitEscalation(t) PROVE TypeOK'
  BY <1>11 DEF CommitEscalation, End, TypeOK, Transaction, Status
<1>12. ASSUME NEW t \in Slot, NEW e \in Event, Flush(t, e) PROVE TypeOK'
  <2>1. tx[t] \in Escalation
    BY <1>12, TransactionType DEF Flush
  <2>2. Started(t, e) \in Escalation
    BY <2>1 DEF Started, Escalation
  <2> QED BY <1>12, <2>2 DEF Flush, TypeOK, Transaction
<1>13. ASSUME NEW t \in Slot, NEW p \in Person, Alert(t, p) PROVE TypeOK'
  <2>1. tx[t].at # None
    BY <1>13 DEF Alert, ToldSoFar
  <2>2. tx[t].at \in Event /\ Told(t, p) \in Escalation
    BY <1>13, <2>1, ToldType, TransactionType DEF Alert, Escalation
  <2>3. tx' \in [Slot -> Transaction]
    BY <1>13, <2>2 DEF Alert, TypeOK, Transaction
  <2>4. alerts' \in [Event -> [Person -> 0..2]]
    BY <1>13, <2>2 DEF Alert, TypeOK
  <2> QED BY <1>13, <2>3, <2>4 DEF Alert, TypeOK
<1>14. ASSUME NEW t \in Slot, NEW p \in Person, DeliveryFails(t, p) PROVE TypeOK'
  <2>1. failures' \in 0..MaxFailures
    BY <1>14, SosAssumption DEF DeliveryFails, Fail, TypeOK
  <2> QED BY <1>14, <2>1 DEF DeliveryFails, End, TypeOK, Transaction
<1>15. CASE UNCHANGED vars
  BY <1>15 DEF vars, TypeOK
<1> QED BY <1>1, <1>2, <1>3, <1>4, <1>5, <1>6, <1>7, <1>8, <1>9, <1>10, <1>11, <1>12,
           <1>13, <1>14, <1>15 DEF Next, Service

(* The request for an escalation is about the event of the screen.         *)
LEMMA StaysAsked ==
  ASSUME TypeOK, AskedForMine, ToldSoFar, [Next]_vars
  PROVE  AskedForMine'
<1> USE DEF AskedForMine, table, screen, wire
<1>1. CASE mine \in Event
  BY <1>1 DEF Next, Service, vars, Press, Retry, Attempt, LoseRequest, WindowElapses, LeaveScreen,
       Withdraw, Triggered, PressCancel, TimerFires, AskFails, RefuseCancel, EscalateNothing,
       Crash, Cancel, EscalateRequest, Sweep, CommitTrigger, CommitCancel, CommitEscalation,
       Trigger, Flush, Alert, DeliveryFails
<1>2. CASE mine \notin Event
  <2>1. shown = "idle" /\ asked = "nothing" /\ \A t \in Slot : tx[t].kind # "request"
    BY <1>2
  <2>2. \/ \E e \in Event : Press(e)
        \/ UNCHANGED <<shown, asked, tx>>
        \/ \E e \in Event : LoseRequest(e) \/ WindowElapses(e)
        \/ Crash
        \/ \E t \in Slot :
             \/ Sweep(t) \/ CommitTrigger(t) \/ CommitCancel(t) \/ CommitEscalation(t)
             \/ \E e \in Event : Trigger(t, e) \/ Flush(t, e)
             \/ \E p \in Person : Alert(t, p) \/ DeliveryFails(t, p)
    BY <2>1 DEF Next, Service, vars, Retry, LeaveScreen, Withdraw, Triggered, PressCancel,
       TimerFires, AskFails, RefuseCancel, EscalateNothing, Cancel, EscalateRequest
  <2>3. ASSUME NEW t \in Slot,
               \/ Sweep(t) \/ CommitTrigger(t) \/ CommitCancel(t) \/ CommitEscalation(t)
               \/ \E e \in Event : Trigger(t, e)
               \/ \E p \in Person : DeliveryFails(t, p)
        PROVE  AskedForMine'
    BY <2>1, <2>3, SMTT(40) DEF Sweep, CommitTrigger, CommitCancel, CommitEscalation, Trigger,
       DeliveryFails, Begin, End, Idle, Escalate, TypeOK
  <2>4. ASSUME NEW t \in Slot, NEW e \in Event, Flush(t, e) PROVE AskedForMine'
    <3>1. Started(t, e).kind = tx[t].kind
      BY <2>4, TransactionType DEF Flush, Started, Escalation
    <3> QED BY <2>1, <2>4, <3>1 DEF Flush, TypeOK
  <2>5. ASSUME NEW t \in Slot, NEW p \in Person, Alert(t, p) PROVE AskedForMine'
    <3>1. Told(t, p).kind = tx[t].kind
      BY <2>5, ToldType DEF Alert, ToldSoFar
    <3> QED BY <2>1, <2>5, <3>1 DEF Alert, TypeOK
  <2>6. CASE Crash
    BY <2>1, <2>6 DEF Crash, Idle
  <2>7. CASE \E e \in Event : Press(e)
    BY <2>7 DEF Press, Attempt
  <2>8. CASE \E e \in Event : LoseRequest(e) \/ WindowElapses(e)
    BY <2>1, <2>8 DEF LoseRequest, WindowElapses
  <2> QED BY <2>1, <2>2, <2>3, <2>4, <2>5, <2>6, <2>7, <2>8
<1> QED BY <1>1, <1>2

-----------------------------------------------------------------------------
(* Alerts cannot be taken back, and an escalation marks an event only when *)
(* it has gone through everyone.                                           *)

LEMMA AlertShape ==
  ASSUME TypeOK, ToldSoFar, NEW t \in Slot, NEW p \in Person, Alert(t, p)
  PROVE  /\ Escalating(t) /\ p \in tx[t].left /\ tx[t].at \in Event /\ tx[t].at # None
         /\ tx'[t] = Told(t, p)
         /\ \A s \in Slot \ {t} : tx'[s] = tx[s]
         /\ \A e \in Event, q \in Person :
              /\ alerts'[e][q] >= alerts[e][q]
              /\ alerts[e][q] \in 0..2 /\ alerts'[e][q] \in 0..2
              /\ e # tx[t].at \/ q # p => alerts'[e][q] = alerts[e][q]
         /\ alerts'[tx[t].at][p] > 0
         /\ alerts[tx[t].at][p] = 0 => alerts'[tx[t].at][p] = 1
<1>1. Escalating(t) /\ p \in tx[t].left /\ tx[t].at # None
  BY DEF Alert, ToldSoFar
<1>2. tx[t].at \in Event
  BY <1>1, TransactionType DEF Escalation
<1> QED BY <1>1, <1>2 DEF Alert, TypeOK

LEMMA AlertsGrow ==
  ASSUME TypeOK, ToldSoFar, [Next]_vars
  PROVE  \A e \in Event, q \in Person : alerts[e][q] > 0 => alerts'[e][q] > 0
<1>1. ASSUME NEW t \in Slot, NEW p \in Person, Alert(t, p)
      PROVE  \A e \in Event, q \in Person : alerts[e][q] > 0 => alerts'[e][q] > 0
  BY <1>1, AlertShape
<1>2. UNCHANGED alerts \/ \E t \in Slot, p \in Person : Alert(t, p)
  BY StepCases DEF Elsewhere, WindowElapses, Crash, Cancel, EscalateRequest, Sweep, CommitTrigger,
     CommitCancel, CommitEscalation, Trigger, Flush, DeliveryFails
<1> QED BY <1>1, <1>2

(* An escalation that is open after a step was so before it, or begins     *)
(* with it, or is the one that takes the step.                             *)
LEMMA EscalationSteps ==
  ASSUME TypeOK, AskedForMine, ToldSoFar, [Next]_vars, NEW t \in Slot, Escalating(t)'
  PROVE  \/ tx'[t] = tx[t]
         \/ \E kind \in {"request", "sweep"}, events \in SUBSET Event :
              tx'[t] = Escalate(kind, events)
         \/ \E e \in Event : Flush(t, e)
         \/ \E p \in Person : Alert(t, p)
<1> USE DEF TypeOK
<1>1. CASE \E s \in Slot : Cancel(s) \/ CommitTrigger(s) \/ CommitCancel(s) \/ CommitEscalation(s)
  BY <1>1 DEF Cancel, CommitTrigger, CommitCancel, CommitEscalation, Begin, End, Escalating, Idle
<1>2. CASE \E s \in Slot, e \in Event : Trigger(s, e)
  BY <1>2 DEF Trigger, Begin, Escalating
<1>3. CASE \E s \in Slot, p \in Person : DeliveryFails(s, p)
  BY <1>3 DEF DeliveryFails, End, Escalating, Idle
<1>4. CASE \E s \in Slot : Sweep(s)
  BY <1>4 DEF Sweep, Begin, Due
<1>5. CASE \E s \in Slot : EscalateRequest(s)
  <2>1. mine \in Event
    BY <1>5 DEF EscalateRequest, AskedForMine
  <2> QED BY <1>5, <2>1 DEF EscalateRequest, Begin
<1>6. CASE Crash
  BY <1>6 DEF Crash, Escalating, Idle
<1>7. CASE Elsewhere \/ \E e \in Event : WindowElapses(e)
  BY <1>7 DEF Elsewhere, WindowElapses
<1>8. CASE \E s \in Slot : \/ \E e \in Event : Flush(s, e)
                           \/ \E p \in Person : Alert(s, p)
  BY <1>8, ZenonT(40) DEF Flush, Alert
<1> QED BY <1>1, <1>2, <1>3, <1>4, <1>5, <1>6, <1>7, <1>8, StepCases

LEMMA StaysToldSoFar ==
  ASSUME TypeOK, AskedForMine, ToldSoFar, [Next]_vars
  PROVE  ToldSoFar'
<1> SUFFICES ASSUME NEW t \in Slot, Escalating(t)'
             PROVE  /\ \A e \in tx'[t].done : Everyone(e)'
                    /\ tx'[t].at = None => tx'[t].left = {}
                    /\ tx'[t].at # None =>
                         \A p \in Person \ tx'[t].left : alerts'[tx'[t].at][p] > 0
  BY DEF ToldSoFar
<1> USE DEF Everyone
<1>1. ASSUME Escalating(t)
      PROVE  /\ \A e \in tx[t].done : e \in Event /\ Everyone(e)'
             /\ tx[t].at # None => /\ tx[t].at \in Event
                                   /\ \A p \in Person \ tx[t].left : alerts'[tx[t].at][p] > 0
  <2>1. tx[t].done \subseteq Event /\ tx[t].at \in Event \cup {None}
    BY <1>1, TransactionType DEF Escalation
  <2> QED BY <1>1, <2>1, AlertsGrow DEF ToldSoFar
<1>2. CASE tx'[t] = tx[t]
  BY <1>1, <1>2 DEF ToldSoFar, Escalating
<1>3. \A kind, events : tx'[t] = Escalate(kind, events) =>
        tx'[t].done = {} /\ tx'[t].at = None /\ tx'[t].left = {}
  BY DEF Escalate
<1>4. ASSUME NEW e \in Event, Flush(t, e)
      PROVE  /\ \A d \in tx'[t].done : Everyone(d)'
             /\ tx'[t].at # None /\ tx'[t].left = Person
  <2>1. tx[t] \in Escalation /\ Escalating(t)
    BY <1>4, TransactionType DEF Flush
  <2>2. tx'[t].done = tx[t].done /\ tx'[t].at = e /\ tx'[t].left = Person
    BY <1>4, <2>1 DEF Flush, Started, Escalation, TypeOK
  <2> QED BY <1>1, <2>1, <2>2, SosAssumption
<1>5. ASSUME NEW p \in Person, Alert(t, p)
      PROVE  /\ \A e \in tx'[t].done : Everyone(e)'
             /\ tx'[t].at = None => tx'[t].left = {}
             /\ tx'[t].at # None =>
                  \A q \in Person \ tx'[t].left : alerts'[tx'[t].at][q] > 0
  <2>1. \A q \in Person \ (tx[t].left \ {p}) : alerts'[tx[t].at][q] > 0
    BY <1>1, <1>5, AlertShape
  <2>2. /\ tx'[t] = Told(t, p)
        /\ tx[t].at # None /\ p \in tx[t].left /\ Escalating(t)
    BY <1>5, AlertShape
  <2> QED BY <1>1, <2>1, <2>2, ToldType
<1> QED BY <1>2, <1>3, <1>4, <1>5, EscalationSteps

LEMMA StaysEscalated ==
  ASSUME TypeOK, ToldSoFar, EscalatedMeansEveryoneTold, [Next]_vars
  PROVE  EscalatedMeansEveryoneTold'
<1> SUFFICES ASSUME NEW e \in Event, status'[e] = "escalated", NEW p \in Person
             PROVE  alerts'[e][p] > 0
  BY DEF EscalatedMeansEveryoneTold
<1>1. CASE status[e] = "escalated"
  BY <1>1, AlertsGrow DEF EscalatedMeansEveryoneTold
<1>2. CASE \E t \in Slot : CommitEscalation(t) /\ e \in tx[t].done
  BY <1>2 DEF CommitEscalation, ToldSoFar, Everyone
<1>3. status[e] = "escalated" \/ \E t \in Slot : CommitEscalation(t) /\ e \in tx[t].done
  <2>1. ASSUME NEW t \in Slot, CommitTrigger(t) \/ CommitCancel(t)
        PROVE  status[e] = "escalated"
    BY <2>1, TransactionType DEF CommitTrigger, CommitCancel, TypeOK
  <2> QED BY <2>1, StepCases DEF Elsewhere, WindowElapses, Crash, Cancel, EscalateRequest, Sweep,
         CommitEscalation, Trigger, Flush, Alert, DeliveryFails, table
<1> QED BY <1>1, <1>2, <1>3

-----------------------------------------------------------------------------
(* One transaction at a time: nothing happens to the event a transaction   *)
(* has read until that transaction ends.                                   *)

Serial == OneAtATime /\ WindowIsSilent /\ ArmedOnce /\ ReadStillHolds

LEMMA WindowStaysSilent ==
  ASSUME TypeOK, ToldSoFar, Serial, [Next]_vars
  PROVE  WindowIsSilent'
<1> SUFFICES ASSUME NEW e \in Event, e \notin past', NEW p \in Person
             PROVE  alerts'[e][p] = 0
  BY DEF WindowIsSilent, Nobody
<1>1. e \notin past
  BY StepCases DEF Elsewhere, WindowElapses, Crash, Cancel, EscalateRequest, Sweep, CommitTrigger,
     CommitCancel, CommitEscalation, Trigger, Flush, Alert, DeliveryFails
<1>2. ASSUME NEW t \in Slot, NEW q \in Person, Alert(t, q)
      PROVE  e # tx[t].at
  BY <1>1, <1>2, AlertShape DEF Serial, ReadStillHolds
<1>3. ASSUME NEW t \in Slot, NEW q \in Person, Alert(t, q)
      PROVE  alerts'[e][p] = alerts[e][p]
  BY <1>2, <1>3, AlertShape
<1>4. UNCHANGED alerts \/ \E t \in Slot, q \in Person : Alert(t, q)
  BY StepCases DEF Elsewhere, WindowElapses, Crash, Cancel, EscalateRequest, Sweep, CommitTrigger,
     CommitCancel, CommitEscalation, Trigger, Flush, DeliveryFails
<1> QED BY <1>1, <1>3, <1>4 DEF Serial, WindowIsSilent, Nobody

LEMMA StaysArmedOnce ==
  ASSUME TypeOK, AskedForMine, ToldSoFar, Serial, [Next]_vars
  PROVE  ArmedOnce'
<1> USE DEF TypeOK, Serial, ArmedOnce, OneAtATime, table, screen, wire
<1>1. ASSUME NEW e \in Event, Press(e) \/ Retry(e)
      PROVE  ArmedOnce'
  BY <1>1 DEF Press, Retry, Attempt, Used
<1>2. CASE \/ LeaveScreen \/ Withdraw \/ Triggered \/ PressCancel \/ TimerFires
           \/ AskFails \/ RefuseCancel \/ EscalateNothing \/ UNCHANGED vars
  BY <1>2 DEF LeaveScreen, Withdraw, Triggered, PressCancel, TimerFires,
              AskFails, RefuseCancel, EscalateNothing, vars
<1>3. CASE \E e \in Event : LoseRequest(e) \/ WindowElapses(e)
  BY <1>3 DEF LoseRequest, WindowElapses
<1>4. CASE Crash
  BY <1>4 DEF Crash, Idle
<1>5. ASSUME NEW t \in Slot, Cancel(t) \/ EscalateRequest(t) \/ Sweep(t) PROVE ArmedOnce'
  BY <1>5 DEF Cancel, EscalateRequest, Sweep, Begin, Escalate
<1>6. ASSUME NEW t \in Slot, CommitTrigger(t) PROVE ArmedOnce'
  <2>1. tx[t].event \in Event
    BY <1>6, TransactionType DEF CommitTrigger
  <2> QED BY <1>6, <2>1 DEF CommitTrigger, End, Idle
<1>7. ASSUME NEW t \in Slot, CommitCancel(t) PROVE ArmedOnce'
  <2>1. tx[t].event \in Event /\ status[tx[t].event] = "armed"
    BY <1>7, TransactionType DEF CommitCancel, ReadStillHolds
  <2> QED BY <1>7, <2>1 DEF CommitCancel, End, Idle
<1>8. ASSUME NEW t \in Slot, CommitEscalation(t) PROVE ArmedOnce'
  <2>1. \A e \in Event : e \in tx[t].done => status[e] = "armed"
    BY <1>8 DEF CommitEscalation, ReadStillHolds
  <2> QED BY <1>8, <2>1 DEF CommitEscalation, End, Idle
<1>9. ASSUME NEW t \in Slot, NEW e \in Event, Trigger(t, e) PROVE ArmedOnce'
  BY <1>9 DEF Trigger, Begin
<1>10. ASSUME NEW t \in Slot, NEW e \in Event, Flush(t, e) PROVE ArmedOnce'
  <2>1. Started(t, e).kind = tx[t].kind /\ Escalating(t)
    BY <1>10, TransactionType DEF Flush, Started, Escalation
  <2> QED BY <1>10, <2>1 DEF Flush, Escalating
<1>11. ASSUME NEW t \in Slot, NEW p \in Person, Alert(t, p) PROVE ArmedOnce'
  <2>1. Told(t, p).kind = tx[t].kind /\ Escalating(t)
    BY <1>11, AlertShape, ToldType
  <2> QED BY <1>11, <2>1 DEF Alert, Escalating
<1>12. ASSUME NEW t \in Slot, NEW p \in Person, DeliveryFails(t, p) PROVE ArmedOnce'
  BY <1>12 DEF DeliveryFails, End, Idle
<1> QED BY <1>1, <1>2, <1>3, <1>4, <1>5, <1>6, <1>7, <1>8, <1>9, <1>10, <1>11, <1>12
        DEF Next, Service

LEMMA ReadStaysHeld ==
  ASSUME TypeOK, AskedForMine, ToldSoFar, Serial, [Next]_vars
  PROVE  ReadStillHolds'
<1> USE DEF TypeOK, Serial, ReadStillHolds, OneAtATime, Nobody, Escalating, table
<1>1. CASE Elsewhere
  BY <1>1 DEF Elsewhere
<1>2. CASE \E e \in Event : WindowElapses(e)
  BY <1>2 DEF WindowElapses
<1>3. CASE Crash
  BY <1>3 DEF Crash, Idle
<1>4. ASSUME NEW t \in Slot, Cancel(t) PROVE ReadStillHolds'
  <2>1. mine \in Event
    BY <1>4 DEF Cancel, AskedForMine
  <2> QED BY <1>4, <2>1 DEF Cancel, Begin, WindowIsSilent
<1>5. ASSUME NEW t \in Slot, EscalateRequest(t) \/ Sweep(t) PROVE ReadStillHolds'
  BY <1>5, SosAssumption DEF EscalateRequest, Sweep, Due, Begin, Escalate
<1>6. ASSUME NEW t \in Slot, NEW e \in Event, Trigger(t, e) PROVE ReadStillHolds'
  BY <1>6 DEF Trigger, Begin
<1>7. ASSUME NEW t \in Slot,
             \/ CommitTrigger(t) \/ CommitCancel(t) \/ CommitEscalation(t)
             \/ \E p \in Person : DeliveryFails(t, p)
      PROVE  ReadStillHolds'
  BY <1>7 DEF CommitTrigger, CommitCancel, CommitEscalation, DeliveryFails, End, Idle
<1>8. ASSUME NEW t \in Slot, NEW e \in Event, Flush(t, e) PROVE ReadStillHolds'
  <2>1. /\ Started(t, e).kind = tx[t].kind
        /\ Started(t, e).todo = tx[t].todo \ {e}
        /\ Started(t, e).at = e
        /\ Started(t, e).done = tx[t].done
    BY <1>8, TransactionType DEF Flush, Started, Escalation
  <2> QED BY <1>8, <2>1 DEF Flush
<1>9. ASSUME NEW t \in Slot, NEW p \in Person, Alert(t, p) PROVE ReadStillHolds'
  <2>1. Escalating(t) /\ tx'[t] = Told(t, p) /\ tx[t].at \in Event
    BY <1>9, AlertShape
  <2>2. /\ Told(t, p).kind = tx[t].kind
        /\ Told(t, p).todo = tx[t].todo
        /\ \/ Told(t, p).at = tx[t].at /\ Told(t, p).done = tx[t].done
           \/ Told(t, p).at = None /\ Told(t, p).done = tx[t].done \cup {tx[t].at}
    BY <1>9, AlertShape, ToldType, SMTT(40)
  <2>3. UNCHANGED <<status, past>>
    BY <1>9 DEF Alert
  <2>4. \A e \in Event : e \in tx'[t].todo \cup tx'[t].done \/ e = tx'[t].at =>
          status'[e] = "armed" /\ e \in past'
    BY <2>1, <2>2, <2>3, SosAssumption
  <2> QED BY <2>1, <2>2, <2>4
<1> QED BY <1>1, <1>2, <1>3, <1>4, <1>5, <1>6, <1>7, <1>8, <1>9, StepCases

LEMMA StaysSilent ==
  ASSUME TypeOK, AskedForMine, ToldSoFar, Serial, CancelledIsSilent, [Next]_vars
  PROVE  CancelledIsSilent'
<1> USE DEF TypeOK, CancelledIsSilent, Nobody, table
<1>1. CASE \/ Elsewhere \/ \E e \in Event : WindowElapses(e)
           \/ Crash
           \/ \E t \in Slot : \/ Cancel(t) \/ EscalateRequest(t) \/ Sweep(t)
                              \/ \E e \in Event : Trigger(t, e) \/ Flush(t, e)
                              \/ \E p \in Person : DeliveryFails(t, p)
  <2>1. UNCHANGED <<status, alerts>>
    BY <1>1 DEF Elsewhere, WindowElapses, Crash, Cancel, EscalateRequest, Sweep, Trigger, Flush,
       DeliveryFails
  <2> QED BY <2>1
<1>2. ASSUME NEW t \in Slot, CommitTrigger(t) \/ CommitEscalation(t)
      PROVE  CancelledIsSilent'
  BY <1>2, TransactionType DEF CommitTrigger, CommitEscalation
<1>3. ASSUME NEW t \in Slot, CommitCancel(t)
      PROVE  CancelledIsSilent'
  BY <1>3, TransactionType DEF CommitCancel, Serial, ReadStillHolds
<1>4. ASSUME NEW t \in Slot, NEW p \in Person, Alert(t, p)
      PROVE  CancelledIsSilent'
  <2>1. Escalating(t) /\ tx[t].at \in Event /\ UNCHANGED status
    BY <1>4, AlertShape DEF Alert
  <2>2. status[tx[t].at] = "armed"
    BY <2>1 DEF Serial, ReadStillHolds
  <2>3. \A e \in Event \ {tx[t].at}, q \in Person : alerts'[e][q] = alerts[e][q]
    BY <1>4, AlertShape
  <2> QED BY <2>1, <2>2, <2>3
<1> QED BY <1>1, <1>2, <1>3, <1>4, StepCases

-----------------------------------------------------------------------------
(* The invariant IInv is inductive.                                        *)

LEMMA InitInvariant == Init => IInv
<1> SUFFICES ASSUME Init PROVE IInv
  OBVIOUS
<1>1. TypeOK
  <2>1. failures \in 0..MaxFailures
    BY SosAssumption DEF Init
  <2>2. alerts \in [Event -> [Person -> 0..2]] /\ tx \in [Slot -> Transaction]
    BY DEF Init, Transaction
  <2> QED BY <2>1, <2>2 DEF Init, TypeOK, Status
<1>2. \A t \in Slot : tx[t].kind = "idle" /\ ~Escalating(t)
  BY DEF Init, Idle, Escalating
<1>3. \A e \in Event : status[e] = "absent" /\ Nobody(e)
  BY DEF Init, Nobody
<1>4. AskedForMine /\ ToldSoFar /\ EscalatedMeansEveryoneTold /\ CancelledIsSilent
  BY <1>2, <1>3 DEF Init, AskedForMine, ToldSoFar, EscalatedMeansEveryoneTold, CancelledIsSilent
<1>5. WindowIsSilent /\ ArmedOnce /\ ReadStillHolds
  BY <1>2, <1>3 DEF Init, WindowIsSilent, ArmedOnce, ReadStillHolds, Nobody
<1> QED BY <1>1, <1>4, <1>5 DEF IInv

LEMMA StepKeepsInvariant ==
  ASSUME IInv, [Next]_vars
  PROVE  IInv'
<1>1. TypeOK' /\ AskedForMine' /\ ToldSoFar' /\ EscalatedMeansEveryoneTold'
  BY StepKeepsType, StaysAsked, StaysToldSoFar, StaysEscalated DEF IInv
<1>2. ASSUME OneAtATime
      PROVE  /\ WindowIsSilent' /\ ArmedOnce' /\ ReadStillHolds' /\ CancelledIsSilent'
  <2>1. TypeOK /\ AskedForMine /\ ToldSoFar /\ Serial /\ CancelledIsSilent
    BY <1>2 DEF IInv, Serial
  <2> QED BY <2>1, WindowStaysSilent, StaysArmedOnce, ReadStaysHeld, StaysSilent
<1> QED BY <1>1, <1>2 DEF IInv, OneAtATime

(* What an open escalation has done so far, and what a transaction may     *)
(* rely on when no other is open, in every reachable state.                *)
THEOREM SosInvariantHolds == Spec => []IInv
<1>1. Init => IInv
  BY InitInvariant
<1>2. IInv /\ [Next]_vars => IInv'
  BY StepKeepsInvariant
<1> QED BY <1>1, <1>2, PTL DEF Spec

(* The tables, the transactions and the screen keep their types.           *)
THEOREM SosTypeCorrect == Spec => []TypeOK
<1>1. IInv => TypeOK
  BY DEF IInv
<1> QED BY <1>1, SosInvariantHolds, PTL

(* However many sweeps, requests, failures and restarts there are, an      *)
(* event is marked escalated only when everyone has been alerted.          *)
THEOREM EscalationReachesEveryone == Spec => []EscalatedMeansEveryoneTold
<1>1. IInv => EscalatedMeansEveryoneTold
  BY DEF IInv
<1> QED BY <1>1, SosInvariantHolds, PTL

(* As long as transactions do not overlap, a cancel that is confirmed has  *)
(* reached the table before anybody was alerted.                           *)
THEOREM CancelComesFirst ==
  ASSUME OneAtATime
  PROVE  Spec => []CancelledIsSilent
<1>1. IInv => CancelledIsSilent
  BY DEF IInv
<1> QED BY <1>1, SosInvariantHolds, PTL
=============================================================================

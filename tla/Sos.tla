-------------------------------- MODULE Sos ---------------------------------
(***************************************************************************)
(* One press of the SOS button: the screen and its retrying trigger        *)
(* (apps/mobile/app/sos/index.tsx, lib/sos-queue.ts over lib/api.ts), the  *)
(* service (backend/app/domain/sos/service.py) and the escalation sweep    *)
(* (backend/app/tasks/scheduler.py).                                       *)
(*                                                                         *)
(* Every attempt to trigger is a request of its own and, if it reaches the *)
(* service, an event of its own: an attempt is named by the event it       *)
(* makes. Alerts leave for good when they are sent; the event's status and *)
(* the record of who was told are written when the transaction commits.    *)
(* The status of an event being escalated is flushed before the first      *)
(* alert, so the transaction holds the event's row until it ends, and      *)
(* others write to the row after that.                                     *)
(***************************************************************************)
EXTENDS Naturals, FiniteSets

CONSTANTS
  Event,        \* sos_events.id
  Person,       \* trusted contacts and next of kin
  Kin,          \* those among them who are next of kin
  Slot,         \* requests and sweeps running at the same time
  MaxFailures,  \* bound: failed deliveries and crashes
  None

ASSUME SosAssumption ==
  None \notin Event /\ Kin \subseteq Person /\ Person # {} /\ MaxFailures \in Nat

VARIABLES
  status,    \* sos_events.status, "absent" until committed
  past,      \* events whose cancel window has elapsed
  log,       \* sos_notifications
  alerts,    \* alerts that left, per event and person; 2 stands for more
  tx,        \* the open transactions
  failures,
  requests,  \* trigger requests on their way
  replies,   \* answers on their way, for triggers
  shown,     \* what the screen says
  mine,      \* activeEvent, or the attempt under way
  retrying,  \* ~cancelled in triggerSosWithRetry
  timer,     \* escalateTimerRef
  asked      \* the cancel or escalate request on its way

table == <<status, log>>
screen == <<shown, mine, retrying, timer>>
wire == <<requests, replies, asked>>
vars == <<table, past, alerts, tx, failures, screen, wire>>

Status == {"absent", "armed", "cancelled", "escalated"}

Idle == [kind |-> "idle"]
Escalation == [kind : {"request", "sweep"}, todo : SUBSET Event, at : Event \cup {None},
               left : SUBSET Person, done : SUBSET Event]
Transaction == {Idle} \cup [kind : {"arm", "cancel"}, event : Event] \cup Escalation
Escalating(t) == tx[t].kind \in {"request", "sweep"}

TypeOK ==
  /\ status \in [Event -> Status]
  /\ past \subseteq Event
  /\ log \in [Event -> SUBSET Person]
  /\ alerts \in [Event -> [Person -> 0..2]]
  /\ tx \in [Slot -> Transaction]
  /\ failures \in 0..MaxFailures
  /\ requests \subseteq Event /\ replies \subseteq Event
  /\ shown \in {"idle", "sending", "armed", "cancelled", "escalated", "withdrawn"}
  /\ mine \in Event \cup {None}
  /\ retrying \in BOOLEAN /\ timer \in BOOLEAN
  /\ asked \in {"nothing", "cancel", "escalate"}

Init ==
  /\ status = [e \in Event |-> "absent"]
  /\ past = {}
  /\ log = [e \in Event |-> {}]
  /\ alerts = [e \in Event |-> [p \in Person |-> 0]]
  /\ tx = [t \in Slot |-> Idle]
  /\ failures = 0
  /\ requests = {} /\ replies = {} /\ asked = "nothing"
  /\ shown = "idle" /\ mine = None
  /\ retrying = FALSE /\ timer = FALSE

Used(e) ==
  \/ status[e] # "absent" \/ e \in requests \cup replies \cup past \/ mine = e
  \/ \E t \in Slot : tx[t].kind = "arm" /\ tx[t].event = e

-----------------------------------------------------------------------------
(* The screen.                                                             *)

Attempt(e) ==
  /\ ~Used(e)
  /\ mine' = e
  /\ requests' = requests \cup {e}

Press(e) ==
  /\ shown = "idle"
  /\ Attempt(e)
  /\ shown' = "sending" /\ retrying' = TRUE
  /\ UNCHANGED <<table, past, alerts, tx, failures, timer, replies, asked>>

(* No answer in time, or an error from in front of the service: the next   *)
(* attempt, in request() or in the loop around it. The answer to the last  *)
(* one, if any, is not read any more.                                      *)
Retry(e) ==
  /\ shown = "sending" /\ retrying
  /\ Attempt(e)
  /\ replies' = replies \ {mine}
  /\ UNCHANGED <<table, past, alerts, tx, failures, shown, retrying, timer, asked>>

LeaveScreen ==
  /\ shown = "sending" /\ retrying
  /\ retrying' = FALSE
  /\ UNCHANGED <<table, past, alerts, tx, failures, shown, mine, timer, wire>>

(* An attempt fails after the user left: "SOS cancelled".                  *)
Withdraw ==
  /\ shown = "sending" /\ ~retrying
  /\ shown' = "withdrawn"
  /\ replies' = replies \ {mine}
  /\ UNCHANGED <<table, past, alerts, tx, failures, mine, retrying, timer, requests, asked>>

Triggered ==
  /\ shown = "sending" /\ mine \in replies
  /\ shown' = "armed" /\ timer' = TRUE
  /\ replies' = replies \ {mine}
  /\ UNCHANGED <<table, past, alerts, tx, failures, mine, retrying, requests, asked>>

PressCancel ==
  /\ shown = "armed" /\ asked = "nothing"
  /\ asked' = "cancel" /\ timer' = FALSE
  /\ UNCHANGED <<table, past, alerts, tx, failures, shown, mine, retrying, requests, replies>>

(* The countdown starts when the answer arrives, so it ends after the      *)
(* service's own window does.                                              *)
TimerFires ==
  /\ shown = "armed" /\ timer /\ asked = "nothing"
  /\ mine \in past
  /\ asked' = "escalate" /\ timer' = FALSE
  /\ UNCHANGED <<table, past, alerts, tx, failures, shown, mine, retrying, requests, replies>>

-----------------------------------------------------------------------------
(* The service.                                                            *)

Begin(t, new) == tx[t] = Idle /\ tx' = [tx EXCEPT ![t] = new]
End(t) == tx' = [tx EXCEPT ![t] = Idle]

(* Rows that an escalation of another transaction has flushed.             *)
Held(t) == UNION {tx[s].done \cup {tx[s].at} : s \in {s \in Slot \ {t} : Escalating(s)}}

(* The answer is on its way before the commit.                             *)
Trigger(t, e) ==
  /\ e \in requests
  /\ requests' = requests \ {e}
  /\ replies' = IF mine = e THEN replies \cup {e} ELSE replies
  /\ Begin(t, [kind |-> "arm", event |-> e])
  /\ UNCHANGED <<table, past, alerts, failures, screen, asked>>

CommitTrigger(t) ==
  /\ tx[t].kind = "arm"
  /\ status' = [status EXCEPT ![tx[t].event] = "armed"]
  /\ End(t)
  /\ UNCHANGED <<log, past, alerts, failures, screen, wire>>

(* Faulty variant: the cancel window is not checked.                       *)
CancelAnyTime(t) ==
  /\ asked = "cancel" /\ asked' = "nothing"
  /\ status[mine] = "armed"
  /\ Begin(t, [kind |-> "cancel", event |-> mine])
  /\ shown' \in {"cancelled", shown}
  /\ UNCHANGED <<table, past, alerts, failures, mine, retrying, timer, requests, replies>>

(* The answer to the screen may be lost.                                   *)
Cancel(t) ==
  /\ asked = "cancel" /\ asked' = "nothing"
  /\ status[mine] = "armed" /\ mine \notin past
  /\ Begin(t, [kind |-> "cancel", event |-> mine])
  /\ shown' \in {"cancelled", shown}
  /\ UNCHANGED <<table, past, alerts, failures, mine, retrying, timer, requests, replies>>

(* The cancel or escalate request is lost: an error on the screen.         *)
AskFails ==
  /\ asked # "nothing" /\ asked' = "nothing"
  /\ UNCHANGED <<table, past, alerts, tx, failures, screen, requests, replies>>

(* An error leaves the screen as it is, without its timer.                 *)
RefuseCancel ==
  /\ asked = "cancel" /\ asked' = "nothing"
  /\ status[mine] # "armed" \/ mine \in past
  /\ UNCHANGED <<table, past, alerts, tx, failures, screen, requests, replies>>

(* Faulty variant: a status the table does not know.                       *)
CommitCancelMisspelt(t) ==
  /\ tx[t].kind = "cancel"
  /\ tx[t].event \notin Held(t)
  /\ status' = [status EXCEPT ![tx[t].event] = "canceled"]
  /\ End(t)
  /\ UNCHANGED <<log, past, alerts, failures, screen, wire>>

CommitCancel(t) ==
  /\ tx[t].kind = "cancel"
  /\ tx[t].event \notin Held(t)
  /\ status' = [status EXCEPT ![tx[t].event] = "cancelled"]
  /\ End(t)
  /\ UNCHANGED <<log, past, alerts, failures, screen, wire>>

WindowElapses(e) ==
  /\ e \notin past
  /\ status[e] = "armed" \/ \E t \in Slot : tx[t].kind = "arm" /\ tx[t].event = e
  /\ past' = past \cup {e}
  /\ UNCHANGED <<table, alerts, tx, failures, screen, wire>>

Escalate(kind, events) ==
  [kind |-> kind, todo |-> events, at |-> None, left |-> {}, done |-> {}]

EscalateRequest(t) ==
  /\ asked = "escalate" /\ asked' = "nothing"
  /\ status[mine] = "armed" /\ mine \in past
  /\ Begin(t, Escalate("request", {mine}))
  /\ UNCHANGED <<table, past, alerts, failures, screen, requests, replies>>

(* "No such SOS event" before it is committed; one that is settled is      *)
(* shown as it is.                                                         *)
EscalateNothing ==
  /\ asked = "escalate" /\ asked' = "nothing"
  /\ status[mine] # "armed"
  /\ shown' = IF status[mine] = "absent" THEN shown ELSE status[mine]
  /\ UNCHANGED <<table, past, alerts, tx, failures, mine, retrying, timer, requests, replies>>

(* Faulty variant: events for which somebody was told are not due.         *)
DueUntold == {e \in past : status[e] = "armed" /\ \A p \in Person : alerts[e][p] = 0}

Due == {e \in past : status[e] = "armed"}

(* One sweep at a time, all that is due in one transaction.                *)
Sweep(t) ==
  /\ Due # {}
  /\ \A s \in Slot : tx[s].kind # "sweep"
  /\ Begin(t, Escalate("sweep", Due))
  /\ UNCHANGED <<table, past, alerts, failures, screen, wire>>

Started(t, e) == [tx[t] EXCEPT !.todo = @ \ {e}, !.at = e, !.left = Person]

(* The event's new status is flushed once nobody else holds its row. What  *)
(* status the row has by then is not read again.                           *)
Flush(t, e) ==
  /\ Escalating(t) /\ tx[t].at = None
  /\ e \in tx[t].todo \ Held(t)
  /\ tx' = [tx EXCEPT ![t] = Started(t, e)]
  /\ UNCHANGED <<table, past, alerts, failures, screen, wire>>

Told(t, p) ==
  LET w == tx[t] IN
  IF w.left = {p}
  THEN [w EXCEPT !.left = {}, !.at = None, !.done = @ \cup {w.at}]
  ELSE [w EXCEPT !.left = @ \ {p}]

Alert(t, p) ==
  /\ Escalating(t) /\ p \in tx[t].left
  /\ alerts' = [alerts EXCEPT ![tx[t].at][p] = IF @ = 2 THEN 2 ELSE @ + 1]
  /\ tx' = [tx EXCEPT ![t] = Told(t, p)]
  /\ UNCHANGED <<table, past, failures, screen, wire>>

CommitEscalation(t) ==
  /\ Escalating(t) /\ tx[t].todo = {} /\ tx[t].at = None
  /\ status' = [e \in Event |-> IF e \in tx[t].done THEN "escalated" ELSE status[e]]
  /\ log' = [e \in Event |-> IF e \in tx[t].done THEN log[e] \cup (Person \ Kin) ELSE log[e]]
  /\ shown' \in IF tx[t].kind = "request" THEN {"escalated", shown} ELSE {shown}
  /\ End(t)
  /\ UNCHANGED <<past, alerts, failures, mine, retrying, timer, wire>>

-----------------------------------------------------------------------------
Fail == failures < MaxFailures /\ failures' = failures + 1

(* Faulty variant: a delivery that fails is passed over.                   *)
SkipFailedDelivery(t, p) ==
  /\ Fail
  /\ Escalating(t) /\ p \in tx[t].left
  /\ tx' = [tx EXCEPT ![t] = Told(t, p)]
  /\ UNCHANGED <<table, past, alerts, screen, wire>>

(* The push or SMS provider raises: the transaction, all its events        *)
(* included, is rolled back.                                               *)
DeliveryFails(t, p) ==
  /\ Fail
  /\ Escalating(t) /\ p \in tx[t].left
  /\ End(t)
  /\ UNCHANGED <<table, past, alerts, screen, wire>>

(* The process, and the scheduler in it, starts again.                     *)
Crash ==
  /\ Fail
  /\ \E t \in Slot : tx[t] # Idle
  /\ tx' = [t \in Slot |-> Idle]
  /\ UNCHANGED <<table, past, alerts, screen, wire>>

LoseRequest(e) ==
  /\ e \in requests
  /\ requests' = requests \ {e}
  /\ UNCHANGED <<table, past, alerts, tx, failures, screen, replies, asked>>

Service(t) ==
  \/ CommitTrigger(t) \/ CommitCancel(t) \/ CommitEscalation(t)
  \/ \E e \in Event : Flush(t, e)
  \/ \E p \in Person : Alert(t, p)

Next ==
  \/ \E e \in Event : Press(e) \/ Retry(e) \/ LoseRequest(e) \/ WindowElapses(e)
  \/ LeaveScreen \/ Withdraw \/ Triggered \/ PressCancel \/ TimerFires
  \/ AskFails \/ RefuseCancel \/ EscalateNothing \/ Crash
  \/ \E t \in Slot :
       \/ Cancel(t) \/ EscalateRequest(t) \/ Sweep(t) \/ Service(t)
       \/ \E e \in Event : Trigger(t, e)
       \/ \E p \in Person : DeliveryFails(t, p)

(* The clock runs, the job is started every thirty seconds and the service *)
(* works through what it has begun. Nothing is assumed of the network and  *)
(* of the user.                                                            *)
Fairness ==
  /\ \A e \in Event : WF_vars(WindowElapses(e))
  /\ \A t \in Slot : WF_vars(Service(t)) /\ WF_vars(Sweep(t))

Spec == Init /\ [][Next]_vars /\ Fairness

-----------------------------------------------------------------------------
(* An alarm that reached the table is settled: cancelled, or escalated,    *)
(* whatever fails on the way, the phone's own timer not counted on.        *)
EveryAlarmIsSettled ==
  \A e \in Event : status[e] = "armed" ~> status[e] \in {"cancelled", "escalated"}

(* An event is marked escalated only when everyone has been alerted,       *)
(* deliveries that failed and sweeps that were repeated included.          *)
EscalatedMeansEveryoneTold ==
  \A e \in Event : status[e] = "escalated" => \A p \in Person : alerts[e][p] > 0

(* Nobody is alerted for an event that was cancelled.                      *)
CancelledIsSilent ==
  \A e \in Event : status[e] = "cancelled" => \A p \in Person : alerts[e][p] = 0

(* Escalating again "is a no-op rather than double-notifying everyone"     *)
(* (backend/app/domain/sos/service.py, escalate), the phone's timer and    *)
(* the sweep both asking for it: nobody is alerted twice for an event      *)
(* unless a delivery or the process failed.                                *)
AlertedOnce ==
  failures = 0 => \A e \in Event, p \in Person : alerts[e][p] <= 1
=============================================================================

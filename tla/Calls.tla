------------------------------- MODULE Calls --------------------------------
(***************************************************************************)
(* One-to-one calls: CallService (backend/app/domain/calls/service.py)     *)
(* over the tables calls and call_participants, the phones' call state     *)
(* (apps/mobile/lib/call-context.tsx) and one peer connection per phone    *)
(* and call (apps/mobile/lib/call-session.ts).                             *)
(*                                                                         *)
(* A phone's requests are independent HTTP exchanges, which the service    *)
(* may take in any order. Serving one reads the tables, flushes what it    *)
(* has decided, which waits for a transaction that has flushed the same    *)
(* call, and pushes an event to the other party's socket; the transaction  *)
(* commits after the answer, or fails to, and the event has gone all the   *)
(* same. A phone's socket delivers in order, and an event for a phone      *)
(* without a connection is lost. Ringing has no limit.                     *)
(*                                                                         *)
(* On a phone a change of state shows when it next renders: the buttons    *)
(* act on the call they were rendered for, and an end that arrives is      *)
(* compared with the calls last rendered.                                  *)
(***************************************************************************)
EXTENDS Naturals, Sequences, FiniteSets

CONSTANTS
  User,     \* users, one phone each
  Call,     \* calls.id
  Slot,     \* requests being served at the same time
  MayCall,  \* bound: the pairs (caller, callee) that call each other
  MayDrop,  \* bound: users whose socket may break
  MayLag,   \* bound: users whose phone may act again before it has rendered
  MaxRequests, \* bound: requests on their way at the same time
  MaxInterruptions, \* bound: transactions that fail, sockets that break, calls an admin ends
  None

ASSUME CallsAssumption ==
  /\ None \notin User \cup Call
  /\ MayCall \subseteq User \X User /\ \A p \in MayCall : p[1] # p[2]
  /\ MayDrop \subseteq User
  /\ MaxInterruptions \in Nat /\ MaxRequests \in Nat

VARIABLES
  party,      \* calls: initiator_user_id and the other participant
  status,     \* calls.status, "absent" until the row is committed
  joined,     \* call_participants with a joined_at
  requests,   \* requests the phones have sent and the service not taken
  open,       \* the open transactions
  online,     \* users whose socket is connected
  socket,     \* events on their way to each phone
  missed,     \* users for whom an event was lost
  undone,     \* for the properties only: calls whose row was rolled back
  interruptions,   \* for the bound only: how often one of these happened
  dialled,    \* the call the answer to startCall's POST names
  incoming,   \* incomingCall
  active,     \* activeCall, whose session is sessionRef
  session,    \* CallSession of each user and call
  answering,  \* calls whose Answer was tapped, waiting for token and ICE servers
  shown,      \* incomingCall and activeCall as last rendered, with their refs
  unseen      \* for the properties only: calls whose end came before their render

server == <<party, status, joined, undone, interruptions>>
wire == <<requests, online, missed>>
view == <<answering, shown, unseen>>
phone == <<dialled, incoming, active, session, view>>
vars == <<server, wire, phone, open, socket>>

Status == {"absent", "ringing", "active", "ended", "missed", "declined"}
Over == {"ended", "missed", "declined"}

(* The peer connection: getUserMedia pending; made and subscribed to the   *)
(* socket; an offer sent; both descriptions set; closed.                   *)
SessionState == {"none", "capturing", "made", "offered", "stable", "closed"}
Running == {"made", "offered", "stable"}

Signal == {"offer", "answerSdp"}
Event == [type : {"ringing", "answered", "declined", "over"} \cup Signal, call : Call]
Request ==
  [kind : {"answer", "decline", "end"} \cup Signal, user : User, call : Call]
  \cup [kind : {"initiate"}, user : User, to : User]
  \cup [kind : {"adminEnd"}, call : Call]

(* What an open transaction writes, whom it tells, and whether it has      *)
(* flushed the one and told the other.                                     *)
Idle == [call |-> None]
Work ==
  [call : Call, status : Status \cup {"keep"}, join : SUBSET User,
   tell : SUBSET User, type : {"ringing", "answered", "declined", "over"}, flushed : BOOLEAN]

TypeOK ==
  /\ party \in [Call -> MayCall \cup {<<>>}]
  /\ status \in [Call -> Status]
  /\ joined \in [Call -> SUBSET User]
  /\ requests \subseteq Request
  /\ open \in [Slot -> Work \cup {Idle}]
  /\ online \subseteq User
  /\ socket \in [User -> Seq(Event)]
  /\ missed \subseteq User /\ undone \subseteq Call
  /\ interruptions \in 0 .. MaxInterruptions
  /\ dialled \in [User -> Call \cup {None}]
  /\ incoming \in [User -> Call \cup {None}]
  /\ active \in [User -> Call \cup {None}]
  /\ session \in [User -> [Call -> SessionState]]
  /\ answering \in [User -> SUBSET Call]
  /\ shown \in [User -> [incoming : Call \cup {None}, active : Call \cup {None}]]
  /\ unseen \in [User -> SUBSET Call]

Init ==
  /\ party = [c \in Call |-> <<>>]
  /\ status = [c \in Call |-> "absent"]
  /\ joined = [c \in Call |-> {}]
  /\ requests = {}
  /\ open = [t \in Slot |-> Idle]
  /\ online = User
  /\ socket = [u \in User |-> <<>>]
  /\ missed = {} /\ undone = {} /\ interruptions = 0
  /\ dialled = [u \in User |-> None]
  /\ incoming = [u \in User |-> None]
  /\ active = [u \in User |-> None]
  /\ session = [u \in User |-> [c \in Call |-> "none"]]
  /\ answering = [u \in User |-> {}]
  /\ shown = [u \in User |-> [incoming |-> None, active |-> None]]
  /\ unseen = [u \in User |-> {}]

Interrupt == interruptions < MaxInterruptions /\ interruptions' = interruptions + 1

-----------------------------------------------------------------------------
(* The service.                                                            *)

Parties(c) == {party[c][1], party[c][2]}
Other(c, u) == IF party[c][1] = u THEN party[c][2] ELSE party[c][1]
IsParty(c, u) == status[c] # "absent" /\ u \in Parties(c)

(* _notify_user: the event goes to the sockets connected right now.        *)
Notify(users, type, c) ==
  /\ socket' = [u \in User |->
                  IF u \in users \cap online
                  THEN Append(socket[u], [type |-> type, call |-> c])
                  ELSE socket[u]]
  /\ missed' = missed \cup (users \ online)

Take(r) == requests' = requests \ {r}
Write(t, c, new, join, tell, type, flushed) ==
  /\ open[t] = Idle
  /\ open' = [open EXCEPT ![t] =
       [call |-> c, status |-> new, join |-> join, tell |-> tell, type |-> type,
        flushed |-> flushed]]

(* A request that is refused, and one that changes nothing.                *)
Refuse(r) ==
  /\ Take(r)
  /\ UNCHANGED <<server, phone, open, socket, online, missed>>

InitiateCall(t, r) ==
  /\ r.kind = "initiate"
  /\ Take(r)
  /\ \E c \in Call :
       /\ party[c] = <<>>
       /\ party' = [party EXCEPT ![c] = <<r.user, r.to>>]
       /\ Write(t, c, "ringing", {r.user}, {r.to}, "ringing", TRUE)
       /\ Notify({r.to}, "ringing", c)
       /\ dialled' = [dialled EXCEPT ![r.user] = c]
  /\ UNCHANGED <<status, joined, undone, interruptions, online, incoming, active, session, view>>

(* Faulty variant: answering does not join.                                *)
AnswerWithoutJoin(t, r) ==
  /\ r.kind = "answer"
  /\ IsParty(r.call, r.user) /\ status[r.call] \in {"ringing", "active"}
  /\ Take(r)
  /\ Write(t, r.call, IF status[r.call] = "ringing" THEN "active" ELSE "keep", {},
           {Other(r.call, r.user)}, "answered", FALSE)
  /\ UNCHANGED <<server, phone, socket, online, missed>>

AnswerCall(t, r) ==
  /\ r.kind = "answer"
  /\ IsParty(r.call, r.user) /\ status[r.call] \in {"ringing", "active"}
  /\ Take(r)
  /\ Write(t, r.call, IF status[r.call] = "ringing" THEN "active" ELSE "keep", {r.user},
           {Other(r.call, r.user)}, "answered", FALSE)
  /\ UNCHANGED <<server, phone, socket, online, missed>>

DeclineCall(t, r) ==
  /\ r.kind = "decline"
  /\ IsParty(r.call, r.user) /\ status[r.call] = "ringing"
  /\ Take(r)
  /\ Write(t, r.call, "declined", {}, {Other(r.call, r.user)}, "declined", FALSE)
  /\ UNCHANGED <<server, phone, socket, online, missed>>

(* Faulty variant: the event's name is stored as the status.               *)
FinishedAsEvent(c) == "over"

Finished(c) == IF status[c] = "ringing" THEN "missed" ELSE "ended"

EndCall(t, r) ==
  /\ r.kind = "end"
  /\ IsParty(r.call, r.user) /\ status[r.call] \notin Over
  /\ Take(r)
  /\ Write(t, r.call, Finished(r.call), {}, {Other(r.call, r.user)}, "over", FALSE)
  /\ UNCHANGED <<server, phone, socket, online, missed>>

(* Faulty variant: the admin's call end tells the initiator only.          *)
AdminEndTellsInitiator(t, r) ==
  /\ r.kind = "adminEnd"
  /\ status[r.call] \notin Over \cup {"absent"}
  /\ Take(r)
  /\ Write(t, r.call, Finished(r.call), {}, {party[r.call][1]}, "over", FALSE)
  /\ UNCHANGED <<server, phone, socket, online, missed>>

AdminEndCall(t, r) ==
  /\ r.kind = "adminEnd"
  /\ status[r.call] \notin Over \cup {"absent"}
  /\ Take(r)
  /\ Write(t, r.call, Finished(r.call), {}, Parties(r.call), "over", FALSE)
  /\ UNCHANGED <<server, phone, socket, online, missed>>

(* relay_signal writes nothing, and drops the signal of a call that is     *)
(* over without an error.                                                  *)
RelaySignal(r) ==
  /\ r.kind \in Signal
  /\ IsParty(r.call, r.user) /\ status[r.call] \in {"ringing", "active"}
  /\ Take(r)
  /\ Notify({Other(r.call, r.user)}, r.kind, r.call)
  /\ UNCHANGED <<server, phone, open, online>>

RefuseRequest(r) ==
  /\ r.kind # "initiate"
  /\ \/ r.kind # "adminEnd" /\ ~IsParty(r.call, r.user)
     \/ r.kind = "decline" /\ status[r.call] # "ringing"
     \/ status[r.call] \in Over
  /\ Refuse(r)

Serve(t, r) ==
  \/ InitiateCall(t, r)
  \/ AnswerCall(t, r)
  \/ DeclineCall(t, r)
  \/ EndCall(t, r)
  \/ AdminEndCall(t, r)

(* The second of two transactions that decided on the same call waits for  *)
(* the first, and then writes what it decided before.                      *)
Flush(t) ==
  /\ open[t] # Idle /\ ~open[t].flushed
  /\ \A s \in Slot \ {t} : open[s].call = open[t].call => ~open[s].flushed
  /\ open' = [open EXCEPT ![t].flushed = TRUE]
  /\ Notify(open[t].tell, open[t].type, open[t].call)
  /\ UNCHANGED <<server, phone, requests, online>>

Commit(t) ==
  /\ open[t] # Idle /\ open[t].flushed
  /\ LET w == open[t] IN
       /\ status' = IF w.status = "keep" THEN status ELSE [status EXCEPT ![w.call] = w.status]
       /\ joined' = [joined EXCEPT ![w.call] = @ \cup w.join]
  /\ open' = [open EXCEPT ![t] = Idle]
  /\ UNCHANGED <<party, undone, interruptions, wire, phone, socket>>

(* The handler raises, on a broken socket for one, or the commit fails:    *)
(* what was pushed stays pushed. The caller has had its answer by then, or *)
(* gets an error instead.                                                  *)
RollBack(t) ==
  /\ open[t] # Idle
  /\ Interrupt
  /\ LET w == open[t] IN
       /\ undone' = undone \cup {c \in {w.call} : w.status = "ringing"}
       /\ \E refused \in SUBSET {u \in User : dialled[u] = w.call /\ w.status = "ringing"} :
            dialled' = [u \in User |-> IF u \in refused THEN None ELSE dialled[u]]
  /\ open' = [open EXCEPT ![t] = Idle]
  /\ UNCHANGED <<party, status, joined, wire, incoming, active, session, view, socket>>

Send(rs) == Cardinality(requests) < MaxRequests /\ requests' = requests \cup rs

AdminEnds(c) ==
  /\ status[c] \in {"ringing", "active"}
  /\ Interrupt
  /\ Send({[kind |-> "adminEnd", call |-> c]})
  /\ UNCHANGED <<party, status, joined, undone, phone, open, socket, online, missed>>

-----------------------------------------------------------------------------
(* A phone.                                                                *)

Post(kind, u, c) == [kind |-> kind, user |-> u, call |-> c]

(* endLocalSession: end() of the current session closes what there is to   *)
(* close; it does not stop a start() that still waits for the microphone.  *)
EndLocal(u) ==
  /\ active' = [active EXCEPT ![u] = None]
  /\ session' = [session EXCEPT ![u] = [c \in Call |->
                   IF c = active[u] /\ session[u][c] \in Running
                   THEN "closed" ELSE session[u][c]]]

StartCall(u, v) ==
  /\ <<u, v>> \in MayCall
  /\ dialled[u] = None
  /\ ~\E r \in requests : r.kind = "initiate" /\ r.user = u
  /\ \E c \in Call : party[c] = <<>>
  /\ Send({[kind |-> "initiate", user |-> u, to |-> v]})
  /\ UNCHANGED <<server, phone, open, socket, online, missed>>

(* The call that was active stays in its session, out of the phone's reach.*)
BeginSession(u, c) ==
  /\ active' = [active EXCEPT ![u] = c]
  /\ session' = [session EXCEPT ![u][c] = "capturing"]

StartSession(u) ==
  /\ dialled[u] # None
  /\ BeginSession(u, dialled[u])
  /\ dialled' = [dialled EXCEPT ![u] = None]
  /\ UNCHANGED <<server, wire, open, socket, incoming, view>>

Rendered(u) == shown[u] = [incoming |-> incoming[u], active |-> active[u]]

(* React renders the state as it is now.                                   *)
Render(u) ==
  /\ ~Rendered(u)
  /\ shown' = [shown EXCEPT ![u] = [incoming |-> incoming[u], active |-> active[u]]]
  /\ UNCHANGED <<server, wire, open, socket, dialled, incoming, active, session, answering, unseen>>

(* Answering waits for the token and the ICE servers, which may fail, and  *)
(* only then takes the incoming call, whichever it is by then, off the     *)
(* screen. A second tap for the same call is left out.                     *)
TapAnswer(u) ==
  /\ shown[u].incoming # None
  /\ shown[u].incoming \notin answering[u] /\ session[u][shown[u].incoming] = "none"
  /\ answering' = [answering EXCEPT ![u] = @ \cup {shown[u].incoming}]
  /\ UNCHANGED <<server, wire, open, socket, dialled, incoming, active, session, shown, unseen>>

StopAnswering(u, c) ==
  /\ c \in answering[u]
  /\ answering' = [answering EXCEPT ![u] = @ \ {c}]

(* Faulty variant: the active call may be answered anew.                   *)
AnswerAgain(u, c) ==
  /\ c = shown[u].incoming
  /\ BeginSession(u, c)
  /\ incoming' = [incoming EXCEPT ![u] = None]
  /\ UNCHANGED <<server, wire, open, socket, dialled, view>>

AnswerIncomingCall(u, c) ==
  /\ StopAnswering(u, c)
  /\ BeginSession(u, c)
  /\ incoming' = [incoming EXCEPT ![u] = None]
  /\ UNCHANGED <<server, wire, open, socket, dialled, shown, unseen>>

AnswerFails(u, c) ==
  /\ StopAnswering(u, c)
  /\ UNCHANGED <<server, wire, open, socket, dialled, incoming, active, session, shown, unseen>>

(* getUserMedia returns. The initiator sends its offer at once; the callee *)
(* tells the service that it has answered.                                 *)
Captured(u, c) ==
  /\ session[u][c] = "capturing"
  /\ IF party[c][1] = u
     THEN /\ session' = [session EXCEPT ![u][c] = "offered"]
          /\ Send({Post("offer", u, c)})
     ELSE /\ session' = [session EXCEPT ![u][c] = "made"]
          /\ Send({Post("answer", u, c)})
  /\ UNCHANGED <<server, open, socket, online, missed, dialled, incoming, active, view>>

CaptureRefused(u, c) ==
  /\ session[u][c] = "capturing"
  /\ session' = [session EXCEPT ![u][c] = "closed"]
  /\ UNCHANGED <<server, wire, open, socket, dialled, incoming, active, view>>

DeclineIncomingCall(u) ==
  /\ shown[u].incoming # None
  /\ Send({Post("decline", u, shown[u].incoming)})
  /\ incoming' = [incoming EXCEPT ![u] = None]
  /\ UNCHANGED <<server, open, socket, online, missed, dialled, active, session, view>>

(* The local session that ends is the current one, the call on the service *)
(* is the one rendered.                                                    *)
EndActiveCall(u) ==
  /\ shown[u].active # None
  /\ EndLocal(u)
  /\ Send({Post("end", u, shown[u].active)})
  /\ UNCHANGED <<server, open, socket, online, missed, dialled, incoming, view>>

(* onconnectionstatechange "failed" or "disconnected", of whichever        *)
(* session, ends the current one. No request is sent.                      *)
ConnectionFails(u, c) ==
  /\ session[u][c] = "stable"
  /\ active[u] # None
  /\ EndLocal(u)
  /\ UNCHANGED <<server, wire, open, socket, dialled, incoming, view>>

Head1(u) == socket[u][1]
Pop(u) == socket' = [socket EXCEPT ![u] = Tail(@)]

HandleRinging(u) ==
  /\ socket[u] # <<>> /\ Head1(u).type = "ringing"
  /\ Pop(u)
  /\ incoming' = [incoming EXCEPT ![u] = Head1(u).call]
  /\ UNCHANGED <<server, wire, open, dialled, active, session, view>>

(* call.answered only changes the label that the screen shows.             *)
HandleAnswered(u) ==
  /\ socket[u] # <<>> /\ Head1(u).type = "answered"
  /\ Pop(u)
  /\ UNCHANGED <<server, wire, open, phone>>

HandleOver(u) ==
  /\ socket[u] # <<>> /\ Head1(u).type \in {"declined", "over"}
  /\ Pop(u)
  /\ LET c == Head1(u).call IN
       /\ IF shown[u].active = c THEN EndLocal(u) ELSE UNCHANGED <<active, session>>
       /\ incoming' = [incoming EXCEPT ![u] = IF shown[u].incoming = c THEN None ELSE @]
       /\ unseen' = [unseen EXCEPT ![u] =
                       @ \cup {d \in {c} : incoming[u] = d /\ shown[u].incoming # d}]
  /\ UNCHANGED <<server, wire, open, dialled, answering, shown>>

(* Faulty variant: an offer is answered without a session of its own.      *)
HandleOfferEarly(u) ==
  /\ socket[u] # <<>> /\ Head1(u).type = "offer"
  /\ Pop(u)
  /\ LET c == Head1(u).call IN
       /\ session' = IF session[u][c] \in Running THEN [session EXCEPT ![u][c] = "stable"]
                     ELSE session
       /\ Send({Post("answerSdp", u, c)})
  /\ UNCHANGED <<server, open, online, missed, dialled, incoming, active, view>>

(* handleSignalEvent: without a session that has subscribed, nobody hears  *)
(* the signal. An offer is answered in whatever state the connection is.   *)
HandleOffer(u) ==
  /\ socket[u] # <<>> /\ Head1(u).type = "offer"
  /\ Pop(u)
  /\ LET c == Head1(u).call IN
       IF session[u][c] \in Running
       THEN /\ session' = [session EXCEPT ![u][c] = "stable"]
            /\ Send({Post("answerSdp", u, c)})
       ELSE UNCHANGED <<session, requests>>
  /\ UNCHANGED <<server, open, online, missed, dialled, incoming, active, view>>

HandleAnswerSdp(u) ==
  /\ socket[u] # <<>> /\ Head1(u).type = "answerSdp"
  /\ Pop(u)
  /\ LET c == Head1(u).call IN
       session' = IF session[u][c] = "offered" THEN [session EXCEPT ![u][c] = "stable"] ELSE session
  /\ UNCHANGED <<server, wire, open, dialled, incoming, active, view>>

Disconnect(u) ==
  /\ u \in MayDrop \cap online
  /\ Interrupt
  /\ online' = online \ {u}
  /\ missed' = IF socket[u] = <<>> THEN missed ELSE missed \cup {u}
  /\ socket' = [socket EXCEPT ![u] = <<>>]
  /\ UNCHANGED <<party, status, joined, undone, phone, open, requests>>

Reconnect(u) ==
  /\ u \notin online
  /\ online' = online \cup {u}
  /\ UNCHANGED <<server, phone, open, socket, requests, missed>>

-----------------------------------------------------------------------------
Act(u) ==
  \/ \E v \in User : StartCall(u, v)
  \/ StartSession(u)
  \/ TapAnswer(u)
  \/ \E c \in Call : AnswerIncomingCall(u, c) \/ AnswerFails(u, c)
  \/ DeclineIncomingCall(u)
  \/ EndActiveCall(u)
  \/ \E c \in Call : Captured(u, c) \/ CaptureRefused(u, c) \/ ConnectionFails(u, c)
  \/ HandleRinging(u)
  \/ HandleAnswered(u)
  \/ HandleOver(u)
  \/ HandleOffer(u)
  \/ HandleAnswerSdp(u)

Phone(u) ==
  \/ Render(u)
  \/ (u \in MayLag \/ Rendered(u)) /\ Act(u)

Next ==
  \/ \E u \in User : Phone(u) \/ Disconnect(u) \/ Reconnect(u)
  \/ \E r \in requests : RelaySignal(r) \/ RefuseRequest(r)
  \/ \E t \in Slot : Flush(t) \/ Commit(t) \/ RollBack(t) \/ \E r \in requests : Serve(t, r)
  \/ \E c \in Call : AdminEnds(c)

Spec == Init /\ [][Next]_vars

-----------------------------------------------------------------------------
(* Nothing is on its way: no request, transaction, event or answer.        *)
Quiet ==
  /\ requests = {}
  /\ \A t \in Slot : open[t] = Idle
  /\ \A u \in User : socket[u] = <<>> /\ dialled[u] = None /\ answering[u] = {}

(* Once everything sent has arrived, a phone still shows an incoming call  *)
(* that is over, whoever ended it and however the end crossed other calls  *)
(* and answers, only for one of three reasons: an event was lost, the row  *)
(* of the call was rolled back after its ring had gone out, or the end     *)
(* came before the phone had rendered the ring. Nothing ends such a ring   *)
(* but its user: there is no limit to ringing.                             *)
NoPhantomRing ==
  Quiet => \A u \in User \ missed : \A c \in Call \ (undone \cup unseen[u]) :
             incoming[u] = c => status[c] \in {"ringing", "active"}

(* Media flows only between a caller that dialled and a callee that picked *)
(* the call up: a connection is never negotiated with a phone whose user   *)
(* has not taken the call, in whatever order offers, rings and ends cross. *)
MediaNeedsBothParties ==
  \A u \in User, c \in Call :
    session[u][c] = "stable" => \A v \in Parties(c) : session[v][c] # "none"

(* A call that a phone took and left, or that was hung up on it, never     *)
(* comes back as that phone's active call.                                 *)
LeftStaysLeft ==
  [][\A u \in User, c \in Call :
       (session[u][c] # "none" /\ active[u] # c) => active'[u] # c]_vars

(* A call is active only after its callee joined it, though the answer,    *)
(* an end and a refusal may be decided on at the same time.                *)
ActiveWasAnswered ==
  \A c \in Call : status[c] = "active" => Parties(c) \subseteq joined[c]

(* When both parties are in an active call and everything sent has arrived,*)
(* the two peer connections have been negotiated.                          *)
AnsweredCallsConnect ==
  (Quiet /\ missed = {}) =>
    \A c \in Call :
      (status[c] = "active" /\ \A u \in Parties(c) : active[u] = c /\ session[u][c] \in Running)
        => \A u \in Parties(c) : session[u][c] = "stable"
=============================================================================

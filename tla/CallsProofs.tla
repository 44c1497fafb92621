---------------------------- MODULE CallsProofs ----------------------------
(***************************************************************************)
(* Any number of users, calls and requests served at once, and any sockets *)
(* that break: what the phones may show and connect of a call.             *)
(***************************************************************************)
EXTENDS CallsInvariant, SequenceTheorems, TLAPS

-----------------------------------------------------------------------------
(* Parties, requests and events.                                           *)

LEMMA PartyFacts ==
  ASSUME TypeOK, NEW c \in Call, Placed(c)
  PROVE  /\ party[c] \in MayCall /\ Caller(c) \in User /\ Callee(c) \in User
         /\ Caller(c) # Callee(c)
         /\ Parties(c) = {Caller(c), Callee(c)}
         /\ Other(c, Caller(c)) = Callee(c) /\ Other(c, Callee(c)) = Caller(c)
<1>1. party[c] \in MayCall
  BY DEF TypeOK, Placed
<1> QED BY <1>1, CallsAssumption DEF Caller, Callee, Parties, Other

LEMMA RequestType ==
  ASSUME TypeOK, NEW r \in requests
  PROVE  /\ r.kind \in {"initiate", "adminEnd", "answer", "decline", "end", "offer", "answerSdp"}
         /\ r.kind # "initiate" => r.call \in Call
         /\ r.kind # "adminEnd" => r.user \in User
         /\ r.kind = "initiate" => r.to \in User
BY DEF TypeOK, Request, Signal

LEMMA PostType ==
  ASSUME NEW u \in User, NEW c \in Call,
         NEW kind \in {"answer", "decline", "end", "offer", "answerSdp"}
  PROVE  /\ Post(kind, u, c) \in Request
         /\ Post(kind, u, c).kind = kind /\ Post(kind, u, c).user = u /\ Post(kind, u, c).call = c
BY DEF Post, Request, Signal

(* The events of a socket after one is added and after one is taken.       *)
LEMMA AppendEvent ==
  ASSUME NEW s \in Seq(Event), NEW e \in Event
  PROVE  /\ Append(s, e) \in Seq(Event)
         /\ Len(s) \in Nat /\ DOMAIN s = 1..Len(s)
         /\ DOMAIN Append(s, e) = 1..(Len(s) + 1)
         /\ \A i \in 1..Len(s) : Append(s, e)[i] = s[i]
         /\ Append(s, e)[Len(s) + 1] = e
BY AppendProperties

LEMMA TakeEvent ==
  ASSUME NEW s \in Seq(Event), s # <<>>
  PROVE  /\ Tail(s) \in Seq(Event)
         /\ Len(s) \in Nat /\ Len(s) >= 1 /\ DOMAIN s = 1..Len(s) /\ s[1] \in Event
         /\ DOMAIN Tail(s) = 1..(Len(s) - 1)
         /\ \A i \in 1..(Len(s) - 1) : Tail(s)[i] = s[i + 1]
BY HeadTailProperties, EmptySeq, ElementOfSeq, LenProperties

-----------------------------------------------------------------------------
(* The steps, by what they change.                                         *)

(* The service decides on a call it knows.                                 *)
Decides(t, r, w) ==
  /\ requests' = requests \ {r}
  /\ open[t] = Idle /\ open' = [open EXCEPT ![t] = w]
  /\ ~w.flushed /\ w.type # "ringing"
  /\ status[w.call] # "absent"
  /\ w.status \in {"active", "declined", "missed", "ended", "keep"}
  /\ w.status = "active" => r.kind = "answer" /\ w.call = r.call /\ w.join = {r.user}
                            /\ r.user \in Parties(r.call)
  /\ w.status \in Over =>
       /\ w.type \in {"declined", "over"} /\ w.call = r.call
       /\ \/ r.kind = "adminEnd" /\ w.tell = Parties(w.call)
          \/ /\ r.kind \in {"decline", "end"} /\ r.user \in Parties(w.call)
             /\ w.tell = {Other(w.call, r.user)}
  /\ UNCHANGED <<server, phone, socket, online, missed>>

LEMMA OpenType ==
  ASSUME TypeOK, NEW t \in Slot, open[t] # Idle
  PROVE  /\ open[t] \in Work /\ open[t].call \in Call /\ open[t].status \in Status \cup {"keep"}
         /\ open[t].join \in SUBSET User /\ open[t].tell \in SUBSET User
         /\ open[t].type \in {"ringing", "answered", "declined", "over"}
         /\ open[t].flushed \in BOOLEAN
         /\ [open[t] EXCEPT !.flushed = TRUE] \in Work
<1>1. open[t] \in Work
  BY DEF TypeOK
<1> QED BY <1>1 DEF Work

LEMMA ServeCases ==
  ASSUME TypeOK, TablesAgree, NEW t \in Slot, NEW r \in requests, Serve(t, r)
  PROVE  InitiateCall(t, r) \/ \E w \in Work : Decides(t, r, w)
<1>1. ASSUME r.kind # "initiate", r.kind # "adminEnd", IsParty(r.call, r.user)
      PROVE  /\ r.call \in Call /\ r.user \in User /\ Placed(r.call) /\ r.user \in Parties(r.call)
             /\ Other(r.call, r.user) \in User /\ status[r.call] # "absent"
             /\ status[r.call] \in Status
  <2>1. /\ r.call \in Call /\ r.user \in User /\ r.user \in Parties(r.call)
        /\ status[r.call] # "absent"
    BY <1>1, RequestType DEF IsParty
  <2>2. Placed(r.call) /\ status[r.call] \in Status
    BY <2>1 DEF TablesAgree, TypeOK
  <2> QED BY <2>1, <2>2, PartyFacts
<1>2. CASE AnswerCall(t, r)
  <2> DEFINE new == IF status[r.call] = "ringing" THEN "active" ELSE "keep"
             w == [call |-> r.call, status |-> new, join |-> {r.user},
                   tell |-> {Other(r.call, r.user)}, type |-> "answered", flushed |-> FALSE]
  <2>1. /\ new \in Status \cup {"keep"} /\ new \in {"active", "keep"} /\ new \notin Over
    BY DEF Status, Over
  <2>2. /\ r.call \in Call /\ r.user \in User /\ r.user \in Parties(r.call)
        /\ Other(r.call, r.user) \in User /\ status[r.call] # "absent"
    BY <1>1, <1>2 DEF AnswerCall
  <2>3. /\ requests' = requests \ {r} /\ open[t] = Idle /\ open' = [open EXCEPT ![t] = w]
        /\ UNCHANGED <<server, phone, socket, online, missed>>
    BY <1>2 DEF AnswerCall, Take, Write
  <2> HIDE DEF new
  <2>4. /\ w \in Work /\ w.call = r.call /\ w.status = new /\ w.join = {r.user}
        /\ w.tell = {Other(r.call, r.user)} /\ w.type = "answered" /\ ~w.flushed
    BY <2>1, <2>2 DEF Work
  <2> HIDE DEF w
  <2>5. Decides(t, r, w)
    BY <1>2, <2>1, <2>2, <2>3, <2>4 DEF Decides, AnswerCall
  <2> QED BY <2>4, <2>5
<1>3. CASE DeclineCall(t, r) \/ EndCall(t, r)
  <2> DEFINE new == IF DeclineCall(t, r) THEN "declined" ELSE Finished(r.call)
             type == IF DeclineCall(t, r) THEN "declined" ELSE "over"
             w == [call |-> r.call, status |-> new, join |-> {},
                   tell |-> {Other(r.call, r.user)}, type |-> type, flushed |-> FALSE]
  <2>1. /\ new \in Status \cup {"keep"} /\ new \in {"declined", "missed", "ended"}
        /\ type \in {"declined", "over"}
    BY DEF Status, Finished
  <2>2. /\ r.call \in Call /\ r.user \in User /\ r.user \in Parties(r.call)
        /\ Other(r.call, r.user) \in User /\ status[r.call] # "absent"
        /\ r.kind \in {"decline", "end"}
    BY <1>1, <1>3 DEF DeclineCall, EndCall
  <2>3. /\ requests' = requests \ {r} /\ open[t] = Idle /\ open' = [open EXCEPT ![t] = w]
        /\ UNCHANGED <<server, phone, socket, online, missed>>
    BY <1>3 DEF DeclineCall, EndCall, Take, Write
  <2> HIDE DEF new, type
  <2>4. /\ w \in Work /\ w.call = r.call /\ w.status = new /\ w.join = {}
        /\ w.tell = {Other(r.call, r.user)} /\ w.type = type /\ ~w.flushed
    BY <2>1, <2>2 DEF Work
  <2> HIDE DEF w
  <2>5. Decides(t, r, w)
    BY <2>1, <2>2, <2>3, <2>4 DEF Decides
  <2> QED BY <2>4, <2>5
<1>4. CASE AdminEndCall(t, r)
  <2> DEFINE w == [call |-> r.call, status |-> Finished(r.call), join |-> {},
                   tell |-> Parties(r.call), type |-> "over", flushed |-> FALSE]
  <2>1. Finished(r.call) \in Status \cup {"keep"} /\ Finished(r.call) \in {"missed", "ended"}
    BY DEF Status, Finished
  <2>2. /\ r.call \in Call /\ Parties(r.call) \in SUBSET User /\ status[r.call] # "absent"
        /\ r.kind = "adminEnd"
    BY <1>4, RequestType, PartyFacts DEF AdminEndCall, TablesAgree
  <2>3. /\ requests' = requests \ {r} /\ open[t] = Idle /\ open' = [open EXCEPT ![t] = w]
        /\ UNCHANGED <<server, phone, socket, online, missed>>
    BY <1>4 DEF AdminEndCall, Take, Write
  <2>4. /\ w \in Work /\ w.call = r.call /\ w.status = Finished(r.call) /\ w.join = {}
        /\ w.tell = Parties(r.call) /\ w.type = "over" /\ ~w.flushed
    BY <2>1, <2>2 DEF Work
  <2> HIDE DEF w
  <2>5. Decides(t, r, w)
    BY <2>1, <2>2, <2>3, <2>4 DEF Decides
  <2> QED BY <2>4, <2>5
<1> QED BY <1>2, <1>3, <1>4 DEF Serve

(* A phone begins a session.                                               *)
Starts(u) == StartSession(u) \/ \E c \in Call : AnswerIncomingCall(u, c)

LEMMA StepCases ==
  ASSUME TypeOK, TablesAgree, [Next]_vars
  PROVE  \/ \E t \in Slot, r \in requests : InitiateCall(t, r) \/ \E w \in Work : Decides(t, r, w)
         \/ \E t \in Slot : Flush(t) \/ Commit(t) \/ RollBack(t)
         \/ \E r \in requests : RelaySignal(r) \/ RefuseRequest(r)
         \/ \E c \in Call : AdminEnds(c)
         \/ \E u, v \in User : StartCall(u, v)
         \/ \E u \in User : \/ Starts(u) \/ DeclineIncomingCall(u) \/ EndActiveCall(u)
                            \/ Render(u) \/ TapAnswer(u)
         \/ \E u \in User, c \in Call : \/ Captured(u, c) \/ CaptureRefused(u, c)
                                        \/ ConnectionFails(u, c) \/ AnswerFails(u, c)
         \/ \E u \in User : \/ HandleRinging(u) \/ HandleAnswered(u) \/ HandleOver(u)
                            \/ HandleOffer(u) \/ HandleAnswerSdp(u)
                            \/ Disconnect(u) \/ Reconnect(u)
         \/ UNCHANGED vars
BY ServeCases DEF Next, Phone, Act, Starts

(* An event is added to the sockets of some users, and the others among    *)
(* those it is for miss it.                                                *)
Sent(users, type, c, e) ==
  /\ e \in Event /\ e.type = type /\ e.call = c
  /\ \A u \in User : \/ socket'[u] = socket[u] /\ (u \in users => u \in missed')
                     \/ socket'[u] = Append(socket[u], e) /\ u \in users

LEMMA NotifyEvents ==
  ASSUME TypeOK, NEW users \in SUBSET User, NEW c \in Call,
         NEW type \in {"ringing", "answered", "declined", "over", "offer", "answerSdp"},
         Notify(users, type, c)
  PROVE  /\ socket' \in [User -> Seq(Event)] /\ missed' \subseteq User
         /\ missed \subseteq missed'
         /\ \E e : Sent(users, type, c, e)
<1> DEFINE e == [type |-> type, call |-> c]
<1>1. e \in Event /\ e.type = type /\ e.call = c
  BY DEF Event, Signal
<1>2. \A u \in User : socket'[u] = IF u \in users \cap online THEN Append(socket[u], e) ELSE socket[u]
  BY DEF Notify
<1>3. \A u \in User : socket[u] \in Seq(Event) /\ Append(socket[u], e) \in Seq(Event)
  BY <1>1, AppendEvent DEF TypeOK
<1>4. socket' = [u \in User |-> socket'[u]] /\ missed' = missed \cup (users \ online)
  BY DEF Notify
<1> HIDE DEF e
<1>5. socket' \in [User -> Seq(Event)]
  BY <1>2, <1>3, <1>4
<1>6. Sent(users, type, c, e)
  BY <1>1, <1>2, <1>4 DEF TypeOK, Sent
<1> QED BY <1>4, <1>5, <1>6 DEF TypeOK

LEMMA PopEvents ==
  ASSUME TypeOK, NEW u \in User, socket[u] # <<>>, Pop(u)
  PROVE  /\ socket' \in [User -> Seq(Event)]
         /\ Head1(u) \in Event /\ Head1(u) = socket[u][1]
         /\ socket'[u] = Tail(socket[u])
         /\ \A v \in User \ {u} : socket'[v] = socket[v]
<1>1. socket[u] \in Seq(Event)
  BY DEF TypeOK
<1>2. Tail(socket[u]) \in Seq(Event) /\ socket[u][1] \in Event
  BY <1>1, TakeEvent
<1> QED BY <1>2 DEF Pop, Head1, TypeOK

LEMMA StepKeepsType ==
  ASSUME TypeOK, PhonesAgree, RequestsAgree, WritesAgree, TablesAgree, [Next]_vars
  PROVE  TypeOK'
<1>1. ASSUME NEW t \in Slot, NEW r \in requests, InitiateCall(t, r) PROVE TypeOK'
  <2>1. PICK c \in Call :
          /\ party' = [party EXCEPT ![c] = <<r.user, r.to>>]
          /\ Write(t, c, "ringing", {r.user}, {r.to}, "ringing", TRUE)
          /\ Notify({r.to}, "ringing", c)
          /\ dialled' = [dialled EXCEPT ![r.user] = c]
    BY <1>1 DEF InitiateCall
  <2>2. r.user \in User /\ r.to \in User /\ <<r.user, r.to>> \in MayCall
    BY <1>1, RequestType DEF InitiateCall, RequestsAgree
  <2>3. open' \in [Slot -> Work \cup {Idle}]
    <3> DEFINE w == [call |-> c, status |-> "ringing", join |-> {r.user}, tell |-> {r.to},
                     type |-> "ringing", flushed |-> TRUE]
    <3>1. w \in Work
      BY <2>2 DEF Work, Status
    <3>2. open' = [open EXCEPT ![t] = w]
      BY <2>1 DEF Write
    <3> HIDE DEF w
    <3> QED BY <3>1, <3>2 DEF TypeOK
  <2>4. socket' \in [User -> Seq(Event)] /\ missed' \subseteq User
    BY <2>1, <2>2, NotifyEvents
  <2>5. party' \in [Call -> MayCall \cup {<<>>}] /\ dialled' \in [User -> Call \cup {None}]
    BY <2>1, <2>2 DEF TypeOK
  <2>6. requests' \subseteq Request
    BY <1>1 DEF InitiateCall, Take, TypeOK
  <2> QED BY <1>1, <2>3, <2>4, <2>5, <2>6 DEF InitiateCall, view, TypeOK
<1>2. ASSUME NEW t \in Slot, NEW r \in requests, NEW w \in Work, Decides(t, r, w) PROVE TypeOK'
  <2>1. open' \in [Slot -> Work \cup {Idle}] /\ requests' \subseteq Request
    BY <1>2 DEF Decides, TypeOK
  <2> QED BY <1>2, <2>1 DEF Decides, server, phone, view, TypeOK
<1>3. ASSUME NEW t \in Slot, Flush(t) PROVE TypeOK'
  <2>1. open' \in [Slot -> Work \cup {Idle}]
    <3>1. open' = [open EXCEPT ![t] = [open[t] EXCEPT !.flushed = TRUE]]
      BY <1>3 DEF Flush
    <3> QED BY <1>3, <3>1, OpenType DEF Flush, TypeOK
  <2>2. socket' \in [User -> Seq(Event)] /\ missed' \subseteq User
    <3>1. /\ open[t].tell \in SUBSET User /\ open[t].call \in Call
          /\ open[t].type \in {"ringing", "answered", "declined", "over", "offer", "answerSdp"}
      BY <1>3, OpenType DEF Flush
    <3>2. Notify(open[t].tell, open[t].type, open[t].call)
      BY <1>3 DEF Flush
    <3> QED BY <3>1, <3>2, NotifyEvents
  <2> QED BY <1>3, <2>1, <2>2 DEF Flush, server, phone, view, TypeOK
<1>4. ASSUME NEW t \in Slot, Commit(t) PROVE TypeOK'
  <2>1. /\ open[t].call \in Call /\ open[t].status \in Status \cup {"keep"}
        /\ open[t].join \in SUBSET User
    BY <1>4, OpenType DEF Commit
  <2>2. status' \in [Call -> Status]
    BY <1>4, <2>1 DEF Commit, TypeOK
  <2>3. joined' \in [Call -> SUBSET User]
    BY <1>4, <2>1 DEF Commit, TypeOK
  <2>4. open' \in [Slot -> Work \cup {Idle}]
    BY <1>4 DEF Commit, TypeOK
  <2> QED BY <1>4, <2>2, <2>3, <2>4 DEF Commit, wire, phone, view, TypeOK
<1>21. ASSUME NEW t \in Slot, RollBack(t) PROVE TypeOK'
  <2>1. open[t].call \in Call
    BY <1>21, OpenType DEF RollBack
  <2>2. undone' \subseteq Call
    BY <1>21, <2>1 DEF RollBack, TypeOK
  <2>3. dialled' \in [User -> Call \cup {None}]
    <3>1. PICK refused \in SUBSET User :
            dialled' = [u \in User |-> IF u \in refused THEN None ELSE dialled[u]]
      BY <1>21 DEF RollBack
    <3> QED BY <3>1 DEF TypeOK
  <2>4. open' \in [Slot -> Work \cup {Idle}]
    BY <1>21 DEF RollBack, TypeOK
  <2>5. interruptions' \in 0 .. MaxInterruptions
    BY <1>21, CallsAssumption DEF RollBack, Interrupt, TypeOK
  <2> QED BY <1>21, <2>2, <2>3, <2>4, <2>5 DEF RollBack, wire, view, TypeOK
<1>5. ASSUME NEW r \in requests, RelaySignal(r) PROVE TypeOK'
  <2>1. r.call \in Call /\ r.user \in User /\ r.kind \in Signal /\ Placed(r.call)
    BY <1>5, RequestType DEF RelaySignal, RequestsAgree, Signal
  <2>2. {Other(r.call, r.user)} \in SUBSET User
    BY <1>5, <2>1, PartyFacts DEF RelaySignal, IsParty
  <2>3. socket' \in [User -> Seq(Event)] /\ missed' \subseteq User
    BY <1>5, <2>1, <2>2, NotifyEvents DEF RelaySignal, Signal
  <2>4. requests' \subseteq Request
    BY <1>5 DEF RelaySignal, Take, TypeOK
  <2> QED BY <1>5, <2>3, <2>4 DEF RelaySignal, server, phone, view, TypeOK
<1>6. ASSUME NEW r \in requests, RefuseRequest(r) PROVE TypeOK'
  BY <1>6 DEF RefuseRequest, Refuse, Take, server, phone, view, TypeOK
<1>7. ASSUME NEW c \in Call, AdminEnds(c) PROVE TypeOK'
  <2>1. [kind |-> "adminEnd", call |-> c] \in Request
    BY DEF Request
  <2>2. interruptions' \in 0 .. MaxInterruptions
    BY <1>7, CallsAssumption DEF AdminEnds, Interrupt, TypeOK
  <2> QED BY <1>7, <2>1, <2>2 DEF AdminEnds, Send, phone, view, TypeOK
<1>8. ASSUME NEW u \in User, NEW v \in User, StartCall(u, v) PROVE TypeOK'
  <2>1. [kind |-> "initiate", user |-> u, to |-> v] \in Request
    BY DEF Request
  <2> QED BY <1>8, <2>1 DEF StartCall, Send, server, phone, view, TypeOK
<1>9. ASSUME NEW u \in User, Starts(u) PROVE TypeOK'
  <2>1. PICK c \in Call : BeginSession(u, c)
    BY <1>9 DEF Starts, StartSession, AnswerIncomingCall, TypeOK
  <2>2. active' \in [User -> Call \cup {None}]
    BY <2>1 DEF BeginSession, TypeOK
  <2>3. session' \in [User -> [Call -> SessionState]]
    BY <2>1 DEF BeginSession, TypeOK, SessionState
  <2>4. dialled' \in [User -> Call \cup {None}] /\ incoming' \in [User -> Call \cup {None}]
    BY <1>9 DEF Starts, StartSession, AnswerIncomingCall, TypeOK
  <2>5. answering' \in [User -> SUBSET Call]
    <3>1. answering \in [User -> SUBSET Call]
      BY DEF TypeOK
    <3>2. CASE UNCHANGED answering
      BY <3>1, <3>2
    <3>3. ASSUME NEW d \in Call, answering' = [answering EXCEPT ![u] = @ \ {d}]
          PROVE  answering' \in [User -> SUBSET Call]
      BY <3>1, <3>3
    <3> QED BY <1>9, <3>2, <3>3 DEF Starts, StartSession, AnswerIncomingCall, StopAnswering,
       view
  <2>6. UNCHANGED <<server, wire, open, socket, shown, unseen>>
    BY <1>9 DEF Starts, StartSession, AnswerIncomingCall, view
  <2> QED BY <2>2, <2>3, <2>4, <2>5, <2>6 DEF server, wire, TypeOK
<1>22. ASSUME NEW u \in User, Render(u) PROVE TypeOK'
  <2>1. shown' \in [User -> [incoming : Call \cup {None}, active : Call \cup {None}]]
    BY <1>22 DEF Render, TypeOK
  <2> QED BY <1>22, <2>1 DEF Render, server, wire, TypeOK
<1>23. ASSUME NEW u \in User, TapAnswer(u) PROVE TypeOK'
  <2>1. shown[u].incoming \in Call
    BY <1>23 DEF TapAnswer, TypeOK
  <2>2. answering' \in [User -> SUBSET Call]
    BY <1>23, <2>1 DEF TapAnswer, TypeOK
  <2> QED BY <1>23, <2>2 DEF TapAnswer, server, wire, TypeOK
<1>24. ASSUME NEW u \in User, NEW c \in Call, AnswerFails(u, c) PROVE TypeOK'
  <2>1. answering' \in [User -> SUBSET Call]
    BY <1>24 DEF AnswerFails, StopAnswering, TypeOK
  <2> QED BY <1>24, <2>1 DEF AnswerFails, server, wire, TypeOK
<1>10. ASSUME NEW u \in User, NEW c \in Call, Captured(u, c) PROVE TypeOK'
  <2>1. session' \in [User -> [Call -> SessionState]]
    <3>1. \E state \in {"offered", "made"} : session' = [session EXCEPT ![u][c] = state]
      BY <1>10 DEF Captured
    <3> QED BY <3>1 DEF TypeOK, SessionState
  <2>2. requests' \subseteq Request
    BY <1>10, PostType DEF Captured, Send, TypeOK
  <2> QED BY <1>10, <2>1, <2>2 DEF Captured, server, view, TypeOK
<1>11. ASSUME NEW u \in User, NEW c \in Call, CaptureRefused(u, c) PROVE TypeOK'
  <2>1. session' \in [User -> [Call -> SessionState]]
    BY <1>11 DEF CaptureRefused, TypeOK, SessionState
  <2> QED BY <1>11, <2>1 DEF CaptureRefused, server, wire, view, TypeOK
<1>12. ASSUME NEW u \in User, EndLocal(u)
       PROVE  session' \in [User -> [Call -> SessionState]] /\ active' \in [User -> Call \cup {None}]
  BY <1>12 DEF EndLocal, TypeOK, SessionState
<1>13. ASSUME NEW u \in User, DeclineIncomingCall(u) PROVE TypeOK'
  <2>1. shown[u].incoming \in Call
    BY <1>13 DEF DeclineIncomingCall, TypeOK
  <2>2. requests' \subseteq Request
    BY <1>13, <2>1, PostType DEF DeclineIncomingCall, Send, TypeOK
  <2> QED BY <1>13, <2>2 DEF DeclineIncomingCall, server, view, TypeOK
<1>14. ASSUME NEW u \in User, EndActiveCall(u) PROVE TypeOK'
  <2>1. shown[u].active \in Call
    BY <1>14 DEF EndActiveCall, TypeOK
  <2>2. requests' \subseteq Request
    BY <1>14, <2>1, PostType DEF EndActiveCall, Send, TypeOK
  <2> QED BY <1>14, <2>2, <1>12 DEF EndActiveCall, server, view, TypeOK
<1>15. ASSUME NEW u \in User, NEW c \in Call, ConnectionFails(u, c) PROVE TypeOK'
  BY <1>15, <1>12 DEF ConnectionFails, server, wire, view, TypeOK
<1>16. ASSUME NEW u \in User, HandleRinging(u) \/ HandleAnswered(u) \/ HandleOver(u)
       PROVE  TypeOK'
  <2>1. socket' \in [User -> Seq(Event)] /\ Head1(u).call \in Call
    BY <1>16, PopEvents DEF HandleRinging, HandleAnswered, HandleOver, Event
  <2>2. /\ session' \in [User -> [Call -> SessionState]]
        /\ active' \in [User -> Call \cup {None}]
    BY <1>16, <1>12 DEF HandleRinging, HandleAnswered, HandleOver, phone, view, TypeOK
  <2>3. incoming' \in [User -> Call \cup {None}]
    BY <1>16, <2>1 DEF HandleRinging, HandleAnswered, HandleOver, phone, view, TypeOK
  <2>4. unseen' \in [User -> SUBSET Call] /\ UNCHANGED <<answering, shown, dialled>>
    BY <1>16, <2>1 DEF HandleRinging, HandleAnswered, HandleOver, phone, view, TypeOK
  <2>5. UNCHANGED <<server, wire, open>>
    BY <1>16 DEF HandleRinging, HandleAnswered, HandleOver
  <2> QED BY <2>1, <2>2, <2>3, <2>4, <2>5 DEF server, wire, TypeOK
<1>17. ASSUME NEW u \in User, HandleOffer(u) PROVE TypeOK'
  <2>1. socket' \in [User -> Seq(Event)] /\ Head1(u).call \in Call
    BY <1>17, PopEvents DEF HandleOffer, Event
  <2>2. session' \in [User -> [Call -> SessionState]]
    <3> DEFINE c == Head1(u).call
    <3>1. session' = session \/ session' = [session EXCEPT ![u][c] = "stable"]
      BY <1>17 DEF HandleOffer
    <3>2. c \in Call
      BY <2>1
    <3> HIDE DEF c
    <3>3. CASE session' = session
      BY <3>3 DEF TypeOK
    <3>4. CASE session' = [session EXCEPT ![u][c] = "stable"]
      BY <3>2, <3>4 DEF TypeOK, SessionState
    <3> QED BY <3>1, <3>3, <3>4
  <2>3. requests' \subseteq Request
    <3>1. requests' \subseteq requests \cup {Post("answerSdp", u, Head1(u).call)}
      BY <1>17 DEF HandleOffer, Send
    <3> QED BY <2>1, <3>1, PostType DEF TypeOK
  <2> QED BY <1>17, <2>1, <2>2, <2>3 DEF HandleOffer, server, view, TypeOK
<1>18. ASSUME NEW u \in User, HandleAnswerSdp(u) PROVE TypeOK'
  <2>1. socket' \in [User -> Seq(Event)] /\ Head1(u).call \in Call
    BY <1>18, PopEvents DEF HandleAnswerSdp, Event
  <2>2. session' \in [User -> [Call -> SessionState]]
    BY <1>18, <2>1 DEF HandleAnswerSdp, TypeOK, SessionState
  <2> QED BY <1>18, <2>1, <2>2 DEF HandleAnswerSdp, server, wire, view, TypeOK
<1>19. ASSUME NEW u \in User, Disconnect(u) \/ Reconnect(u) PROVE TypeOK'
  <2>1. socket' \in [User -> Seq(Event)]
    <3>1. <<>> \in Seq(Event)
      BY EmptySeq
    <3> QED BY <1>19, <3>1 DEF Disconnect, Reconnect, TypeOK
  <2>2. missed' \subseteq User /\ online' \subseteq User
    BY <1>19 DEF Disconnect, Reconnect, TypeOK
  <2>3. interruptions' \in 0 .. MaxInterruptions
    BY <1>19, CallsAssumption DEF Disconnect, Reconnect, Interrupt, server, TypeOK
  <2> QED BY <1>19, <2>1, <2>2, <2>3 DEF Disconnect, Reconnect, server, phone, view, TypeOK
<1>20. CASE UNCHANGED vars
  BY <1>20 DEF vars, server, wire, phone, view, TypeOK
<1> QED BY <1>1, <1>2, <1>3, <1>4, <1>5, <1>6, <1>7, <1>8, <1>9, <1>10, <1>11, <1>13, <1>14,
           <1>15, <1>16, <1>17, <1>18, <1>19, <1>20, <1>21, <1>22, <1>23, <1>24, StepCases

-----------------------------------------------------------------------------
(* What every step leaves as it is.                                        *)

LEMMA TableCases ==
  ASSUME TypeOK, TablesAgree, [Next]_vars
  PROVE  \/ \E t \in Slot, r \in requests : InitiateCall(t, r)
         \/ \E t \in Slot : Commit(t)
         \/ UNCHANGED <<party, status, joined>>
BY StepCases, ZenonT(60) DEF Decides, Flush, RollBack, RelaySignal, RefuseRequest, Refuse,
   AdminEnds, StartCall, StartSession, AnswerIncomingCall, Starts, Render, TapAnswer,
   AnswerFails, DeclineIncomingCall, EndActiveCall, Captured, CaptureRefused, ConnectionFails,
   HandleRinging, HandleAnswered, HandleOver, HandleOffer, HandleAnswerSdp, Disconnect,
   Reconnect, vars, server

LEMMA TablesStay ==
  ASSUME TypeOK, WritesAgree, TablesAgree, [Next]_vars, NEW c \in Call
  PROVE  /\ Placed(c) => party'[c] = party[c]
         /\ status[c] # "absent" => status'[c] # "absent"
         /\ joined[c] \subseteq joined'[c]
<1>1. ASSUME NEW t \in Slot, NEW r \in requests, InitiateCall(t, r)
      PROVE  (Placed(c) => party'[c] = party[c]) /\ status' = status /\ joined' = joined
  BY <1>1 DEF InitiateCall, TypeOK, Placed
<1>2. ASSUME NEW t \in Slot, Commit(t)
      PROVE  /\ party' = party
             /\ status'[c] = status[c] \/ status'[c] = open[t].status
             /\ joined[c] \subseteq joined'[c]
  BY <1>2 DEF Commit, TypeOK
<1>3. ASSUME NEW t \in Slot, Commit(t) PROVE open[t].status # "absent"
  BY <1>3 DEF Commit, WritesAgree
<1> QED BY <1>1, <1>2, <1>3, TableCases DEF server

(* A placed call keeps its parties.                                        *)
LEMMA PartiesStay ==
  ASSUME TypeOK, WritesAgree, TablesAgree, [Next]_vars, NEW c \in Call, Placed(c)
  PROVE  /\ Placed(c)' /\ Caller(c)' = Caller(c) /\ Callee(c)' = Callee(c)
         /\ Parties(c)' = Parties(c) /\ \A u : Other(c, u)' = Other(c, u)
BY TablesStay DEF Placed, Caller, Callee, Parties, Other

(* A step that begins no session and shows no ring.                        *)
Keeps ==
  \A u \in User, c \in Call :
    /\ session'[u][c] = "none" <=> session[u][c] = "none"
    /\ active'[u] = c => active[u] = c
    /\ incoming'[u] = c => incoming[u] = c
    /\ dialled'[u] = c => dialled[u] = c

LEMMA PhoneCases ==
  ASSUME TypeOK, TablesAgree, [Next]_vars
  PROVE  \/ \E t \in Slot, r \in requests : InitiateCall(t, r)
         \/ \E u \in User : Starts(u) \/ HandleRinging(u)
         \/ Keeps
<1>2. ASSUME NEW u \in User, EndLocal(u), UNCHANGED dialled,
             \A v \in User, c \in Call : incoming'[v] = c => incoming[v] = c
      PROVE  Keeps
  <2>1. \A v \in User, c \in Call : session'[v][c] = "none" <=> session[v][c] = "none"
    BY <1>2 DEF EndLocal, TypeOK, SessionState, Running
  <2>2. \A v \in User, c \in Call : active'[v] = c => active[v] = c
    BY <1>2, CallsAssumption DEF EndLocal, TypeOK
  <2> QED BY <1>2, <2>1, <2>2 DEF Keeps
<1>3. ASSUME NEW u \in User, NEW c \in Call, session[u][c] # "none",
             UNCHANGED <<dialled, incoming, active>>,
             NEW state \in SessionState \ {"none"}, session' = [session EXCEPT ![u][c] = state]
      PROVE  Keeps
  BY <1>3 DEF Keeps, TypeOK
<1>4. ASSUME NEW u \in User, DeclineIncomingCall(u) PROVE Keeps
  BY <1>4, CallsAssumption DEF DeclineIncomingCall, Keeps, TypeOK
<1>5. ASSUME NEW u \in User, NEW c \in Call, Captured(u, c) \/ CaptureRefused(u, c) PROVE Keeps
  <2>1. \E state \in SessionState \ {"none"} : session' = [session EXCEPT ![u][c] = state]
    BY <1>5 DEF Captured, CaptureRefused, SessionState
  <2> QED BY <1>3, <1>5, <2>1 DEF Captured, CaptureRefused
<1>6. ASSUME NEW u \in User, HandleOver(u) PROVE Keeps
  <2>1. \A v \in User, c \in Call : incoming'[v] = c => incoming[v] = c
    BY <1>6, CallsAssumption DEF HandleOver, TypeOK
  <2>2. EndLocal(u) \/ UNCHANGED <<active, session>>
    BY <1>6 DEF HandleOver
  <2> QED BY <1>2, <1>6, <2>1, <2>2 DEF HandleOver, Keeps
<1>7. ASSUME NEW u \in User, HandleOffer(u) \/ HandleAnswerSdp(u) PROVE Keeps
  <2> DEFINE c == Head1(u).call
  <2>1. c \in Call
    BY <1>7, PopEvents DEF HandleOffer, HandleAnswerSdp, Event
  <2>2. \/ UNCHANGED session
        \/ session[u][c] # "none" /\ session' = [session EXCEPT ![u][c] = "stable"]
    BY <1>7 DEF HandleOffer, HandleAnswerSdp, Running
  <2>3. UNCHANGED <<dialled, incoming, active>>
    BY <1>7 DEF HandleOffer, HandleAnswerSdp
  <2> HIDE DEF c
  <2> QED BY <1>3, <2>1, <2>2, <2>3 DEF SessionState, Keeps
<1>8. ASSUME NEW u \in User, EndActiveCall(u) PROVE Keeps
  BY <1>2, <1>8 DEF EndActiveCall
<1>9. ASSUME NEW u \in User, NEW c \in Call, ConnectionFails(u, c) PROVE Keeps
  BY <1>2, <1>9 DEF ConnectionFails
<1>11. ASSUME NEW t \in Slot, RollBack(t) PROVE Keeps
  <2>1. PICK refused \in SUBSET User :
          dialled' = [u \in User |-> IF u \in refused THEN None ELSE dialled[u]]
    BY <1>11 DEF RollBack
  <2>2. \A u \in User, c \in Call : dialled'[u] = c => dialled[u] = c
    BY <2>1, CallsAssumption
  <2>3. UNCHANGED <<incoming, active, session>>
    BY <1>11 DEF RollBack
  <2> QED BY <2>2, <2>3 DEF Keeps
<1>12. ASSUME UNCHANGED <<dialled, incoming, active, session>> PROVE Keeps
  BY <1>12 DEF Keeps
<1>10. \/ \E t \in Slot, r \in requests : InitiateCall(t, r)
       \/ \E t \in Slot : RollBack(t)
       \/ \E u \in User : Starts(u) \/ HandleRinging(u)
       \/ \E u \in User : \/ DeclineIncomingCall(u) \/ EndActiveCall(u)
                          \/ HandleOver(u) \/ HandleOffer(u) \/ HandleAnswerSdp(u)
       \/ \E u \in User, c \in Call : \/ Captured(u, c) \/ CaptureRefused(u, c)
                                      \/ ConnectionFails(u, c)
       \/ UNCHANGED <<dialled, incoming, active, session>>
  BY StepCases, ZenonT(60)
  DEF Render, TapAnswer, AnswerFails, phone, Decides, Flush, Commit, RelaySignal, RefuseRequest,
     Refuse, AdminEnds, StartCall, HandleAnswered, Disconnect, Reconnect, vars
<1> QED BY <1>4, <1>5, <1>6, <1>7, <1>8, <1>9, <1>10, <1>11, <1>12

(* A session that began is never undone, and where one begins there was    *)
(* none, of a call the phone dialled or whose Answer was tapped.           *)
LEMMA Begins ==
  ASSUME TypeOK, PhonesAgree, NEW u \in User, Starts(u)
  PROVE  \E c \in Call :
           /\ \/ dialled[u] = c /\ dialled'[u] = None /\ answering' = answering
              \/ c \in answering[u] /\ incoming'[u] = None /\ dialled'[u] = dialled[u]
           /\ c \notin answering'[u]
           /\ session[u][c] = "none" /\ Placed(c) /\ u \in Parties(c)
           /\ session'[u][c] = "capturing" /\ active'[u] = c
           /\ \A v \in User, d \in Call :
                v # u \/ d # c => session'[v][d] = session[v][d]
           /\ \A v \in User : v # u => active'[v] = active[v]
           /\ \A v \in User, d \in Call : incoming'[v] = d => incoming[v] = d
           /\ \A v \in User, d \in Call : dialled'[v] = d => dialled[v] = d
<1>1. PICK c \in Call :
        /\ BeginSession(u, c)
        /\ \/ /\ dialled[u] = c /\ dialled' = [dialled EXCEPT ![u] = None]
              /\ incoming' = incoming /\ answering' = answering
           \/ /\ c \in answering[u] /\ incoming' = [incoming EXCEPT ![u] = None]
              /\ answering' = [answering EXCEPT ![u] = @ \ {c}] /\ dialled' = dialled
  <2>1. CASE StartSession(u)
    BY <2>1 DEF StartSession, view, TypeOK
  <2>2. ASSUME NEW c \in Call, AnswerIncomingCall(u, c)
        PROVE  /\ BeginSession(u, c)
               /\ c \in answering[u] /\ incoming' = [incoming EXCEPT ![u] = None]
               /\ answering' = [answering EXCEPT ![u] = @ \ {c}] /\ dialled' = dialled
    BY <2>2 DEF AnswerIncomingCall, StopAnswering
  <2> QED BY <2>1, <2>2 DEF Starts
<1>2. /\ \A v \in User, d \in Call : incoming'[v] = d => incoming[v] = d
      /\ \A v \in User, d \in Call : dialled'[v] = d => dialled[v] = d
  BY <1>1, CallsAssumption DEF TypeOK
<1>3. /\ session'[u][c] = "capturing" /\ active'[u] = c
      /\ \A v \in User, d \in Call : v # u \/ d # c => session'[v][d] = session[v][d]
      /\ \A v \in User : v # u => active'[v] = active[v]
  BY <1>1 DEF BeginSession, TypeOK
<1>4. \/ dialled[u] = c /\ dialled'[u] = None /\ answering' = answering
      \/ c \in answering[u] /\ incoming'[u] = None /\ dialled'[u] = dialled[u]
  BY <1>1 DEF TypeOK
<1>5. session[u][c] = "none" /\ Placed(c) /\ u \in Parties(c)
  BY <1>4 DEF PhonesAgree, Parties, Caller, Callee
<1>6. c \notin answering'[u]
  <2>1. CASE dialled[u] = c /\ answering' = answering
    <3>1. Placed(c) /\ u = Caller(c) /\ (c \in answering[u] => u = Callee(c))
      BY <2>1 DEF PhonesAgree
    <3> QED BY <2>1, <3>1, PartyFacts
  <2>2. CASE answering' = [answering EXCEPT ![u] = @ \ {c}]
    BY <2>2 DEF TypeOK
  <2> QED BY <1>1, <2>1, <2>2
<1> QED BY <1>2, <1>3, <1>4, <1>5, <1>6

(* What is rendered was so, and what is being answered was rendered.       *)
LEMMA ViewCases ==
  ASSUME TypeOK, TablesAgree, [Next]_vars, NEW u \in User, NEW c \in Call
  PROVE  /\ shown'[u].active = c => shown[u].active = c \/ active[u] = c
         /\ shown'[u].incoming = c => shown[u].incoming = c \/ incoming[u] = c
         /\ c \in answering'[u] =>
              \/ c \in answering[u]
              \/ shown[u].incoming = c /\ session[u][c] = "none" /\ session' = session
         /\ unseen[u] \subseteq unseen'[u]
<1>1. ASSUME NEW v \in User, Render(v)
      PROVE  /\ shown'[u] = shown[u] \/ shown'[u] = [incoming |-> incoming[u], active |-> active[u]]
             /\ UNCHANGED <<answering, unseen>>
  BY <1>1 DEF Render, TypeOK
<1>2. ASSUME NEW v \in User, TapAnswer(v)
      PROVE  /\ UNCHANGED <<shown, unseen, session>>
             /\ c \in answering'[u] =>
                  c \in answering[u] \/ (shown[u].incoming = c /\ session[u][c] = "none")
  BY <1>2 DEF TapAnswer, TypeOK
<1>3. ASSUME NEW v \in User, NEW d \in Call, AnswerIncomingCall(v, d) \/ AnswerFails(v, d)
      PROVE  UNCHANGED <<shown, unseen>> /\ answering'[u] \subseteq answering[u]
  BY <1>3 DEF AnswerIncomingCall, AnswerFails, StopAnswering, TypeOK
<1>4. ASSUME NEW v \in User, HandleOver(v)
      PROVE  UNCHANGED <<shown, answering>> /\ unseen[u] \subseteq unseen'[u]
  BY <1>4 DEF HandleOver, TypeOK
<1>5. \/ \E v \in User : Render(v) \/ TapAnswer(v) \/ HandleOver(v)
      \/ \E v \in User, d \in Call : AnswerIncomingCall(v, d) \/ AnswerFails(v, d)
      \/ UNCHANGED view
  BY StepCases DEF InitiateCall, Decides, Flush, Commit, RollBack, RelaySignal, RefuseRequest,
     Refuse, AdminEnds, StartCall, Starts, StartSession, DeclineIncomingCall, EndActiveCall,
     Captured, CaptureRefused, ConnectionFails, HandleRinging, HandleAnswered, HandleOffer,
     HandleAnswerSdp, Disconnect, Reconnect, vars, phone
<1>6. CASE UNCHANGED view
  BY <1>6 DEF view
<1> QED BY <1>1, <1>2, <1>3, <1>4, <1>5, <1>6

LEMMA SessionsStay ==
  ASSUME TypeOK, PhonesAgree, TablesAgree, [Next]_vars, NEW u \in User, NEW c \in Call,
         session[u][c] # "none"
  PROVE  session'[u][c] # "none"
<1>1. ASSUME NEW v \in User, Starts(v)
      PROVE  session'[u][c] # "none"
  BY <1>1, Begins
<1>2. CASE Keeps
  BY <1>2 DEF Keeps
<1>3. UNCHANGED session \/ (\E v \in User : Starts(v)) \/ Keeps
  BY PhoneCases DEF InitiateCall, HandleRinging
<1> QED BY <1>1, <1>2, <1>3

-----------------------------------------------------------------------------
(* What the phones hold is true of the calls.                              *)

(* A call that rings for a phone was never picked up there.                *)
LEMMA RingingIsUntouched ==
  ASSUME PhonesAgree, EventsAgree, NEW u \in User, NEW c \in Call, Ringing(u, c)
  PROVE  Untouched(u, c)
BY DEF PhonesAgree, EventsAgree, Ringing, Rings

(* An unplaced call is on no phone.                                        *)
LEMMA UnplacedIsNowhere ==
  ASSUME TypeOK, PhonesAgree, EventsAgree, NEW c \in Call, ~Placed(c), NEW u \in User
  PROVE  /\ session[u][c] = "none" /\ active[u] # c /\ incoming[u] # c /\ dialled[u] # c
         /\ \A i \in DOMAIN socket[u] : socket[u][i].call # c
BY DEF PhonesAgree, EventsAgree, Untouched

(* A call is placed between its caller and the callee, ringing there.      *)
PlacedBy(t, r, c) ==
  /\ ~Placed(c)
  /\ r.user \in User /\ r.to \in User /\ <<r.user, r.to>> \in MayCall
  /\ r.user # r.to
  /\ party' = [party EXCEPT ![c] = <<r.user, r.to>>]
  /\ Placed(c)' /\ Caller(c)' = r.user /\ Callee(c)' = r.to
  /\ Notify({r.to}, "ringing", c)
  /\ dialled' = [dialled EXCEPT ![r.user] = c]
  /\ open[t] = Idle
  /\ open' = [open EXCEPT ![t] =
       [call |-> c, status |-> "ringing", join |-> {r.user}, tell |-> {r.to},
        type |-> "ringing", flushed |-> TRUE]]

LEMMA Places ==
  ASSUME TypeOK, RequestsAgree, NEW t \in Slot, NEW r \in requests, InitiateCall(t, r)
  PROVE  \E c \in Call : PlacedBy(t, r, c)
<1>1. r.user \in User /\ r.to \in User /\ <<r.user, r.to>> \in MayCall
  BY RequestType DEF InitiateCall, RequestsAgree
<1>2. r.user # r.to
  BY <1>1, CallsAssumption
<1>3. PICK c \in Call :
        /\ party[c] = <<>>
        /\ party' = [party EXCEPT ![c] = <<r.user, r.to>>]
        /\ Write(t, c, "ringing", {r.user}, {r.to}, "ringing", TRUE)
        /\ Notify({r.to}, "ringing", c)
        /\ dialled' = [dialled EXCEPT ![r.user] = c]
  BY DEF InitiateCall
<1>4. party'[c] = <<r.user, r.to>>
  BY <1>3 DEF TypeOK
<1>5. <<r.user, r.to>> # <<>>
  OBVIOUS
<1>6. Placed(c)' /\ Caller(c)' = r.user /\ Callee(c)' = r.to
  BY <1>4, <1>5 DEF Placed, Caller, Callee
<1>7. /\ ~Placed(c) /\ open[t] = Idle
      /\ open' = [open EXCEPT ![t] =
                    [call |-> c, status |-> "ringing", join |-> {r.user}, tell |-> {r.to},
                     type |-> "ringing", flushed |-> TRUE]]
  BY <1>3 DEF Placed, Write
<1> QED BY <1>1, <1>2, <1>3, <1>6, <1>7 DEF PlacedBy

-----------------------------------------------------------------------------
(* What is on its way to the phones is true of the calls.                  *)

(* An event that a step sends.                                             *)
NewEvent(u, e) ==
  /\ Placed(e.call)'
  /\ e.type = "ringing" => ~Placed(e.call) /\ Callee(e.call)' = u
  /\ e.type \in Signal => /\ Placed(e.call) /\ u \in Parties(e.call)
                          /\ session[Other(e.call, u)][e.call] # "none"

(* The phone takes the first of its events.                                *)
Handles(u) ==
  /\ socket[u] # <<>> /\ socket'[u] = Tail(socket[u])
  /\ Head1(u).type \in {"declined", "over"} =>
       incoming'[u] # Head1(u).call \/ Head1(u).call \in unseen'[u]
  /\ UNCHANGED missed

LEMMA SocketCases ==
  ASSUME TypeOK, PhonesAgree, RequestsAgree, WritesAgree, TablesAgree, [Next]_vars, NEW u \in User
  PROVE  \/ socket'[u] = socket[u]
         \/ \E e \in Event : socket'[u] = Append(socket[u], e) /\ NewEvent(u, e)
         \/ Handles(u)
         \/ socket'[u] = <<>> /\ u \in missed'
<1>1. ASSUME NEW t \in Slot, NEW r \in requests, InitiateCall(t, r)
      PROVE  \/ socket'[u] = socket[u]
             \/ \E e \in Event : socket'[u] = Append(socket[u], e) /\ NewEvent(u, e)
  <2>1. PICK c \in Call : PlacedBy(t, r, c)
    BY <1>1, Places
  <2>2. Notify({r.to}, "ringing", c) /\ {r.to} \in SUBSET User
    BY <2>1 DEF PlacedBy
  <2>3. PICK e : Sent({r.to}, "ringing", c, e)
    BY <2>2, NotifyEvents
  <2>4. u = r.to => NewEvent(u, e)
    BY <2>1, <2>3 DEF PlacedBy, NewEvent, Signal, Sent
  <2> QED BY <2>3, <2>4 DEF Sent
<1>2. ASSUME NEW t \in Slot, Flush(t)
      PROVE  \/ socket'[u] = socket[u]
             \/ \E e \in Event : socket'[u] = Append(socket[u], e) /\ NewEvent(u, e)
  <2>1. PICK c \in Call, type \in {"answered", "declined", "over"}, tell \in SUBSET User :
          Placed(c) /\ Notify(tell, type, c)
    <3>1. /\ open[t].tell \in SUBSET User /\ open[t].call \in Call
          /\ open[t].type \in {"answered", "declined", "over"} /\ Placed(open[t].call)
      BY <1>2, OpenType DEF Flush, WritesAgree
    <3>2. Notify(open[t].tell, open[t].type, open[t].call)
      BY <1>2 DEF Flush
    <3> QED BY <3>1, <3>2
  <2>2. Placed(c)'
    BY <2>1, PartiesStay
  <2>3. PICK e : Sent(tell, type, c, e)
    BY <2>1, NotifyEvents
  <2>4. NewEvent(u, e)
    BY <2>2, <2>3 DEF NewEvent, Signal, Sent
  <2> QED BY <2>3, <2>4 DEF Sent
<1>3. ASSUME NEW r \in requests, RelaySignal(r)
      PROVE  \/ socket'[u] = socket[u]
             \/ \E e \in Event : socket'[u] = Append(socket[u], e) /\ NewEvent(u, e)
  <2>1. PICK c \in Call : c = r.call
    BY <1>3, RequestType DEF RelaySignal, Signal
  <2>2. /\ r.user \in User /\ r.kind \in {"offer", "answerSdp"}
        /\ Placed(c) /\ r.user \in Parties(c) /\ session[r.user][c] # "none"
    BY <1>3, <2>1, RequestType DEF RelaySignal, RequestsAgree, Signal
  <2>3. PICK v \in User : v = Other(c, r.user) /\ v \in Parties(c) /\ Other(c, v) = r.user
    BY <2>1, <2>2, PartyFacts
  <2>4. Notify({v}, r.kind, c) /\ {v} \in SUBSET User
    BY <1>3, <2>1, <2>3 DEF RelaySignal
  <2>5. Placed(c)'
    BY <2>2, PartiesStay
  <2>6. PICK e : Sent({v}, r.kind, c, e)
    BY <2>2, <2>4, NotifyEvents
  <2>7. u = v => NewEvent(u, e)
    BY <2>2, <2>3, <2>5, <2>6 DEF NewEvent, Sent
  <2> QED BY <2>6, <2>7 DEF Sent
<1>4. ASSUME NEW v \in User, \/ HandleRinging(v) \/ HandleAnswered(v) \/ HandleOver(v)
                             \/ HandleOffer(v) \/ HandleAnswerSdp(v)
      PROVE  socket'[u] = socket[u] \/ Handles(u)
  <2>1. socket[v] # <<>> /\ Pop(v) /\ UNCHANGED missed
    BY <1>4 DEF HandleRinging, HandleAnswered, HandleOver, HandleOffer, HandleAnswerSdp, wire
  <2>2. socket'[v] = Tail(socket[v]) /\ Head1(v) \in Event /\ (u # v => socket'[u] = socket[u])
    BY <2>1, PopEvents
  <2>3. Head1(v).type \in {"declined", "over"} =>
          incoming'[v] # Head1(v).call \/ Head1(v).call \in unseen'[v]
    <3>1. Head1(v).type \in {"declined", "over"} => HandleOver(v)
      BY <1>4 DEF HandleRinging, HandleAnswered, HandleOffer, HandleAnswerSdp
    <3>2. Head1(v).call # None
      BY <2>2, CallsAssumption DEF Event
    <3>3. HandleOver(v) =>
            \/ incoming'[v] = None
            \/ incoming'[v] = incoming[v] /\ incoming[v] # Head1(v).call
            \/ Head1(v).call \in unseen'[v]
      BY DEF HandleOver, TypeOK
    <3> QED BY <3>1, <3>2, <3>3
  <2> QED BY <2>1, <2>2, <2>3 DEF Handles
<1>5. ASSUME NEW v \in User, Disconnect(v)
      PROVE  socket'[u] = socket[u] \/ (socket'[u] = <<>> /\ u \in missed')
  BY <1>5 DEF Disconnect, TypeOK
<1>6. \/ \E t \in Slot, r \in requests : InitiateCall(t, r)
      \/ \E t \in Slot : Flush(t)
      \/ \E r \in requests : RelaySignal(r)
      \/ \E v \in User : \/ HandleRinging(v) \/ HandleAnswered(v) \/ HandleOver(v)
                         \/ HandleOffer(v) \/ HandleAnswerSdp(v) \/ Disconnect(v)
      \/ UNCHANGED socket
  BY StepCases DEF Decides, Commit, RollBack, RefuseRequest, Refuse, AdminEnds, StartCall,
     StartSession, AnswerIncomingCall, Starts, Render, TapAnswer, AnswerFails,
     DeclineIncomingCall, EndActiveCall, Captured, CaptureRefused, ConnectionFails, Reconnect,
     vars
<1> QED BY <1>1, <1>2, <1>3, <1>4, <1>5, <1>6

(* A placed call rings no second time.                                     *)
LEMMA RingsStayEmpty ==
  ASSUME TypeOK, PhonesAgree, RequestsAgree, WritesAgree, TablesAgree, [Next]_vars,
         NEW u \in User, NEW c \in Call, Placed(c), Rings(u, c) = {}
  PROVE  Rings(u, c)' = {}
<1>1. \A i \in DOMAIN socket[u] : socket[u][i].type = "ringing" => socket[u][i].call # c
  BY DEF Rings
<1>2. ASSUME NEW i \in DOMAIN socket'[u], socket'[u][i].type = "ringing" PROVE socket'[u][i].call # c
  <2>1. /\ socket[u] \in Seq(Event) /\ Len(socket[u]) \in Nat /\ DOMAIN socket[u] = 1..Len(socket[u])
    BY LenProperties DEF TypeOK
  <2>2. CASE socket'[u] = socket[u]
    BY <1>1, <1>2, <2>2
  <2>3. ASSUME NEW e \in Event, socket'[u] = Append(socket[u], e), NewEvent(u, e)
        PROVE  socket'[u][i].call # c
    <3>1. (i \in DOMAIN socket[u] /\ socket'[u][i] = socket[u][i]) \/ socket'[u][i] = e
      BY <2>1, <2>3, AppendEvent
    <3>2. e.type = "ringing" => e.call # c
      BY <2>3 DEF NewEvent
    <3> QED BY <1>1, <1>2, <3>1, <3>2
  <2>4. CASE Handles(u)
    <3>1. i + 1 \in DOMAIN socket[u] /\ socket'[u][i] = socket[u][i + 1]
      BY <2>1, <2>4, TakeEvent DEF Handles
    <3> QED BY <1>1, <1>2, <3>1
  <2>5. CASE socket'[u] = <<>>
    BY <1>2, <2>5
  <2> QED BY <2>2, <2>3, <2>4, <2>5, SocketCases
<1> QED BY <1>2 DEF Rings

LEMMA PhonesStillAgree ==
  ASSUME TypeOK, PhonesAgree, EventsAgree, RequestsAgree, WritesAgree, TablesAgree, [Next]_vars
  PROVE  PhonesAgree'
<1> SUFFICES ASSUME NEW u \in User, NEW c \in Call
             PROVE  /\ session'[u][c] # "none" => Placed(c)' /\ u \in Parties(c)'
                    /\ dialled'[u] = c => Placed(c)' /\ u = Caller(c)' /\ session'[u][c] = "none"
                    /\ incoming'[u] = c => Untouched(u, c)'
                    /\ active'[u] = c \/ shown'[u].active = c => session'[u][c] # "none"
                    /\ shown'[u].incoming = c \/ c \in answering'[u] =>
                         Placed(c)' /\ u = Callee(c)' /\ Rings(u, c)' = {}
                    /\ c \in answering'[u] => session'[u][c] = "none"
  BY DEF PhonesAgree
<1> DEFINE Agrees ==
      /\ session'[u][c] # "none" => Placed(c)' /\ u \in Parties(c)'
      /\ dialled'[u] = c => Placed(c)' /\ u = Caller(c)' /\ session'[u][c] = "none"
      /\ incoming'[u] = c => Untouched(u, c)'
      /\ active'[u] = c => session'[u][c] # "none"
<1>1. /\ session[u][c] # "none" => Placed(c) /\ u \in Parties(c)
      /\ dialled[u] = c => Placed(c) /\ u = Caller(c) /\ session[u][c] = "none"
      /\ incoming[u] = c => Placed(c) /\ u = Callee(c) /\ session[u][c] = "none"
      /\ active[u] = c \/ shown[u].active = c => session[u][c] # "none"
      /\ shown[u].incoming = c \/ c \in answering[u] =>
           Placed(c) /\ u = Callee(c) /\ Rings(u, c) = {}
      /\ c \in answering[u] => session[u][c] = "none"
  BY DEF PhonesAgree, Untouched
<1>2. Placed(c) => /\ Placed(c)' /\ Caller(c)' = Caller(c) /\ Callee(c)' = Callee(c)
                   /\ Parties(c)' = Parties(c)
  BY PartiesStay
<1>3. Placed(c) => Caller(c) # Callee(c)
  BY PartyFacts
<1>4. (Placed(c)' /\ u = Callee(c)' /\ session'[u][c] = "none") => Untouched(u, c)'
  BY DEF Untouched
<1>5. ASSUME Keeps PROVE Agrees
  <2>1. /\ session'[u][c] = "none" <=> session[u][c] = "none"
        /\ active'[u] = c => active[u] = c
        /\ incoming'[u] = c => incoming[u] = c
        /\ dialled'[u] = c => dialled[u] = c
    BY <1>5 DEF Keeps
  <2> QED BY <1>1, <1>2, <1>4, <2>1
<1>6. ASSUME NEW t \in Slot, NEW r \in requests, InitiateCall(t, r) PROVE Agrees
  <2>1. UNCHANGED <<session, active, incoming>>
    BY <1>6 DEF InitiateCall
  <2>2. \/ dialled'[u] = dialled[u]
        \/ dialled'[u] = c => ~Placed(c) /\ Placed(c)' /\ Caller(c)' = u
    <3>1. PICK d \in Call : PlacedBy(t, r, d)
      BY <1>6, Places
    <3>2. dialled'[u] = dialled[u] \/ (u = r.user /\ dialled'[u] = d)
      BY <3>1 DEF TypeOK, PlacedBy
    <3>3. ~Placed(d) /\ Placed(d)' /\ Caller(d)' = r.user
      BY <3>1 DEF PlacedBy
    <3> QED BY <3>2, <3>3
  <2>3. ~Placed(c) => session[u][c] = "none"
    BY <1>1
  <2> QED BY <1>1, <1>2, <1>4, <2>1, <2>2, <2>3
<1>7. ASSUME NEW v \in User, Starts(v) PROVE Agrees
  <2>1. PICK d \in Call :
           /\ \/ dialled[v] = d /\ dialled'[v] = None
              \/ d \in answering[v] /\ incoming'[v] = None /\ dialled'[v] = dialled[v]
           /\ session[v][d] = "none" /\ Placed(d) /\ v \in Parties(d)
           /\ session'[v][d] = "capturing" /\ active'[v] = d
           /\ \A x \in User, y \in Call :
                x # v \/ y # d => session'[x][y] = session[x][y]
           /\ \A x \in User : x # v => active'[x] = active[x]
           /\ \A x \in User, y \in Call : incoming'[x] = y => incoming[x] = y
           /\ \A x \in User, y \in Call : dialled'[x] = y => dialled[x] = y
    BY <1>7, Begins
  <2>2. CASE u = v /\ c = d
    BY <1>1, <1>2, <1>3, <1>4, <1>7, <2>1, <2>2, CallsAssumption
  <2>3. CASE u # v \/ c # d
    BY <1>1, <1>2, <1>4, <2>1, <2>3
  <2> QED BY <2>2, <2>3
<1>8. ASSUME NEW v \in User, HandleRinging(v) PROVE Agrees
  <2>1. UNCHANGED <<session, active, dialled>>
    BY <1>8 DEF HandleRinging
  <2>2. \/ incoming'[u] = incoming[u]
        \/ incoming'[u] = Head1(v).call /\ u = v
    BY <1>8 DEF HandleRinging, TypeOK
  <2>3. Untouched(v, Head1(v).call)
    <3>1. 1 \in DOMAIN socket[v] /\ socket[v][1].type = "ringing"
      BY <1>8, TakeEvent DEF HandleRinging, Head1, TypeOK
    <3> QED BY <3>1 DEF EventsAgree, Head1
  <2> QED BY <1>1, <1>2, <1>4, <2>1, <2>2, <2>3 DEF Untouched
<1>9. Agrees
  BY <1>5, <1>6, <1>7, <1>8, PhoneCases
<1>10. ASSUME shown'[u].active = c PROVE session'[u][c] # "none"
  BY <1>1, <1>10, ViewCases, SessionsStay
<1>11. ASSUME shown'[u].incoming = c \/ c \in answering'[u]
       PROVE  Placed(c)' /\ u = Callee(c)' /\ Rings(u, c)' = {}
  <2>1. shown[u].incoming = c \/ incoming[u] = c \/ c \in answering[u]
    BY <1>11, ViewCases
  <2>2. incoming[u] = c => Rings(u, c) = {}
    BY DEF EventsAgree, Rings
  <2>3. Placed(c) /\ u = Callee(c) /\ Rings(u, c) = {}
    BY <1>1, <2>1, <2>2
  <2> QED BY <1>2, <2>3, RingsStayEmpty
<1>12. ASSUME c \in answering'[u] PROVE session'[u][c] = "none"
  <2>1. session[u][c] = "none"
    BY <1>1, <1>12, ViewCases
  <2>2. CASE Keeps
    BY <2>1, <2>2 DEF Keeps
  <2>3. ASSUME NEW v \in User, Starts(v) PROVE session'[u][c] = "none"
    <3>1. PICK d \in Call :
             /\ d \notin answering'[v]
             /\ \A x \in User, y \in Call : x # v \/ y # d => session'[x][y] = session[x][y]
      BY <2>3, Begins
    <3> QED BY <1>12, <2>1, <3>1
  <2>4. UNCHANGED session \/ (\E v \in User : Starts(v)) \/ Keeps
    BY PhoneCases DEF InitiateCall, HandleRinging
  <2> QED BY <2>1, <2>2, <2>3, <2>4
<1> QED BY <1>9, <1>10, <1>11, <1>12

(* An event on its way stays true; the ring that is taken is shown.        *)
LEMMA EventStays ==
  ASSUME TypeOK, PhonesAgree, EventsAgree, RequestsAgree, WritesAgree, TablesAgree, [Next]_vars,
         NEW u \in User, NEW i \in DOMAIN socket[u], NEW c \in Call, socket[u][i].call = c
  PROVE  /\ Placed(c)'
         /\ socket[u][i].type \in Signal => /\ u \in Parties(c)'
                                            /\ session'[Other(c, u)'][c] # "none"
         /\ socket[u][i].type = "ringing" =>
              /\ u = Callee(c)' /\ session'[u][c] = "none"
              /\ incoming'[u] # c \/ (i = 1 /\ socket'[u] = Tail(socket[u]))
<1>1. /\ Placed(c)
      /\ socket[u][i].type \in Signal => u \in Parties(c) /\ session[Other(c, u)][c] # "none"
      /\ socket[u][i].type = "ringing" => /\ u = Callee(c) /\ session[u][c] = "none"
                                          /\ incoming[u] # c
                                          /\ \A j \in Rings(u, c) : j = i
  BY DEF EventsAgree, Untouched
<1>2. /\ Placed(c)' /\ Callee(c)' = Callee(c) /\ Parties(c)' = Parties(c)
      /\ Other(c, u)' = Other(c, u)
  BY <1>1, PartiesStay
<1>3. u \in Parties(c) => Other(c, u) \in User
  BY <1>1, PartyFacts
<1>4. socket[u][i].type \in Signal => session'[Other(c, u)][c] # "none"
  BY <1>1, <1>3, SessionsStay
<1>5. ASSUME socket[u][i].type = "ringing"
      PROVE  session'[u][c] = "none" /\ (incoming'[u] # c \/ (i = 1 /\ socket'[u] = Tail(socket[u])))
  <2>1. CASE Keeps
    BY <1>1, <1>5, <2>1 DEF Keeps
  <2>2. ASSUME NEW t \in Slot, NEW r \in requests, InitiateCall(t, r)
        PROVE  session'[u][c] = "none" /\ incoming'[u] # c
    BY <1>1, <1>5, <2>2 DEF InitiateCall
  <2>3. ASSUME NEW v \in User, Starts(v)
        PROVE  session'[u][c] = "none" /\ incoming'[u] # c
    <3>1. PICK d \in Call :
             /\ dialled[v] = d \/ d \in answering[v]
             /\ \A x \in User, y \in Call :
                  x # v \/ y # d => session'[x][y] = session[x][y]
             /\ \A x \in User, y \in Call : incoming'[x] = y => incoming[x] = y
      BY <2>3, Begins
    <3>2. u # v \/ c # d
      <4>1. dialled[u] # c
        BY <1>1, <1>5, PartyFacts DEF PhonesAgree
      <4>2. i \in Rings(u, c)
        BY <1>5 DEF Rings
      <4>3. c \notin answering[u]
        BY <4>2 DEF PhonesAgree
      <4> QED BY <3>1, <4>1, <4>3
    <3> QED BY <1>1, <1>5, <3>1, <3>2
  <2>4. ASSUME NEW v \in User, HandleRinging(v)
        PROVE  session'[u][c] = "none" /\ (incoming'[u] # c \/ (i = 1 /\ socket'[u] = Tail(socket[u])))
    <3>1. UNCHANGED session
      BY <2>4 DEF HandleRinging
    <3>2. incoming'[u] = incoming[u] \/ (u = v /\ incoming'[u] = Head1(u).call)
      BY <2>4 DEF HandleRinging, TypeOK
    <3>3. ASSUME u = v, Head1(u).call = c PROVE i = 1 /\ socket'[u] = Tail(socket[u])
      <4>1. socket[u] # <<>> /\ Pop(u) /\ Head1(u).type = "ringing"
        BY <2>4, <3>3 DEF HandleRinging
      <4>2. 1 \in Rings(u, c)
        BY <3>3, <4>1, TakeEvent DEF Rings, Head1, TypeOK
      <4>3. i = 1
        BY <1>1, <1>5, <4>2
      <4> QED BY <4>1, <4>3, PopEvents
    <3> QED BY <1>1, <1>5, <3>1, <3>2, <3>3
  <2> QED BY <2>1, <2>2, <2>3, <2>4, PhoneCases
<1> QED BY <1>1, <1>2, <1>4, <1>5

(* A call that is not placed yet stays off the phones, but for its caller. *)
LEMMA UnplacedStaysNowhere ==
  ASSUME TypeOK, PhonesAgree, EventsAgree, RequestsAgree, WritesAgree, TablesAgree, [Next]_vars,
         NEW c \in Call, ~Placed(c), NEW u \in User
  PROVE  session'[u][c] = "none" /\ incoming'[u] # c
<1>1. session[u][c] = "none" /\ incoming[u] # c
  BY UnplacedIsNowhere
<1>2. CASE Keeps
  BY <1>1, <1>2 DEF Keeps
<1>3. ASSUME NEW t \in Slot, NEW r \in requests, InitiateCall(t, r)
      PROVE  session'[u][c] = "none" /\ incoming'[u] # c
  BY <1>1, <1>3 DEF InitiateCall
<1>4. ASSUME NEW v \in User, Starts(v)
      PROVE  session'[u][c] = "none" /\ incoming'[u] # c
  <2>1. PICK d \in Call :
           /\ Placed(d)
           /\ \A x \in User, y \in Call : x # v \/ y # d => session'[x][y] = session[x][y]
           /\ \A x \in User, y \in Call : incoming'[x] = y => incoming[x] = y
    BY <1>4, Begins
  <2> QED BY <1>1, <2>1
<1>5. ASSUME NEW v \in User, HandleRinging(v)
      PROVE  session'[u][c] = "none" /\ incoming'[u] # c
  <2>1. UNCHANGED session /\ (incoming'[u] = incoming[u] \/ incoming'[u] = Head1(v).call)
    BY <1>5 DEF HandleRinging, TypeOK
  <2>2. Placed(Head1(v).call)
    <3>1. 1 \in DOMAIN socket[v]
      BY <1>5, TakeEvent DEF HandleRinging, TypeOK
    <3> QED BY <3>1 DEF EventsAgree, Head1
  <2> QED BY <1>1, <2>1, <2>2
<1> QED BY <1>2, <1>3, <1>4, <1>5, PhoneCases

LEMMA EventsStillAgree ==
  ASSUME TypeOK, PhonesAgree, EventsAgree, RequestsAgree, WritesAgree, TablesAgree, [Next]_vars,
         TypeOK'
  PROVE  EventsAgree'
<1> SUFFICES ASSUME NEW u \in User, NEW i \in DOMAIN socket'[u], NEW c \in Call,
                    socket'[u][i].call = c
             PROVE  /\ Placed(c)'
                    /\ socket'[u][i].type = "ringing" =>
                         /\ u = Callee(c)' /\ session'[u][c] = "none" /\ incoming'[u] # c
                         /\ \A j \in DOMAIN socket'[u] :
                              socket'[u][j].type = "ringing" /\ socket'[u][j].call = c => j = i
                    /\ socket'[u][i].type \in Signal =>
                         u \in Parties(c)' /\ session'[Other(c, u)'][c] # "none"
  <2>1. ASSUME NEW u \in User, NEW i \in DOMAIN socket'[u] PROVE socket'[u][i].call \in Call
    <3>1. socket'[u] \in Seq(Event)
      BY DEF TypeOK
    <3>2. socket'[u][i] \in Event
      BY <3>1, ElementOfSeq, LenProperties
    <3> QED BY <3>2 DEF Event
  <2> QED BY <2>1 DEF EventsAgree, Untouched, Rings
<1>1. /\ socket[u] \in Seq(Event) /\ Len(socket[u]) \in Nat /\ DOMAIN socket[u] = 1..Len(socket[u])
  BY LenProperties DEF TypeOK
<1>2. ASSUME NEW k \in DOMAIN socket[u], socket[u][k].call = c
      PROVE  /\ Placed(c) /\ Placed(c)'
             /\ socket[u][k].type \in Signal => u \in Parties(c)' /\ session'[Other(c, u)'][c] # "none"
             /\ socket[u][k].type = "ringing" =>
                  /\ u = Callee(c)' /\ session'[u][c] = "none"
                  /\ incoming'[u] # c \/ (k = 1 /\ socket'[u] = Tail(socket[u]))
                  /\ \A j \in DOMAIN socket[u] :
                       socket[u][j].type = "ringing" /\ socket[u][j].call = c => j = k
  BY <1>2, EventStays DEF EventsAgree, Rings
<1>3. ASSUME socket'[u] = socket[u] \/ \E e \in Event : socket'[u] = Append(socket[u], e),
             socket[u] # <<>>
      PROVE  socket'[u] # Tail(socket[u])
  <2>1. DOMAIN Tail(socket[u]) = 1..(Len(socket[u]) - 1)
    BY <1>1, <1>3, TakeEvent
  <2>2. DOMAIN socket'[u] = 1..Len(socket[u]) \/ DOMAIN socket'[u] = 1..(Len(socket[u]) + 1)
    BY <1>1, <1>3, AppendEvent
  <2>3. Len(socket[u]) >= 1
    BY <1>1, <1>3, TakeEvent
  <2>4. \A n \in Nat : n >= 1 => n \in 1..n /\ n \in 1..(n + 1) /\ n \notin 1..(n - 1)
    OBVIOUS
  <2>5. Len(socket[u]) \in DOMAIN socket'[u] /\ Len(socket[u]) \notin DOMAIN Tail(socket[u])
    BY <1>1, <2>1, <2>2, <2>3, <2>4
  <2> QED BY <2>5
<1>4. CASE socket'[u] = socket[u]
  <2>1. socket[u] # <<>>
    BY <1>1, <1>4
  <2> QED BY <1>2, <1>3, <1>4, <2>1
<1>5. ASSUME NEW e \in Event, socket'[u] = Append(socket[u], e), NewEvent(u, e)
      PROVE  /\ Placed(c)'
             /\ socket'[u][i].type = "ringing" =>
                  /\ u = Callee(c)' /\ session'[u][c] = "none" /\ incoming'[u] # c
                  /\ \A j \in DOMAIN socket'[u] :
                       socket'[u][j].type = "ringing" /\ socket'[u][j].call = c => j = i
             /\ socket'[u][i].type \in Signal =>
                  u \in Parties(c)' /\ session'[Other(c, u)'][c] # "none"
  <2> DEFINE n == Len(socket[u]) + 1
  <2>1. /\ DOMAIN socket'[u] = 1..n /\ n \in Nat /\ DOMAIN socket[u] = 1..(n - 1)
        /\ \A k \in DOMAIN socket[u] : socket'[u][k] = socket[u][k]
        /\ socket'[u][n] = e
    BY <1>1, <1>5, AppendEvent
  <2> HIDE DEF n
  <2>2. CASE i # n
    <3>1. i \in DOMAIN socket[u] /\ socket[u] # <<>> /\ socket[u][i] = socket'[u][i]
      BY <1>1, <2>1, <2>2
    <3>2. socket'[u] # Tail(socket[u])
      BY <1>3, <1>5, <3>1
    <3>3. Placed(c)
      BY <1>2, <3>1
    <3>4. socket'[u][n].type = "ringing" => socket'[u][n].call # c
      BY <1>5, <2>1, <3>3 DEF NewEvent
    <3>5. \A j \in DOMAIN socket'[u] : j = n \/ (j \in DOMAIN socket[u] /\ socket'[u][j] = socket[u][j])
      BY <2>1
    <3> QED BY <1>2, <3>1, <3>2, <3>4, <3>5
  <2>3. CASE i = n
    <3>1. e.call = c /\ socket'[u][i] = e
      BY <2>1, <2>3
    <3>2. Placed(c)'
      BY <1>5, <3>1 DEF NewEvent
    <3>3. ASSUME e.type = "ringing"
          PROVE  /\ u = Callee(c)' /\ session'[u][c] = "none" /\ incoming'[u] # c
                 /\ \A j \in DOMAIN socket[u] : socket[u][j].call # c
      BY <1>5, <3>1, <3>3, UnplacedStaysNowhere, UnplacedIsNowhere DEF NewEvent
    <3>4. ASSUME e.type \in Signal
          PROVE  u \in Parties(c)' /\ session'[Other(c, u)'][c] # "none"
      <4>1. Placed(c) /\ u \in Parties(c) /\ session[Other(c, u)][c] # "none"
        BY <1>5, <3>1, <3>4 DEF NewEvent
      <4>2. Parties(c)' = Parties(c) /\ Other(c, u)' = Other(c, u)
        BY <4>1, PartiesStay
      <4>3. Other(c, u) \in User
        BY <4>1, PartyFacts
      <4> QED BY <4>1, <4>2, <4>3, SessionsStay
    <3> QED BY <2>1, <2>3, <3>1, <3>2, <3>3, <3>4
  <2> QED BY <2>2, <2>3
<1>6. CASE Handles(u)
  <2>1. /\ DOMAIN socket'[u] = 1..(Len(socket[u]) - 1)
        /\ \A k \in DOMAIN socket'[u] : k + 1 \in DOMAIN socket[u] /\ socket'[u][k] = socket[u][k + 1]
    BY <1>1, <1>6, TakeEvent DEF Handles
  <2>2. i \in Nat /\ i + 1 # 1 /\ i + 1 \in DOMAIN socket[u] /\ socket'[u][i] = socket[u][i + 1]
    BY <2>1
  <2>3. \A j \in DOMAIN socket'[u] : j \in Nat /\ (j + 1 = i + 1 => j = i)
    BY <2>1, <2>2
  <2> QED BY <1>2, <2>1, <2>2, <2>3
<1>7. CASE socket'[u] = <<>>
  BY <1>7
<1> QED BY <1>4, <1>5, <1>6, <1>7, SocketCases

-----------------------------------------------------------------------------
(* What the phones have asked for is true of the calls.                    *)

(* A placed call that does not ring for a phone never will.                *)
LEMMA SilenceStays ==
  ASSUME TypeOK, PhonesAgree, EventsAgree, RequestsAgree, WritesAgree, TablesAgree, [Next]_vars,
         TypeOK', NEW u \in User, NEW c \in Call, Placed(c), ~Ringing(u, c)
  PROVE  ~Ringing(u, c)'
<1>1. /\ incoming[u] # c
      /\ \A i \in DOMAIN socket[u] : socket[u][i].type = "ringing" => socket[u][i].call # c
  BY DEF Ringing, Rings
<1>2. incoming'[u] # c
  <2>1. CASE Keeps
    BY <1>1, <2>1 DEF Keeps
  <2>2. ASSUME NEW t \in Slot, NEW r \in requests, InitiateCall(t, r) PROVE incoming'[u] # c
    BY <1>1, <2>2 DEF InitiateCall
  <2>3. ASSUME NEW v \in User, Starts(v) PROVE incoming'[u] # c
    BY <1>1, <2>3, Begins
  <2>4. ASSUME NEW v \in User, HandleRinging(v) PROVE incoming'[u] # c
    <3>1. 1 \in DOMAIN socket[v] /\ Head1(v) = socket[v][1] /\ Head1(v).type = "ringing"
      BY <2>4, TakeEvent DEF HandleRinging, Head1, TypeOK
    <3>2. incoming'[u] = incoming[u] \/ (u = v /\ incoming'[u] = Head1(v).call)
      BY <2>4 DEF HandleRinging, TypeOK
    <3> QED BY <1>1, <3>1, <3>2
  <2> QED BY <2>1, <2>2, <2>3, <2>4, PhoneCases
<1>3. Rings(u, c)' = {}
  BY RingsStayEmpty DEF Ringing
<1> QED BY <1>2, <1>3 DEF Ringing

(* A request that a step sends.                                            *)
NewRequest(r) ==
  \/ r.kind = "adminEnd"
  \/ r.kind = "initiate" /\ <<r.user, r.to>> \in MayCall
  \/ /\ r.kind \in {"answer", "end"} \cup Signal
     /\ r.user \in User /\ r.call \in Call /\ session[r.user][r.call] # "none"
     /\ r.kind = "answer" => r.user # Caller(r.call)
  \/ /\ r.kind = "decline"
     /\ r.user \in User /\ r.call \in Call /\ shown[r.user].incoming = r.call
     /\ incoming'[r.user] = None /\ UNCHANGED socket

LEMMA RequestCases ==
  ASSUME TypeOK, PhonesAgree, TablesAgree, [Next]_vars, NEW r \in requests'
  PROVE  r \in requests \/ NewRequest(r)
<1>1. ASSUME NEW c \in Call, AdminEnds(c) PROVE r \in requests \/ NewRequest(r)
  BY <1>1 DEF AdminEnds, Send, NewRequest
<1>2. ASSUME NEW u \in User, NEW v \in User, StartCall(u, v) PROVE r \in requests \/ NewRequest(r)
  BY <1>2 DEF StartCall, Send, NewRequest
<1>3. ASSUME NEW u \in User, NEW c \in Call, Captured(u, c) PROVE r \in requests \/ NewRequest(r)
  BY <1>3 DEF Captured, Send, Post, NewRequest, Signal, Caller
<1>4. ASSUME NEW u \in User, DeclineIncomingCall(u) PROVE r \in requests \/ NewRequest(r)
  <2>1. shown[u].incoming \in Call /\ incoming'[u] = None /\ UNCHANGED socket
    BY <1>4 DEF DeclineIncomingCall, TypeOK
  <2>2. r \in requests \/ r = [kind |-> "decline", user |-> u, call |-> shown[u].incoming]
    BY <1>4 DEF DeclineIncomingCall, Send, Post
  <2> QED BY <2>1, <2>2 DEF NewRequest
<1>5. ASSUME NEW u \in User, EndActiveCall(u) PROVE r \in requests \/ NewRequest(r)
  <2>1. shown[u].active \in Call /\ session[u][shown[u].active] # "none"
    BY <1>5 DEF EndActiveCall, TypeOK, PhonesAgree
  <2>2. r \in requests \/ r = [kind |-> "end", user |-> u, call |-> shown[u].active]
    BY <1>5 DEF EndActiveCall, Send, Post
  <2> QED BY <2>1, <2>2 DEF NewRequest
<1>6. ASSUME NEW u \in User, HandleOffer(u) PROVE r \in requests \/ NewRequest(r)
  <2>1. Head1(u).call \in Call
    BY <1>6, PopEvents DEF HandleOffer, Event
  <2>2. \/ r \in requests
        \/ /\ r = [kind |-> "answerSdp", user |-> u, call |-> Head1(u).call]
           /\ session[u][Head1(u).call] \in Running
    BY <1>6 DEF HandleOffer, Send, Post
  <2> QED BY <2>1, <2>2 DEF NewRequest, Running, Signal
<1>7. \/ \E c \in Call : AdminEnds(c)
      \/ \E u, v \in User : StartCall(u, v)
      \/ \E u \in User, c \in Call : Captured(u, c)
      \/ \E u \in User : DeclineIncomingCall(u) \/ EndActiveCall(u) \/ HandleOffer(u)
      \/ requests' \subseteq requests
  BY StepCases, ZenonT(40)
  DEF InitiateCall, Take, Decides, Flush, Commit, RollBack, RelaySignal, RefuseRequest, Refuse,
     StartSession, AnswerIncomingCall, Starts, Render, TapAnswer, AnswerFails, CaptureRefused,
     ConnectionFails, HandleRinging, HandleAnswered, HandleOver, HandleAnswerSdp, Disconnect,
     Reconnect, vars, wire
<1> QED BY <1>1, <1>2, <1>3, <1>4, <1>5, <1>6, <1>7

LEMMA RequestsStillAgree ==
  ASSUME TypeOK, PhonesAgree, EventsAgree, RequestsAgree, WritesAgree, TablesAgree, [Next]_vars,
         TypeOK'
  PROVE  RequestsAgree'
<1> SUFFICES ASSUME NEW r \in requests'
             PROVE  /\ r.kind = "initiate" => <<r.user, r.to>> \in MayCall
                    /\ r.kind \notin {"initiate", "adminEnd"} =>
                         /\ Placed(r.call)' /\ r.user \in Parties(r.call)'
                         /\ ~Ringing(r.user, r.call)'
                    /\ r.kind = "answer" => r.user = Callee(r.call)'
                    /\ r.kind \in Signal => session'[r.user][r.call] # "none"
  BY DEF RequestsAgree
<1>1. CASE r.kind \in {"initiate", "adminEnd"}
  BY <1>1, RequestCases DEF RequestsAgree, NewRequest, Signal
<1>2. ASSUME r.kind \notin {"initiate", "adminEnd"}
      PROVE  /\ Placed(r.call)' /\ r.user \in Parties(r.call)'
             /\ ~Ringing(r.user, r.call)'
             /\ r.kind = "answer" => r.user = Callee(r.call)'
             /\ r.kind \in Signal => session'[r.user][r.call] # "none"
  <2>1. PICK u \in User, c \in Call : u = r.user /\ c = r.call
    BY <1>2 DEF TypeOK, Request, Signal
  <2>2. r \in requests \/ (NewRequest(r) /\ r.kind # "decline") \/ (NewRequest(r) /\ r.kind = "decline")
    BY RequestCases
  <2>3. ASSUME Placed(c), u \in Parties(c), ~Ringing(u, c)',
               r.kind = "answer" => u = Callee(c),
               r.kind \in Signal => session[u][c] # "none"
        PROVE  /\ Placed(c)' /\ u \in Parties(c)' /\ ~Ringing(u, c)'
               /\ r.kind = "answer" => u = Callee(c)'
               /\ r.kind \in Signal => session'[u][c] # "none"
    BY <2>3, PartiesStay, SessionsStay
  <2>4. CASE r \in requests
    <3>1. /\ Placed(c) /\ u \in Parties(c) /\ ~Ringing(u, c)
          /\ r.kind = "answer" => u = Callee(c)
          /\ r.kind \in Signal => session[u][c] # "none"
      BY <1>2, <2>1, <2>4 DEF RequestsAgree
    <3>2. ~Ringing(u, c)'
      BY <3>1, SilenceStays
    <3> QED BY <2>1, <2>3, <3>1, <3>2
  <2>5. CASE NewRequest(r) /\ r.kind # "decline"
    <3>1. session[u][c] # "none" /\ (r.kind = "answer" => u # Caller(c))
      BY <1>2, <2>1, <2>5 DEF NewRequest
    <3>2. Placed(c) /\ u \in Parties(c)
      BY <3>1 DEF PhonesAgree
    <3>3. ~Ringing(u, c)
      BY <3>1, RingingIsUntouched DEF Untouched
    <3>4. ~Ringing(u, c)'
      BY <3>2, <3>3, SilenceStays
    <3>5. r.kind = "answer" => u = Callee(c)
      BY <3>1, <3>2, PartyFacts
    <3> QED BY <2>1, <2>3, <3>1, <3>2, <3>4, <3>5
  <2>6. CASE NewRequest(r) /\ r.kind = "decline"
    <3>1. shown[u].incoming = c /\ incoming'[u] = None /\ UNCHANGED socket
      BY <1>2, <2>1, <2>6 DEF NewRequest, Signal
    <3>2. Placed(c) /\ u \in Parties(c)
      BY <3>1, PartyFacts DEF PhonesAgree
    <3>3. Rings(u, c) = {}
      BY <3>1 DEF PhonesAgree
    <3>4. ~Ringing(u, c)'
      BY <3>1, <3>3, CallsAssumption DEF Ringing, Rings
    <3> QED BY <2>1, <2>3, <2>6, <3>2, <3>4 DEF Signal
  <2> QED BY <2>2, <2>4, <2>5, <2>6
<1> QED BY <1>1, <1>2 DEF Signal

-----------------------------------------------------------------------------
(* What the service is about to write, and what it has written.            *)

(* Where the work in a slot comes from.                                    *)
LEMMA OpenCases ==
  ASSUME TypeOK, RequestsAgree, TablesAgree, [Next]_vars, NEW t \in Slot, open'[t] # Idle
  PROVE  \/ open'[t] = open[t]
         \/ /\ Flush(t) /\ open[t] # Idle /\ open'[t] = [open[t] EXCEPT !.flushed = TRUE]
            /\ open'[t].call = open[t].call /\ open'[t].status = open[t].status
            /\ open'[t].join = open[t].join /\ open'[t].tell = open[t].tell
            /\ open'[t].type = open[t].type /\ open'[t].flushed
         \/ \E r \in requests, w \in Work : Decides(t, r, w) /\ open'[t] = w
         \/ \E r \in requests, c \in Call :
              /\ PlacedBy(t, r, c)
              /\ open'[t].call = c /\ open'[t].status = "ringing" /\ open'[t].join = {r.user}
              /\ open'[t].type = "ringing" /\ open'[t].flushed
<1>1. ASSUME NEW s \in Slot, NEW r \in requests, InitiateCall(s, r)
      PROVE  \/ open'[t] = open[t]
             \/ \E c \in Call :
                  /\ s = t /\ PlacedBy(t, r, c)
                  /\ open'[t].call = c /\ open'[t].status = "ringing" /\ open'[t].join = {r.user}
                  /\ open'[t].type = "ringing" /\ open'[t].flushed
  <2>1. PICK c \in Call : PlacedBy(s, r, c)
    BY <1>1, Places
  <2>2. open'[t] = IF t = s THEN [call |-> c, status |-> "ringing", join |-> {r.user},
                                 tell |-> {r.to}, type |-> "ringing", flushed |-> TRUE]
                  ELSE open[t]
    BY <2>1 DEF PlacedBy, TypeOK
  <2> QED BY <2>1, <2>2
<1>2. ASSUME NEW s \in Slot, NEW r \in requests, NEW w \in Work, Decides(s, r, w)
      PROVE  open'[t] = open[t] \/ (s = t /\ open'[t] = w)
  BY <1>2 DEF Decides, TypeOK
<1>3. ASSUME NEW s \in Slot, Flush(s)
      PROVE  \/ open'[t] = open[t]
             \/ s = t /\ open[t] # Idle /\ open'[t] = [open[t] EXCEPT !.flushed = TRUE]
  BY <1>3 DEF Flush, TypeOK
<1>4. ASSUME open[t] # Idle, open'[t] = [open[t] EXCEPT !.flushed = TRUE]
      PROVE  /\ open'[t].call = open[t].call /\ open'[t].status = open[t].status
             /\ open'[t].join = open[t].join /\ open'[t].tell = open[t].tell
             /\ open'[t].type = open[t].type /\ open'[t].flushed
  <2>1. open[t] \in Work
    BY <1>4, OpenType
  <2> QED BY <1>4, <2>1 DEF Work
<1>5. ASSUME NEW s \in Slot, Commit(s) \/ RollBack(s) PROVE open'[t] = open[t]
  BY <1>5 DEF Commit, RollBack, TypeOK
<1>6. \/ \E s \in Slot, r \in requests : InitiateCall(s, r) \/ \E w \in Work : Decides(s, r, w)
      \/ \E s \in Slot : Flush(s) \/ Commit(s) \/ RollBack(s)
      \/ UNCHANGED open
  BY StepCases DEF RelaySignal, RefuseRequest, Refuse, AdminEnds, StartCall, StartSession,
     AnswerIncomingCall, Starts, Render, TapAnswer, AnswerFails, DeclineIncomingCall,
     EndActiveCall, Captured, CaptureRefused, ConnectionFails, HandleRinging, HandleAnswered,
     HandleOver, HandleOffer, HandleAnswerSdp, Disconnect, Reconnect, vars
<1> QED BY <1>1, <1>2, <1>3, <1>4, <1>5, <1>6

(* Work stays in its slot until it is committed or rolled back.            *)
LEMMA OpenStays ==
  ASSUME TypeOK, RequestsAgree, TablesAgree, [Next]_vars, NEW t \in Slot, open[t] # Idle
  PROVE  \/ Commit(t) \/ RollBack(t)
         \/ /\ open'[t] # Idle
            /\ open'[t].call = open[t].call /\ open'[t].status = open[t].status
<1>1. CASE open'[t] = Idle
  <2>1. ASSUME NEW s \in Slot, NEW r \in requests, InitiateCall(s, r) PROVE open'[t] = open[t]
    <3>1. s # t
      BY <2>1 DEF InitiateCall, Write
    <3> QED BY <2>1, <3>1 DEF InitiateCall, Write, TypeOK
  <2>2. ASSUME NEW s \in Slot, NEW r \in requests, NEW w \in Work, Decides(s, r, w)
        PROVE  open'[t] = open[t]
    BY <2>2 DEF Decides, TypeOK
  <2>3. ASSUME NEW s \in Slot, Flush(s) PROVE open'[t] # Idle
    <3>1. open'[t] \in Work \/ open'[t] = open[t]
      BY <2>3, OpenType DEF Flush, TypeOK
    <3>2. open[t] \in Work
      BY OpenType
    <3>3. \A w \in Work : w.flushed \in BOOLEAN /\ w # Idle
      <4>1. DOMAIN Idle = {"call"} /\ \A w \in Work : "flushed" \in DOMAIN w
        BY DEF Idle, Work
      <4> QED BY <4>1 DEF Work
    <3> QED BY <3>1, <3>2, <3>3
  <2>4. ASSUME NEW s \in Slot, Commit(s) \/ RollBack(s)
        PROVE  Commit(t) \/ RollBack(t) \/ open'[t] = open[t]
    <3>1. open \in [Slot -> Work \cup {Idle}]
      BY DEF TypeOK
    <3> QED BY <2>4, <3>1 DEF Commit, RollBack
  <2>5. \/ \E s \in Slot, r \in requests : InitiateCall(s, r) \/ \E w \in Work : Decides(s, r, w)
        \/ \E s \in Slot : Flush(s) \/ Commit(s) \/ RollBack(s)
        \/ UNCHANGED open
    BY StepCases DEF RelaySignal, RefuseRequest, Refuse, AdminEnds, StartCall, StartSession,
       AnswerIncomingCall, Starts, Render, TapAnswer, AnswerFails, DeclineIncomingCall,
       EndActiveCall, Captured, CaptureRefused, ConnectionFails, HandleRinging, HandleAnswered,
       HandleOver, HandleOffer, HandleAnswerSdp, Disconnect, Reconnect, vars
  <2> QED BY <1>1, <2>1, <2>2, <2>3, <2>4, <2>5
<1>2. CASE open'[t] # Idle
  BY <1>2, OpenCases DEF Decides, PlacedBy
<1> QED BY <1>1, <1>2

LEMMA WritesStillAgree ==
  ASSUME TypeOK, RequestsAgree, WritesAgree, TablesAgree, [Next]_vars, TypeOK'
  PROVE  WritesAgree'
<1> SUFFICES ASSUME NEW t \in Slot, open'[t] # Idle, NEW c \in Call, open'[t].call = c
             PROVE  /\ Placed(c)'
                    /\ open'[t].status # "absent"
                    /\ open'[t].status = "ringing" => Caller(c)' \in open'[t].join
                    /\ open'[t].status # "ringing" => status'[c] # "absent"
                    /\ open'[t].status = "active" => Callee(c)' \in open'[t].join
                    /\ open'[t].type = "ringing" => open'[t].flushed
                    /\ open'[t].status \in Over => open'[t].type \in {"declined", "over"}
  <2>1. ASSUME NEW t \in Slot, open'[t] # Idle PROVE open'[t].call \in Call
    BY <2>1 DEF TypeOK, Work
  <2> QED BY <2>1 DEF WritesAgree, Placed, Caller, Callee
<1>1. ASSUME open[t] # Idle, open[t].call = c
      PROVE  /\ Placed(c)' /\ open[t].status # "absent"
             /\ open[t].status = "ringing" => Caller(c)' \in open[t].join
             /\ open[t].status # "ringing" => status'[c] # "absent"
             /\ open[t].status = "active" => Callee(c)' \in open[t].join
             /\ open[t].type = "ringing" => open[t].flushed
             /\ open[t].status \in Over => open[t].type \in {"declined", "over"}
  <2>1. /\ Placed(c) /\ open[t].status # "absent"
        /\ open[t].status = "ringing" => Caller(c) \in open[t].join
        /\ open[t].status # "ringing" => status[c] # "absent"
        /\ open[t].status = "active" => Callee(c) \in open[t].join
        /\ open[t].type = "ringing" => open[t].flushed
        /\ open[t].status \in Over => open[t].type \in {"declined", "over"}
    BY <1>1 DEF WritesAgree
  <2> QED BY <2>1, PartiesStay, TablesStay
<1>2. CASE open'[t] = open[t]
  BY <1>1, <1>2
<1>3. CASE /\ open[t] # Idle
           /\ open'[t].call = open[t].call /\ open'[t].status = open[t].status
           /\ open'[t].join = open[t].join /\ open'[t].type = open[t].type /\ open'[t].flushed
  BY <1>1, <1>3
<1>4. ASSUME NEW r \in requests, NEW w \in Work, Decides(t, r, w), open'[t] = w
      PROVE  /\ Placed(c)'
             /\ w.status \notin {"absent", "ringing"} /\ status'[c] # "absent"
             /\ w.status = "active" => Callee(c)' \in w.join
             /\ w.type # "ringing"
             /\ w.status \in Over => w.type \in {"declined", "over"}
  <2>1. w.call = c
    BY <1>4
  <2>2. Placed(c) /\ status[c] # "absent" /\ w.status \notin {"absent", "ringing"}
        /\ w.type # "ringing" /\ (w.status \in Over => w.type \in {"declined", "over"})
    BY <1>4, <2>1 DEF Decides, TablesAgree
  <2>3. Placed(c)' /\ Callee(c)' = Callee(c) /\ status'[c] # "absent"
    BY <2>2, PartiesStay, TablesStay
  <2>4. w.status = "active" => Callee(c) \in w.join
    BY <1>4, <2>1 DEF Decides, RequestsAgree
  <2> QED BY <2>2, <2>3, <2>4
<1>5. ASSUME NEW r \in requests, PlacedBy(t, r, c),
             open'[t].status = "ringing", open'[t].join = {r.user},
             open'[t].type = "ringing", open'[t].flushed
      PROVE  Placed(c)' /\ Caller(c)' \in open'[t].join
  BY <1>5 DEF PlacedBy
<1> QED BY <1>2, <1>3, <1>4, <1>5, OpenCases DEF Over

LEMMA UndoneStays ==
  ASSUME TypeOK, TablesAgree, [Next]_vars
  PROVE  undone \subseteq undone'
<1>1. ASSUME NEW t \in Slot, RollBack(t) PROVE undone \subseteq undone'
  BY <1>1 DEF RollBack
<1>2. (\E t \in Slot : RollBack(t)) \/ UNCHANGED undone
  BY StepCases DEF InitiateCall, Decides, Flush, Commit, RelaySignal, RefuseRequest, Refuse,
     AdminEnds, StartCall, Starts, StartSession, AnswerIncomingCall, Render, TapAnswer,
     AnswerFails, DeclineIncomingCall, EndActiveCall, Captured, CaptureRefused, ConnectionFails,
     HandleRinging, HandleAnswered, HandleOver, HandleOffer, HandleAnswerSdp, Disconnect,
     Reconnect, vars, server
<1> QED BY <1>1, <1>2

LEMMA TablesStillAgree ==
  ASSUME TypeOK, RequestsAgree, WritesAgree, TablesAgree, [Next]_vars
  PROVE  TablesAgree'
<1> SUFFICES ASSUME NEW c \in Call
             PROVE  /\ status'[c] # "absent" => Placed(c)' /\ Caller(c)' \in joined'[c]
                    /\ status'[c] = "active" => Callee(c)' \in joined'[c]
                    /\ Placed(c)' =>
                         \/ status'[c] # "absent"
                         \/ c \in undone'
                         \/ \E t \in Slot : /\ open'[t] # Idle
                                            /\ open'[t].call = c /\ open'[t].status = "ringing"
  BY DEF TablesAgree
<1>1. /\ status[c] # "absent" => Placed(c) /\ Caller(c) \in joined[c]
      /\ status[c] = "active" => Callee(c) \in joined[c]
      /\ Placed(c) => \/ status[c] # "absent"
                      \/ c \in undone
                      \/ \E t \in Slot : open[t] # Idle /\ open[t].call = c /\ open[t].status = "ringing"
  BY DEF TablesAgree
<1>2. /\ Placed(c) => Placed(c)' /\ Caller(c)' = Caller(c) /\ Callee(c)' = Callee(c)
      /\ status[c] # "absent" => status'[c] # "absent"
      /\ joined[c] \subseteq joined'[c]
  BY PartiesStay, TablesStay
<1>3. ASSUME NEW t \in Slot, Commit(t), status'[c] # status[c]
      PROVE  /\ open[t] # Idle /\ open[t].call = c /\ status'[c] = open[t].status
             /\ open[t].join \subseteq joined'[c]
  BY <1>3 DEF Commit, TypeOK
<1>4. ASSUME NEW t \in Slot, Commit(t), status'[c] # status[c]
      PROVE  /\ Placed(c) /\ Caller(c) \in joined'[c]
             /\ status'[c] = "active" => Callee(c) \in joined'[c]
  <2>1. /\ Placed(c)
        /\ open[t].status = "ringing" => Caller(c) \in open[t].join
        /\ open[t].status # "ringing" => status[c] # "absent"
        /\ open[t].status = "active" => Callee(c) \in open[t].join
    BY <1>3, <1>4 DEF WritesAgree
  <2> QED BY <1>1, <1>2, <1>3, <1>4, <2>1
<1>5. (\E t \in Slot : Commit(t)) \/ status'[c] = status[c]
  BY TableCases DEF InitiateCall, server
<1>6. /\ status'[c] # "absent" => Placed(c)' /\ Caller(c)' \in joined'[c]
      /\ status'[c] = "active" => Callee(c)' \in joined'[c]
  BY <1>1, <1>2, <1>4, <1>5
<1>7. ASSUME Placed(c)
      PROVE  \/ status'[c] # "absent"
             \/ c \in undone'
             \/ \E t \in Slot : open'[t] # Idle /\ open'[t].call = c /\ open'[t].status = "ringing"
  <2>1. CASE status[c] # "absent"
    BY <1>2, <2>1
  <2>2. ASSUME NEW t \in Slot, open[t] # Idle, open[t].call = c, open[t].status = "ringing"
        PROVE  \/ status'[c] # "absent"
               \/ c \in undone'
               \/ open'[t] # Idle /\ open'[t].call = c /\ open'[t].status = "ringing"
    <3>1. Commit(t) => status'[c] = "ringing"
      BY <2>2 DEF Commit, TypeOK
    <3>2. RollBack(t) => c \in undone'
      BY <2>2 DEF RollBack
    <3> QED BY <2>2, <3>1, <3>2, OpenStays
  <2>3. undone \subseteq undone'
    BY UndoneStays
  <2> QED BY <1>1, <1>7, <2>1, <2>2, <2>3
<1>8. ASSUME ~Placed(c), Placed(c)'
      PROVE  \E t \in Slot : open'[t] # Idle /\ open'[t].call = c /\ open'[t].status = "ringing"
  <2>1. party' # party
    BY <1>8 DEF Placed
  <2>2. PICK t \in Slot, r \in requests : InitiateCall(t, r)
    BY <2>1, TableCases DEF Commit, server
  <2>3. PICK d \in Call : PlacedBy(t, r, d)
    BY <2>2, Places
  <2>4. c = d
    BY <1>8, <2>3 DEF PlacedBy, Placed, TypeOK
  <2> DEFINE w == [call |-> c, status |-> "ringing", join |-> {r.user}, tell |-> {r.to},
                   type |-> "ringing", flushed |-> TRUE]
  <2>5. open'[t] = w
    BY <2>3, <2>4 DEF PlacedBy, TypeOK
  <2>6. w.call = c /\ w.status = "ringing" /\ "flushed" \in DOMAIN w /\ "flushed" \notin DOMAIN Idle
    BY DEF Idle
  <2> HIDE DEF w
  <2> QED BY <2>5, <2>6
<1> QED BY <1>6, <1>7, <1>8

-----------------------------------------------------------------------------
(* The end of a call reaches the phone that rings for it.                  *)

LEMMA MissedStays ==
  ASSUME TypeOK, RequestsAgree, TablesAgree, [Next]_vars
  PROVE  missed \subseteq missed'
<1>1. ASSUME NEW t \in Slot, NEW r \in requests, InitiateCall(t, r) PROVE missed \subseteq missed'
  BY <1>1 DEF InitiateCall, Notify
<1>2. (\E t \in Slot, r \in requests : InitiateCall(t, r)) \/ missed \subseteq missed'
  BY StepCases DEF Notify, Decides, Flush, Commit, RollBack, RelaySignal, RefuseRequest, Refuse,
     AdminEnds, StartCall, StartSession, AnswerIncomingCall, Starts, Render, TapAnswer,
     AnswerFails, DeclineIncomingCall, EndActiveCall, Captured, CaptureRefused, ConnectionFails,
     HandleRinging, HandleAnswered, HandleOver, HandleOffer, HandleAnswerSdp, Disconnect,
     Reconnect, vars, wire
<1> QED BY <1>1, <1>2

LEMMA ToldStays ==
  ASSUME TypeOK, PhonesAgree, RequestsAgree, WritesAgree, TablesAgree, [Next]_vars,
         NEW u \in User \ missed', NEW c \in Call \ unseen'[u], Placed(c), Told(u, c), Ringing(u, c)'
  PROVE  Told(u, c)'
<1>1. /\ socket[u] \in Seq(Event) /\ Len(socket[u]) \in Nat /\ DOMAIN socket[u] = 1..Len(socket[u])
  BY LenProperties DEF TypeOK
<1>2. PICK i \in DOMAIN socket[u] :
        /\ socket[u][i].type \in {"declined", "over"} /\ socket[u][i].call = c
        /\ \A j \in DOMAIN socket[u] :
             socket[u][j].type = "ringing" /\ socket[u][j].call = c => j < i
  BY DEF Told, Ends, Rings
<1> SUFFICES \E k \in DOMAIN socket'[u] :
               /\ socket'[u][k].type \in {"declined", "over"} /\ socket'[u][k].call = c
               /\ \A j \in DOMAIN socket'[u] :
                    socket'[u][j].type = "ringing" /\ socket'[u][j].call = c => j < k
  BY DEF Told, Ends, Rings
<1>3. CASE socket'[u] = socket[u]
  BY <1>2, <1>3
<1>4. ASSUME NEW e \in Event, socket'[u] = Append(socket[u], e), NewEvent(u, e)
      PROVE  /\ i \in DOMAIN socket'[u]
             /\ socket'[u][i].type \in {"declined", "over"} /\ socket'[u][i].call = c
             /\ \A j \in DOMAIN socket'[u] :
                  socket'[u][j].type = "ringing" /\ socket'[u][j].call = c => j < i
  <2> DEFINE n == Len(socket[u]) + 1
  <2>1. /\ DOMAIN socket'[u] = 1..n /\ n \in Nat /\ DOMAIN socket[u] = 1..(n - 1)
        /\ \A k \in DOMAIN socket[u] : socket'[u][k] = socket[u][k]
        /\ socket'[u][n] = e
    BY <1>1, <1>4, AppendEvent
  <2> HIDE DEF n
  <2>2. e.type = "ringing" => e.call # c
    BY <1>4 DEF NewEvent
  <2>3. \A j \in DOMAIN socket'[u] : j = n \/ (j \in DOMAIN socket[u] /\ socket'[u][j] = socket[u][j])
    BY <2>1
  <2>4. i \in DOMAIN socket'[u]
    BY <1>2, <2>1
  <2> QED BY <1>2, <2>1, <2>2, <2>3, <2>4
<1>5. CASE Handles(u)
  <2>1. /\ DOMAIN socket'[u] = 1..(Len(socket[u]) - 1)
        /\ \A k \in DOMAIN socket'[u] : k + 1 \in DOMAIN socket[u] /\ socket'[u][k] = socket[u][k + 1]
    BY <1>1, <1>5, TakeEvent DEF Handles
  <2>2. \A j \in DOMAIN socket'[u] :
          j \in Nat /\ (socket'[u][j].type = "ringing" /\ socket'[u][j].call = c => j + 1 < i)
    BY <1>2, <2>1
  <2>3. i # 1
    <3>1. ASSUME i = 1 PROVE FALSE
      <4>1. incoming'[u] # c
        BY <1>2, <1>5, <3>1 DEF Handles, Head1
      <4>2. Rings(u, c)' = {}
        BY <2>2, <3>1 DEF Rings
      <4> QED BY <4>1, <4>2 DEF Ringing
    <3> QED BY <3>1
  <2>4. i \in Nat /\ i - 1 \in DOMAIN socket'[u] /\ (i - 1) + 1 = i
    BY <1>1, <1>2, <2>1, <2>3
  <2>5. socket'[u][i - 1] = socket[u][i]
    BY <2>1, <2>4
  <2>6. \A j \in DOMAIN socket'[u] :
          socket'[u][j].type = "ringing" /\ socket'[u][j].call = c => j < i - 1
    BY <2>2, <2>4
  <2> QED BY <1>2, <2>4, <2>5, <2>6
<1>6. ASSUME u \in missed' PROVE FALSE
  BY <1>6
<1> QED BY <1>3, <1>4, <1>5, <1>6, SocketCases

(* The end that a transaction pushes is behind the ring.                   *)
LEMMA FlushTells ==
  ASSUME TypeOK, WritesAgree, NEW t \in Slot, Flush(t), NEW c \in Call, open[t].call = c,
         open[t].status \in Over, NEW u \in User \ missed', u \in open[t].tell
  PROVE  Told(u, c)'
<1>1. PICK type \in {"declined", "over"}, tell \in SUBSET User :
        u \in tell /\ Notify(tell, type, c)
  <2>1. open[t].tell \in SUBSET User /\ open[t].type \in {"declined", "over"}
    BY OpenType DEF Flush, WritesAgree
  <2>2. Notify(open[t].tell, open[t].type, c)
    BY DEF Flush
  <2> QED BY <2>1, <2>2
<1>2. PICK e : Sent(tell, type, c, e)
  BY <1>1, NotifyEvents
<1>3. e \in Event /\ e.type = type /\ e.call = c /\ socket'[u] = Append(socket[u], e)
  BY <1>1, <1>2 DEF Sent
<1>4. socket[u] \in Seq(Event)
  BY DEF TypeOK
<1>5. PICK n \in Nat : n = Len(socket[u]) + 1
  BY <1>4, LenProperties
<1>6. DOMAIN socket'[u] = 1..n /\ n \in 1..n /\ socket'[u][n] = e
  BY <1>3, <1>4, <1>5, AppendEvent
<1>7. \A j \in Rings(u, c)' : j < n
  <2>1. ASSUME NEW j \in Rings(u, c)' PROVE j < n
    <3>1. j \in 1..n /\ socket'[u][j].type = "ringing"
      BY <1>6 DEF Rings
    <3>2. j # n
      BY <1>3, <1>6, <3>1
    <3> QED BY <3>1, <3>2
  <2> QED BY <2>1
<1>8. n \in Ends(u, c)'
  BY <1>3, <1>6 DEF Ends
<1> QED BY <1>7, <1>8 DEF Told

LEMMA RingsAreStillEnded ==
  ASSUME TypeOK, PhonesAgree, EventsAgree, RequestsAgree, WritesAgree, TablesAgree, RingIsEnded,
         [Next]_vars, TypeOK'
  PROVE  RingIsEnded'
<1> SUFFICES ASSUME NEW u \in User \ missed', NEW c \in Call \ unseen'[u], Ringing(u, c)'
             PROVE  /\ status'[c] \in Over => Told(u, c)'
                    /\ \A t \in Slot :
                         open'[t] # Idle /\ open'[t].call = c /\ open'[t].status \in Over =>
                           u \in open'[t].tell /\ (open'[t].flushed => Told(u, c)')
  BY DEF RingIsEnded
<1>1. status'[c] # status[c] =>
        \E t \in Slot : /\ Commit(t) /\ open[t] # Idle /\ open[t].flushed
                        /\ open[t].call = c /\ status'[c] = open[t].status
  <2>1. ASSUME NEW t \in Slot, Commit(t), status'[c] # status[c]
        PROVE  /\ open[t] # Idle /\ open[t].flushed
               /\ open[t].call = c /\ status'[c] = open[t].status
    BY <2>1 DEF Commit, TypeOK
  <2> QED BY <2>1, TableCases DEF InitiateCall, server
<1>2. CASE ~Placed(c)
  <2>1. status[c] = "absent" /\ \A t \in Slot : open[t] # Idle => open[t].call # c
    BY <1>2 DEF TablesAgree, WritesAgree
  <2>2. status'[c] \notin Over
    BY <1>1, <2>1 DEF Over
  <2>3. ASSUME NEW t \in Slot, open'[t] # Idle, open'[t].call = c PROVE open'[t].status \notin Over
    <3>1. ASSUME NEW r \in requests, NEW w \in Work, Decides(t, r, w), open'[t] = w
          PROVE  FALSE
      BY <2>1, <2>3, <3>1 DEF Decides
    <3> QED BY <2>1, <2>3, <3>1, OpenCases DEF Over
  <2> QED BY <2>2, <2>3
<1>3. CASE Placed(c)
  <2>1. Ringing(u, c)
    BY <1>3, SilenceStays
  <2>2. u = Callee(c) /\ u \in User \ missed /\ c \notin unseen[u]
    BY <2>1, RingingIsUntouched, MissedStays, ViewCases DEF Untouched
  <2>3. /\ status[c] \in Over => Told(u, c)
        /\ \A t \in Slot : open[t] # Idle /\ open[t].call = c /\ open[t].status \in Over =>
             u \in open[t].tell /\ (open[t].flushed => Told(u, c))
    BY <2>1, <2>2 DEF RingIsEnded
  <2>4. Told(u, c) => Told(u, c)'
    BY <1>3, ToldStays
  <2>5. status'[c] \in Over => Told(u, c)'
    BY <1>1, <2>3, <2>4
  <2>6. ASSUME NEW t \in Slot, open'[t] # Idle, open'[t].call = c, open'[t].status \in Over
        PROVE  u \in open'[t].tell /\ (open'[t].flushed => Told(u, c)')
    <3>1. CASE open'[t] = open[t]
      BY <2>3, <2>4, <2>6, <3>1
    <3>2. CASE /\ Flush(t) /\ open[t] # Idle
               /\ open'[t].call = open[t].call /\ open'[t].status = open[t].status
               /\ open'[t].tell = open[t].tell
      <4>1. u \in open[t].tell
        BY <2>3, <2>6, <3>2
      <4>2. Told(u, c)'
        BY <2>6, <3>2, <4>1, FlushTells
      <4> QED BY <3>2, <4>1, <4>2
    <3>3. ASSUME NEW r \in requests, NEW w \in Work, Decides(t, r, w), open'[t] = w
          PROVE  u \in w.tell /\ ~w.flushed
      <4>1. ~w.flushed /\ w.call = c /\ r.call = c
        BY <2>6, <3>3 DEF Decides
      <4>2. CASE w.tell = Parties(c)
        BY <1>3, <2>2, <4>1, <4>2, PartyFacts
      <4>3. CASE /\ r.kind \in {"decline", "end"} /\ r.user \in Parties(c)
                 /\ w.tell = {Other(c, r.user)}
        <5>1. ~Ringing(r.user, c)
          BY <4>1, <4>3 DEF RequestsAgree
        <5>2. r.user # u
          BY <2>1, <5>1
        <5> QED BY <1>3, <2>2, <4>1, <4>3, <5>2, PartyFacts
      <4> QED BY <2>6, <3>3, <4>1, <4>2, <4>3 DEF Decides
    <3>4. CASE open'[t].status = "ringing"
      BY <2>6, <3>4 DEF Over
    <3>5. \/ open'[t] = open[t]
          \/ /\ Flush(t) /\ open[t] # Idle
             /\ open'[t].call = open[t].call /\ open'[t].status = open[t].status
             /\ open'[t].tell = open[t].tell
          \/ \E r \in requests, w \in Work : Decides(t, r, w) /\ open'[t] = w
          \/ open'[t].status = "ringing"
      BY <2>6, OpenCases
    <3>6. (\E r \in requests, w \in Work : Decides(t, r, w) /\ open'[t] = w)
            => u \in open'[t].tell /\ ~open'[t].flushed
      BY <3>3
    <3> QED BY <3>1, <3>2, <3>4, <3>5, <3>6
  <2> QED BY <2>5, <2>6
<1> QED BY <1>2, <1>3

-----------------------------------------------------------------------------
(* Media needs both parties.                                               *)

(* A connection is negotiated by an offer or an answer from the other side.*)
LEMMA StableCases ==
  ASSUME TypeOK, PhonesAgree, TablesAgree, [Next]_vars, NEW u \in User, NEW c \in Call,
         session'[u][c] = "stable"
  PROVE  \/ session[u][c] = "stable"
         \/ /\ session[u][c] # "none"
            /\ \E i \in DOMAIN socket[u] : socket[u][i].type \in Signal /\ socket[u][i].call = c
<1>1. ASSUME NEW v \in User, EndLocal(v) PROVE session[u][c] = "stable"
  BY <1>1 DEF EndLocal, TypeOK
<1>2. ASSUME NEW v \in User, Starts(v)
      PROVE  session[u][c] = "stable"
  BY <1>2, Begins
<1>3. ASSUME NEW v \in User, NEW d \in Call, Captured(v, d) \/ CaptureRefused(v, d)
      PROVE  session[u][c] = "stable"
  <2>1. PICK state \in {"offered", "made", "closed"} : session' = [session EXCEPT ![v][d] = state]
    BY <1>3 DEF Captured, CaptureRefused
  <2> QED BY <2>1 DEF TypeOK
<1>4. ASSUME NEW v \in User, HandleOffer(v) \/ HandleAnswerSdp(v), session[u][c] # "stable"
      PROVE  /\ session[u][c] # "none"
             /\ \E i \in DOMAIN socket[u] : socket[u][i].type \in Signal /\ socket[u][i].call = c
  <2> DEFINE d == Head1(v).call
  <2>1. /\ 1 \in DOMAIN socket[v] /\ socket[v][1].type \in Signal /\ socket[v][1].call = d /\ d \in Call
    BY <1>4, TakeEvent DEF HandleOffer, HandleAnswerSdp, Head1, TypeOK, Signal, Event
  <2>2. \/ session' = session
        \/ session[v][d] \in Running /\ session' = [session EXCEPT ![v][d] = "stable"]
    BY <1>4 DEF HandleOffer, HandleAnswerSdp, Running
  <2> HIDE DEF d
  <2>3. v = u /\ d = c /\ session[u][c] \in Running
    <3>1. session \in [User -> [Call -> SessionState]]
      BY DEF TypeOK
    <3> QED BY <1>4, <2>1, <2>2, <3>1
  <2> QED BY <2>1, <2>3 DEF Running
<1>5. \/ \E v \in User : Starts(v)
      \/ \E v \in User, d \in Call : Captured(v, d) \/ CaptureRefused(v, d)
      \/ \E v \in User : HandleOffer(v) \/ HandleAnswerSdp(v)
      \/ \E v \in User : EndLocal(v)
      \/ UNCHANGED session
  BY StepCases, ZenonT(40)
  DEF InitiateCall, Decides, Flush, Commit, RollBack, RelaySignal, RefuseRequest, Refuse,
     Render, TapAnswer, AnswerFails, AdminEnds, StartCall, DeclineIncomingCall, EndActiveCall,
     ConnectionFails, HandleRinging, HandleAnswered, HandleOver, Disconnect, Reconnect, vars,
     phone, view
<1> QED BY <1>1, <1>2, <1>3, <1>4, <1>5

LEMMA MediaStillNeedsBothParties ==
  ASSUME TypeOK, PhonesAgree, EventsAgree, RequestsAgree, WritesAgree, TablesAgree,
         MediaNeedsBothParties, [Next]_vars
  PROVE  MediaNeedsBothParties'
<1> SUFFICES ASSUME NEW u \in User, NEW c \in Call, session'[u][c] = "stable",
                    NEW v \in Parties(c)'
             PROVE  session'[v][c] # "none"
  BY DEF MediaNeedsBothParties
<1>1. Placed(c) /\ u \in Parties(c)
  BY StableCases DEF PhonesAgree
<1>2. v \in Parties(c) /\ v \in User
  BY <1>1, PartiesStay, PartyFacts
<1>3. session[v][c] # "none"
  <2>1. CASE session[u][c] = "stable"
    BY <1>2, <2>1 DEF MediaNeedsBothParties
  <2>2. CASE /\ session[u][c] # "none"
             /\ \E i \in DOMAIN socket[u] : socket[u][i].type \in Signal /\ socket[u][i].call = c
    <3>1. session[Other(c, u)][c] # "none"
      BY <2>2 DEF EventsAgree
    <3>2. v = u \/ v = Other(c, u)
      BY <1>1, <1>2, PartyFacts
    <3> QED BY <2>2, <3>1, <3>2
  <2> QED BY <2>1, <2>2, StableCases
<1> QED BY <1>2, <1>3, SessionsStay

-----------------------------------------------------------------------------
(* The theorems.                                                           *)

LEMMA InitInvariant == Init => IInv
<1> SUFFICES ASSUME Init PROVE IInv
  OBVIOUS
<1>1. TypeOK
  <2>1. <<>> \in Seq(Event)
    BY EmptySeq
  <2>2. 0 \in 0 .. MaxInterruptions
    BY CallsAssumption
  <2> QED BY <2>1, <2>2 DEF Init, TypeOK, Status, SessionState
<1>2. \A u \in User : DOMAIN socket[u] = {}
  BY DEF Init
<1>3. \A u \in User, c \in Call : /\ session[u][c] = "none" /\ dialled[u] # c
                                  /\ incoming[u] # c /\ active[u] # c
                                  /\ shown[u].incoming # c /\ shown[u].active # c
                                  /\ c \notin answering[u]
  BY CallsAssumption DEF Init
<1>4. PhonesAgree
  BY <1>3 DEF PhonesAgree
<1>5. EventsAgree
  BY <1>2 DEF EventsAgree
<1>6. RequestsAgree /\ WritesAgree /\ TablesAgree
  BY DEF Init, RequestsAgree, WritesAgree, TablesAgree, Placed
<1>7. RingIsEnded
  BY <1>2, <1>3 DEF RingIsEnded, Ringing, Rings
<1>8. MediaNeedsBothParties
  BY <1>3 DEF MediaNeedsBothParties
<1> QED BY <1>1, <1>4, <1>5, <1>6, <1>7, <1>8 DEF IInv

LEMMA StepKeepsInvariant == IInv /\ [Next]_vars => IInv'
<1> SUFFICES ASSUME IInv, [Next]_vars PROVE IInv'
  OBVIOUS
<1>1. TypeOK /\ PhonesAgree /\ EventsAgree /\ RequestsAgree /\ WritesAgree /\ TablesAgree
      /\ RingIsEnded /\ MediaNeedsBothParties
  BY DEF IInv
<1>2. TypeOK'
  BY <1>1, StepKeepsType
<1>3. PhonesAgree' /\ EventsAgree'
  BY <1>1, <1>2, PhonesStillAgree, EventsStillAgree
<1>4. RequestsAgree' /\ WritesAgree' /\ TablesAgree'
  BY <1>1, <1>2, RequestsStillAgree, WritesStillAgree, TablesStillAgree
<1>5. RingIsEnded' /\ MediaNeedsBothParties'
  BY <1>1, <1>2, RingsAreStillEnded, MediaStillNeedsBothParties
<1> QED BY <1>2, <1>3, <1>4, <1>5 DEF IInv

(* What requests, events, transactions and phones say of a call is true    *)
(* of it, in every reachable state.                                        *)
THEOREM CallsInvariantHolds == Spec => []IInv
<1> QED BY InitInvariant, StepKeepsInvariant, PTL DEF Spec

(* The tables, the phones and what is on its way have their types.         *)
THEOREM CallsTypeCorrect == Spec => []TypeOK
<1>1. IInv => TypeOK
  BY DEF IInv
<1> QED BY <1>1, CallsInvariantHolds, PTL

(* No phone that missed no event shows a call that is over, once all that  *)
(* was sent has arrived (the call.* events of service.py and the handlers  *)
(* of call-context.tsx).                                                   *)
THEOREM NoPhantomRings == Spec => []NoPhantomRing
<1>1. IInv => NoPhantomRing
  <2> SUFFICES ASSUME IInv, Quiet, NEW u \in User \ missed,
                      NEW c \in Call \ (undone \cup unseen[u]), incoming[u] = c
               PROVE  status[c] \in {"ringing", "active"}
    BY DEF NoPhantomRing
  <2>1. Ringing(u, c)
    BY DEF Ringing
  <2>2. Placed(c)
    BY <2>1, RingingIsUntouched DEF IInv, Untouched
  <2>3. status[c] # "absent"
    BY <2>2 DEF IInv, TablesAgree, Quiet
  <2>4. status[c] \notin Over
    <3>1. ~Told(u, c)
      BY DEF Quiet, Told, Ends
    <3> QED BY <2>1, <3>1 DEF IInv, RingIsEnded
  <2> QED BY <2>3, <2>4 DEF IInv, TypeOK, Status, Over
<1> QED BY <1>1, CallsInvariantHolds, PTL

(* A peer connection is stable only between phones that both took the call *)
(* (handleSignalEvent of call-session.ts).                                 *)
THEOREM MediaHasBothParties == Spec => []MediaNeedsBothParties
<1>1. IInv => MediaNeedsBothParties
  BY DEF IInv
<1> QED BY <1>1, CallsInvariantHolds, PTL

(* An active call has both its parties among those who joined              *)
(* (answer_call of service.py).                                            *)
THEOREM ActiveCallsWereAnswered == Spec => []ActiveWasAnswered
<1>1. IInv => ActiveWasAnswered
  <2> SUFFICES ASSUME IInv, NEW c \in Call, status[c] = "active" PROVE Parties(c) \subseteq joined[c]
    BY DEF ActiveWasAnswered
  <2>1. Placed(c) /\ Caller(c) \in joined[c] /\ Callee(c) \in joined[c]
    BY DEF IInv, TablesAgree
  <2> QED BY <2>1, PartyFacts DEF IInv
<1> QED BY <1>1, CallsInvariantHolds, PTL

(* A phone never takes up again a call that it left (call-context.tsx).    *)
THEOREM CallsAreLeftForGood == Spec => LeftStaysLeft
<1> DEFINE Left == \A u \in User, c \in Call :
                     (session[u][c] # "none" /\ active[u] # c) => active'[u] # c
<1>1. IInv /\ [Next]_vars => Left
  <2> SUFFICES ASSUME IInv, [Next]_vars, NEW u \in User, NEW c \in Call,
                      session[u][c] # "none", active[u] # c
               PROVE  active'[u] # c
    OBVIOUS
  <2>1. TypeOK /\ PhonesAgree /\ TablesAgree
    BY DEF IInv
  <2>2. CASE Keeps
    BY <2>2 DEF Keeps
  <2>3. ASSUME NEW v \in User, Starts(v) PROVE active'[u] # c
    BY <2>1, <2>3, Begins
  <2>4. UNCHANGED active \/ (\E v \in User : Starts(v)) \/ Keeps
    BY <2>1, PhoneCases DEF InitiateCall, HandleRinging
  <2> QED BY <2>2, <2>3, <2>4
<1>2. IInv /\ [Next]_vars => [Left]_vars
  BY <1>1
<1> QED BY <1>2, CallsInvariantHolds, PTL DEF Spec, LeftStaysLeft
=============================================================================

------------------------- MODULE PhoneSessionProofs -------------------------
(* Proofs about PhoneSession, for any number of attempts in flight: what   *)
(* the phone and the wire hold has its type, and all that the calls of a   *)
(* phone do to the service is what the service does.                       *)
EXTENDS PhoneSession, TLAPS

(* A call goes on as long as it has attempts left; to unlock or to log out *)
(* takes a token, which the call keeps and its attempts carry.             *)
PhoneInv ==
  /\ PhoneTypeOK
  /\ phone.goal = "none" => phone.slot = None
  /\ phone.goal # "none" /\ phone.slot = None => phone.tries < MaxAttempts
  /\ phone.goal \in {"unlock", "logout"} => phone.refresh # None
  /\ \A r \in Request :
       wire[r].state = "sent" /\ wire[r].goal \in {"unlock", "logout"}
         => wire[r].token \in Session

PhoneRow == [goal : Goal \cup {"none"}, slot : Request \cup {None},
             tries : 0..MaxAttempts, refresh : Session \cup {None}]
Message == [state : {"free", "sent", "served", "answered"}, goal : Goal \cup {"none"},
            token : Session \cup {None}, answer : Answer]

LEMMA PhoneTypes == PhoneTypeOK <=> phone \in PhoneRow /\ wire \in [Request -> Message]
BY DEF PhoneTypeOK, PhoneRow, Message

-----------------------------------------------------------------------------
(* The forms a step has: it is of a message and the phone, of a message,   *)
(* or of the phone.                                                        *)
LEMMA BothKeep ==
  ASSUME PhoneInv, NEW r \in Request, NEW m \in Message, phone' \in PhoneRow,
         wire' = [wire EXCEPT ![r] = m],
         m.state = "sent" /\ m.goal \in {"unlock", "logout"} => m.token \in Session,
         phone'.goal = "none" => phone'.slot = None,
         phone'.goal # "none" /\ phone'.slot = None => phone'.tries < MaxAttempts,
         phone'.goal \in {"unlock", "logout"} => phone'.refresh # None
  PROVE  PhoneInv'
<1>1. wire' \in [Request -> Message]
  BY PhoneTypes DEF PhoneInv
<1>2. PhoneTypeOK'
  BY <1>1 DEF PhoneTypeOK, PhoneRow, Message
<1>3. ASSUME NEW q \in Request, wire'[q].state = "sent",
             wire'[q].goal \in {"unlock", "logout"}
      PROVE  wire'[q].token \in Session
  <2>1. CASE q = r
    BY <2>1, <1>3, PhoneTypes DEF PhoneInv
  <2>2. CASE q # r
    <3>1. wire'[q] = wire[q]
      BY <2>2, PhoneTypes DEF PhoneInv
    <3> QED BY <3>1, <1>3 DEF PhoneInv
  <2> QED BY <2>1, <2>2
<1> QED BY <1>2, <1>3 DEF PhoneInv

LEMMA MessageKeeps ==
  ASSUME PhoneInv, NEW r \in Request, NEW m \in Message, UNCHANGED phone,
         wire' = [wire EXCEPT ![r] = m],
         m.state = "sent" /\ m.goal \in {"unlock", "logout"} => m.token \in Session
  PROVE  PhoneInv'
<1>1. phone' \in PhoneRow
  BY PhoneTypes DEF PhoneInv
<1>2. /\ phone'.goal = "none" => phone'.slot = None
      /\ phone'.goal # "none" /\ phone'.slot = None => phone'.tries < MaxAttempts
      /\ phone'.goal \in {"unlock", "logout"} => phone'.refresh # None
  BY DEF PhoneInv
<1> QED BY <1>1, <1>2, BothKeep

LEMMA PhoneKeeps ==
  ASSUME PhoneInv, UNCHANGED wire, phone' \in PhoneRow,
         phone'.goal = "none" => phone'.slot = None,
         phone'.goal # "none" /\ phone'.slot = None => phone'.tries < MaxAttempts,
         phone'.goal \in {"unlock", "logout"} => phone'.refresh # None
  PROVE  PhoneInv'
<1>1. PhoneTypeOK'
  BY DEF PhoneInv, PhoneTypeOK, PhoneRow
<1> QED BY <1>1 DEF PhoneInv

LEMMA NoAttemptIsFree == NoAttempt \in Message /\ NoAttempt.state # "sent"
BY DEF NoAttempt, Message, Answer

(* The end of a call, whatever becomes of the token.                       *)
LEMMA OverIsOver ==
  ASSUME PhoneInv, NEW token \in Session \cup {None}
  PROVE  /\ Over \in PhoneRow /\ Over.goal = "none" /\ Over.slot = None
         /\ [Over EXCEPT !.refresh = token] \in PhoneRow
         /\ [Over EXCEPT !.refresh = token].goal = "none"
         /\ [Over EXCEPT !.refresh = token].slot = None
<1>1. phone \in PhoneRow /\ 0 \in 0..MaxAttempts
  BY PhoneAssumption, PhoneTypes DEF PhoneInv
<1> QED BY <1>1 DEF Over, PhoneRow

LEMMA CallsOver ==
  ASSUME PhoneInv, phone.goal # "none", NEW token \in Session \cup {None},
         Succeed(token) \/ Fail
  PROVE  phone' \in PhoneRow /\ phone'.goal = "none" /\ phone'.slot = None
<1>1. phone.goal \in {"login", "unlock", "logout"}
  BY PhoneTypes DEF PhoneInv, PhoneRow, Goal
<1>2. PICK refresh \in Session \cup {None} :
        phone' = Over \/ phone' = [Over EXCEPT !.refresh = refresh]
  BY <1>1 DEF Succeed, Fail
<1> QED BY <1>2, OverIsOver

-----------------------------------------------------------------------------
LEMMA PhoneStarts == PhoneInit => PhoneInv
<1> SUFFICES ASSUME PhoneInit PROVE PhoneInv
  OBVIOUS
<1>1. phone \in PhoneRow /\ wire \in [Request -> Message]
  BY NoAttemptIsFree, PhoneAssumption DEF PhoneInit, PhoneRow
<1> QED BY <1>1, PhoneTypes, NoAttemptIsFree DEF PhoneInit, PhoneInv

LEMMA TapsKeep ==
  ASSUME PhoneInv, TapLogin \/ TapUnlock \/ TapLogout
  PROVE  PhoneInv'
<1>1. PICK goal \in Goal :
        StartCall(goal) /\ (goal \in {"unlock", "logout"} => phone.refresh # None)
  BY DEF TapLogin, TapUnlock, TapLogout, Goal
<1>2. phone \in PhoneRow /\ 0 \in 0..MaxAttempts /\ 0 < MaxAttempts /\ goal # "none"
  BY PhoneAssumption, PhoneTypes DEF PhoneInv, Goal
<1>3. /\ phone' \in PhoneRow /\ phone'.goal = goal /\ phone'.slot = phone.slot
      /\ phone'.tries = 0 /\ phone'.refresh = phone.refresh
  BY <1>1, <1>2 DEF StartCall, PhoneRow
<1>4. UNCHANGED wire
  BY <1>1 DEF StartCall
<1> QED BY <1>1, <1>2, <1>3, <1>4, PhoneKeeps

LEMMA TransportKeeps ==
  ASSUME PhoneInv, NEW r \in Request,
         Attempt(r) \/ Receive(r) \/ GiveUp(r) \/ Discard(r)
  PROVE  PhoneInv'
<1>0. /\ phone \in PhoneRow /\ wire[r] \in Message /\ r # None
      /\ wire \in [Request -> Message]
  BY PhoneTypes, PhoneAssumption DEF PhoneInv
<1>1. CASE Attempt(r)
  <2> DEFINE m == [state |-> "sent", goal |-> phone.goal,
                   token |-> phone.refresh, answer |-> "none"]
  <2>1. m \in Message
    BY <1>0 DEF PhoneRow, Message, Answer
  <2>2. m.goal \in {"unlock", "logout"} => m.token \in Session
    BY <1>0 DEF PhoneInv, PhoneRow
  <2>3. phone.tries < MaxAttempts /\ phone.tries \in 0..MaxAttempts
    BY <1>1, <1>0 DEF Attempt, PhoneInv, PhoneRow
  <2>4. phone.tries + 1 \in 0..MaxAttempts
    BY <2>3, PhoneAssumption
  <2>5. /\ phone' \in PhoneRow /\ phone'.slot = r
        /\ phone'.goal = phone.goal /\ phone'.refresh = phone.refresh
    BY <1>0, <1>1, <2>4 DEF Attempt, PhoneRow
  <2>6. phone'.goal # "none" /\ wire' = [wire EXCEPT ![r] = m]
    BY <1>1, <2>5 DEF Attempt
  <2>7. phone.goal \in {"unlock", "logout"} => phone.refresh # None
    BY DEF PhoneInv
  <2> HIDE DEF m
  <2> QED BY <1>0, <2>1, <2>2, <2>5, <2>6, <2>7, BothKeep
<1>2. CASE Receive(r)
  <2>1. phone.goal # "none" /\ wire[r].token \in Session \cup {None}
    BY <1>0, <1>2 DEF Receive, PhoneInv, Message
  <2>2. phone' \in PhoneRow /\ phone'.goal = "none" /\ phone'.slot = None
    BY <1>2, <2>1, CallsOver DEF Receive
  <2> QED BY <1>2, <2>2, NoAttemptIsFree, BothKeep DEF Receive
<1>3. CASE GiveUp(r)
  <2>1. phone.goal # "none"
    BY <1>0, <1>3 DEF GiveUp, PhoneInv
  <2>2. CASE Fail
    <3>1. phone' \in PhoneRow /\ phone'.goal = "none" /\ phone'.slot = None
      BY <2>1, <2>2, CallsOver
    <3> QED BY <1>3, <3>1, PhoneKeeps DEF GiveUp
  <2>3. CASE phone.tries < MaxAttempts /\ phone' = [phone EXCEPT !.slot = None]
    <3>1. /\ phone' \in PhoneRow /\ phone'.goal = phone.goal /\ phone'.slot = None
          /\ phone'.tries = phone.tries /\ phone'.refresh = phone.refresh
      BY <1>0, <2>3 DEF PhoneRow
    <3>2. phone.goal \in {"unlock", "logout"} => phone.refresh # None
      BY DEF PhoneInv
    <3> QED BY <1>3, <2>1, <2>3, <3>1, <3>2, PhoneKeeps DEF GiveUp
  <2> QED BY <1>3, <2>2, <2>3 DEF GiveUp
<1>4. CASE Discard(r)
  BY <1>4, NoAttemptIsFree, MessageKeeps DEF Discard
<1> QED BY <1>1, <1>2, <1>3, <1>4

LEMMA ServedKeeps ==
  ASSUME PhoneInv, NEW r \in Request, Served(r)
  PROVE  PhoneInv'
<1> DEFINE m == [wire[r] EXCEPT !.state = "served"]
<1>1. wire[r] \in Message
  BY PhoneTypes DEF PhoneInv
<1>2. m \in Message /\ m.state # "sent"
  BY <1>1 DEF Message
<1>3. wire' = [wire EXCEPT ![r] = m] /\ UNCHANGED phone
  BY DEF Served
<1> HIDE DEF m
<1> QED BY <1>2, <1>3, MessageKeeps

LEMMA ReplyKeeps ==
  ASSUME PhoneInv, NEW r \in Request, NEW answer \in Answer,
         NEW token \in Session \cup {None}, Reply(r, answer, token)
  PROVE  PhoneInv'
<1> DEFINE m == [wire[r] EXCEPT !.state = "answered", !.answer = answer, !.token = token]
<1>1. wire[r] \in Message /\ wire \in [Request -> Message]
  BY PhoneTypes DEF PhoneInv
<1>2. m \in Message /\ m.state # "sent"
  BY <1>1 DEF Message
<1>3. wire' = [wire EXCEPT ![r] = m] /\ UNCHANGED phone
  BY <1>1 DEF Reply
<1> HIDE DEF m
<1> QED BY <1>2, <1>3, MessageKeeps

LEMMA ServiceKeeps ==
  ASSUME PhoneInv, NEW r \in Request, Serve(r) \/ Lose(r)
  PROVE  PhoneInv'
<1>0. /\ {"session", "ok", "refused", "failed", "lost"} \subseteq Answer
      /\ wire[r].token \in Session \cup {None}
  BY PhoneTypes DEF Answer, PhoneInv, Message
<1>1. CASE ServeLogin(r) \/ ServeUnlock(r) \/ ServeLogout(r)
  BY <1>1, ServedKeeps DEF ServeLogin, ServeUnlock, ServeLogout
<1>2. CASE ServeWithoutWrite(r)
  <2>1. PICK answer \in Answer, token \in Session \cup {None} : Reply(r, answer, token)
    BY <1>0, <1>2 DEF ServeWithoutWrite
  <2> QED BY <2>1, ReplyKeeps
<1>3. CASE ReplySession(r)
  BY <1>0, <1>3, ReplyKeeps DEF ReplySession, FreshSession
<1>4. CASE ReplyOk(r) \/ ReplyRefused(r) \/ ReplyFailed(r) \/ Lose(r)
  <2>1. PICK answer \in Answer : Reply(r, answer, None)
    BY <1>0, <1>4 DEF ReplyOk, ReplyRefused, ReplyFailed, Lose
  <2> QED BY <2>1, ReplyKeeps
<1> QED BY <1>1, <1>2, <1>3, <1>4 DEF Serve

LEMMA PhoneSteps == PhoneInv /\ [PhoneNext]_pvars => PhoneInv'
<1> SUFFICES ASSUME PhoneInv, [PhoneNext]_pvars PROVE PhoneInv'
  OBVIOUS
<1>1. CASE TapLogin \/ TapUnlock \/ TapLogout
  BY <1>1, TapsKeep
<1>2. CASE \E r \in Request : Attempt(r) \/ Receive(r) \/ GiveUp(r) \/ Discard(r)
  BY <1>2, TransportKeeps
<1>3. CASE \E r \in Request : Serve(r) \/ Lose(r)
  BY <1>3, ServiceKeeps
<1>4. CASE \E s \in MayExpire : Age(s)
  BY <1>4 DEF Age, PhoneInv, PhoneTypeOK
<1>5. CASE UNCHANGED pvars
  BY <1>5 DEF pvars, PhoneInv, PhoneTypeOK
<1> QED BY <1>1, <1>2, <1>3, <1>4, <1>5 DEF PhoneNext

(* Each answer of the service is to a request the service knows: the token *)
(* of an attempt to unlock or to log out is one.                           *)
LEMMA PhoneNextIsNext == PhoneInv /\ [PhoneNext]_pvars => [Next]_vars
<1> SUFFICES ASSUME PhoneInv, [PhoneNext]_pvars PROVE [Next]_vars
  OBVIOUS
<1>1. ASSUME NEW r \in Request, Serve(r) PROVE [Next]_vars
  <2>1. CASE ServeLogin(r)
    BY <2>1, PhoneAssumption DEF ServeLogin, Next, Begin
  <2>2. CASE ServeUnlock(r) \/ ServeLogout(r)
    <3>1. wire[r].token \in Session
      BY <2>2 DEF ServeUnlock, ServeLogout, PhoneInv
    <3> QED BY <2>2, <3>1 DEF ServeUnlock, ServeLogout, Next, Begin
  <2>3. CASE ServeWithoutWrite(r)
    BY <2>3 DEF ServeWithoutWrite
  <2>4. CASE ReplySession(r) \/ ReplyOk(r)
    BY <2>4 DEF ReplySession, ReplyOk, Next, Commit
  <2>5. CASE ReplyRefused(r) \/ ReplyFailed(r)
    BY <2>5 DEF ReplyRefused, ReplyFailed, Next
  <2> QED BY <1>1, <2>1, <2>2, <2>3, <2>4, <2>5 DEF Serve
<1>2. ASSUME NEW r \in Request, Attempt(r) \/ Receive(r) \/ GiveUp(r) \/ Discard(r) \/ Lose(r)
      PROVE  UNCHANGED vars
  BY <1>2 DEF Attempt, Receive, GiveUp, Discard, Lose, vars
<1>3. ASSUME TapLogin \/ TapUnlock \/ TapLogout PROVE UNCHANGED vars
  BY <1>3 DEF TapLogin, TapUnlock, TapLogout, StartCall
<1>4. ASSUME NEW s \in MayExpire, Age(s) PROVE Next
  BY <1>4 DEF Age, Next
<1>5. CASE UNCHANGED pvars
  BY <1>5 DEF pvars, vars
<1> QED BY <1>1, <1>2, <1>3, <1>4, <1>5 DEF PhoneNext

-----------------------------------------------------------------------------
(* A call makes MaxAttempts attempts at most, and ends with a token or     *)
(* without: whatever is lost, late or answered twice, the phone and the    *)
(* wire hold what they can hold.                                           *)
THEOREM PhoneTypesHold == PhoneSpec => []PhoneTypeOK
<1>1. PhoneInv => PhoneTypeOK
  BY DEF PhoneInv
<1> QED BY <1>1, PhoneStarts, PhoneSteps, PTL DEF PhoneSpec

(* The session service under a phone's calls, retried, lost and answered   *)
(* late, is the session service of Sessions: what is proved of it in       *)
(* SessionsProofs holds for whatever the transport of the app makes of it. *)
THEOREM PhoneUsesTheService == PhoneSpec => Spec
<1>1. PhoneInit => Init
  BY DEF PhoneInit
<1> QED BY <1>1, PhoneStarts, PhoneSteps, PhoneNextIsNext, PTL DEF PhoneSpec, Spec
=============================================================================

---------------------------- MODULE PhoneSession ----------------------------
(***************************************************************************)
(* One phone against the session service: the mobile app's login, unlock   *)
(* and logout screens (apps/mobile/app/login.tsx, index.tsx,               *)
(* settings/index.tsx) over its HTTP transport (apps/mobile/lib/api.ts)    *)
(* and its token store (lib/session.ts), composed with Sessions.           *)
(*                                                                         *)
(* A screen makes a call; the transport sends it at most MaxAttempts       *)
(* times, each attempt a request of its own, and gives up on an attempt    *)
(* after fifteen seconds without an answer.  The server does not notice:   *)
(* a request given up on is still processed, and may be processed late.    *)
(***************************************************************************)
EXTENDS Sessions, Naturals

CONSTANTS
  User0,       \* the user of the phone
  Name0,       \* the device name it sends
  MaxAttempts  \* MAX_ATTEMPTS of lib/api.ts

ASSUME PhoneAssumption ==
  /\ User0 \in User /\ Name0 \in DeviceName /\ None \notin Request
  /\ MaxAttempts \in Nat \ {0}

VARIABLES
  phone,  \* the call the app is making, and the refresh token in its store
  wire    \* an attempt at a call: what was asked, and how it was answered

pvars == <<account, devices, sessions, requests, phone, wire>>

Goal == {"login", "unlock", "logout"}
Answer == {"none", "session", "ok", "refused", "failed", "lost"}

NoAttempt == [state |-> "free", goal |-> "none", token |-> None, answer |-> "none"]

PhoneTypeOK ==
  /\ phone \in [goal : Goal \cup {"none"}, slot : Request \cup {None},
                tries : 0..MaxAttempts, refresh : Session \cup {None}]
  /\ wire \in [Request -> [state : {"free", "sent", "served", "answered"},
                           goal : Goal \cup {"none"}, token : Session \cup {None},
                           answer : Answer]]

PhoneInit ==
  /\ Init
  /\ phone = [goal |-> "none", slot |-> None, tries |-> 0, refresh |-> None]
  /\ wire = [r \in Request |-> NoAttempt]

-----------------------------------------------------------------------------
(* The screens.                                                            *)

StartCall(goal) ==
  /\ phone.goal = "none"
  /\ phone' = [phone EXCEPT !.goal = goal, !.tries = 0]
  /\ UNCHANGED <<vars, wire>>

(* A code is entered on the login screen, without a session, or on the     *)
(* unlock screen (handlePinUnlock), beside one.  Biometric unlock and      *)
(* logout need a stored session.                                           *)
TapLogin == StartCall("login")
TapUnlock == phone.refresh # None /\ StartCall("unlock")
TapLogout == phone.refresh # None /\ StartCall("logout")

(* The end of a call.  handleStart of the login screen saves both tokens;  *)
(* handleBiometricUnlock saves the access token alone; a call to log out   *)
(* ends in clearSession whatever its outcome.                              *)
Over == [phone EXCEPT !.goal = "none", !.slot = None, !.tries = 0]

Succeed(token) ==
  phone' = CASE phone.goal = "login" -> [Over EXCEPT !.refresh = token]
             [] phone.goal = "unlock" -> Over
             [] phone.goal = "logout" -> [Over EXCEPT !.refresh = None]

(* The catch blocks: the login screen shows the error; the unlock screen   *)
(* clears the session, whatever was thrown.                                *)
Fail ==
  phone' = CASE phone.goal = "login" -> Over
             [] phone.goal = "unlock" -> [Over EXCEPT !.refresh = None]
             [] phone.goal = "logout" -> [Over EXCEPT !.refresh = None]

-----------------------------------------------------------------------------
(* The transport.                                                          *)

(* Faulty variant: attempts are not counted.                               *)
AttemptUncounted(r) ==
  /\ phone.goal # "none" /\ phone.slot = None
  /\ wire[r].state = "free"
  /\ phone' = [phone EXCEPT !.slot = r]
  /\ wire' = [wire EXCEPT ![r] = [state |-> "sent", goal |-> phone.goal,
                                  token |-> phone.refresh, answer |-> "none"]]
  /\ UNCHANGED vars

Attempt(r) ==
  /\ phone.goal # "none"
  /\ phone.slot = None
  /\ wire[r].state = "free"
  /\ phone' = [phone EXCEPT !.slot = r, !.tries = @ + 1]
  /\ wire' = [wire EXCEPT ![r] = [state |-> "sent", goal |-> phone.goal,
                                  token |-> phone.refresh, answer |-> "none"]]
  /\ UNCHANGED vars

Receive(r) ==
  /\ phone.slot = r
  /\ wire[r].state = "answered"
  /\ \/ wire[r].answer \in {"session", "ok"} /\ Succeed(wire[r].token)
     \/ wire[r].answer \in {"refused", "failed"} /\ Fail
  /\ wire' = [wire EXCEPT ![r] = NoAttempt]
  /\ UNCHANGED vars

(* Faulty variant: the limit is off by one.                                *)
GiveUpOneLate(r) ==
  /\ phone.slot = r
  /\ IF phone.tries <= MaxAttempts THEN phone' = [phone EXCEPT !.slot = None] ELSE Fail
  /\ UNCHANGED <<vars, wire>>

(* No answer within REQUEST_TIMEOUT_MS, or a connection that broke: the    *)
(* next attempt follows, or the call fails.                                *)
GiveUp(r) ==
  /\ phone.slot = r
  /\ IF phone.tries < MaxAttempts THEN phone' = [phone EXCEPT !.slot = None] ELSE Fail
  /\ UNCHANGED <<vars, wire>>

(* An answer to an attempt the transport has given up on goes nowhere.     *)
Discard(r) ==
  /\ phone.slot # r
  /\ wire[r].state = "answered"
  /\ wire' = [wire EXCEPT ![r] = NoAttempt]
  /\ UNCHANGED <<vars, phone>>

-----------------------------------------------------------------------------
(* The service.                                                            *)

Served(r) == wire' = [wire EXCEPT ![r].state = "served"] /\ UNCHANGED phone

Reply(r, answer, token) ==
  /\ wire' = [wire EXCEPT ![r].state = "answered", ![r].answer = answer, ![r].token = token]
  /\ UNCHANGED phone

ServeLogin(r) ==
  /\ wire[r].state = "sent" /\ wire[r].goal = "login"
  /\ BeginLogin(r, User0, Name0)
  /\ Served(r)

ServeUnlock(r) ==
  /\ wire[r].state = "sent" /\ wire[r].goal = "unlock"
  /\ BeginRefresh(r, wire[r].token) \/ BeginReuse(r, wire[r].token)
  /\ Served(r)

ServeLogout(r) ==
  /\ wire[r].state = "sent" /\ wire[r].goal = "logout"
  /\ BeginLogout(r, wire[r].token)
  /\ Served(r)

(* A logout with a token that is not live does nothing and answers 204; a  *)
(* wrong code and an expired token are refused without a write.            *)
ServeWithoutWrite(r) ==
  /\ wire[r].state = "sent"
  /\ \/ wire[r].goal = "logout" /\ ~Live(wire[r].token) /\ Reply(r, "ok", wire[r].token)
     \/ wire[r].goal = "login" /\ Reply(r, "refused", None)
     \/ wire[r].goal = "unlock" /\ Live(wire[r].token) /\ sessions[wire[r].token].expired
          /\ Reply(r, "refused", None)
  /\ UNCHANGED vars

ReplySession(r) ==
  /\ CommitLoginKnownDevice(r) \/ CommitLoginNewDevice(r) \/ CommitRefresh(r)
  /\ \E s \in FreshSession : Live(s)' /\ Reply(r, "session", s)

ReplyOk(r) == CommitRevocation(r) /\ Reply(r, "ok", None)

ReplyRefused(r) == RaiseReuse(r) /\ Reply(r, "refused", None)

(* A handler fails: with a 500, or with the connection.                    *)
ReplyFailed(r) ==
  /\ Abort(r)
  /\ \E answer \in {"failed", "lost"} : Reply(r, answer, None)

(* A request or an answer is lost on the way.                              *)
Lose(r) ==
  /\ \/ wire[r].state = "sent"
     \/ wire[r].state = "answered" /\ wire[r].answer # "lost"
  /\ Reply(r, "lost", None)
  /\ UNCHANGED vars

Serve(r) ==
  \/ ServeLogin(r) \/ ServeUnlock(r) \/ ServeLogout(r) \/ ServeWithoutWrite(r)
  \/ ReplySession(r) \/ ReplyOk(r) \/ ReplyRefused(r) \/ ReplyFailed(r)

Age(s) == Expire(s) /\ UNCHANGED <<phone, wire>>

PhoneNext ==
  \/ TapLogin \/ TapUnlock \/ TapLogout
  \/ \E r \in Request : Attempt(r) \/ Receive(r) \/ GiveUp(r) \/ Discard(r)
  \/ \E r \in Request : Serve(r) \/ Lose(r)
  \/ \E s \in MayExpire : Age(s)

(* The transport's timer and loop always run; the service answers what it  *)
(* was sent, or is restarted.  Nobody has to tap, and no row has to age.   *)
PhoneFairness ==
  /\ WF_pvars(\E r \in Request : Attempt(r) \/ Receive(r) \/ GiveUp(r))
  /\ \A r \in Request : WF_pvars(Serve(r) \/ Discard(r) \/ Lose(r))

PhoneSpec == PhoneInit /\ [][PhoneNext]_pvars /\ PhoneFairness
-----------------------------------------------------------------------------
(* Every call the app makes ends: three attempts, each with a timeout.     *)
CallsEnd == phone.goal # "none" ~> phone.goal = "none"

(* Between calls the token in the phone's store has not been rotated away: *)
(* "the legitimate client would only ever hold the latest token"           *)
(* (docs/adr/0004, line 15), on which reuse detection rests.               *)
ClientHoldsLatestToken ==
  phone.goal = "none" /\ phone.refresh # None
    => sessions[phone.refresh].status # "rotated"
=============================================================================

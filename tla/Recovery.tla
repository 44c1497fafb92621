------------------------------ MODULE Recovery ------------------------------
(***************************************************************************)
(* Getting in: the recovery of an account whose device is lost             *)
(* (backend/app/domain/recovery/service.py), with the upgrade to VIP that  *)
(* may happen meanwhile, and the two-factor login with the limit on how    *)
(* often one address may try (the first half of domain/auth/service.py,    *)
(* services/ratelimit/memory.py). A refused code leaves no trace: what is  *)
(* counted before the error is raised is rolled back by it.                *)
(***************************************************************************)
EXTENDS Requests, Sequences

CONSTANTS
  LoginLimit,   \* LOGIN_START_IP_LIMIT
  LoginWindow,  \* LOGIN_START_IP_WINDOW_SECONDS, in ticks
  FaceValid,    \* LIVENESS_VALIDITY_MINUTES, in ticks
  Horizon       \* bound: ticks of one behaviour

ASSUME RecoveryAssumption ==
  /\ LoginLimit \in Nat \ {0} /\ LoginWindow \in Nat
  /\ FaceValid \in Nat /\ Horizon \in Nat

-----------------------------------------------------------------------------
(* Recovery. An account of the normal tier has an e-mail address only      *)
(* while it is being upgraded. Codes are of the account, not of a request: *)
(* the latest that is pending is the one that is compared. outside: the    *)
(* request each liveness job was started for and its result, the requests  *)
(* whose next of kin have the link.                                        *)
Ask(n) == <<"request", n>>
Code(n) == <<"code", n>>
Owner == <<"owner", 1>>
Asks == {Ask(1), Ask(2)}
Codes == {Code(1), Code(2)}
Lives == 1..2
RecoveryRow ==
  [is : Is,
   status : {"initiated", "phone_verified", "liveness_passed", "liveness_failed",
             "next_of_kin_flagged", "completed"},
   email : BOOLEAN, phone : BOOLEAN, job : Lives \cup {None}]
CodeRow == [is : Is, status : {"pending", "verified"}]
OwnerRow == [is : Is, tier : {"normal", "vip"}, email : BOOLEAN]
RecoveryInit ==
  \E tier \in {"normal", "vip"} :
    Start("recovery",
      [k \in Asks \cup Codes \cup {Owner} |->
        CASE k = Owner -> [is |-> "here", tier |-> tier, email |-> tier = "vip"]
          [] k \in Codes -> [is |-> "none", status |-> "pending"]
          [] OTHER -> [is |-> "none", status |-> "initiated", email |-> FALSE,
                       phone |-> FALSE, job |-> None]],
      [started |-> 0, says |-> [n \in Lives |-> None], told |-> {}])

StartRecovery(r) ==
  /\ db[Owner].email
  /\ NextOf("request", 2, r)
  /\ \E c \in Codes :
       /\ NextOf("code", 2, c)
       /\ Request(Insert(r, [status |-> "initiated"]) \cup Insert(c, [status |-> "pending"]))
StartPhoneRecovery(r) ==
  /\ db[Owner].tier = "normal"
  /\ NextOf("request", 2, r) /\ Request(Insert(r, [status |-> "initiated"]))

LatestPending(c) ==
  \E n \in 1..2 : /\ c = Code(n) /\ Here(c) /\ db[c].status = "pending"
                  /\ \A m \in n + 1..2 : Here(Code(m)) => db[Code(m)].status # "pending"
ConfirmRecoveryEmail(r) ==
  /\ Here(r)
  /\ \E c \in Codes :
       LatestPending(c) /\ Request(Change(c, "status", "verified") \cup Change(r, "email", TRUE))
ConfirmRecoveryPhone(r) == Here(r) /\ Request(Change(r, "phone", TRUE))

(* Texts the link by which next of kin may flag the request.               *)
NotifyNextOfKin(r) == outside' = [outside EXCEPT !.told = @ \cup {r}]
ConfirmPhoneRecovery(r) ==
  /\ Here(r)
  /\ Call(Change(r, "phone", TRUE) \cup Change(r, "status", "phone_verified"))
  /\ NotifyNextOfKin(r)

StartLiveness(r) ==
  /\ Here(r) /\ db[r].email /\ db[r].phone
  /\ outside.started < 2
  /\ Call(Change(r, "job", outside.started + 1))
  /\ outside' = [outside EXCEPT !.started = @ + 1]
ProviderDecides(n) ==
  /\ n <= outside.started /\ says[n] = None
  /\ \E outcome \in {"passed", "failed"} : Outside([outside EXCEPT !.says[n] = outcome])
HandleLiveness(n, r) ==
  /\ says[n] # None /\ Here(r) /\ db[r].job = n
  /\ IF says[n] = "passed"
     THEN Call(Change(r, "status", "liveness_passed")) /\ NotifyNextOfKin(r)
     ELSE Request(Change(r, "status", "liveness_failed"))

FlagByToken(r) ==
  /\ r \in outside.told /\ Here(r) /\ db[r].status # "completed"
  /\ Request(Change(r, "status", "next_of_kin_flagged"))

Complete(r) ==
  /\ Here(r)
  /\ IF db[Owner].tier = "normal" THEN db[r].status = "phone_verified"
     ELSE db[r].status \in {"liveness_passed", "next_of_kin_flagged"}
  /\ Request(Change(r, "status", "completed"))

(* The upgrade of Billing, in two steps: the address, then the tier.       *)
Upgrade ==
  /\ db[Owner].tier = "normal"
  /\ Request(IF db[Owner].email THEN Change(Owner, "tier", "vip") ELSE Change(Owner, "email", TRUE))

RecoverySteps ==
  \E r \in Asks :
    \/ StartRecovery(r) \/ StartPhoneRecovery(r)
    \/ ConfirmRecoveryEmail(r) \/ ConfirmRecoveryPhone(r) \/ ConfirmPhoneRecovery(r)
    \/ StartLiveness(r) \/ FlagByToken(r) \/ Complete(r)
RecoveryNext ==
  topic = "recovery" /\
    \/ RecoverySteps \/ Upgrade
    \/ \E n \in Lives, r \in Asks : ProviderDecides(n) \/ HandleLiveness(n, r)
    \/ \E t \in Slot : Commit(t) \/ (RollBack(t) /\ UNCHANGED outside)

-----------------------------------------------------------------------------
(* Login of a VIP, by one address. The tries live in the memory of the     *)
(* process. outside: the time, the tries that are remembered and, for the  *)
(* property, when they were let through since the process started; what    *)
(* the provider found, and the jobs that led to a session.                 *)
Check(n) == <<"check", n>>
Checks == {Check(1), Check(2)}
CheckRow == [is : Is, status : {"pending", "passed", "failed"}, verified : 0..Horizon]
LoginInit ==
  Start("login",
    [k \in Checks |-> [is |-> "none", status |-> "pending", verified |-> 0]],
    [says |-> [k \in Checks |-> None], now |-> 0, hits |-> <<>>, log |-> <<>>, in |-> {}])

(* The tries that are too old are taken from the front of the list; those  *)
(* that are left are counted.                                              *)
Old(i) == outside.hits[i] + LoginWindow < now
Evict(n) == (\A i \in 1..n : Old(i)) /\ (n < Len(outside.hits) => ~Old(n + 1))
Hit ==
  \E n \in 0..Len(outside.hits) :
    /\ Evict(n)
    /\ Len(outside.hits) - n < LoginLimit
    /\ outside' = [outside EXCEPT !.hits = Append(SubSeq(@, n + 1, Len(@)), now),
                                 !.log = Append(@, now)]
(* A wrong code counts as a try, too.                                      *)
TryWrongCode == Hit /\ Call({})
StartLogin(k) ==
  /\ Hit
  /\ NextOf("check", 2, k)
  /\ Call(Insert(k, [status |-> "pending"]))

RecordLoginLiveness(k) ==
  /\ says[k] # None /\ Here(k)
  /\ Request(IF says[k] = "failed" THEN Change(k, "status", "failed")
             ELSE Change(k, "status", "passed") \cup Change(k, "verified", now))

CompleteLogin(k) ==
  /\ Here(k) /\ db[k].status = "passed" /\ db[k].verified + FaceValid >= now
  /\ Call({}) /\ outside' = [outside EXCEPT !.in = @ \cup {k}]

ClockTicks == now < Horizon /\ Outside([outside EXCEPT !.now = @ + 1])
Restart == Quiet /\ outside.hits # <<>> /\ Outside([outside EXCEPT !.hits = <<>>, !.log = <<>>])

LoginSteps == TryWrongCode \/ \E k \in Checks : StartLogin(k) \/ CompleteLogin(k)

LoginNext ==
  topic = "login" /\
    \/ LoginSteps \/ ClockTicks \/ Restart
    \/ \E k \in Checks : RecordLoginLiveness(k) \/ Decide(k, {"passed", "failed"})
    \/ \E t \in Slot : Commit(t) \/ (RollBack(t) /\ UNCHANGED outside)
-----------------------------------------------------------------------------
RecoveryTypeOK ==
  /\ topic \in {"recovery", "login"} => TransactionsOK
  /\ topic = "recovery" =>
       /\ db[Owner] \in OwnerRow
       /\ \A r \in Asks : db[r] \in RecoveryRow
       /\ \A c \in Codes : db[c] \in CodeRow
  /\ topic = "login" => \A k \in Checks : db[k] \in CheckRow

(* Whatever order the codes, the webhook, the next of kin and an upgrade   *)
(* come in, however requests overlap and whichever is rolled back, nobody  *)
(* completes a recovery of which the next of kin have not been told        *)
(* ("a next-of-kin attestation window", recovery/service.py).              *)
RecoveryIsAnnounced ==
  topic = "recovery" => \A r \in Asks : db[r].status = "completed" => r \in outside.told

(* A session is given only for a check that the provider has passed.       *)
LoginNeedsFace == topic = "login" => \A k \in outside.in : says[k] = "passed"

(* Within any window one address is not let through more often than the    *)
(* limit says, as long as the process runs.                                *)
WithinRateLimit ==
  topic = "login" =>
    \A t \in 0..now :
      Cardinality({i \in DOMAIN outside.log : outside.log[i] \in t..t + LoginWindow}) <= LoginLimit
=============================================================================

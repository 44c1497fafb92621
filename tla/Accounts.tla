------------------------------ MODULE Accounts ------------------------------
(***************************************************************************)
(* An account from its signup to its deletion: who may sign up and the     *)
(* steps of the onboarding (backend/app/domain/onboarding/service.py), the *)
(* identity provider's webhook, the review of an administrator             *)
(* (domain/admin/kyc_review_service.py, domain/admin/service.py), the      *)
(* owner's deactivation and the job that deletes (domain/account/          *)
(* service.py).                                                            *)
(*                                                                         *)
(* A wrong or expired code is an error, and whatever the service wrote     *)
(* before it raised is rolled back: attempt_count, failed_code_attempts,   *)
(* locked_until and the "expired" of a code or an invitation never reach   *)
(* the database. So a refused code is no step here.                        *)
(***************************************************************************)
EXTENDS Requests

CONSTANTS
  KycAttempts,  \* MAX_KYC_ATTEMPTS_BEFORE_MANUAL_REVIEW
  ForcedStates  \* bound: states an administrator may choose for an account

-----------------------------------------------------------------------------
(* Signing up, with one invitation. Users are rows, phones are users' own. *)
Config == <<"config", 1>>
Invite == <<"invite", 1>>
ConfigRow == [is : Is, invite_only : BOOLEAN]
InvitationRow == [is : Is, status : {"sent", "redeemed"}]
SignupRow == [is : Is, phone : User \cup {None}, invited : BOOLEAN]
SignupInit ==
  \E on \in BOOLEAN :
    Start("signup",
      [k \in Row \cup {Config, Invite} |->
        CASE k = Config -> [is |-> "here", invite_only |-> on]
          [] k = Invite -> [is |-> "none", status |-> "sent"]
          [] OTHER -> [is |-> "none", phone |-> None, invited |-> FALSE]],
      [expired |-> FALSE])

CreateInvitation ==
  /\ db[Invite].is = "none" /\ ~Pending(Invite)
  /\ Request(Insert(Invite, [status |-> "sent"]))
SetInviteOnlyMode(on) == Request(Change(Config, "invite_only", on))
(* An invitation that has expired is refused, and goes on saying "sent".   *)
Expire == Here(Invite) /\ ~outside.expired /\ Outside([expired |-> TRUE])

CheckInvite == Here(Invite) /\ db[Invite].status = "sent" /\ ~outside.expired
PhoneTaken(phone) == \E r \in Table : db[r].phone = phone

Signup(phone, invite, r) ==
  /\ db[Config].invite_only <=> invite
  /\ invite => CheckInvite
  /\ ~PhoneTaken(phone)
  /\ New(r)
  /\ Request(Insert(r, [phone |-> phone, invited |-> invite])
             \cup (IF invite THEN Change(Invite, "status", "redeemed") ELSE {}))

(* The phone is unique; of two requests for it the second one raises.      *)
PhoneClash(w) ==
  \E r \in Row, phone \in User : <<r, "phone", phone>> \in w /\ PhoneTaken(phone)
Signups == \E phone \in User, invite \in BOOLEAN, r \in Row : Signup(phone, invite, r)
InviteOnly == CreateInvitation \/ \E on \in BOOLEAN : SetInviteOnlyMode(on)

SignupNext ==
  topic = "signup" /\
    \/ Signups \/ InviteOnly \/ Expire
    \/ \E t \in Slot : \/ ~PhoneClash(open[t]) /\ Commit(t)
                       \/ PhoneClash(open[t]) /\ RollBack(t) /\ UNCHANGED outside

-----------------------------------------------------------------------------
(* One account. due is hard_delete_after; outside: what the identity       *)
(* provider has decided, whether the owner holds a session, whether the    *)
(* grace is over, and history: staff made it active themselves; somebody   *)
(* else changed its state while its deletion was scheduled.                *)
Me == <<"me", 1>>
Document(n) == <<"kyc_document", n>>
Selfie(n) == <<"kyc_selfie", n>>
Documents2 == {Document(1), Document(2)}
Jobs == Documents2 \cup {Selfie(1)}
AccountStates ==
  {"pending_email", "pending_phone", "pending_kyc_document", "pending_kyc_liveness",
   "pending_next_of_kin", "pending_code", "active", "manual_review", "suspended",
   "deactivated", "banned"}

ASSUME AccountsAssumption ==
  KycAttempts \in Nat \ {0} /\ {Config, Invite} \cap Row = {} /\ ForcedStates \subseteq AccountStates

AccountRow ==
  [is : Is, state : AccountStates, code : BOOLEAN, due : {"never", "grace", "now"}]
JobRow == [is : Is, status : {"pending", "passed", "failed", "manual_review"}]
AccountInit ==
  \E s \in {"pending_email", "pending_phone", "active", "manual_review"} :
    Start("account",
      [k \in Jobs \cup {Me} |->
        IF k = Me THEN [is |-> "here", state |-> s, code |-> s \in {"active", "manual_review"}, due |-> "never"]
        ELSE [is |-> "none", status |-> "pending"]],
      [says |-> [k \in Jobs |-> None], session |-> FALSE, elapsed |-> FALSE,
       forced |-> FALSE, moved |-> FALSE])

me == db[Me]
State(s) == Here(Me) /\ me.state \in s
Step(from, to) == State({from}) /\ Request(Change(Me, "state", to))

ConfirmEmail == Step("pending_email", "pending_phone")
ConfirmPhone == Step("pending_phone", "pending_code")  \* of the normal tier
AddNextOfKin == Step("pending_next_of_kin", "pending_code")
SetDitsalaCode == State({"pending_code"}) /\ Request(Change(Me, "code", TRUE))

(* Faulty variant: the device may be registered before the code is set.    *)
CompleteWithoutCode ==
  /\ State({"pending_code"})
  /\ Call(Change(Me, "state", "active"))
  /\ outside' = [outside EXCEPT !.session = TRUE]

CompleteOnboarding ==
  /\ State({"pending_code"}) /\ me.code
  /\ Call(Change(Me, "state", "active"))
  /\ outside' = [outside EXCEPT !.session = TRUE]
(* The login asks for the code and not for the state of the account.       *)
LogIn ==
  /\ Here(Me) /\ me.code /\ ~outside.session
  /\ Outside([outside EXCEPT !.session = TRUE])

StartKyc(k) ==
  /\ \/ State({"pending_kyc_document", "manual_review"}) /\ NextOf("kyc_document", 2, k)
     \/ State({"pending_kyc_liveness", "manual_review"}) /\ NextOf("kyc_selfie", 1, k)
  /\ Request(Insert(k, [status |-> "pending"]))

(* A webhook, a reviewer or an administrator changes the state.            *)
Moves(w) ==
  /\ Call(w)
  /\ outside' = [outside EXCEPT !.moved = @ \/ me.due # "never",
                                !.forced = @ \/ <<Me, "state", "active">> \in w]

(* The state of the account is not looked at, only the job's row.          *)
CountFailed(k) ==
  Cardinality({j \in Jobs : Here(j) /\ j[1] = k[1] /\ (j = k \/ db[j].status = "failed")})
HandleKycResult(k) ==
  /\ says[k] # None /\ Here(k) /\ Here(Me)
  /\ \/ /\ says[k] = "passed"
        /\ Moves(Change(k, "status", "passed")
                 \cup Change(Me, "state", IF k \in Documents2 THEN "pending_kyc_liveness"
                                          ELSE "pending_next_of_kin"))
     \/ /\ says[k] = "manual_review"
        /\ Moves((IF k \in Documents2 THEN Change(k, "status", "manual_review") ELSE {})
                 \cup Change(Me, "state", "manual_review"))
     \/ /\ says[k] = "failed"
        /\ Moves(Change(k, "status", "failed")
                 \cup (IF CountFailed(k) >= KycAttempts
                       THEN Change(Me, "state", "manual_review") ELSE {}))

Approve == State({"manual_review"}) /\ Moves(Change(Me, "state", "active"))
Reject ==
  State({"manual_review"}) /\ Moves(Change(Me, "state", "banned") \cup Change(Me, "due", "now"))
RequestRecapture ==
  State({"manual_review"}) /\ Moves(Change(Me, "state", "pending_kyc_document"))

(* The clock of the deletion goes on, whatever the new state is.           *)
ForceAccountState(s) == Here(Me) /\ me.state # s /\ Moves(Change(Me, "state", s))
ActionReport(s) ==
  Here(Me) /\ Moves(Change(Me, "state", s)
                    \cup (IF s = "banned" THEN Change(Me, "due", "now") ELSE {}))

RequestDeactivation ==
  /\ outside.session /\ State({"active", "manual_review"})
  /\ Call(Change(Me, "state", "deactivated") \cup Change(Me, "due", "grace"))
  /\ outside' = [outside EXCEPT !.elapsed = FALSE]

(* Faulty variant: the account goes on being due for deletion.             *)
CancelButDue ==
  /\ outside.session /\ State({"deactivated"})
  /\ Request(Change(Me, "state", "active"))

CancelDeactivation ==
  /\ outside.session /\ State({"deactivated"})
  /\ \/ me.due = "never"
     \/ me.due = "grace" /\ ~outside.elapsed
  /\ Request(Change(Me, "state", "active") \cup Change(Me, "due", "never"))

Elapse ==
  /\ Here(Me) /\ me.due = "grace" /\ ~outside.elapsed
  /\ Outside([outside EXCEPT !.elapsed = TRUE])
ListPendingHardDelete == Here(Me) /\ (me.due = "now" \/ (me.due = "grace" /\ outside.elapsed))
ProcessScheduledDeletions(j) ==
  /\ ListPendingHardDelete
  /\ Begin(j, Delete(Me))
  /\ UNCHANGED <<asked, outside>>

Onboarding ==
  \/ ConfirmEmail \/ ConfirmPhone \/ AddNextOfKin \/ SetDitsalaCode \/ CompleteOnboarding
  \/ \E k \in Jobs : StartKyc(k)
Reviews == Approve \/ Reject \/ RequestRecapture
Staff ==
  \/ \E s \in ForcedStates : ForceAccountState(s)
  \/ \E s \in {"suspended", "banned"} : ActionReport(s)
Lifecycle == RequestDeactivation \/ CancelDeactivation \/ Elapse

AccountNext ==
  topic = "account" /\
    \/ Onboarding \/ LogIn \/ Reviews \/ Staff \/ Lifecycle
    \/ \E k \in Jobs : HandleKycResult(k) \/ Decide(k, {"passed", "failed", "manual_review"})
    \/ \E j \in Job : ProcessScheduledDeletions(j)
    \/ \E t \in Slot \cup Job : Commit(t) \/ (RollBack(t) /\ UNCHANGED outside)
-----------------------------------------------------------------------------
AccountsTypeOK ==
  /\ topic \in {"signup", "account"} => TransactionsOK
  /\ topic = "signup" =>
       /\ db[Config] \in ConfigRow /\ db[Invite] \in InvitationRow
       /\ \A r \in Row : db[r] \in SignupRow
  /\ topic = "account" =>
       /\ me \in AccountRow
       /\ \A k \in Jobs : db[k] \in JobRow

(* As long as no two transactions were open at once, an invitation lets    *)
(* one person in ("single-use code", onboarding/service.py), however often *)
(* the invite-only mode is turned on and off.                              *)
InvitationOnce ==
  topic = "signup" /\ ~overlapped => Cardinality({r \in Table : db[r].invited}) <= 1

(* An account that nobody on the staff made active has a code: neither the *)
(* identity provider's webhooks, however late, nor a deactivation taken    *)
(* back lead an account that has not finished its onboarding into use.     *)
ActiveHasCode == topic = "account" /\ State({"active"}) /\ ~outside.forced => me.code

(* As long as no two transactions were open at once, and nobody else moved *)
(* the account while its deletion was scheduled, only an account that is   *)
(* deactivated or banned is deleted.                                       *)
NoActiveDeleted ==
  [][topic = "account" /\ Here(Me) /\ ~Here(Me)' /\ ~overlapped /\ ~outside.moved
       => State({"deactivated", "banned"})]_vars
=============================================================================

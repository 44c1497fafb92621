------------------------------- MODULE Office -------------------------------
(***************************************************************************)
(* The administration and what it answers for: administrators' logins,     *)
(* states and roles (backend/app/domain/admin/auth_service.py, domain/     *)
(* admin/service.py, api/v1/admin_deps.py), requests of data subjects      *)
(* (domain/compliance/service.py, export.py), and the retention of         *)
(* locations that users share (domain/location/service.py, repositories/   *)
(* location.py).                                                           *)
(***************************************************************************)
EXTENDS Requests

-----------------------------------------------------------------------------
(* Administrators are rows; one has been set up, the others are created.   *)
(* outside: the tokens of the first step of a login ("enroll" to set up    *)
(* the second factor, "code" to use it), who holds an access token, and    *)
(* history: an administrator acted who was not active any more; a request  *)
(* was rolled back after its token had been given out.                     *)
Roles == {"super_admin", "support"}
AdminRow == [is : Is, role : Roles, active : BOOLEAN, enrolled : BOOLEAN]
OfficeInit ==
  \E founder \in Row :
    /\ founder = CHOOSE r \in Row : TRUE
    /\ Start("office",
         [r \in Row |-> [is |-> IF r = founder THEN "here" ELSE "none", role |-> "super_admin",
                         active |-> TRUE, enrolled |-> FALSE]],
         [login |-> [r \in Row |-> {}], token |-> {}, ghost |-> FALSE, undone |-> FALSE])

(* Whoever knows the password may start as often as they like.             *)
StartAdminLogin(a) ==
  LET step == IF db[a].enrolled THEN "code" ELSE "enroll" IN
  /\ Here(a) /\ db[a].active
  /\ Call({})
  /\ outside' = [outside EXCEPT !.login[a] = @ \cup {step}]
(* Both tokens may be shown again until their time is over.                *)
EnrollMfa(a) ==
  /\ "enroll" \in outside.login[a]
  /\ Here(a) /\ db[a].active
  /\ Call(Change(a, "enrolled", TRUE))
  /\ outside' = [outside EXCEPT !.token = @ \cup {a}]
CompleteAdminLogin(a) ==
  /\ "code" \in outside.login[a]
  /\ Here(a) /\ db[a].active /\ db[a].enrolled
  /\ Call({})
  /\ outside' = [outside EXCEPT !.token = @ \cup {a}]
LoginExpires(a) ==
  outside.login[a] # {} /\ Outside([outside EXCEPT !.login[a] = {}])
(* A token ends by its time only: neither a logout nor a deactivation does.*)
TokenExpires(a) == a \in outside.token /\ Outside([outside EXCEPT !.token = @ \ {a}])

(* get_current_admin and require_permission: the token, and the role that  *)
(* is in the database now.                                                 *)
ByAdmin(actor, w) ==
  /\ actor \in outside.token /\ Here(actor) /\ db[actor].role = "super_admin"
  /\ w # {} /\ Call(w)
  /\ outside' = [outside EXCEPT !.ghost = @ \/ ~db[actor].active]

CreateAdmin(actor, a, role) ==
  New(a) /\ ByAdmin(actor, Insert(a, [role |-> role]))
SetAdminActive(actor, a, on) ==
  /\ a # actor /\ Here(a)
  /\ ByAdmin(actor, Change(a, "active", on))

(* Faulty variant: one may change one's own role.                          *)
ChangeAnyRole(actor, a, role) ==
  Here(a) /\ ByAdmin(actor, Change(a, "role", role))

ChangeAdminRole(actor, a, role) ==
  /\ a # actor /\ Here(a)
  /\ ByAdmin(actor, Change(a, "role", role))

AdminSteps ==
  \E a \in Row :
    \/ StartAdminLogin(a) \/ EnrollMfa(a) \/ CompleteAdminLogin(a)
    \/ LoginExpires(a) \/ TokenExpires(a)
    \/ \E actor \in Row :
         \/ \E role \in Roles : CreateAdmin(actor, a, role) \/ ChangeAdminRole(actor, a, role)
         \/ \E on \in BOOLEAN : SetAdminActive(actor, a, on)
OfficeNext ==
  topic = "office" /\
    \/ AdminSteps
    \/ \E t \in Slot : \/ Commit(t)
                       \/ RollBack(t) /\ outside' = [outside EXCEPT !.undone = TRUE]

-----------------------------------------------------------------------------
(* Requests of a data subject. outside: exports in storage, whether the    *)
(* grace of a deactivation is over, and history: the account was given     *)
(* back to its owner, or changed by staff.                                 *)
DataRequest(n) == <<"data_request", n>>
DataRequests == {DataRequest(n) : n \in 1..2}
Subject == <<"subject", 1>>
DataRequestRow ==
  [is : Is, type : {"access", "deletion"}, status : {"pending", "in_progress", "completed", "rejected"},
   export : BOOLEAN]
SubjectRow == [is : Is, state : {"active", "suspended", "deactivated"}, due : BOOLEAN]
ComplianceInit ==
  Start("compliance",
    [k \in DataRequests \cup {Subject} |->
      IF k = Subject THEN [is |-> "here", state |-> "active", due |-> FALSE]
      ELSE [is |-> "none", type |-> "access", status |-> "pending", export |-> FALSE]],
    [exports |-> {}, late |-> FALSE, back |-> FALSE])

Deactivated == Update(Subject, [state |-> "deactivated", due |-> TRUE])
FileRequest(k, type) ==
  /\ Here(Subject)
  /\ NextOf("data_request", 2, k) /\ Request(Insert(k, [type |-> type]))

Actionable(k) == Here(k) /\ db[k].status \notin {"completed", "rejected"}
MarkInProgress(k) == Actionable(k) /\ Request(Change(k, "status", "in_progress"))
RejectRequest(k) == Actionable(k) /\ Request(Change(k, "status", "rejected"))
(* An export is in storage before the request says so. The deletion of an  *)
(* account that is not active is an error.                                 *)
CompleteRequest(k) ==
  /\ Actionable(k) /\ Here(Subject)
  /\ \/ /\ db[k].type = "access"
        /\ Call(Update(k, [status |-> "completed", export |-> TRUE]))
        /\ outside' = [outside EXCEPT !.exports = @ \cup {k}]
     \/ /\ db[k].type = "deletion" /\ db[Subject].state = "active"
        /\ Call(Change(k, "status", "completed") \cup Deactivated)
        /\ UNCHANGED outside

(* The owner comes back, or staff change the state.                        *)
AccountChanges ==
  /\ Here(Subject)
  /\ \/ /\ db[Subject].state = "deactivated" /\ ~outside.late
        /\ Call(Update(Subject, [state |-> "active", due |-> FALSE]))
     \/ \E state \in {"active", "suspended"} :
          db[Subject].state # state /\ Call(Change(Subject, "state", state))
  /\ outside' = [outside EXCEPT !.back = TRUE]
GraceEnds == db[Subject].due /\ ~outside.late /\ Outside([outside EXCEPT !.late = TRUE])
(* The rows of the user go with it; what is in storage stays.              *)
DeleteSubject(t) ==
  /\ Here(Subject) /\ db[Subject].due /\ outside.late
  /\ Begin(t, Delete(Subject) \cup UNION {Delete(k) : k \in {r \in DataRequests : Here(r)}})
  /\ UNCHANGED <<asked, outside>>

(* A request needs its user.                                               *)
Orphans(w) == \E k \in DataRequests : <<k, "is", "here">> \in w
ComplianceNext ==
  topic = "compliance" /\
    \/ \E k \in DataRequests :
         \/ \E type \in {"access", "deletion"} : FileRequest(k, type)
         \/ MarkInProgress(k) \/ RejectRequest(k) \/ CompleteRequest(k)
    \/ AccountChanges \/ GraceEnds
    \/ \E t \in Job : DeleteSubject(t)
    \/ \E t \in Slot \cup Job : \/ (Orphans(open[t]) => Here(Subject)) /\ Commit(t)
                                \/ RollBack(t) /\ UNCHANGED outside

-----------------------------------------------------------------------------
(* Locations that one user shares with another. A share lasts for two      *)
(* ticks of the clock, the grace of its pings for one.                     *)
Moments == 0..4
Duration == 2
PingGrace == 1
Share(n) == <<"share", n>>
Shares == {Share(1), Share(2)}
Ping(n) == <<"ping", n>>
Pings == {Ping(1), Ping(2)}
ShareRow == [is : Is, expires : 0..6, revoked : Moments \cup {None}]
PingRow == [is : Is, of : Shares, at : Moments]
LocationInit ==
  Start("location",
    [k \in Shares \cup Pings |->
      IF k \in Shares THEN [is |-> "none", expires |-> 0, revoked |-> None]
      ELSE [is |-> "none", of |-> Share(1), at |-> 0]],
    [now |-> 0, trusted |-> TRUE])

Clock == now < 4 /\ Outside([outside EXCEPT !.now = @ + 1])
(* A share outlives the trust it was given in.                             *)
TrustEnds == outside.trusted /\ Outside([outside EXCEPT !.trusted = FALSE])
CreateShare(k) ==
  /\ outside.trusted
  /\ NextOf("share", 2, k) /\ Request(Insert(k, [expires |-> now + Duration]))
(* A share that was revoked or is over can be revoked again.               *)
RevokeShare(k) == Here(k) /\ Request(Change(k, "revoked", now))

Active(k) == db[k].revoked = None /\ db[k].expires > now
RecordPing(k, p) ==
  /\ Here(k) /\ Active(k)
  /\ NextOf("ping", 2, p) /\ Request(Insert(p, [of |-> k, at |-> now]))

Past(k) ==
  \/ db[k].expires + PingGrace < now
  \/ db[k].revoked # None /\ db[k].revoked + PingGrace < now
PurgeExpired(t) ==
  LET due == {p \in Pings : Here(p) /\ Past(db[p].of)} IN
  /\ due # {}
  /\ Begin(t, UNION {Delete(p) : p \in due}) /\ UNCHANGED <<asked, outside>>

LocationNext ==
  topic = "location" /\
    \/ Clock \/ TrustEnds
    \/ \E k \in Shares : CreateShare(k) \/ RevokeShare(k) \/ \E p \in Pings : RecordPing(k, p)
    \/ \E t \in Job : PurgeExpired(t)
    \/ \E t \in Slot \cup Job : Commit(t) \/ (RollBack(t) /\ UNCHANGED outside)
-----------------------------------------------------------------------------
OfficeTypeOK ==
  /\ topic \in {"office", "compliance", "location"} => TransactionsOK
  /\ topic = "office" => \A r \in Row : db[r] \in AdminRow
  /\ topic = "compliance" =>
       db[Subject] \in SubjectRow /\ \A k \in DataRequests : db[k] \in DataRequestRow
  /\ topic = "location" =>
       /\ \A k \in Shares : db[k] \in ShareRow
       /\ \A p \in Pings : db[p] \in PingRow

(* Somebody can always manage the administrators: however they create,     *)
(* promote, demote, activate and deactivate each other, an active          *)
(* super_admin is left, as long as no two requests overlap and nobody acts *)
(* with a token from before they were deactivated                          *)
(* ("You can't deactivate your own account.", admin/service.py).           *)
SomeoneInCharge ==
  topic = "office" /\ ~overlapped /\ ~outside.ghost =>
    \E a \in Table : db[a].active /\ db[a].role = "super_admin"

(* Nobody has an access token who has not enrolled a second factor, however*)
(* often they start over and whichever of their tokens they use, once what *)
(* was answered is committed ("MFA enrollment before first use",           *)
(* admin/auth_service.py).                                                 *)
MfaBeforeUse ==
  topic = "office" /\ Quiet /\ ~outside.undone => \A a \in outside.token : db[a].enrolled

(* As long as requests do not overlap: an account whose deletion was       *)
(* completed is on its way out unless somebody brought it back; a request  *)
(* that was rejected has exported nothing; the export of a request is      *)
(* there. (compliance/service.py)                                          *)
RequestsAreHonoured ==
  topic = "compliance" /\ Quiet /\ ~overlapped =>
    \A k \in DataRequests : Here(k) =>
      /\ db[k].status = "completed" /\ db[k].type = "deletion" /\ ~outside.back =>
           db[Subject].state = "deactivated" /\ db[Subject].due
      /\ db[k].status = "rejected" => ~db[k].export
      /\ db[k].export => k \in outside.exports

(* As long as requests do not overlap: a position is stored only of a time *)
(* at which its share was in force; it is deleted only when the grace has  *)
(* passed since that time, and since the share expired unless the share    *)
(* was revoked ("share duration + 24h", models/location.py).               *)
PingsWithinShare ==
  topic = "location" /\ ~overlapped =>
    \A p \in Pings : LET k == db[p].of IN
      /\ Here(p) => db[p].at < db[k].expires /\ (db[k].revoked # None => db[p].at <= db[k].revoked)
      /\ db[p].is = "gone" =>
           /\ now > db[p].at + PingGrace
           /\ now > db[k].expires + PingGrace \/ db[k].revoked # None
=============================================================================

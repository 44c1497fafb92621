------------------------------ MODULE Sessions ------------------------------
(***************************************************************************)
(* The device registry and the refresh-token sessions of the backend:      *)
(* AuthService (backend/app/domain/auth/service.py) over the tables        *)
(* devices and sessions.                                                   *)
(*                                                                         *)
(* Every HTTP request runs in a database transaction of its own            *)
(* (core/db.py): the handler reads, decides, and its writes become visible *)
(* together when the transaction commits, which happens only if the        *)
(* handler did not raise.  No handler locks a row.  A request is therefore *)
(* two steps here: Begin* takes the reads and keeps the decision in        *)
(* requests[r]; Commit* applies the writes to whatever the tables hold by  *)
(* then.  Requests in different slots interleave between the two.          *)
(***************************************************************************)
CONSTANTS
  User,        \* users.id
  DeviceName,  \* devices.device_name, as clients send it
  Device,      \* devices.id
  Session,     \* sessions.id; a row is found by its refresh token, so it names both
  Request,     \* slots for requests being processed at the same time
  MayExpire,   \* the bound on expiry: sessions whose thirty days may pass
  None         \* the SQL NULL, and the key of no row

ASSUME SessionsAssumption ==
  /\ None \notin User \cup DeviceName \cup Device \cup Session
  /\ MayExpire \subseteq Session

VARIABLES
  account,   \* users.account_state, as far as AuthService reads or writes it
  devices,   \* the table devices
  sessions,  \* the table sessions
  requests   \* the open transactions

vars == <<account, devices, sessions, requests>>

-----------------------------------------------------------------------------
(* Rows.  revoked_at and revoked_reason of a session are one field, status: *)
(* "live" while revoked_at is NULL, else the reason.  "absent" is no row.  *)
(* parent is not a column: it remembers which session a row was rotated    *)
(* from.  is_trusted is left out, as every write sets it to True.          *)

Reason == {"rotated", "logout", "device revoked", "logout everywhere"}

DeviceRow == [user : User \cup {None}, name : DeviceName \cup {None},
              revoked : BOOLEAN]

SessionRow == [user : User \cup {None}, device : Device \cup {None},
               family : Session \cup {None}, parent : Session \cup {None},
               status : Reason \cup {"absent", "live"}, expired : BOOLEAN]

NoDevice == [user |-> None, name |-> None, revoked |-> FALSE]

NoSession == [user |-> None, device |-> None, family |-> None,
              parent |-> None, status |-> "absent", expired |-> FALSE]

Op == {"idle", "onboarding", "login", "refresh", "reuse", "logout",
       "revoke device", "logout all", "recovery"}

(* What a handler has read and decided: the user and device it acts on, the *)
(* session its token named, and the rows it is about to revoke.            *)
RequestFields == [op : Op, user : User \cup {None}, name : DeviceName \cup {None},
                  device : Device \cup {None}, token : Session \cup {None},
                  devs : SUBSET Device, rows : SUBSET Session]
RequestRow == {q \in RequestFields : q.op = "refresh" => q.token \in Session}

Idle == [op |-> "idle", user |-> None, name |-> None, device |-> None,
         token |-> None, devs |-> {}, rows |-> {}]

TypeOK ==
  /\ account \in [User -> {"pending_code", "active"}]
  /\ devices \in [Device -> DeviceRow]
  /\ sessions \in [Session -> SessionRow]
  /\ requests \in [Request -> RequestRow]

-----------------------------------------------------------------------------
Live(s) == sessions[s].status = "live"
Exists(s) == sessions[s].status # "absent"
Revoked(s) == sessions[s].status \in Reason

FreshDevice == {d \in Device : devices[d].user = None}
FreshSession == {s \in Session : ~Exists(s)}

DevicesOf(u) == {d \in Device : devices[d].user = u}
FamilyOf(s) == {t \in Session : Exists(t) /\ sessions[t].family = sessions[s].family}
ActiveOf(u) == {s \in Session : Live(s) /\ sessions[s].user = u}

(* A faulty variant of RevokeRows, for the runs' self-test: the loop over  *)
(* the rows stops at the first.                                            *)
RevokeRowsFirstOnly(rows, reason) ==
  [s \in Session |->
     IF rows # {} /\ s = (CHOOSE t \in rows : TRUE)
     THEN [sessions[s] EXCEPT !.status = reason] ELSE sessions[s]]

(* UPDATE sessions SET revoked_at, revoked_reason: unconditional, so a row *)
(* revoked since it was read gets the later reason.                        *)
RevokeRows(rows, reason) ==
  [s \in Session |->
     IF s \in rows THEN [sessions[s] EXCEPT !.status = reason] ELSE sessions[s]]

(* Faulty variant: the family is named after the user, not the login.      *)
NewSessionFamilyOfUser(s, u, d) ==
  [user |-> u, device |-> d, family |-> u, parent |-> None,
   status |-> "live", expired |-> FALSE]

(* _issue_session: a first session of a new family, named by its own row. *)
NewSession(s, u, d) ==
  [user |-> u, device |-> d, family |-> s, parent |-> None,
   status |-> "live", expired |-> FALSE]

(* refresh_session: the row that takes over from the row of token.         *)
RotatedSession(s, token) ==
  [NewSession(s, sessions[token].user, sessions[token].device) EXCEPT
     !.family = sessions[token].family, !.parent = token]

NewDevice(u, n) == [user |-> u, name |-> n, revoked |-> FALSE]

Init ==
  /\ account = [u \in User |-> "pending_code"]
  /\ devices = [d \in Device |-> NoDevice]
  /\ sessions = [s \in Session |-> NoSession]
  /\ requests = [r \in Request |-> Idle]

-----------------------------------------------------------------------------
(* The read halves.                                                        *)

Start(r, row) ==
  /\ requests[r] = Idle
  /\ requests' = [requests EXCEPT ![r] = row]
  /\ UNCHANGED <<account, devices, sessions>>

BeginOnboarding(r, u, n) ==
  /\ account[u] = "pending_code"
  /\ Start(r, [Idle EXCEPT !.op = "onboarding", !.user = u, !.name = n])

(* The tail of start_login for a normal account and of complete_login for  *)
(* a vip one, the factors having been checked: the device is found by its  *)
(* name among the user's rows, in no particular order, or else is new.     *)
(* Neither path reads account_state or the device's revoked_at.            *)
BeginLogin(r, u, n) ==
  LET matches == {d \in DevicesOf(u) : devices[d].name = n} IN
  \E d \in IF matches = {} THEN {None} ELSE matches :
    Start(r, [Idle EXCEPT !.op = "login", !.user = u, !.name = n, !.device = d])

BeginRefresh(r, s) ==
  /\ Live(s)
  /\ ~sessions[s].expired
  /\ Start(r, [Idle EXCEPT !.op = "refresh", !.token = s])

(* A revoked token presented again: the handler marks every live member of *)
(* the family and then raises.                                             *)
BeginReuse(r, s) ==
  /\ Revoked(s)
  /\ Start(r, [Idle EXCEPT !.op = "reuse", !.token = s,
                           !.rows = {t \in FamilyOf(s) : Live(t)}])

BeginLogout(r, s) ==
  /\ Live(s)
  /\ Start(r, [Idle EXCEPT !.op = "logout", !.rows = {s}])

BeginRevokeDevice(r, u, d) ==
  /\ devices[d].user = u
  /\ Start(r, [Idle EXCEPT !.op = "revoke device", !.devs = {d},
                           !.rows = {s \in ActiveOf(u) : sessions[s].device = d}])

BeginLogoutAll(r, u) ==
  Start(r, [Idle EXCEPT !.op = "logout all", !.rows = ActiveOf(u)])

(* complete_recovery_session, called once RecoveryService is satisfied.    *)
BeginRecovery(r, u, n) ==
  /\ account[u] = "active"
  /\ Start(r, [Idle EXCEPT !.op = "recovery", !.user = u, !.name = n,
                           !.devs = DevicesOf(u), !.rows = ActiveOf(u)])

-----------------------------------------------------------------------------
(* The commit halves.                                                      *)

Finish(r) == requests' = [requests EXCEPT ![r] = Idle]

RevokeDevices(devs) ==
  [d \in Device |-> IF d \in devs THEN [devices[d] EXCEPT !.revoked = TRUE]
                                  ELSE devices[d]]

(* Faulty variants of commits: a refresh that writes the old row back as   *)
(* it was read, a refresh that leaves the old row live, and a recovery     *)
(* that revokes the sessions alone.                                        *)
RefreshWritesBack(r) ==
  LET q == requests[r] IN
  /\ q.op = "refresh"
  /\ \E s \in FreshSession :
       sessions' = [sessions EXCEPT ![q.token].status = "live",
                                    ![s] = RotatedSession(s, q.token)]
  /\ Finish(r)
  /\ UNCHANGED <<account, devices>>

RefreshKeepsOld(r) ==
  LET q == requests[r] IN
  /\ q.op = "refresh"
  /\ \E s \in FreshSession :
       sessions' = [sessions EXCEPT ![s] = RotatedSession(s, q.token)]
  /\ Finish(r)
  /\ UNCHANGED <<account, devices>>

RecoveryKeepsDevices(r) ==
  LET q == requests[r] IN
  /\ q.op = "recovery"
  /\ \E d \in FreshDevice, s \in FreshSession :
       /\ devices' = [devices EXCEPT ![d] = NewDevice(q.user, q.name)]
       /\ sessions' = [RevokeRows(q.rows, "logout everywhere") EXCEPT
                         ![s] = NewSession(s, q.user, d)]
  /\ Finish(r)
  /\ UNCHANGED account

CommitOnboarding(r) ==
  LET q == requests[r] IN
  /\ q.op = "onboarding"
  /\ \E d \in FreshDevice, s \in FreshSession :
       /\ devices' = [devices EXCEPT ![d] = NewDevice(q.user, q.name)]
       /\ sessions' = [sessions EXCEPT ![s] = NewSession(s, q.user, d)]
  /\ account' = [account EXCEPT ![q.user] = "active"]
  /\ Finish(r)

CommitLoginKnownDevice(r) ==
  LET q == requests[r] IN
  /\ q.op = "login"
  /\ q.device # None
  /\ \E s \in FreshSession :
       sessions' = [sessions EXCEPT ![s] = NewSession(s, q.user, q.device)]
  /\ Finish(r)
  /\ UNCHANGED <<account, devices>>

CommitLoginNewDevice(r) ==
  LET q == requests[r] IN
  /\ q.op = "login"
  /\ q.device = None
  /\ \E d \in FreshDevice, s \in FreshSession :
       /\ devices' = [devices EXCEPT ![d] = NewDevice(q.user, q.name)]
       /\ sessions' = [sessions EXCEPT ![s] = NewSession(s, q.user, d)]
  /\ Finish(r)
  /\ UNCHANGED account

CommitRefresh(r) ==
  LET q == requests[r] IN
  /\ q.op = "refresh"
  /\ \E s \in FreshSession :
       sessions' = [RevokeRows({q.token}, "rotated") EXCEPT
                      ![s] = RotatedSession(s, q.token)]
  /\ Finish(r)
  /\ UNCHANGED <<account, devices>>

RevocationReason ==
  [op \in {"logout", "revoke device", "logout all"} |->
     CASE op = "logout" -> "logout"
       [] op = "revoke device" -> "device revoked"
       [] op = "logout all" -> "logout everywhere"]

(* logout, revoke_device and revoke_all_sessions write nothing else.       *)
CommitRevocation(r) ==
  LET q == requests[r] IN
  /\ q.op \in DOMAIN RevocationReason
  /\ devices' = RevokeDevices(q.devs)
  /\ sessions' = RevokeRows(q.rows, RevocationReason[q.op])
  /\ Finish(r)
  /\ UNCHANGED account

CommitRecovery(r) ==
  LET q == requests[r] IN
  /\ q.op = "recovery"
  /\ \E d \in FreshDevice, s \in FreshSession :
       /\ devices' = [RevokeDevices(q.devs) EXCEPT ![d] = NewDevice(q.user, q.name)]
       /\ sessions' = [RevokeRows(q.rows, "logout everywhere") EXCEPT
                         ![s] = NewSession(s, q.user, d)]
  /\ Finish(r)
  /\ UNCHANGED account

(* get_db_session closes the transaction without a commit when the handler *)
(* raised.  The reuse branch always raises, so its writes never land.      *)
RaiseReuse(r) ==
  /\ requests[r].op = "reuse"
  /\ Finish(r)
  /\ UNCHANGED <<account, devices, sessions>>

(* Any other request may fail before its commit: a lost connection, a      *)
(* restart of the server.                                                  *)
Abort(r) ==
  /\ requests[r].op \notin {"idle", "reuse"}
  /\ Finish(r)
  /\ UNCHANGED <<account, devices, sessions>>

(* Thirty days pass for a session.  The expiry of a revoked row is never   *)
(* read: refresh_session looks at revoked_at first.                        *)
Expire(s) ==
  /\ Live(s)
  /\ ~sessions[s].expired
  /\ sessions' = [sessions EXCEPT ![s].expired = TRUE]
  /\ UNCHANGED <<account, devices, requests>>

-----------------------------------------------------------------------------
Begin(r) ==
  \/ \E u \in User, n \in DeviceName : BeginOnboarding(r, u, n)
  \/ \E u \in User, n \in DeviceName : BeginLogin(r, u, n)
  \/ \E s \in Session : BeginRefresh(r, s)
  \/ \E s \in Session : BeginReuse(r, s)
  \/ \E s \in Session : BeginLogout(r, s)
  \/ \E u \in User, d \in Device : BeginRevokeDevice(r, u, d)
  \/ \E u \in User : BeginLogoutAll(r, u)
  \/ \E u \in User, n \in DeviceName : BeginRecovery(r, u, n)

Commit(r) ==
  \/ CommitOnboarding(r)
  \/ CommitLoginKnownDevice(r)
  \/ CommitLoginNewDevice(r)
  \/ CommitRefresh(r)
  \/ CommitRevocation(r)
  \/ CommitRecovery(r)

Next ==
  \/ \E r \in Request : Begin(r) \/ Commit(r) \/ RaiseReuse(r) \/ Abort(r)
  \/ \E s \in MayExpire : Expire(s)

Spec == Init /\ [][Next]_vars
-----------------------------------------------------------------------------
(* Properties that hold however requests interleave.                       *)

(* A session that has been rotated into another is not live: refresh       *)
(* revokes the old row in the transaction that inserts the new one, and    *)
(* nothing revives it. (Two refreshes that overlap may still leave two new *)
(* rows, neither of which was rotated.)                                    *)
LiveSessionIsLeaf ==
  \A s, t \in Session : Exists(t) /\ sessions[t].parent = s => ~Live(s)

(* A row marked "rotated" has the row it was rotated into: a refresh that  *)
(* fails half way leaves its user a usable token.                          *)
RotatedHasSuccessor ==
  \A s \in Session : sessions[s].status = "rotated" =>
    \E t \in Session : Exists(t) /\ sessions[t].parent = s

(* All rotations of one login stay with the login's user and device, and   *)
(* the device is that user's: revoking a device by its id and its owner's  *)
(* session list (revoke_device) reaches the whole family.                  *)
FamilyOnOneDevice ==
  \A s \in Session : Exists(s) =>
    /\ devices[sessions[s].device].user = sessions[s].user
    /\ \A t \in FamilyOf(s) : /\ sessions[t].device = sessions[s].device
                              /\ sessions[t].user = sessions[s].user

(* No request, however stale what it read, makes a revoked session usable  *)
(* again, and no row of a session is ever lost.                            *)
RevokedStaysRevoked ==
  [][\A s \in Session : Revoked(s) => Revoked(s)']_vars

-----------------------------------------------------------------------------
(* Properties of requests that run one after the other.                    *)

(* A login has at most one usable refresh token: "the legitimate client    *)
(* would only ever hold the latest token" (docs/adr/0004, line 15).        *)
OneLivePerFamily ==
  \A s, t \in Session :
    Live(s) /\ Live(t) /\ sessions[s].family = sessions[t].family => s = t

(* A logout, a device revocation, a logout everywhere or a recovery ends   *)
(* the logins it found, and not only the rows it found: "revoking a device *)
(* or logging out invalidates the refresh token immediately"               *)
(* (docs/adr/0004, line 13).                                               *)
RevocationEndsLogins ==
  [][\A r \in Request, t \in Session :
       requests[r].rows # {} /\ sessions' # sessions /\ requests'[r] = Idle
         => \A s \in requests[r].rows :
              sessions'[t].family = sessions[s].family
                => sessions'[t].status # "live"]_vars

(* A completed recovery leaves its user one usable session, on the one     *)
(* device that is not revoked (complete_recovery_session's docstring).     *)
RecoveryLeavesOneDevice ==
  [][\A r \in Request, u \in User :
       /\ requests[r].op = "recovery" /\ requests[r].user = u
       /\ requests'[r] = Idle /\ sessions' # sessions
       => \E s \in Session :
              /\ ActiveOf(u)' = {s}
              /\ {d \in DevicesOf(u)' : ~devices'[d].revoked} = {sessions'[s].device}]_vars

(* Once a revoked token has been presented and answered, no session of its *)
(* family is usable: "revoke every session in the family, not just this    *)
(* one" (backend/app/domain/auth/service.py, line 310).                    *)
ReuseRevokesFamily ==
  [][\A r \in Request :
       requests[r].op = "reuse" /\ requests'[r].op = "idle"
         => \A s \in Session :
              sessions'[s].family = sessions[requests[r].token].family
                => sessions'[s].status # "live"]_vars

=============================================================================

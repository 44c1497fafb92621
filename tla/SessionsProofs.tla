--------------------------- MODULE SessionsProofs ---------------------------
(***************************************************************************)
(* Sessions, devices and requests of any number: the shape of rotation     *)
(* chains and the finality of revocation, however requests interleave; and *)
(* of requests that run one after the other, that a login has one usable   *)
(* token, that what a request set out to end is over when it commits, and  *)
(* that rotation implements the protocol of TokenFamilies.                 *)
(***************************************************************************)
EXTENDS SessionsInvariant, TLAPS

-----------------------------------------------------------------------------
(* What the writes are built from has the types of the tables.             *)

LEMMA IdleType == Idle \in RequestRow /\ Idle.op = "idle" /\ Idle.rows = {}
BY DEF Idle, RequestRow, RequestFields, Op

LEMMA NewSessionType ==
  ASSUME NEW s \in Session, NEW u \in User \cup {None}, NEW d \in Device \cup {None}
  PROVE  NewSession(s, u, d) \in SessionRow
BY DEF NewSession, SessionRow

LEMMA NewDeviceType ==
  ASSUME NEW u \in User \cup {None}, NEW n \in DeviceName \cup {None}
  PROVE  NewDevice(u, n) \in DeviceRow
BY DEF NewDevice, DeviceRow

LEMMA RevokeRowsType ==
  ASSUME TypeOK, NEW rows, NEW reason \in Reason
  PROVE  RevokeRows(rows, reason) \in [Session -> SessionRow]
<1> SUFFICES ASSUME NEW s \in Session
             PROVE  [sessions[s] EXCEPT !.status = reason] \in SessionRow
  BY DEF RevokeRows, TypeOK
<1>1. sessions[s] \in SessionRow
  BY DEF TypeOK
<1> QED BY <1>1 DEF SessionRow

LEMMA RevokeDevicesType ==
  ASSUME TypeOK, NEW devs
  PROVE  RevokeDevices(devs) \in [Device -> DeviceRow]
<1> SUFFICES ASSUME NEW d \in Device
             PROVE  [devices[d] EXCEPT !.revoked = TRUE] \in DeviceRow
  BY DEF RevokeDevices, TypeOK
<1>1. devices[d] \in DeviceRow
  BY DEF TypeOK
<1> QED BY <1>1 DEF DeviceRow

LEMMA FinishType ==
  ASSUME TypeOK, NEW r \in Request, Finish(r)
  PROVE  requests' \in [Request -> RequestRow]
BY IdleType DEF Finish, TypeOK

LEMMA RequestType ==
  ASSUME TypeOK, NEW r \in Request
  PROVE  /\ requests[r].op \in Op
         /\ requests[r].user \in User \cup {None}
         /\ requests[r].name \in DeviceName \cup {None}
         /\ requests[r].device \in Device \cup {None}
         /\ requests[r].token \in Session \cup {None}
         /\ requests[r].devs \subseteq Device
         /\ requests[r].rows \subseteq Session
         /\ requests[r].op = "refresh" => requests[r].token \in Session
<1>1. requests[r] \in RequestRow
  BY DEF TypeOK
<1> QED BY <1>1 DEF RequestRow, RequestFields

LEMMA SessionType ==
  ASSUME TypeOK, NEW s \in Session
  PROVE  /\ sessions[s].user \in User \cup {None}
         /\ sessions[s].device \in Device \cup {None}
         /\ sessions[s].family \in Session \cup {None}
         /\ sessions[s].parent \in Session \cup {None}
         /\ sessions[s].status \in Reason \cup {"absent", "live"}
         /\ sessions[s].expired \in BOOLEAN
<1>1. sessions[s] \in SessionRow
  BY DEF TypeOK
<1> QED BY <1>1 DEF SessionRow

LEMMA RotatedSessionType ==
  ASSUME TypeOK, NEW s \in Session, NEW token \in Session
  PROVE  RotatedSession(s, token) \in SessionRow
<1>1. NewSession(s, sessions[token].user, sessions[token].device) \in SessionRow
  BY NewSessionType, SessionType
<1> QED BY <1>1, SessionType DEF RotatedSession, SessionRow

-----------------------------------------------------------------------------
(* Every step keeps the tables and the open requests well typed.           *)
LEMMA StepKeepsType ==
  ASSUME TypeOK, [Next]_vars
  PROVE  TypeOK'
<1>1. ASSUME NEW r \in Request, Begin(r) PROVE TypeOK'
  <2>1. ASSUME NEW row \in RequestRow, Start(r, row) PROVE TypeOK'
    BY <2>1 DEF Start, TypeOK
  <2>2. \E row \in RequestRow : Start(r, row)
    <3> USE DEF RequestRow, RequestFields, Op, Idle
    <3>1. CASE \E u \in User, n \in DeviceName : BeginOnboarding(r, u, n)
      BY <3>1 DEF BeginOnboarding
    <3>2. CASE \E u \in User, n \in DeviceName : BeginLogin(r, u, n)
      BY <3>2 DEF BeginLogin, DevicesOf
    <3>3. CASE \E s \in Session : BeginRefresh(r, s)
      BY <3>3 DEF BeginRefresh
    <3>4. CASE \E s \in Session : BeginReuse(r, s)
      BY <3>4 DEF BeginReuse, FamilyOf
    <3>5. CASE \E s \in Session : BeginLogout(r, s)
      BY <3>5 DEF BeginLogout
    <3>6. CASE \E u \in User, d \in Device : BeginRevokeDevice(r, u, d)
      BY <3>6 DEF BeginRevokeDevice, ActiveOf
    <3>7. CASE \E u \in User : BeginLogoutAll(r, u)
      BY <3>7 DEF BeginLogoutAll, ActiveOf
    <3>8. CASE \E u \in User, n \in DeviceName : BeginRecovery(r, u, n)
      BY <3>8 DEF BeginRecovery, ActiveOf, DevicesOf
    <3> QED BY <1>1, <3>1, <3>2, <3>3, <3>4, <3>5, <3>6, <3>7, <3>8 DEF Begin
  <2> QED BY <2>1, <2>2
<1>2. ASSUME NEW r \in Request, Commit(r) PROVE TypeOK'
  <2> DEFINE q == requests[r]
  <2>0. Finish(r) => requests' \in [Request -> RequestRow]
    BY FinishType
  <2>1. CASE CommitOnboarding(r)
    <3>1. PICK d \in FreshDevice, s \in FreshSession :
            /\ devices' = [devices EXCEPT ![d] = NewDevice(q.user, q.name)]
            /\ sessions' = [sessions EXCEPT ![s] = NewSession(s, q.user, d)]
      BY <2>1 DEF CommitOnboarding
    <3>2. NewDevice(q.user, q.name) \in DeviceRow /\ NewSession(s, q.user, d) \in SessionRow
      BY NewDeviceType, NewSessionType, RequestType DEF FreshDevice, FreshSession
    <3>3. account' \in [User -> {"pending_code", "active"}]
      BY <2>1 DEF CommitOnboarding, TypeOK
    <3> QED BY <2>0, <2>1, <3>1, <3>2, <3>3 DEF CommitOnboarding, TypeOK
  <2>2. CASE CommitLoginKnownDevice(r)
    <3>1. PICK s \in FreshSession :
            sessions' = [sessions EXCEPT ![s] = NewSession(s, q.user, q.device)]
      BY <2>2 DEF CommitLoginKnownDevice
    <3>2. NewSession(s, q.user, q.device) \in SessionRow
      BY NewSessionType, RequestType DEF FreshSession
    <3> QED BY <2>0, <2>2, <3>1, <3>2 DEF CommitLoginKnownDevice, TypeOK
  <2>3. CASE CommitLoginNewDevice(r)
    <3>1. PICK d \in FreshDevice, s \in FreshSession :
            /\ devices' = [devices EXCEPT ![d] = NewDevice(q.user, q.name)]
            /\ sessions' = [sessions EXCEPT ![s] = NewSession(s, q.user, d)]
      BY <2>3 DEF CommitLoginNewDevice
    <3>2. NewDevice(q.user, q.name) \in DeviceRow /\ NewSession(s, q.user, d) \in SessionRow
      BY NewDeviceType, NewSessionType, RequestType DEF FreshDevice, FreshSession
    <3> QED BY <2>0, <2>3, <3>1, <3>2 DEF CommitLoginNewDevice, TypeOK
  <2>4. CASE CommitRefresh(r)
    <3>1. PICK s \in FreshSession :
            sessions' = [RevokeRows({q.token}, "rotated") EXCEPT
                           ![s] = RotatedSession(s, q.token)]
      BY <2>4 DEF CommitRefresh
    <3>2. RevokeRows({q.token}, "rotated") \in [Session -> SessionRow]
      BY RevokeRowsType DEF Reason
    <3>3. RotatedSession(s, q.token) \in SessionRow
      BY <2>4, RotatedSessionType, RequestType DEF FreshSession, CommitRefresh
    <3> QED BY <2>0, <2>4, <3>1, <3>2, <3>3 DEF CommitRefresh, TypeOK
  <2>5. CASE CommitRevocation(r)
    <3>1. RevocationReason[q.op] \in Reason
      BY <2>5 DEF CommitRevocation, RevocationReason, Reason
    <3> QED BY <2>0, <2>5, <3>1, RevokeRowsType, RevokeDevicesType
            DEF CommitRevocation, TypeOK
  <2>6. CASE CommitRecovery(r)
    <3>1. PICK d \in FreshDevice, s \in FreshSession :
            /\ devices' = [RevokeDevices(q.devs) EXCEPT ![d] = NewDevice(q.user, q.name)]
            /\ sessions' = [RevokeRows(q.rows, "logout everywhere") EXCEPT
                              ![s] = NewSession(s, q.user, d)]
      BY <2>6 DEF CommitRecovery
    <3>2. NewDevice(q.user, q.name) \in DeviceRow /\ NewSession(s, q.user, d) \in SessionRow
      BY NewDeviceType, NewSessionType, RequestType DEF FreshDevice, FreshSession
    <3>3. /\ RevokeRows(q.rows, "logout everywhere") \in [Session -> SessionRow]
          /\ RevokeDevices(q.devs) \in [Device -> DeviceRow]
      BY RevokeRowsType, RevokeDevicesType DEF Reason
    <3> QED BY <2>0, <2>6, <3>1, <3>2, <3>3 DEF CommitRecovery, TypeOK
  <2> QED BY <1>2, <2>1, <2>2, <2>3, <2>4, <2>5, <2>6 DEF Commit
<1>3. ASSUME NEW r \in Request, RaiseReuse(r) \/ Abort(r) PROVE TypeOK'
  BY <1>3, FinishType DEF RaiseReuse, Abort, TypeOK
<1>4. ASSUME NEW s \in Session, Expire(s) PROVE TypeOK'
  BY <1>4, ZenonT(40) DEF Expire, TypeOK, SessionRow
<1>5. CASE UNCHANGED vars
  BY <1>5 DEF vars, TypeOK
<1> QED BY <1>1, <1>2, <1>3, <1>4, <1>5, SessionsAssumption DEF Next

-----------------------------------------------------------------------------
(* Every step of the tables has one of three shapes: it keeps the rows and  *)
(* at most revokes some; it starts a login with a new row n; or it rotates *)
(* the row p into a new row n.                                             *)

SameKeys(s, row) ==
  /\ row.user = sessions[s].user
  /\ row.device = sessions[s].device
  /\ row.family = sessions[s].family
  /\ row.parent = sessions[s].parent

Kept(s) ==
  /\ SameKeys(s, sessions'[s])
  /\ \/ sessions'[s].status = sessions[s].status
     \/ Exists(s) /\ sessions'[s].status \in Reason \ {"rotated"}

DevicesKept ==
  \A d \in Device : devices[d].user # None => devices'[d].user = devices[d].user

Quiet == DevicesKept /\ \A s \in Session : Kept(s)

LoginStep(n) ==
  /\ DevicesKept
  /\ ~Exists(n)
  /\ \A s \in Session \ {n} : Kept(s)
  /\ sessions'[n].user \in User
  /\ sessions'[n].device \in Device
  /\ devices'[sessions'[n].device].user = sessions'[n].user
  /\ sessions'[n].family = n
  /\ sessions'[n].parent = None
  /\ sessions'[n].status = "live"

Rotation(n, p) ==
  /\ DevicesKept
  /\ ~Exists(n)
  /\ Exists(p)
  /\ \A s \in Session \ {n, p} : Kept(s)
  /\ SameKeys(p, sessions'[p])
  /\ sessions'[p].status = "rotated"
  /\ sessions'[n].user = sessions[p].user
  /\ sessions'[n].device = sessions[p].device
  /\ sessions'[n].family = sessions[p].family
  /\ sessions'[n].parent = p
  /\ sessions'[n].status = "live"

TableStep ==
  \/ Quiet
  \/ \E n \in Session : LoginStep(n)
  \/ \E n, p \in Session : Rotation(n, p)

LEMMA RevokeRowsShape ==
  ASSUME TypeOK, NEW rows \in SUBSET Session, NEW reason \in Reason
  PROVE  \A s \in Session :
           /\ SameKeys(s, RevokeRows(rows, reason)[s])
           /\ s \in rows => RevokeRows(rows, reason)[s].status = reason
           /\ s \notin rows => RevokeRows(rows, reason)[s].status = sessions[s].status
<1> TAKE s \in Session
<1>1. sessions[s] \in SessionRow
  BY DEF TypeOK
<1> QED BY <1>1 DEF RevokeRows, SessionRow, SameKeys

LEMMA NewSessionShape ==
  ASSUME NEW s, NEW u, NEW d
  PROVE  LET row == NewSession(s, u, d) IN
         /\ row.user = u
         /\ row.device = d
         /\ row.family = s
         /\ row.parent = None
         /\ row.status = "live"
BY DEF NewSession

LEMMA RotatedSessionShape ==
  ASSUME NEW s, NEW p
  PROVE  LET row == RotatedSession(s, p) IN
         /\ row.user = sessions[p].user
         /\ row.device = sessions[p].device
         /\ row.family = sessions[p].family
         /\ row.parent = p
         /\ row.status = "live"
BY DEF RotatedSession, NewSession

LEMMA RevokeDevicesShape ==
  ASSUME TypeOK, NEW devs, NEW d \in Device
  PROVE  RevokeDevices(devs)[d].user = devices[d].user
<1>1. devices[d] \in DeviceRow
  BY DEF TypeOK
<1> QED BY <1>1 DEF RevokeDevices, DeviceRow

LEMMA EveryStepHasShape == IInv /\ [Next]_vars => TableStep
<1> SUFFICES ASSUME IInv, [Next]_vars PROVE TableStep
  OBVIOUS
<1> USE DEF IInv
<1>1. ASSUME UNCHANGED <<devices, sessions>> PROVE Quiet
  BY <1>1 DEF Quiet, DevicesKept, Kept, SameKeys
<1>2. ASSUME NEW r \in Request, Begin(r) PROVE TableStep
  BY <1>1, <1>2 DEF Begin, BeginOnboarding, BeginLogin, BeginRefresh, BeginReuse,
     BeginLogout, BeginRevokeDevice, BeginLogoutAll, BeginRecovery, Start, TableStep
<1>3. ASSUME NEW r \in Request, Commit(r) PROVE TableStep
  <2> DEFINE q == requests[r]
  <2>0. /\ q.rows \subseteq Session
        /\ \A s \in q.rows : Exists(s)
        /\ q.device \in Device \cup {None}
    BY RequestType DEF RequestsAgree, RequestAgrees
  <2>1. CASE CommitOnboarding(r)
    <3>1. PICK d \in FreshDevice, n \in FreshSession :
            /\ devices' = [devices EXCEPT ![d] = NewDevice(q.user, q.name)]
            /\ sessions' = [sessions EXCEPT ![n] = NewSession(n, q.user, d)]
      BY <2>1 DEF CommitOnboarding
    <3>2. q.user \in User
      BY <2>1 DEF CommitOnboarding, RequestsAgree, RequestAgrees
    <3>3. LoginStep(n)
      BY <3>1, <3>2, NewSessionShape
         DEF LoginStep, DevicesKept, Kept, SameKeys, FreshDevice, FreshSession, NewDevice, TypeOK
    <3> QED BY <3>3 DEF TableStep, FreshSession
  <2>2. CASE CommitLoginKnownDevice(r)
    <3>1. PICK n \in FreshSession :
            sessions' = [sessions EXCEPT ![n] = NewSession(n, q.user, q.device)]
      BY <2>2 DEF CommitLoginKnownDevice
    <3>2. q.user \in User /\ devices[q.device].user = q.user /\ devices' = devices
      BY <2>2 DEF CommitLoginKnownDevice, RequestsAgree, RequestAgrees
    <3>3. LoginStep(n)
      BY <2>0, <2>2, <3>1, <3>2, NewSessionShape
         DEF LoginStep, DevicesKept, Kept, SameKeys, FreshSession, CommitLoginKnownDevice, TypeOK
    <3> QED BY <3>3 DEF TableStep, FreshSession
  <2>3. CASE CommitLoginNewDevice(r)
    <3>1. PICK d \in FreshDevice, n \in FreshSession :
            /\ devices' = [devices EXCEPT ![d] = NewDevice(q.user, q.name)]
            /\ sessions' = [sessions EXCEPT ![n] = NewSession(n, q.user, d)]
      BY <2>3 DEF CommitLoginNewDevice
    <3>2. q.user \in User
      BY <2>3 DEF CommitLoginNewDevice, RequestsAgree, RequestAgrees
    <3>3. LoginStep(n)
      BY <3>1, <3>2, NewSessionShape
         DEF LoginStep, DevicesKept, Kept, SameKeys, FreshDevice, FreshSession, NewDevice, TypeOK
    <3> QED BY <3>3 DEF TableStep, FreshSession
  <2>4. CASE CommitRefresh(r)
    <3> DEFINE p == q.token
    <3>1. PICK n \in FreshSession :
            sessions' = [RevokeRows({p}, "rotated") EXCEPT ![n] = RotatedSession(n, p)]
      BY <2>4 DEF CommitRefresh
    <3>2. p \in Session /\ Exists(p) /\ devices' = devices
      BY <2>4 DEF CommitRefresh, RequestsAgree, RequestAgrees
    <3> DEFINE T == RevokeRows({p}, "rotated")
    <3>3. \A s \in Session :
            /\ SameKeys(s, T[s])
            /\ s \in {p} => T[s].status = "rotated"
            /\ s \notin {p} => T[s].status = sessions[s].status
      <4>1. {p} \in SUBSET Session /\ "rotated" \in Reason
        BY <3>2 DEF Reason
      <4> HIDE DEF p
      <4> QED BY <4>1, RevokeRowsShape
    <3>4. T \in [Session -> SessionRow]
      BY RevokeRowsType DEF Reason
    <3>5. /\ sessions'[n] = RotatedSession(n, p)
          /\ \A s \in Session \ {n} : sessions'[s] = T[s]
      BY <3>1, <3>4 DEF FreshSession
    <3>6. \A s \in Session \ {n} :
            /\ SameKeys(s, sessions'[s])
            /\ sessions'[s].status = IF s = p THEN "rotated" ELSE sessions[s].status
      BY <3>3, <3>5, ZenonT(40) DEF SameKeys
    <3>7. Rotation(n, p)
      BY <3>2, <3>5, <3>6, RotatedSessionShape
         DEF Rotation, DevicesKept, Kept, FreshSession
    <3> QED BY <3>2, <3>7 DEF TableStep, FreshSession
  <2>5. CASE CommitRevocation(r)
    <3> DEFINE reason == RevocationReason[q.op]
    <3>0. q.op \in {"logout", "revoke device", "logout all"}
          /\ sessions' = RevokeRows(q.rows, reason)
      BY <2>5 DEF CommitRevocation, RevocationReason
    <3>1. reason \in Reason \ {"rotated"} /\ sessions' = RevokeRows(q.rows, reason)
      BY <3>0 DEF RevocationReason, Reason
    <3>2. \A s \in Session : Kept(s)
      BY <2>0, <3>1, RevokeRowsShape DEF Kept
    <3>3. DevicesKept
      BY <2>5, RevokeDevicesShape DEF CommitRevocation, DevicesKept
    <3> QED BY <3>2, <3>3 DEF TableStep, Quiet
  <2>6. CASE CommitRecovery(r)
    <3> DEFINE T == RevokeRows(q.rows, "logout everywhere")
    <3>1. PICK d \in FreshDevice, n \in FreshSession :
            /\ devices' = [RevokeDevices(q.devs) EXCEPT ![d] = NewDevice(q.user, q.name)]
            /\ sessions' = [T EXCEPT ![n] = NewSession(n, q.user, d)]
      BY <2>6 DEF CommitRecovery
    <3>2. q.user \in User
      BY <2>6 DEF CommitRecovery, RequestsAgree, RequestAgrees
    <3>3. T \in [Session -> SessionRow] /\ RevokeDevices(q.devs) \in [Device -> DeviceRow]
      BY RevokeRowsType, RevokeDevicesType DEF Reason
    <3>4. \A s \in Session \ {n} : Kept(s)
      <4>1. \A s \in Session \ {n} : sessions'[s] = T[s]
        BY <3>1, <3>3
      <4>2. \A s \in Session :
              /\ SameKeys(s, T[s])
              /\ s \in q.rows => T[s].status = "logout everywhere"
              /\ s \notin q.rows => T[s].status = sessions[s].status
        BY <2>0, RevokeRowsShape DEF Reason
      <4> SUFFICES ASSUME NEW s \in Session \ {n} PROVE Kept(s)
        OBVIOUS
      <4>3. SameKeys(s, sessions'[s])
        BY <4>1, <4>2 DEF SameKeys
      <4>4. sessions'[s].status = IF s \in q.rows THEN "logout everywhere" ELSE sessions[s].status
        BY <4>1, <4>2
      <4> QED BY <2>0, <4>3, <4>4 DEF Kept, Reason
    <3>5. DevicesKept /\ devices'[d].user = q.user
      BY <3>1, <3>3, RevokeDevicesShape DEF DevicesKept, FreshDevice, NewDevice
    <3>6. sessions'[n] = NewSession(n, q.user, d)
      BY <3>1, <3>3 DEF FreshSession
    <3>7. LoginStep(n)
      BY <3>2, <3>4, <3>5, <3>6, NewSessionShape DEF LoginStep, FreshDevice, FreshSession
    <3> QED BY <3>7 DEF TableStep, FreshSession
  <2> QED BY <1>3, <2>1, <2>2, <2>3, <2>4, <2>5, <2>6 DEF Commit
<1>4. ASSUME NEW r \in Request, RaiseReuse(r) \/ Abort(r) PROVE TableStep
  BY <1>1, <1>4 DEF RaiseReuse, Abort, TableStep
<1>5. ASSUME NEW x \in Session, Expire(x) PROVE TableStep
  BY <1>5 DEF Expire, TableStep, Quiet, DevicesKept, Kept, SameKeys, TypeOK, SessionRow
<1>6. CASE UNCHANGED vars
  BY <1>1, <1>6 DEF vars, TableStep
<1> QED BY <1>2, <1>3, <1>4, <1>5, <1>6, SessionsAssumption DEF Next

-----------------------------------------------------------------------------
(* What the three shapes have in common.                                   *)

LEMMA KeptRow ==
  ASSUME TypeOK, NEW s \in Session, Kept(s)
  PROVE  /\ SameKeys(s, sessions'[s])
         /\ Exists(s) <=> Exists(s)'
         /\ Live(s)' => Live(s)
         /\ Revoked(s) => Revoked(s)'
         /\ sessions'[s].status = "rotated" => sessions[s].status = "rotated"
BY DEF Kept, Exists, Live, Revoked, Reason

(* Rows that exist keep their keys, a revoked row stays revoked.           *)
LEMMA OldRowsStay ==
  ASSUME TypeOK, TableStep, NEW s \in Session, Exists(s)
  PROVE  /\ SameKeys(s, sessions'[s])
         /\ Exists(s)'
         /\ Revoked(s) => Revoked(s)'
         /\ Live(s)' => Live(s)
<1>1. CASE Kept(s)
  BY <1>1, KeptRow
<1>2. CASE \E n \in Session : Rotation(n, s)
  BY <1>2 DEF Rotation, Exists, Live, Revoked, Reason
<1> QED BY <1>1, <1>2 DEF TableStep, Quiet, LoginStep, Rotation

(* A row that did not exist is the one the step adds.                      *)
LEMMA NewRow ==
  ASSUME TypeOK, TableStep, NEW s \in Session, ~Exists(s), Exists(s)'
  PROVE  LoginStep(s) \/ \E p \in Session : Rotation(s, p)
<1>1. ~Kept(s)
  BY KeptRow
<1> QED BY <1>1 DEF TableStep, Quiet, LoginStep, Rotation

LEMMA DevicesStay == TableStep => DevicesKept
BY DEF TableStep, Quiet, LoginStep, Rotation

-----------------------------------------------------------------------------
(* Every shape keeps the agreement of the rows.                            *)
LEMMA RowsStayAgreed ==
  ASSUME TypeOK, RowsAgree, TableStep
  PROVE  RowsAgree'
<1> SUFFICES ASSUME NEW s \in Session, Exists(s)' PROVE RowAgrees(s)'
  BY DEF RowsAgree
<1>1. DevicesKept
  BY DevicesStay
<1>2. ASSUME NEW t \in Session, Exists(t),
             sessions'[s].user = sessions[t].user,
             sessions'[s].device = sessions[t].device,
             sessions'[s].family = sessions[t].family,
             sessions'[s].parent # None =>
               sessions'[s].parent \in Session /\ Exists(sessions'[s].parent)
      PROVE  RowAgrees(s)'
  <2>1. RowAgrees(t)
    BY <1>2 DEF RowsAgree
  <2> PICK root \in Session : root = sessions[t].family /\ Exists(root)
    BY <2>1 DEF RowAgrees
  <2>2. /\ SameKeys(root, sessions'[root])
        /\ Exists(root)'
    BY OldRowsStay
  <2>3. ASSUME sessions'[s].parent # None
        PROVE  /\ sessions'[s].parent \in Session
               /\ sessions'[sessions'[s].parent].status # "absent"
    <3> PICK p \in Session : p = sessions'[s].parent /\ Exists(p)
      BY <1>2, <2>3
    <3>1. Exists(p)'
      BY OldRowsStay
    <3> QED BY <3>1 DEF Exists
  <2>4. devices'[sessions'[s].device].user = sessions'[s].user
    BY <1>1, <1>2, <2>1, SessionsAssumption DEF DevicesKept, RowAgrees
  <2> QED BY <1>2, <2>1, <2>2, <2>3, <2>4 DEF RowAgrees, SameKeys, Exists
<1>3. CASE Exists(s)
  <2>1. SameKeys(s, sessions'[s]) /\ RowAgrees(s)
    BY <1>3, OldRowsStay DEF RowsAgree
  <2> QED BY <1>2, <1>3, <2>1 DEF SameKeys, RowAgrees
<1>4. CASE LoginStep(s)
  BY <1>4 DEF LoginStep, RowAgrees, Exists
<1>5. ASSUME NEW p \in Session, Rotation(s, p) PROVE RowAgrees(s)'
  BY <1>2, <1>5 DEF Rotation
<1> QED BY <1>3, <1>4, <1>5, NewRow

(* A rotated-away row is not live: the new row's parent is the row that    *)
(* the same step marks "rotated".                                          *)
LEMMA LeavesStayLive ==
  ASSUME TypeOK, RowsAgree, LiveSessionIsLeaf, TableStep
  PROVE  LiveSessionIsLeaf'
<1> SUFFICES ASSUME NEW s \in Session, NEW t \in Session,
                    Exists(t)', sessions'[t].parent = s
             PROVE  ~Live(s)'
  BY DEF LiveSessionIsLeaf
<1>1. CASE Exists(t)
  <2>1. sessions[t].parent = s
    BY <1>1, OldRowsStay DEF SameKeys
  <2>2. s # None
    BY SessionsAssumption
  <2>3. Exists(s) /\ ~Live(s)
    BY <1>1, <2>1, <2>2 DEF LiveSessionIsLeaf, RowsAgree, RowAgrees
  <2> QED BY <2>3, OldRowsStay
<1>2. CASE LoginStep(t)
  BY <1>2, SessionsAssumption DEF LoginStep
<1>3. ASSUME NEW p \in Session, Rotation(t, p) PROVE ~Live(s)'
  BY <1>3 DEF Rotation, Live
<1> QED BY <1>1, <1>2, <1>3, NewRow

(* A row becomes "rotated" only together with its successor's insertion,   *)
(* and a successor is never deleted.                                       *)
LEMMA SuccessorsStay ==
  ASSUME TypeOK, RotatedHasSuccessor, TableStep
  PROVE  RotatedHasSuccessor'
<1> SUFFICES ASSUME NEW s \in Session, sessions'[s].status = "rotated"
             PROVE  \E t \in Session : Exists(t)' /\ sessions'[t].parent = s
  BY DEF RotatedHasSuccessor
<1>1. CASE sessions[s].status = "rotated"
  <2>1. PICK t \in Session : Exists(t) /\ sessions[t].parent = s
    BY <1>1 DEF RotatedHasSuccessor
  <2> QED BY <2>1, OldRowsStay DEF SameKeys
<1>2. ASSUME NEW n \in Session, Rotation(n, s)
      PROVE  \E t \in Session : Exists(t)' /\ sessions'[t].parent = s
  BY <1>2 DEF Rotation, Exists
<1>3. CASE Kept(s)
  BY <1>1, <1>3, KeptRow
<1>4. CASE LoginStep(s)
  BY <1>4 DEF LoginStep
<1>5. ASSUME NEW p \in Session, Rotation(s, p) PROVE FALSE
  BY <1>5 DEF Rotation
<1> QED BY <1>2, <1>3, <1>4, <1>5 DEF TableStep, Quiet, LoginStep, Rotation

(* What an open request has read stays true of the tables while it waits.  *)
LEMMA WaitingRequestAgrees ==
  ASSUME TypeOK, RequestsAgree, TableStep, NEW r \in Request,
         requests'[r] = requests[r]
  PROVE  RequestAgrees(r)'
<1> DEFINE q == requests[r]
<1>1. RequestAgrees(r)
  BY DEF RequestsAgree
<1>2. q.op = "login" /\ q.device # None => devices'[q.device].user = q.user
  <2> SUFFICES ASSUME q.op = "login", q.device # None
               PROVE  devices'[q.device].user = q.user
    OBVIOUS
  <2>1. q.device \in Device /\ q.user \in User
    BY <1>1, RequestType DEF RequestAgrees
  <2>2. devices[q.device].user = q.user /\ q.user # None
    BY <1>1, <2>1, SessionsAssumption DEF RequestAgrees
  <2> QED BY <2>1, <2>2, DevicesStay DEF DevicesKept
<1>3. q.op = "refresh" => sessions'[q.token].status # "absent"
  <2> SUFFICES ASSUME q.op = "refresh" PROVE sessions'[q.token].status # "absent"
    OBVIOUS
  <2> PICK p \in Session : p = q.token /\ Exists(p)
    BY <1>1 DEF RequestAgrees
  <2>1. Exists(p)'
    BY OldRowsStay
  <2> QED BY <2>1 DEF Exists
<1>4. \A s \in q.rows : Exists(s)'
  <2> TAKE s \in q.rows
  <2>1. s \in Session /\ Exists(s)
    BY <1>1, RequestType DEF RequestAgrees
  <2> QED BY <2>1, OldRowsStay
<1> QED BY <1>1, <1>2, <1>3, <1>4 DEF RequestAgrees, Exists

LEMMA RequestsStayAgreed ==
  ASSUME IInv, [Next]_vars
  PROVE  RequestsAgree'
<1> USE DEF IInv
<1>0. TableStep
  BY EveryStepHasShape
<1> SUFFICES ASSUME NEW r \in Request PROVE RequestAgrees(r)'
  BY DEF RequestsAgree
<1>1. CASE requests'[r] = requests[r]
  BY <1>0, <1>1, WaitingRequestAgrees
<1>2. CASE requests'[r] = Idle
  BY <1>2 DEF RequestAgrees, Idle
<1>3. ASSUME NEW row, Start(r, row),
             row.op \in {"onboarding", "login", "recovery"} => row.user \in User,
             row.op = "login" /\ row.device # None => devices[row.device].user = row.user,
             row.op = "refresh" => row.token \in Session /\ Exists(row.token),
             \A s \in row.rows : Exists(s)
      PROVE  RequestAgrees(r)'
  <2>1. requests'[r] = row /\ devices' = devices /\ sessions' = sessions
    BY <1>3 DEF Start, TypeOK
  <2> QED BY <1>3, <2>1 DEF RequestAgrees, Exists
<1>4. CASE Begin(r)
  <2> USE <1>3 DEF Idle
  <2>1. CASE \E u \in User, n \in DeviceName : BeginOnboarding(r, u, n)
    BY <2>1 DEF BeginOnboarding
  <2>2. CASE \E u \in User, n \in DeviceName : BeginLogin(r, u, n)
    BY <2>2 DEF BeginLogin, DevicesOf
  <2>3. CASE \E s \in Session : BeginRefresh(r, s)
    BY <2>3 DEF BeginRefresh, Live, Exists
  <2>4. CASE \E s \in Session : BeginReuse(r, s)
    BY <2>4 DEF BeginReuse, FamilyOf
  <2>5. CASE \E s \in Session : BeginLogout(r, s)
    BY <2>5 DEF BeginLogout, Live, Exists
  <2>6. CASE \E u \in User, d \in Device : BeginRevokeDevice(r, u, d)
    BY <2>6 DEF BeginRevokeDevice, ActiveOf, Live, Exists
  <2>7. CASE \E u \in User : BeginLogoutAll(r, u)
    BY <2>7 DEF BeginLogoutAll, ActiveOf, Live, Exists
  <2>8. CASE \E u \in User, n \in DeviceName : BeginRecovery(r, u, n)
    BY <2>8 DEF BeginRecovery, ActiveOf, Live, Exists
  <2> QED BY <1>4, <2>1, <2>2, <2>3, <2>4, <2>5, <2>6, <2>7, <2>8 DEF Begin
<1>5. ASSUME NEW r2 \in Request, Finish(r2)
      PROVE  requests'[r] \in {requests[r], Idle}
  BY <1>5 DEF Finish, TypeOK
<1>6. ASSUME NEW r2 \in Request, Begin(r2), r2 # r
      PROVE  requests'[r] = requests[r]
  BY <1>6 DEF Begin, BeginOnboarding, BeginLogin, BeginRefresh, BeginReuse, BeginLogout,
     BeginRevokeDevice, BeginLogoutAll, BeginRecovery, Start, TypeOK
<1>7. ASSUME NEW r2 \in Request, Commit(r2) \/ RaiseReuse(r2) \/ Abort(r2)
      PROVE  Finish(r2)
  BY <1>7 DEF Commit, CommitOnboarding, CommitLoginKnownDevice, CommitLoginNewDevice,
     CommitRefresh, CommitRevocation, CommitRecovery, RaiseReuse, Abort
<1>8. ASSUME NEW s \in Session, Expire(s) PROVE requests'[r] = requests[r]
  BY <1>8 DEF Expire
<1>9. CASE UNCHANGED vars
  BY <1>1, <1>9 DEF vars
<1> QED BY <1>1, <1>2, <1>4, <1>5, <1>6, <1>7, <1>8, <1>9, SessionsAssumption DEF Next

-----------------------------------------------------------------------------
(* The invariant IInv is inductive.                                        *)

LEMMA InitInvariant == Init => IInv
<1> SUFFICES ASSUME Init PROVE IInv
  OBVIOUS
<1>1. TypeOK
  BY IdleType DEF Init, TypeOK, NoDevice, NoSession, DeviceRow, SessionRow
<1>2. \A s \in Session : sessions[s].status = "absent"
  BY DEF Init, NoSession
<1>3. RequestsAgree
  BY DEF Init, RequestsAgree, RequestAgrees, Idle
<1> QED BY <1>1, <1>2, <1>3
        DEF IInv, RowsAgree, LiveSessionIsLeaf, RotatedHasSuccessor, Exists

(* The tables and the open requests keep their types.                       *)
THEOREM TypeCorrect == Spec => []TypeOK
<1>1. Init => TypeOK
  BY InitInvariant DEF IInv
<1>2. TypeOK /\ [Next]_vars => TypeOK'
  BY StepKeepsType
<1> QED BY <1>1, <1>2, PTL DEF Spec

(* The strengthened invariant holds in every reachable state.              *)
THEOREM InvariantHolds == Spec => []IInv
<1>1. Init => IInv
  BY InitInvariant
<1>2. IInv /\ [Next]_vars => IInv'
  BY EveryStepHasShape, StepKeepsType, RowsStayAgreed, RequestsStayAgreed,
     LeavesStayLive, SuccessorsStay DEF IInv
<1> QED BY <1>1, <1>2, PTL DEF Spec

(* However many refreshes overlap, a session that was rotated is never     *)
(* usable beside the session it was rotated into.                          *)
THEOREM RotatedSessionsAreDead == Spec => []LiveSessionIsLeaf
<1>1. IInv => LiveSessionIsLeaf
  BY DEF IInv
<1> QED BY <1>1, InvariantHolds, PTL

(* A refresh never ends a session without starting the next one.           *)
THEOREM RotationKeepsASuccessor == Spec => []RotatedHasSuccessor
<1>1. IInv => RotatedHasSuccessor
  BY DEF IInv
<1> QED BY <1>1, InvariantHolds, PTL

(* The rows of a login belong to one user and to one device of that user,  *)
(* since each agrees with the row the login started with.                  *)
THEOREM LoginStaysOnItsDevice == Spec => []FamilyOnOneDevice
<1>1. IInv => FamilyOnOneDevice
  BY DEF IInv, FamilyOnOneDevice, FamilyOf, RowsAgree, RowAgrees
<1> QED BY <1>1, InvariantHolds, PTL

(* No overlap of requests makes a revoked session usable again.            *)
THEOREM RevocationIsFinal == Spec => RevokedStaysRevoked
<1>1. IInv /\ [Next]_vars => [\A s \in Session : Revoked(s) => Revoked(s)']_vars
  <2> SUFFICES ASSUME IInv, [Next]_vars, NEW s \in Session, Revoked(s)
               PROVE  Revoked(s)'
    OBVIOUS
  <2>1. TypeOK /\ TableStep
    BY EveryStepHasShape DEF IInv
  <2>2. Exists(s)
    BY DEF Revoked, Exists, Reason
  <2> QED BY <2>1, <2>2, OldRowsStay
<1> QED BY <1>1, InvariantHolds, PTL DEF Spec, RevokedStaysRevoked

-----------------------------------------------------------------------------
(* Requests that run one after the other.                                  *)

(* What a step does to the tokens: nothing, end some and start at most one *)
(* login, or replace one.                                                  *)

Stays(s) ==
  /\ sessions'[s].status = sessions[s].status
  /\ sessions'[s].family = sessions[s].family

EndsAndStarts(rows, n) ==
  /\ rows \subseteq Session /\ \A s \in rows : Live(s)
  /\ n \in Session => /\ ~Exists(n)
                      /\ sessions'[n].status = "live" /\ sessions'[n].family = n
  /\ \A s \in Session \ {n} :
       /\ sessions'[s].family = sessions[s].family
       /\ s \in rows => sessions'[s].status \in Reason
       /\ s \notin rows => sessions'[s].status = sessions[s].status

Rotates(n, p) ==
  /\ n \in Session /\ ~Exists(n)
  /\ p \in Session /\ Live(p)
  /\ sessions'[n].status = "live" /\ sessions'[n].family = sessions[p].family
  /\ sessions'[p].status = "rotated" /\ sessions'[p].family = sessions[p].family
  /\ \A s \in Session \ {n, p} : Stays(s)

TokenStep ==
  \/ \A s \in Session : Stays(s)
  \/ \E rows \in SUBSET Session, n \in Session \cup {None} : EndsAndStarts(rows, n)
  \/ \E n, p \in Session : Rotates(n, p)

(* What the commits write, row by row.                                     *)
LEMMA LoginTokens ==
  ASSUME TypeOK, NEW n \in FreshSession, NEW u, NEW d,
         sessions' = [sessions EXCEPT ![n] = NewSession(n, u, d)]
  PROVE  EndsAndStarts({}, n)
BY NewSessionShape DEF EndsAndStarts, FreshSession, TypeOK

LEMMA RevocationTokens ==
  ASSUME TypeOK, NEW rows \in SUBSET Session, \A s \in rows : Live(s), NEW reason \in Reason,
         sessions' = RevokeRows(rows, reason)
  PROVE  EndsAndStarts(rows, None)
BY RevokeRowsShape, SessionsAssumption DEF EndsAndStarts, SameKeys

LEMMA RecoveryTokens ==
  ASSUME TypeOK, NEW rows \in SUBSET Session, \A s \in rows : Live(s), NEW n \in FreshSession,
         NEW u, NEW d,
         sessions' = [RevokeRows(rows, "logout everywhere") EXCEPT ![n] = NewSession(n, u, d)]
  PROVE  /\ EndsAndStarts(rows, n)
         /\ sessions'[n].user = u /\ sessions'[n].device = d
         /\ \A s \in Session \ {n} : SameKeys(s, sessions'[s])
<1> DEFINE T == RevokeRows(rows, "logout everywhere")
<1>1. T \in [Session -> SessionRow]
  BY RevokeRowsType DEF Reason
<1>2. \A s \in Session :
        /\ SameKeys(s, T[s])
        /\ s \in rows => T[s].status = "logout everywhere"
        /\ s \notin rows => T[s].status = sessions[s].status
  BY RevokeRowsShape DEF Reason
<1> HIDE DEF T
<1>3. sessions'[n] = NewSession(n, u, d) /\ \A s \in Session \ {n} : sessions'[s] = T[s]
  BY <1>1 DEF T, FreshSession
<1>4. \A s \in Session \ {n} : SameKeys(s, sessions'[s])
  BY <1>2, <1>3 DEF SameKeys
<1>5. \A s \in Session \ {n} : /\ sessions'[s].family = sessions[s].family
                               /\ s \in rows => sessions'[s].status \in Reason
                               /\ s \notin rows => sessions'[s].status = sessions[s].status
  BY <1>2, <1>3 DEF SameKeys, Reason
<1>6. /\ sessions'[n].user = u /\ sessions'[n].device = d
      /\ sessions'[n].family = n /\ sessions'[n].status = "live"
  <2>1. sessions'[n] = NewSession(n, u, d)
    BY <1>3
  <2> QED BY ONLY <2>1, NewSessionShape
<1>7. EndsAndStarts(rows, n)
  BY <1>5, <1>6 DEF EndsAndStarts, FreshSession
<1> QED BY <1>4, <1>6, <1>7

LEMMA RefreshTokens ==
  ASSUME TypeOK, NEW p \in Session, Live(p), NEW n \in FreshSession,
         sessions' = [RevokeRows({p}, "rotated") EXCEPT ![n] = RotatedSession(n, p)]
  PROVE  Rotates(n, p)
<1> DEFINE T == RevokeRows({p}, "rotated")
<1>1. T \in [Session -> SessionRow]
  BY RevokeRowsType DEF Reason
<1>2. \A s \in Session :
        /\ SameKeys(s, T[s])
        /\ s \in {p} => T[s].status = "rotated"
        /\ s \notin {p} => T[s].status = sessions[s].status
  <2>1. {p} \in SUBSET Session /\ "rotated" \in Reason
    BY DEF Reason
  <2> QED BY <2>1, RevokeRowsShape
<1> HIDE DEF T
<1>3. sessions'[n] = RotatedSession(n, p) /\ \A s \in Session \ {n} : sessions'[s] = T[s]
  BY <1>1 DEF T, FreshSession
<1>4. n \in Session /\ ~Exists(n) /\ n # p
  BY DEF FreshSession, Exists, Live
<1>5. sessions'[n].status = "live" /\ sessions'[n].family = sessions[p].family
  BY <1>3, RotatedSessionShape
<1>6. sessions'[p].status = "rotated" /\ sessions'[p].family = sessions[p].family
  BY <1>2, <1>3, <1>4 DEF SameKeys
<1>7. \A s \in Session \ {n, p} : Stays(s)
  BY <1>2, <1>3 DEF Stays, SameKeys
<1> QED BY <1>4, <1>5, <1>6, <1>7 DEF Rotates

(* What the requests that end logins write: the rows they read were live.  *)
LEMMA RevocationStep ==
  ASSUME SerialInv, NEW r \in Request, CommitRevocation(r)
  PROVE  EndsAndStarts(requests[r].rows, None)
<1> DEFINE q == requests[r]
<1>1. q.op \in {"logout", "revoke device", "logout all"}
      /\ sessions' = RevokeRows(q.rows, RevocationReason[q.op])
  BY DEF CommitRevocation, RevocationReason
<1>2. RevocationReason[q.op] \in Reason
  BY <1>1 DEF RevocationReason, Reason
<1>3. TypeOK /\ q.rows \in SUBSET Session /\ \A s \in q.rows : Live(s)
  BY RequestType DEF ReadHolds, SerialInv, IInv
<1> QED BY <1>1, <1>2, <1>3, RevocationTokens

LEMMA RecoveryStep ==
  ASSUME SerialInv, NEW r \in Request, CommitRecovery(r)
  PROVE  \E n \in FreshSession, d \in FreshDevice :
           /\ EndsAndStarts(requests[r].rows, n)
           /\ sessions'[n].user = requests[r].user /\ sessions'[n].device = d
           /\ \A s \in Session \ {n} : SameKeys(s, sessions'[s])
           /\ devices' = [RevokeDevices(requests[r].devs) EXCEPT
                            ![d] = NewDevice(requests[r].user, requests[r].name)]
<1> DEFINE rows == requests[r].rows
           user == requests[r].user
<1>1. PICK n \in FreshSession, d \in FreshDevice :
        /\ devices' = [RevokeDevices(requests[r].devs) EXCEPT
                         ![d] = NewDevice(requests[r].user, requests[r].name)]
        /\ sessions' = [RevokeRows(rows, "logout everywhere") EXCEPT ![n] = NewSession(n, user, d)]
  BY DEF CommitRecovery
<1>2. TypeOK /\ rows \in SUBSET Session /\ \A s \in rows : Live(s)
  BY RequestType DEF ReadHolds, SerialInv, IInv
<1> HIDE DEF rows, user
<1>3. /\ EndsAndStarts(rows, n)
      /\ sessions'[n].user = user /\ sessions'[n].device = d
      /\ \A s \in Session \ {n} : SameKeys(s, sessions'[s])
  BY <1>1, <1>2, RecoveryTokens
<1> QED BY <1>1, <1>3 DEF rows, user

LEMMA EveryStepIsTokenStep ==
  ASSUME SerialInv, [Next]_vars
  PROVE  TokenStep
<1> USE DEF SerialInv, IInv
<1>1. ASSUME UNCHANGED sessions PROVE TokenStep
  BY <1>1 DEF TokenStep, Stays
<1>2. ASSUME NEW r \in Request, Begin(r) \/ RaiseReuse(r) \/ Abort(r) PROVE TokenStep
  BY <1>1, <1>2 DEF Begin, BeginOnboarding, BeginLogin, BeginRefresh, BeginReuse, BeginLogout,
     BeginRevokeDevice, BeginLogoutAll, BeginRecovery, Start, RaiseReuse, Abort
<1>3. ASSUME NEW r \in Request, Commit(r) PROVE TokenStep
  <2> DEFINE q == requests[r]
  <2>1. /\ q.rows \in SUBSET Session /\ \A s \in q.rows : Live(s)
        /\ q.op = "refresh" => q.token \in Session /\ Live(q.token)
    BY RequestType DEF ReadHolds
  <2>2. CASE CommitOnboarding(r) \/ CommitLoginKnownDevice(r) \/ CommitLoginNewDevice(r)
    <3>1. \E n \in FreshSession : \E u, d : sessions' = [sessions EXCEPT ![n] = NewSession(n, u, d)]
      BY <2>2 DEF CommitOnboarding, CommitLoginKnownDevice, CommitLoginNewDevice
    <3>2. \E n \in FreshSession : EndsAndStarts({}, n)
      BY <3>1, LoginTokens
    <3> QED BY <3>2 DEF TokenStep, FreshSession
  <2>3. CASE CommitRefresh(r)
    <3>1. PICK n \in FreshSession :
            sessions' = [RevokeRows({q.token}, "rotated") EXCEPT ![n] = RotatedSession(n, q.token)]
      BY <2>3 DEF CommitRefresh
    <3>2. q.token \in Session /\ Live(q.token)
      BY <2>1, <2>3 DEF CommitRefresh
    <3>3. Rotates(n, q.token)
      BY <3>1, <3>2, RefreshTokens
    <3> QED BY <3>2, <3>3 DEF TokenStep, FreshSession
  <2>4. CASE CommitRevocation(r)
    BY <2>1, <2>4, RevocationStep DEF TokenStep
  <2>5. CASE CommitRecovery(r)
    <3>1. \E n \in FreshSession : EndsAndStarts(q.rows, n)
      BY <2>5, RecoveryStep
    <3> QED BY <2>1, <3>1 DEF TokenStep, FreshSession
  <2> QED BY <1>3, <2>2, <2>3, <2>4, <2>5 DEF Commit
<1>4. ASSUME NEW x \in Session, Expire(x) PROVE TokenStep
  BY <1>4 DEF Expire, TokenStep, Stays, TypeOK, SessionRow
<1>5. CASE UNCHANGED vars
  BY <1>1, <1>5 DEF vars
<1> QED BY <1>2, <1>3, <1>4, <1>5, SessionsAssumption DEF Next

-----------------------------------------------------------------------------
(* A login keeps one usable token.                                         *)
LEMMA StaysOneLive ==
  ASSUME TypeOK, RowsAgree, OneLivePerFamily, TokenStep
  PROVE  OneLivePerFamily'
<1> SUFFICES ASSUME NEW s \in Session, NEW t \in Session, Live(s)', Live(t)',
                    sessions'[s].family = sessions'[t].family, s # t
             PROVE  FALSE
  BY DEF OneLivePerFamily
<1>1. \A x \in Session : Exists(x) => sessions[x].family \in Session /\ Exists(sessions[x].family)
  BY DEF RowsAgree, RowAgrees
<1>2. \A x \in Session : Live(x) => Exists(x)
  BY DEF Live, Exists
<1>3. CASE \A x \in Session : Stays(x)
  BY <1>3 DEF Stays, OneLivePerFamily, Live
<1>4. ASSUME NEW rows \in SUBSET Session, NEW n \in Session \cup {None}, EndsAndStarts(rows, n)
      PROVE  FALSE
  <2>1. \A x \in Session \ {n} : Live(x)' => Live(x) /\ sessions'[x].family = sessions[x].family
    BY <1>4 DEF EndsAndStarts, Live, Reason
  <2>2. ASSUME n \in Session, NEW x \in Session \ {n}, Live(x)' PROVE sessions'[x].family # n
    BY <1>1, <1>2, <1>4, <2>1, <2>2 DEF EndsAndStarts
  <2>3. n \in Session => sessions'[n].family = n
    BY <1>4 DEF EndsAndStarts
  <2> QED BY <2>1, <2>2, <2>3 DEF OneLivePerFamily
<1>5. ASSUME NEW n \in Session, NEW p \in Session, Rotates(n, p)
      PROVE  FALSE
  <2>1. \A x \in Session \ {n} :
          Live(x)' => x # p /\ Live(x) /\ sessions'[x].family = sessions[x].family
    BY <1>5 DEF Rotates, Stays, Live
  <2>2. \A x \in Session \ {n} : Live(x)' => sessions'[x].family # sessions[p].family
    BY <1>5, <2>1 DEF Rotates, OneLivePerFamily
  <2>3. sessions'[n].family = sessions[p].family
    BY <1>5 DEF Rotates
  <2> QED BY <2>1, <2>2, <2>3 DEF OneLivePerFamily
<1> QED BY <1>3, <1>4, <1>5 DEF TokenStep

LEMMA ReadsStillHold ==
  ASSUME OneAtATime, SerialInv, [Next]_vars
  PROVE  \A r \in Request : ReadHolds(r)'
<1> SUFFICES ASSUME NEW r \in Request PROVE ReadHolds(r)'
  OBVIOUS
<1> USE DEF SerialInv, IInv
<1>1. CASE requests'[r] = Idle
  BY <1>1 DEF ReadHolds, Idle
<1>2. ASSUME NEW row, Start(r, row),
             row.op = "refresh" => Live(row.token),
             row.op \in {"idle", "onboarding", "login", "refresh"} => row.rows = {},
             \A s \in row.rows : Live(s),
             row.op = "recovery" => row.devs = DevicesOf(row.user) /\ row.rows = ActiveOf(row.user)
      PROVE  ReadHolds(r)'
  <2>1. requests'[r] = row /\ devices' = devices /\ sessions' = sessions
    BY <1>2 DEF Start, TypeOK
  <2> QED BY <1>2, <2>1 DEF ReadHolds, Live, DevicesOf, ActiveOf
<1>3. CASE Begin(r)
  <2> USE <1>2 DEF Idle
  <2>1. CASE \E u \in User, n \in DeviceName : BeginOnboarding(r, u, n)
    BY <2>1 DEF BeginOnboarding
  <2>2. CASE \E u \in User, n \in DeviceName : BeginLogin(r, u, n)
    BY <2>2 DEF BeginLogin
  <2>3. CASE \E s \in Session : BeginRefresh(r, s)
    BY <2>3 DEF BeginRefresh
  <2>4. CASE \E s \in Session : BeginReuse(r, s)
    BY <2>4 DEF BeginReuse
  <2>5. CASE \E s \in Session : BeginLogout(r, s)
    BY <2>5 DEF BeginLogout
  <2>6. CASE \E u \in User, d \in Device : BeginRevokeDevice(r, u, d)
    BY <2>6 DEF BeginRevokeDevice, ActiveOf
  <2>7. CASE \E u \in User : BeginLogoutAll(r, u)
    BY <2>7 DEF BeginLogoutAll, ActiveOf
  <2>8. CASE \E u \in User, n \in DeviceName : BeginRecovery(r, u, n)
    BY <2>8 DEF BeginRecovery, ActiveOf
  <2> QED BY <1>3, <2>1, <2>2, <2>3, <2>4, <2>5, <2>6, <2>7, <2>8 DEF Begin
<1>4. ASSUME Commit(r) \/ RaiseReuse(r) \/ Abort(r) PROVE requests'[r] = Idle
  BY <1>4 DEF Commit, CommitOnboarding, CommitLoginKnownDevice, CommitLoginNewDevice,
     CommitRefresh, CommitRevocation, CommitRecovery, RaiseReuse, Abort, Finish, TypeOK
<1>5. ASSUME NEW x \in Session, Expire(x) PROVE ReadHolds(r)'
  <2>1. /\ requests' = requests /\ devices' = devices
        /\ \A s \in Session : /\ sessions'[s].status = sessions[s].status
                              /\ sessions'[s].user = sessions[s].user
    BY <1>5 DEF Expire, TypeOK, SessionRow
  <2>2. \A s \in Session : Live(s)' <=> Live(s)
    BY <2>1 DEF Live
  <2>3. \A u : DevicesOf(u)' = DevicesOf(u) /\ ActiveOf(u)' = ActiveOf(u)
    BY <2>1, <2>2 DEF DevicesOf, ActiveOf
  <2>4. requests[r].rows \subseteq Session /\ (requests[r].op = "refresh" => requests[r].token \in Session)
    BY RequestType
  <2> QED BY <2>1, <2>2, <2>3, <2>4 DEF ReadHolds
<1>6. CASE UNCHANGED vars
  BY <1>6 DEF vars, ReadHolds, Live, DevicesOf, ActiveOf
<1> QED BY <1>1, <1>3, <1>4, <1>5, <1>6, SessionsAssumption DEF Next, OneAtATime

(* What requests that run one after the other read is still so when they   *)
(* commit, and a login has one usable token.                               *)
THEOREM SerialInvariantHolds ==
  ASSUME OneAtATime
  PROVE  Spec => []SerialInv
<1>1. Init => SerialInv
  <2> SUFFICES ASSUME Init PROVE OneLivePerFamily /\ \A r \in Request : ReadHolds(r)
    BY InitInvariant DEF SerialInv
  <2>1. \A s \in Session : ~Live(s)
    BY DEF Init, Live, NoSession
  <2>2. \A r \in Request : requests[r] = Idle
    BY DEF Init
  <2> QED BY <2>1, <2>2 DEF OneLivePerFamily, ReadHolds, Idle
<1>2. SerialInv /\ IInv' /\ [Next]_vars => SerialInv'
  BY EveryStepIsTokenStep, StaysOneLive, ReadsStillHold DEF SerialInv, IInv
<1> QED BY <1>1, <1>2, InvariantHolds, PTL DEF Spec

(* A login never has two refresh tokens that the service accepts           *)
(* (refresh_session revokes the old one as it inserts the new one).        *)
THEOREM OneTokenPerLogin ==
  ASSUME OneAtATime
  PROVE  Spec => []OneLivePerFamily
<1>1. SerialInv => OneLivePerFamily
  BY DEF SerialInv
<1> QED BY <1>1, SerialInvariantHolds, PTL

-----------------------------------------------------------------------------
(* What ending a login, and recovering an account, achieve.                *)

(* A step that ends rows leaves nothing usable in their families.          *)
LEMMA FamiliesEnd ==
  ASSUME SerialInv, NEW rows, NEW n \in Session \cup {None}, EndsAndStarts(rows, n),
         NEW s \in rows, NEW t \in Session, sessions'[t].family = sessions[s].family
  PROVE  sessions'[t].status # "live"
<1>1. s \in Session /\ Live(s) /\ sessions[s].family \in Session /\ Exists(sessions[s].family)
  BY DEF EndsAndStarts, SerialInv, IInv, RowsAgree, RowAgrees, Live, Exists
<1>2. t # n
  BY <1>1 DEF EndsAndStarts
<1>3. /\ sessions[t].family = sessions[s].family
      /\ t \in rows => sessions'[t].status \in Reason
      /\ t \notin rows => sessions'[t].status = sessions[t].status
  BY <1>2 DEF EndsAndStarts
<1>4. t \notin rows => ~Live(t)
  BY <1>1, <1>3 DEF SerialInv, OneLivePerFamily
<1> QED BY <1>3, <1>4 DEF Live, Reason

(* The commit of a request is the only step that ends it and writes rows.  *)
LEMMA CommitsOnly ==
  ASSUME OneAtATime, SerialInv, [Next]_vars, NEW r \in Request,
         requests[r] # Idle, requests'[r] = Idle, sessions' # sessions
  PROVE  Commit(r)
<1>1. ASSUME NEW q \in Request, Begin(q) \/ RaiseReuse(q) \/ Abort(q) PROVE sessions' = sessions
  BY <1>1 DEF Begin, BeginOnboarding, BeginLogin, BeginRefresh, BeginReuse, BeginLogout,
     BeginRevokeDevice, BeginLogoutAll, BeginRecovery, Start, RaiseReuse, Abort
<1>2. ASSUME NEW x \in Session, Expire(x) PROVE requests' = requests
  BY <1>2 DEF Expire
<1> QED BY <1>1, <1>2, SessionsAssumption DEF Next, vars, OneAtATime

(* Logging out, revoking a device and recovering an account end the logins *)
(* they found, and not just the rows (logout, revoke_device,               *)
(* revoke_all_sessions, complete_recovery_session).                        *)
THEOREM RevocationIsComplete ==
  ASSUME OneAtATime
  PROVE  Spec => RevocationEndsLogins
<1> DEFINE Ends == \A r \in Request, t \in Session :
             requests[r].rows # {} /\ sessions' # sessions /\ requests'[r] = Idle
               => \A s \in requests[r].rows :
                    sessions'[t].family = sessions[s].family => sessions'[t].status # "live"
<1>1. SerialInv /\ [Next]_vars => Ends
  <2> SUFFICES ASSUME SerialInv, [Next]_vars, NEW r \in Request, NEW t \in Session,
                      requests[r].rows # {}, sessions' # sessions, requests'[r] = Idle,
                      NEW s \in requests[r].rows,
                      sessions'[t].family = sessions[s].family
               PROVE  sessions'[t].status # "live"
    OBVIOUS
  <2>1. requests[r] # Idle
    BY DEF Idle
  <2>2. Commit(r)
    BY <2>1, CommitsOnly
  <2>3. requests[r].op \notin {"onboarding", "login", "refresh"}
    BY DEF SerialInv, ReadHolds
  <2>4. CommitRevocation(r) \/ CommitRecovery(r)
    BY <2>2, <2>3 DEF Commit, CommitOnboarding, CommitLoginKnownDevice, CommitLoginNewDevice,
       CommitRefresh
  <2>5. \E n \in Session \cup {None} : EndsAndStarts(requests[r].rows, n)
    BY <2>4, RevocationStep, RecoveryStep DEF FreshSession
  <2> QED BY <2>5, FamiliesEnd
<1>2. SerialInv /\ [Next]_vars => [Ends]_vars
  BY <1>1
<1> QED BY <1>2, SerialInvariantHolds, PTL DEF Spec, RevocationEndsLogins

(* A recovery leaves its user one usable session, on the one device that   *)
(* is not revoked (complete_recovery_session).                             *)
THEOREM RecoveryIsComplete ==
  ASSUME OneAtATime
  PROVE  Spec => RecoveryLeavesOneDevice
<1> DEFINE Leaves == \A r \in Request, u \in User :
             /\ requests[r].op = "recovery" /\ requests[r].user = u
             /\ requests'[r] = Idle /\ sessions' # sessions
             => \E s \in Session :
                  /\ ActiveOf(u)' = {s}
                  /\ {d \in DevicesOf(u)' : ~devices'[d].revoked} = {sessions'[s].device}
<1>1. SerialInv /\ [Next]_vars => Leaves
  <2> SUFFICES ASSUME SerialInv, [Next]_vars, NEW r \in Request, NEW u \in User,
                      requests[r].op = "recovery", requests[r].user = u,
                      requests'[r] = Idle, sessions' # sessions
               PROVE  \E s \in Session :
                        /\ ActiveOf(u)' = {s}
                        /\ {d \in DevicesOf(u)' : ~devices'[d].revoked} = {sessions'[s].device}
    OBVIOUS
  <2>1. requests[r] # Idle
    BY DEF Idle
  <2>2. Commit(r)
    BY <2>1, CommitsOnly
  <2>3. CommitRecovery(r)
    BY <2>2 DEF Commit, CommitOnboarding, CommitLoginKnownDevice, CommitLoginNewDevice,
       CommitRefresh, CommitRevocation, RevocationReason
  <2>4. PICK n \in FreshSession, e \in FreshDevice :
           /\ EndsAndStarts(requests[r].rows, n)
           /\ sessions'[n].user = u /\ sessions'[n].device = e
           /\ \A s \in Session \ {n} : SameKeys(s, sessions'[s])
           /\ devices' = [RevokeDevices(requests[r].devs) EXCEPT
                            ![e] = NewDevice(u, requests[r].name)]
    BY <2>3, RecoveryStep
  <2>5. requests[r].devs = DevicesOf(u) /\ requests[r].rows = ActiveOf(u)
    BY DEF SerialInv, ReadHolds
  <2>6. n \in Session /\ e \in Device
    BY DEF FreshSession, FreshDevice
  <2>7. ActiveOf(u)' = {n}
    <3>1. ASSUME NEW s \in Session \ {n} PROVE ~(Live(s)' /\ sessions'[s].user = u)
      <4>1. sessions'[s].user = sessions[s].user
        BY <2>4 DEF SameKeys
      <4>2. /\ s \in ActiveOf(u) => sessions'[s].status \in Reason
            /\ s \notin ActiveOf(u) => sessions'[s].status = sessions[s].status
        BY <2>4, <2>5 DEF EndsAndStarts
      <4> QED BY <4>1, <4>2 DEF ActiveOf, Live, Reason
    <3>2. Live(n)' /\ sessions'[n].user = u
      BY <2>4, <2>6 DEF EndsAndStarts, Live
    <3> QED BY <2>6, <3>1, <3>2 DEF ActiveOf
  <2>8. {d \in DevicesOf(u)' : ~devices'[d].revoked} = {e}
    <3>1. RevokeDevices(requests[r].devs) \in [Device -> DeviceRow]
      BY RevokeDevicesType DEF SerialInv, IInv
    <3>2. devices'[e] = NewDevice(u, requests[r].name)
      BY <2>4, <2>6, <3>1
    <3>3. devices'[e].user = u /\ ~devices'[e].revoked
      BY <3>2 DEF NewDevice
    <3>4. ASSUME NEW d \in Device \ {e}, devices'[d].user = u PROVE devices'[d].revoked
      <4>1. devices'[d] = IF d \in DevicesOf(u) THEN [devices[d] EXCEPT !.revoked = TRUE] ELSE devices[d]
        BY <2>4, <2>5, <3>1 DEF RevokeDevices
      <4>2. devices[d] \in DeviceRow
        BY DEF SerialInv, IInv, TypeOK
      <4>3. devices[d].user = u
        BY <3>4, <4>1, <4>2 DEF DeviceRow
      <4> QED BY <4>1, <4>2, <4>3 DEF DeviceRow, DevicesOf
    <3> QED BY <2>6, <3>3, <3>4 DEF DevicesOf
  <2> QED BY <2>4, <2>6, <2>7, <2>8
<1>2. SerialInv /\ [Next]_vars => [Leaves]_vars
  BY <1>1
<1> QED BY <1>2, SerialInvariantHolds, PTL DEF Spec, RecoveryLeavesOneDevice

-----------------------------------------------------------------------------
(* The abstract protocol: Current and Spent are determined by the rows.    *)

Determined ==
  /\ Current \in [Session -> Session \cup {None}]
  /\ \A f, s \in Session : Current[f] = s <=> Live(s) /\ sessions[s].family = f
  /\ Spent \subseteq Session /\ \A s \in Session : s \in Spent <=> Revoked(s)

LEMMA CurrentFacts == OneLivePerFamily => Determined
<1> SUFFICES ASSUME OneLivePerFamily PROVE Determined
  OBVIOUS
<1>1. \A f \in Session : LiveIn(f) = {} \/ \E s \in Session : LiveIn(f) = {s}
  BY DEF LiveIn, OneLivePerFamily
<1>2. \A f \in Session : /\ LiveIn(f) = {} => Current[f] = None
                         /\ \A s \in Session : LiveIn(f) = {s} => Current[f] = s
  BY DEF Current
<1>3. ASSUME NEW f \in Session, NEW s \in Session
      PROVE  Current[f] = s <=> Live(s) /\ sessions[s].family = f
  <2>1. s \in LiveIn(f) <=> Live(s) /\ sessions[s].family = f
    BY DEF LiveIn
  <2> QED BY <1>1, <1>2, <2>1, SessionsAssumption
<1>4. \A f \in Session : Current[f] \in Session \cup {None}
  BY <1>1, <1>2
<1>5. Current = [f \in Session |-> Current[f]]
  BY DEF Current
<1>6. Spent \subseteq Session /\ \A s \in Session : s \in Spent <=> Revoked(s)
  BY DEF Spent
<1> HIDE DEF Current
<1> QED BY <1>3, <1>4, <1>5, <1>6 DEF Determined

(* Which tokens the abstract protocol has not seen.                        *)
LEMMA UnseenTokens ==
  ASSUME OneLivePerFamily, NEW n \in Session \cup {None}, n \in Session => ~Exists(n)
  PROVE  n \notin Families!Held \cup Spent
<1>1. \A f \in Session : Current[f] \in Session => Live(Current[f])
  BY CurrentFacts DEF Determined
<1>2. n \notin Families!Held
  <2>1. Families!Held = {Current[f] : f \in Session} \ {None}
    BY DEF Families!Held
  <2> QED BY <1>1, <2>1 DEF Live, Exists
<1>3. n \notin Spent
  BY SessionsAssumption DEF Spent, Revoked, Exists, Reason
<1> QED BY <1>2, <1>3

LEMMA TokenStepIsAbstract ==
  ASSUME SerialInv, OneLivePerFamily', TokenStep
  PROVE  Families!Next \/ UNCHANGED <<Current, Spent>>
<1>1. /\ Current \in [Session -> Session \cup {None}]
      /\ \A f, s \in Session : Current[f] = s <=> Live(s) /\ sessions[s].family = f
      /\ Spent \subseteq Session /\ \A s \in Session : s \in Spent <=> Revoked(s)
  BY CurrentFacts DEF SerialInv, Determined
<1>2. /\ Current' \in [Session -> Session \cup {None}]
      /\ \A f, s \in Session : Current'[f] = s <=> Live(s)' /\ sessions'[s].family = f
      /\ Spent' \subseteq Session /\ \A s \in Session : s \in Spent' <=> Revoked(s)'
  <2>1. Determined'
    BY CurrentFacts, PTL
  <2> QED BY <2>1 DEF Determined
<1>3. \A s \in Session : Exists(s) => sessions[s].family \in Session /\ Exists(sessions[s].family)
  BY DEF SerialInv, IInv, RowsAgree, RowAgrees
<1>4. CASE \A s \in Session : Stays(s)
  <2>1. \A s \in Session : (Live(s)' <=> Live(s)) /\ (Revoked(s)' <=> Revoked(s))
    BY <1>4 DEF Stays, Live, Revoked
  <2>2. \A f \in Session : Current'[f] = Current[f]
    BY <1>1, <1>2, <1>4, <2>1 DEF Stays
  <2> QED BY <1>1, <1>2, <2>1, <2>2
<1>5. ASSUME NEW rows \in SUBSET Session, NEW n \in Session \cup {None}, EndsAndStarts(rows, n)
      PROVE  Families!Next
  <2> DEFINE ended == {sessions[s].family : s \in rows}
  <2>1. /\ \A s \in rows : Live(s) /\ Exists(s)
        /\ n \in Session => ~Exists(n) /\ sessions'[n].status = "live" /\ sessions'[n].family = n
        /\ \A s \in Session \ {n} : /\ sessions'[s].family = sessions[s].family
                                    /\ s \in rows => sessions'[s].status \in Reason
                                    /\ s \notin rows => sessions'[s].status = sessions[s].status
    BY <1>5 DEF EndsAndStarts, Live, Exists
  <2>2. ended \in SUBSET Session
    BY <1>3, <2>1
  <2>3. n \notin Families!Held \cup Spent
    BY <2>1, UnseenTokens DEF SerialInv
  <2>4. \A s \in Session \ {n} : /\ Live(s)' <=> Live(s) /\ s \notin rows
                                 /\ Revoked(s)' <=> Revoked(s) \/ s \in rows
    BY <2>1 DEF Live, Revoked, Reason
  <2>5. n \in Session => Live(n)' /\ ~Revoked(n)' /\ ~Revoked(n) /\ n \notin rows
    BY <2>1 DEF Live, Revoked, Exists, Reason
  <2>6. ASSUME NEW f \in Session
        PROVE  Current'[f] = IF f = n THEN f ELSE IF f \in ended THEN None ELSE Current[f]
    <3>1. CASE f = n
      BY <1>2, <2>1, <2>5, <3>1
    <3>2. CASE f # n /\ f \in ended
      <4>1. ASSUME NEW s \in Session, Live(s)', sessions'[s].family = f PROVE FALSE
        <5>1. s # n
          BY <2>1, <3>2, <4>1
        <5>2. Live(s) /\ s \notin rows /\ sessions[s].family = f
          BY <2>1, <2>4, <4>1, <5>1
        <5>3. PICK x \in rows : sessions[x].family = f
          BY <3>2
        <5>4. x = s
          BY <2>1, <5>2, <5>3 DEF SerialInv, OneLivePerFamily
        <5> QED BY <5>2, <5>4
      <4> QED BY <1>2, <3>2, <4>1
    <3>3. CASE f # n /\ f \notin ended
      <4>1. \A s \in Session : Live(s)' /\ sessions'[s].family = f <=> Live(s) /\ sessions[s].family = f
        <5> TAKE s \in Session
        <5>1. CASE s = n
          BY <2>1, <3>3, <5>1 DEF Live, Exists
        <5>2. CASE s # n
          BY <2>1, <2>4, <3>3, <5>2
        <5> QED BY <5>1, <5>2
      <4> QED BY <1>1, <1>2, <3>3, <4>1
    <3> QED BY <3>1, <3>2, <3>3
  <2>7. Spent' = Spent \cup ({Current[f] : f \in ended} \ {None})
    <3>1. {Current[f] : f \in ended} = rows
      <4>1. \A s \in rows : sessions[s].family \in Session /\ Current[sessions[s].family] = s
        BY <1>1, <1>3, <2>1
      <4> QED BY <4>1
    <3>2. \A s \in Session : s \in Spent' <=> s \in Spent \/ s \in rows
      BY <1>1, <1>2, <2>4, <2>5
    <3> QED BY <1>1, <1>2, <3>1, <3>2, SessionsAssumption
  <2>8. Current' = [f \in Session |-> IF f = n THEN f ELSE IF f \in ended THEN None ELSE Current[f]]
    BY <1>2, <2>6
  <2> HIDE DEF ended
  <2>9. Families!EndAndStart(ended, n)
    BY <2>3, <2>7, <2>8 DEF Families!EndAndStart
  <2> QED BY <2>2, <2>9 DEF Families!Next
<1>6. ASSUME NEW n \in Session, NEW p \in Session, Rotates(n, p)
      PROVE  Families!Next
  <2>1. PICK f \in Session : f = sessions[p].family
    BY <1>3, <1>6 DEF Rotates, Live, Exists
  <2>2. Current[f] = p /\ Current[f] # None
    BY <1>1, <1>6, <2>1, SessionsAssumption DEF Rotates
  <2>3. n \in Session \ (Families!Held \cup Spent)
    BY <1>6, UnseenTokens DEF Rotates, SerialInv
  <2>4. /\ \A s \in Session \ {n, p} : (Live(s)' <=> Live(s)) /\ (Revoked(s)' <=> Revoked(s))
        /\ Live(n)' /\ ~Revoked(n)' /\ ~Live(n) /\ ~Revoked(n)
        /\ Live(p) /\ ~Live(p)' /\ Revoked(p)'
    BY <1>6 DEF Rotates, Stays, Live, Revoked, Exists, Reason
  <2>5. /\ \A s \in Session \ {n} : sessions'[s].family = sessions[s].family
        /\ sessions'[n].family = f
    BY <1>6, <2>1 DEF Rotates, Stays
  <2>6. ASSUME NEW g \in Session, g # f PROVE Current'[g] = Current[g]
    <3>1. \A s \in Session : Live(s)' /\ sessions'[s].family = g <=> Live(s) /\ sessions[s].family = g
      BY <2>1, <2>4, <2>5, <2>6
    <3> QED BY <1>1, <1>2, <3>1
  <2>7. Current' = [Current EXCEPT ![f] = n]
    <3>1. Current'[f] = n
      BY <1>2, <2>4, <2>5
    <3> QED BY <1>1, <1>2, <2>6, <3>1
  <2>8. Spent' = Spent \cup {Current[f]}
    <3>1. \A s \in Session : s \in Spent' <=> s \in Spent \/ s = p
      BY <1>1, <1>2, <2>4
    <3> QED BY <1>1, <1>2, <2>2, <3>1
  <2>9. Families!Rotate(f, n)
    BY <2>2, <2>3, <2>7, <2>8 DEF Families!Rotate
  <2> QED BY <2>9 DEF Families!Next
<1> QED BY <1>4, <1>5, <1>6 DEF TokenStep

(* Rotation as the service does it implements the protocol of              *)
(* docs/adr/0004: every commit is one of its steps.                        *)
THEOREM RotationIsTheProtocol ==
  ASSUME OneAtATime
  PROVE  Spec => ImplementsTokenFamilies
<1>1. Init => Families!Init
  <2> SUFFICES ASSUME Init PROVE Families!Init
    OBVIOUS
  <2>1. \A s \in Session : ~Live(s) /\ ~Revoked(s)
    BY DEF Init, NoSession, Live, Revoked, Reason
  <2>2. Current = [f \in Session |-> None] /\ Spent = {}
    BY <2>1 DEF Current, LiveIn, Spent
  <2> QED BY <2>2 DEF Families!Init
<1>2. SerialInv /\ SerialInv' /\ [Next]_vars => [Families!Next]_(Families!fvars)
  BY EveryStepIsTokenStep, TokenStepIsAbstract DEF SerialInv, Families!fvars
<1> QED BY <1>1, <1>2, SerialInvariantHolds, PTL DEF Spec, ImplementsTokenFamilies, Families!Spec
=============================================================================

------------------------- MODULE SessionsInvariant -------------------------
(* The invariant from which the properties of Sessions that hold under any *)
(* interleaving are proved: rows and open requests refer to existing rows  *)
(* that agree with them.                                                   *)
EXTENDS SessionsRefinement

(* Every session row hangs off the row its login started with, shares that *)
(* row's user and device, and the device is the user's.                    *)
RowAgrees(s) ==
  LET root == sessions[s].family IN
  /\ root \in Session
  /\ Exists(root)
  /\ sessions[root].family = root
  /\ sessions[root].user = sessions[s].user
  /\ sessions[root].device = sessions[s].device
  /\ sessions[s].user \in User
  /\ sessions[s].device \in Device
  /\ devices[sessions[s].device].user = sessions[s].user
  /\ sessions[s].parent # None => sessions[s].parent \in Session /\ Exists(sessions[s].parent)

RowsAgree == \A s \in Session : Exists(s) => RowAgrees(s)

(* What an open request read still names rows of the tables: rows are      *)
(* never deleted, and a device never changes hands.                        *)
RequestAgrees(r) ==
  LET q == requests[r] IN
  /\ q.op \in {"onboarding", "login", "recovery"} => q.user \in User
  /\ q.op = "login" /\ q.device # None => devices[q.device].user = q.user
  /\ q.op = "refresh" => q.token \in Session /\ Exists(q.token)
  /\ \A s \in q.rows : Exists(s)

RequestsAgree == \A r \in Request : RequestAgrees(r)

(* The inductive invariant of the proofs.                                  *)
IInv ==
  /\ TypeOK
  /\ RowsAgree
  /\ RequestsAgree
  /\ LiveSessionIsLeaf
  /\ RotatedHasSuccessor

-----------------------------------------------------------------------------
(* Requests that run one after the other.                                  *)
OneAtATime == \A q, r \in Request : q = r

(* What the one open request read is still so when it commits, and what it *)
(* is to revoke was usable.                                                *)
ReadHolds(r) ==
  LET q == requests[r] IN
  /\ q.op = "refresh" => Live(q.token)
  /\ q.op \in {"idle", "onboarding", "login", "refresh"} => q.rows = {}
  /\ \A s \in q.rows : Live(s)
  /\ q.op = "recovery" => q.devs = DevicesOf(q.user) /\ q.rows = ActiveOf(q.user)

(* The inductive invariant of the proofs for such requests.                *)
SerialInv ==
  /\ IInv
  /\ OneLivePerFamily
  /\ \A r \in Request : ReadHolds(r)
=============================================================================

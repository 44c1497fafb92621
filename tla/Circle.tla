------------------------------- MODULE Circle -------------------------------
(***************************************************************************)
(* Contact requests, trust tiers, blocks and the demotion of trust when a  *)
(* contact's identity key changes: CircleService                           *)
(* (backend/app/domain/circle/service.py) and register_identity_key of     *)
(* MessagingService, over the tables contacts, contact_requests, blocks    *)
(* and identity_keys.                                                      *)
(*                                                                         *)
(* As in Sessions a request is a read step, Begin..., and a Commit that    *)
(* writes what was decided to whatever the tables hold by then. Between    *)
(* the two, sending and answering a request look at the two contact rows   *)
(* one after the other, each as committed at its own moment.               *)
(* Two things the database adds at the commit: the pair of a contact row   *)
(* is unique, so inserting one that exists by now fails the transaction;   *)
(* and so does updating a contact row that was deleted meanwhile, while    *)
(* deleting one that is gone does nothing. Its row locks are left out:     *)
(* transactions meet in more orders here than there.                       *)
(***************************************************************************)
EXTENDS Naturals, FiniteSets

CONSTANTS
  User,     \* users.id
  Request,  \* contact_requests.id
  Slot,     \* requests being processed at the same time
  MaxKeys,  \* bound on the identity keys a user has had
  MayAddDevice,  \* bound: users who may register a key from another device
  MaxOverlap,  \* bound: requests overlap while at most so many contact requests exist
  None

ASSUME CircleAssumption ==
  /\ None \notin User \cup Request \cup (User \X User)
  /\ MaxKeys \in Nat \ {0} /\ MayAddDevice \subseteq User /\ MaxOverlap \in Nat

VARIABLES
  contacts,   \* the rows (owner, contact) and their tier
  checked,    \* safety_number_verified_at: the keys the contact had by then, 0 if NULL
  contactRequests,
  blocks,     \* the pairs (blocker, blocked)
  keys,       \* how many identity keys a user's devices have had
  replaced,   \* and how many when one last replaced another
  open,       \* the open transactions
  overlapped, \* for the properties only: whether two were ever open at once,
  crossed,    \* the pairs whose users were asking each other at once,
  raced       \* and those verified while the contact's key was replaced

tables == <<contacts, checked, contactRequests, blocks, keys, replaced>>
history == <<overlapped, crossed, raced>>
vars == <<tables, open, history>>

Pair == {p \in User \X User : p[1] # p[2]}
Flip(p) == <<p[2], p[1]>>
Both(p) == {p, Flip(p)}

Tier == {"unverified", "verified", "trusted"}
Accepted == {"verified", "trusted"}
Status == {"absent", "pending", "accepted", "declined"}

NoRequest == [pair |-> None, status |-> "absent"]

(* The writes a handler has decided on: contact rows to insert, to update  *)
(* and to delete, the tier they get, a request to open or close, a block   *)
(* to add or lift, and a contact verified. The rows of todo are still to   *)
(* be looked at; those of loaded were read before, and are not updated as  *)
(* they had the tier already.                                              *)
NoWrites == [todo |-> {}, loaded |-> {}, insert |-> {}, update |-> {}, delete |-> {},
             tier |-> "none", ask |-> None, close |-> {}, as |-> "declined",
             block |-> {}, unblock |-> {}, verified |-> None, number |-> 0]
Writes == [todo : SUBSET Pair, loaded : SUBSET Pair,
           insert : SUBSET Pair, update : SUBSET Pair, delete : SUBSET Pair,
           tier : Tier \cup {"none"}, ask : Pair \cup {None}, close : SUBSET Request,
           as : {"accepted", "declined"}, block : SUBSET Pair, unblock : SUBSET Pair,
           verified : Pair \cup {None}, number : 0..MaxKeys]

TypeOK ==
  /\ contacts \in [Pair -> Tier \cup {"none"}]
  /\ checked \in [Pair -> 0..MaxKeys]
  /\ contactRequests \in [Request -> [pair : Pair \cup {None}, status : Status]]
  /\ blocks \subseteq Pair
  /\ keys \in [User -> 1..MaxKeys]
  /\ replaced \in [User -> 1..MaxKeys]
  /\ open \in [Slot -> Writes \cup {NoWrites}]
  /\ overlapped \in BOOLEAN /\ crossed \subseteq Pair /\ raced \subseteq Pair

Init ==
  /\ contacts = [p \in Pair |-> "none"]
  /\ checked = [p \in Pair |-> 0]
  /\ contactRequests = [q \in Request |-> NoRequest]
  /\ blocks = {}
  /\ keys = [u \in User |-> 1]
  /\ replaced = [u \in User |-> 1]
  /\ open = [t \in Slot |-> NoWrites]
  /\ overlapped = FALSE /\ crossed = {} /\ raced = {}

-----------------------------------------------------------------------------
PendingBetween(p) ==
  {q \in Request : contactRequests[q].status = "pending" /\ contactRequests[q].pair \in Both(p)}

Busy == \E t \in Slot : open[t] # NoWrites
Enter ==
  /\ Busy => Cardinality({q \in Request : contactRequests[q] # NoRequest}) <= MaxOverlap
  /\ overlapped' = (overlapped \/ Busy)

Plan(t, writes) ==
  /\ open[t] = NoWrites
  /\ Enter
  /\ open' = [open EXCEPT ![t] = writes]
  /\ crossed' = crossed \cup {p \in Pair : /\ writes.ask \in Both(p)
                                          /\ \E s \in Slot : open[s].ask \in Both(p)}
  /\ UNCHANGED <<tables, raced>>

(* The contact rows, of the sender and of the asked, get a tier.           *)
Upserts(p, tier) == [NoWrites EXCEPT !.todo = Both(p), !.tier = tier]

Asks(p) ==
  [Upserts(p, "unverified") EXCEPT !.ask = p, !.loaded = {r \in {p} : contacts[r] # "none"}]

(* Faulty variants, for the runs' self-test: the pending check looks in    *)
(* one direction only; a blocked user may be asked; a request is accepted  *)
(* in any status; accepting promotes the sender's row alone.               *)
BeginSendOneWay(t, p) ==
  /\ blocks \cap Both(p) = {}
  /\ contacts[p] \notin Accepted
  /\ \A q \in PendingBetween(p) : contactRequests[q].pair # p
  /\ Plan(t, Asks(p))

BeginSendToBlocked(t, p) ==
  /\ contacts[p] \notin Accepted
  /\ PendingBetween(p) = {}
  /\ Plan(t, Asks(p))

BeginAcceptAnyStatus(t, q) ==
  LET p == contactRequests[q].pair IN
  /\ contactRequests[q].status # "absent"
  /\ Plan(t, [Upserts(p, "verified") EXCEPT !.close = {q}, !.as = "accepted"])

BeginAcceptOneSide(t, q) ==
  LET p == contactRequests[q].pair IN
  /\ contactRequests[q].status = "pending"
  /\ Plan(t, [Upserts(p, "verified") EXCEPT !.todo = {p}, !.close = {q}, !.as = "accepted"])

BeginSend(t, p) ==
  /\ blocks \cap Both(p) = {}
  /\ contacts[p] \notin Accepted
  /\ PendingBetween(p) = {}
  /\ Plan(t, Asks(p))

BeginAccept(t, q) ==
  LET p == contactRequests[q].pair IN
  /\ contactRequests[q].status = "pending"
  /\ Plan(t, [Upserts(p, "verified") EXCEPT !.close = {q}, !.as = "accepted"])

(* The placeholder rows are to be cleared.                                 *)
BeginDecline(t, q) ==
  LET p == contactRequests[q].pair IN
  /\ contactRequests[q].status = "pending"
  /\ Plan(t, [NoWrites EXCEPT !.todo = Both(p), !.close = {q}])

(* The call names a contact and no key: what the two users compared, if    *)
(* anything, and when, is known to nobody but them.                        *)
BeginVerify(t, p) ==
  /\ contacts[p] \in Accepted
  /\ Plan(t, [NoWrites EXCEPT !.update = {r \in {p} : contacts[r] # "trusted"},
                              !.tier = "trusted", !.verified = p, !.number = keys[p[2]]])

(* Faulty variant: the blocked user's row is marked, not deleted.          *)
BeginBlockMarks(t, p) ==
  /\ Cardinality(PendingBetween(p)) <= 1
  /\ Plan(t, [NoWrites EXCEPT !.block = {p} \ blocks, !.tier = "blocked",
                              !.update = {r \in {Flip(p)} : contacts[r] # "none"},
                              !.close = PendingBetween(p)])

(* get_pending_between raises if it finds two rows; the block then fails.  *)
BeginBlock(t, p) ==
  /\ Cardinality(PendingBetween(p)) <= 1
  /\ Plan(t, [NoWrites EXCEPT !.block = {p} \ blocks,
                              !.delete = {r \in {Flip(p)} : contacts[r] # "none"},
                              !.close = PendingBetween(p)])

BeginUnblock(t, p) ==
  /\ p \in blocks
  /\ Plan(t, [NoWrites EXCEPT !.unblock = {p}])

-----------------------------------------------------------------------------
(* The row p as it is committed now: _upsert_tier inserts it or sets its   *)
(* tier, a decline deletes it if it is a placeholder.                      *)
Looked(w, p) ==
  [w EXCEPT !.todo = @ \ {p},
            !.insert = @ \cup {r \in {p} : w.tier # "none" /\ contacts[r] = "none"},
            !.update = @ \cup {r \in {p} \ w.loaded :
                                 w.tier # "none" /\ contacts[r] \notin {"none", w.tier}},
            !.delete = @ \cup {r \in {p} : w.tier = "none" /\ contacts[r] = "unverified"}]

(* The first row is that of whoever sent the request.                      *)
Sender(w, p) == p = w.ask \/ \E q \in w.close : p = contactRequests[q].pair

LookAtRow(t, p) ==
  /\ p \in open[t].todo
  /\ Flip(p) \in open[t].todo => Sender(open[t], p)
  /\ open' = [open EXCEPT ![t] = Looked(open[t], p)]
  /\ UNCHANGED <<tables, history>>

Close(t) == open' = [open EXCEPT ![t] = NoWrites]

Conflict(w) ==
  \/ \E p \in w.insert : contacts[p] # "none"
  \/ \E p \in w.update : contacts[p] = "none"
  \/ w.verified # None /\ contacts[w.verified] = "none"
  \/ w.block \cap blocks # {}

Commit(t) ==
  LET w == open[t] IN
  /\ w # NoWrites /\ w.todo = {}
  /\ ~Conflict(w)
  /\ contacts' = [p \in Pair |-> IF p \in w.delete THEN "none"
                                 ELSE IF p \in w.insert \cup w.update THEN w.tier
                                 ELSE contacts[p]]
  /\ checked' = [p \in Pair |-> IF p \in w.insert \cup w.delete THEN 0
                                ELSE IF p = w.verified THEN w.number
                                ELSE checked[p]]
  /\ LET closed == [q \in Request |->
                      IF q \in w.close THEN [contactRequests[q] EXCEPT !.status = w.as]
                      ELSE contactRequests[q]] IN
     IF w.ask = None THEN contactRequests' = closed
     ELSE \E q \in Request :
            /\ contactRequests[q] = NoRequest
            /\ contactRequests' = [closed EXCEPT ![q] = [pair |-> w.ask, status |-> "pending"]]
  /\ blocks' = (blocks \cup w.block) \ w.unblock
  /\ Close(t)
  /\ UNCHANGED <<keys, replaced, history>>

(* A failed or abandoned transaction leaves no trace.                      *)
RollBack(t) ==
  /\ open[t] # NoWrites
  /\ Close(t)
  /\ UNCHANGED <<tables, history>>

(* register_identity_key is a request too: it needs a slot of its own.     *)
NewKey(u) ==
  /\ \E t \in Slot : open[t] = NoWrites
  /\ Enter
  /\ keys[u] < MaxKeys
  /\ keys' = [keys EXCEPT ![u] = @ + 1]
  /\ UNCHANGED <<contactRequests, blocks, open, crossed>>

(* Faulty variant: trust is taken back in the user's own contacts.         *)
DemoteOwnContacts(u) ==
  LET trusters == {p \in Pair : p[1] = u /\ contacts[p] = "trusted"} IN
  /\ contacts' = [p \in Pair |-> IF p \in trusters THEN "verified" ELSE contacts[p]]
  /\ checked' = [p \in Pair |-> IF p \in trusters THEN 0 ELSE checked[p]]

(* demote_trusted_contacts_of: one UPDATE takes back all trust in a user.  *)
Demote(u) ==
  LET trusters == {p \in Pair : p[2] = u /\ contacts[p] = "trusted"} IN
  /\ contacts' = [p \in Pair |-> IF p \in trusters THEN "verified" ELSE contacts[p]]
  /\ checked' = [p \in Pair |-> IF p \in trusters THEN 0 ELSE checked[p]]

(* Another key for a device that had one, and the first of another device. *)
ReplaceKey(u) ==
  /\ NewKey(u)
  /\ replaced' = [replaced EXCEPT ![u] = keys[u] + 1]
  /\ raced' = raced \cup {p \in Pair : p[2] = u /\ \E t \in Slot : open[t].verified = p}
  /\ Demote(u)
AddKey(u) == u \in MayAddDevice /\ NewKey(u) /\ UNCHANGED <<contacts, checked, replaced, raced>>

Next ==
  \/ \E t \in Slot, p \in Pair :
       \/ BeginSend(t, p) \/ BeginVerify(t, p) \/ BeginBlock(t, p) \/ BeginUnblock(t, p)
       \/ LookAtRow(t, p)
  \/ \E t \in Slot, q \in Request : BeginAccept(t, q) \/ BeginDecline(t, q)
  \/ \E t \in Slot : Commit(t) \/ RollBack(t)
  \/ \E u \in User : ReplaceKey(u) \/ AddKey(u)

Spec == Init /\ [][Next]_vars
-----------------------------------------------------------------------------
(* However requests interleave.                                            *)

(* Two users have at most one request pending between them, in either      *)
(* direction, unless both were asking at once (send_contact_request checks *)
(* for a pending one, and no constraint stops two that checked at the same *)
(* time). get_pending_between, and with it block_user, fails on two.       *)
OnePendingPerPair ==
  \A p \in Pair \ crossed : Cardinality(PendingBetween(p)) <= 1

(* Nobody is trusted on a verification from before a key of theirs was     *)
(* replaced: a contact whose key changed "must be walked back to           *)
(* 'verified' and re-prompted" (backend/app/repositories/circle.py, line   *)
(* 39). The exception is a verification that was open at the replacement.  *)
(* The key of an added device does not count, though                       *)
(* docs/DITSALA_MASTER_SPEC.md, section 23, says it should.                *)
TrustIsRenewed ==
  \A p \in Pair \ raced : contacts[p] = "trusted" => checked[p] >= replaced[p[2]]

-----------------------------------------------------------------------------
(* As long as no two requests were open at the same time.                  *)

(* No pair is connected on one side and waiting on the other: once a       *)
(* request is accepted both may message, until one of them blocks.         *)
NeverHalfAccepted ==
  ~overlapped => \A p \in Pair : contacts[p] \in Accepted => contacts[Flip(p)] # "unverified"

(* A block leaves nothing of the blocker for the blocked to see or answer: *)
(* it "hides the blocker from the blocked user's Circle/contact list" and  *)
(* "silently drops any pending contact request"                            *)
(* (docs/DITSALA_MASTER_SPEC.md, section 24).                              *)
BlockSevers ==
  ~overlapped => \A p \in blocks : contacts[Flip(p)] = "none" /\ PendingBetween(p) = {}

(* A request that was answered is not answered again.                      *)
AnswerIsFinal ==
  [][~overlapped' => \A q \in Request : contactRequests[q].status \in {"accepted", "declined"}
                       => UNCHANGED contactRequests[q]]_vars
=============================================================================

-------------------------- MODULE CircleInvariant --------------------------
(* The invariant from which the properties of Circle are proved: a request *)
(* that is open alone writes what the tables it will find call for.        *)
EXTENDS Circle

(* A contact request that exists is one between two users; an open request *)
(* closes only such.                                                       *)
RequestsNamePairs ==
  /\ \A q \in Request : /\ contactRequests[q].status # "absent" => contactRequests[q].pair \in Pair
                        /\ contactRequests[q].status = "absent" => contactRequests[q] = NoRequest
  /\ \A t \in Slot : \A q \in open[t].close : contactRequests[q].status # "absent"

(* What each handler decides, from the tables as they are, the rows of     *)
(* w.todo not looked at yet.                                               *)
Missing(pairs) == {r \in pairs : contacts[r] = "none"}
Without(pairs, tier) == {r \in pairs : contacts[r] \notin {"none", tier}}

(* The rows of pairs that were looked at get the tier.                     *)
Upserted(w, pairs, tier) ==
  /\ w.todo \subseteq pairs /\ w.tier = tier
  /\ w.insert = Missing(pairs \ w.todo)
  /\ w.update = Without(pairs \ w.todo, tier)

(* Neither a block nor a verification.                                     *)
Plain(w) == w.block = {} /\ w.unblock = {} /\ w.verified = None

Sends(w, p) ==
  /\ blocks \cap Both(p) = {}
  /\ contacts[p] \notin Accepted
  /\ PendingBetween(p) = {}
  /\ Upserted(w, Both(p), "unverified")
  /\ w.ask = p /\ w.loaded = {r \in {p} : contacts[r] # "none"}
  /\ w.delete = {} /\ w.close = {} /\ Plain(w)

Accepts(w, q) ==
  /\ contactRequests[q].status = "pending"
  /\ Upserted(w, Both(contactRequests[q].pair), "verified")
  /\ w.close = {q} /\ w.as = "accepted"
  /\ w.loaded = {} /\ w.delete = {} /\ w.ask = None /\ Plain(w)

Declines(w, q) ==
  /\ contactRequests[q].status = "pending"
  /\ w.todo \subseteq Both(contactRequests[q].pair)
  /\ w.delete = {r \in Both(contactRequests[q].pair) \ w.todo : contacts[r] = "unverified"}
  /\ w.close = {q} /\ w.as = "declined" /\ w.tier = "none"
  /\ w.insert = {} /\ w.update = {} /\ w.ask = None /\ Plain(w)

Verifies(w, p) ==
  /\ contacts[p] \in Accepted
  /\ w = [NoWrites EXCEPT !.update = {r \in {p} : contacts[r] # "trusted"},
                          !.tier = "trusted", !.verified = p, !.number = keys[p[2]]]

Blocks(w, p) ==
  w = [NoWrites EXCEPT !.block = {p} \ blocks,
                       !.delete = {r \in {Flip(p)} : contacts[r] # "none"},
                       !.close = PendingBetween(p)]

Unblocks(w, p) == p \in blocks /\ w = [NoWrites EXCEPT !.unblock = {p}]

(* The writes w are those a handler would decide on now.                   *)
Fresh(w) ==
  \/ \E p \in Pair : Sends(w, p) \/ Verifies(w, p) \/ Blocks(w, p) \/ Unblocks(w, p)
  \/ \E q \in Request : Accepts(w, q) \/ Declines(w, q)

(* Nothing changes under a request that is open alone.                     *)
AloneIsFresh ==
  /\ \A s, t \in Slot : open[s] # NoWrites /\ open[t] # NoWrites => s = t
  /\ \A t \in Slot : open[t] # NoWrites => Fresh(open[t])

(* OnePendingPerPair without counting; and who is asking, unless the other *)
(* is asking too, finds no pending request when the transaction commits.   *)
PendingAgree ==
  /\ \A p \in Pair \ crossed : \A q, r \in PendingBetween(p) : q = r
  /\ \A p \in crossed : Flip(p) \in crossed
  /\ \A t \in Slot : open[t].ask \notin crossed \cup {None} =>
       /\ PendingBetween(open[t].ask) = {}
       /\ \A s \in Slot \ {t} : open[s].ask \notin Both(open[t].ask)

(* A verification that is open was read since the last replacement, unless *)
(* there was one meanwhile; and it is what makes rows trusted.             *)
OpenTrust ==
  \A t \in Slot :
    /\ open[t].tier = "trusted" => /\ open[t].insert = {} /\ open[t].todo = {}
                                   /\ open[t].update \subseteq {open[t].verified}
    /\ open[t].verified \notin raced \cup {None} =>
         open[t].number >= replaced[open[t].verified[2]]

(* The inductive invariant of the proofs.                                  *)
IInv ==
  /\ TypeOK
  /\ RequestsNamePairs
  /\ \A u \in User : replaced[u] <= keys[u]
  /\ PendingAgree
  /\ OpenTrust
  /\ TrustIsRenewed
  /\ ~overlapped => AloneIsFresh
  /\ NeverHalfAccepted
  /\ BlockSevers
=============================================================================

---------------------------- MODULE CircleProofs ----------------------------
(***************************************************************************)
(* Any number of users, contact requests and transactions: what pending    *)
(* requests and trust promise however transactions interleave, and what    *)
(* contacts and blocks promise as long as no two were open at once.        *)
(***************************************************************************)
EXTENDS CircleInvariant, FiniteSetTheorems, TLAPS

-----------------------------------------------------------------------------
(* Pairs.                                                                  *)

LEMMA PairFacts ==
  ASSUME NEW p \in Pair
  PROVE  /\ Flip(p) \in Pair /\ Flip(p) # p /\ Flip(Flip(p)) = p
         /\ Both(p) \subseteq Pair /\ Both(Flip(p)) = Both(p)
         /\ p \in Both(p) /\ Flip(p) \in Both(p)
         /\ \A r \in Both(p) : Both(r) = Both(p) /\ (r = p \/ r = Flip(p))
         /\ p[1] \in User /\ p[2] \in User
         /\ p # None
BY CircleAssumption DEF Pair, Flip, Both

-----------------------------------------------------------------------------
(* What a handler decides on has the type of the open requests.            *)

LEMMA NoWritesType == NoWrites \in Writes
BY CircleAssumption DEF NoWrites, Writes, Tier

LEMMA AskType ==
  ASSUME NEW a \in SUBSET Pair, NEW b \in SUBSET Pair, NEW p \in Pair
  PROVE  [NoWrites EXCEPT !.todo = a, !.tier = "unverified", !.ask = p, !.loaded = b] \in Writes
BY NoWritesType DEF Writes, Tier

LEMMA AnswerType ==
  ASSUME NEW a \in SUBSET Pair, NEW c \in SUBSET Request
  PROVE  /\ [NoWrites EXCEPT !.todo = a, !.tier = "verified", !.close = c, !.as = "accepted"] \in Writes
         /\ [NoWrites EXCEPT !.todo = a, !.close = c] \in Writes
<1>1. [NoWrites EXCEPT !.todo = a, !.tier = "verified", !.close = c, !.as = "accepted"] \in Writes
  BY NoWritesType DEF Writes, Tier
<1>2. [NoWrites EXCEPT !.todo = a, !.close = c] \in Writes
  BY NoWritesType DEF Writes, Tier
<1> QED BY <1>1, <1>2

LEMMA BlockType ==
  ASSUME NEW a \in SUBSET Pair, NEW b \in SUBSET Pair, NEW c \in SUBSET Request
  PROVE  [NoWrites EXCEPT !.block = a, !.delete = b, !.close = c] \in Writes
BY NoWritesType DEF Writes, Tier

LEMMA OpenType ==
  ASSUME TypeOK, NEW t \in Slot
  PROVE  open[t] \in Writes
BY NoWritesType DEF TypeOK

LEMMA LookedType ==
  ASSUME NEW w \in Writes, NEW p \in Pair
  PROVE  /\ Looked(w, p) \in Writes
         /\ Looked(w, p).ask = w.ask /\ Looked(w, p).close = w.close
         /\ Looked(w, p).verified = w.verified /\ Looked(w, p).number = w.number
         /\ Looked(w, p).tier = w.tier
BY DEF Looked, Writes

LEMMA LookedFields ==
  ASSUME NEW w \in Writes, NEW p \in Pair
  PROVE  LET v == Looked(w, p) IN
         /\ v.todo = w.todo \ {p} /\ v.loaded = w.loaded
         /\ v.insert = w.insert \cup {r \in {p} : w.tier # "none" /\ contacts[r] = "none"}
         /\ v.update = w.update \cup {r \in {p} \ w.loaded :
                                        w.tier # "none" /\ contacts[r] \notin {"none", w.tier}}
         /\ v.delete = w.delete \cup {r \in {p} : w.tier = "none" /\ contacts[r] = "unverified"}
         /\ v.as = w.as /\ v.block = w.block /\ v.unblock = w.unblock
BY DEF Looked, Writes

(* The writes of each handler, field by field.                             *)

Touches(w, insert, update, delete, tier) ==
  w.insert = insert /\ w.update = update /\ w.delete = delete /\ w.tier = tier

LEMMA SendFields ==
  ASSUME NEW p \in Pair, NEW w, Sends(w, p)
  PROVE  /\ w.todo = {} =>
              Touches(w, Missing(Both(p)), Without(Both(p), "unverified"), {}, "unverified")
         /\ w.ask = p /\ w.close = {} /\ w.tier = "unverified"
         /\ w.block = {} /\ w.unblock = {} /\ w.verified = None
<1>1. Both(p) \ {} = Both(p)
  OBVIOUS
<1> QED BY <1>1 DEF Sends, Upserted, Plain, Touches

LEMMA AcceptFields ==
  ASSUME NEW q \in Request, NEW w, Accepts(w, q)
  PROVE  LET both == Both(contactRequests[q].pair) IN
         /\ w.todo = {} => Touches(w, Missing(both), Without(both, "verified"), {}, "verified")
         /\ w.ask = None /\ w.close = {q} /\ w.as = "accepted" /\ w.tier = "verified"
         /\ w.block = {} /\ w.unblock = {} /\ w.verified = None
<1>1. Both(contactRequests[q].pair) \ {} = Both(contactRequests[q].pair)
  OBVIOUS
<1> QED BY <1>1 DEF Accepts, Upserted, Plain, Touches

LEMMA DeclineFields ==
  ASSUME NEW q \in Request, NEW w, Declines(w, q)
  PROVE  LET both == Both(contactRequests[q].pair) IN
         /\ w.todo = {} => Touches(w, {}, {}, {r \in both : contacts[r] = "unverified"}, "none")
         /\ w.ask = None /\ w.close = {q} /\ w.as = "declined" /\ w.tier = "none"
         /\ w.block = {} /\ w.unblock = {} /\ w.verified = None
<1>1. Both(contactRequests[q].pair) \ {} = Both(contactRequests[q].pair)
  OBVIOUS
<1> QED BY <1>1 DEF Declines, Plain, Touches

LEMMA VerifyFields ==
  ASSUME NEW p \in Pair, NEW w, Verifies(w, p)
  PROVE  /\ Touches(w, {}, {r \in {p} : contacts[r] # "trusted"}, {}, "trusted")
         /\ w.todo = {} /\ w.ask = None /\ w.close = {}
         /\ w.block = {} /\ w.unblock = {}
         /\ w.verified = p /\ w.number = keys[p[2]]
BY DEF Verifies, NoWrites, Touches

LEMMA BlockFields ==
  ASSUME NEW p \in Pair, NEW w, Blocks(w, p)
  PROVE  /\ Touches(w, {}, {}, {r \in {Flip(p)} : contacts[r] # "none"}, "none")
         /\ w.todo = {}
         /\ w.ask = None /\ w.close = PendingBetween(p) /\ w.as = "declined"
         /\ w.block = {p} \ blocks /\ w.unblock = {} /\ w.verified = None
BY DEF Blocks, NoWrites, Touches

LEMMA UnblockFields ==
  ASSUME NEW p \in Pair, NEW w, Unblocks(w, p)
  PROVE  /\ Touches(w, {}, {}, {}, "none")
         /\ w.todo = {} /\ w.ask = None /\ w.close = {}
         /\ w.block = {} /\ w.unblock = {p} /\ w.verified = None
BY DEF Unblocks, NoWrites, Touches

-----------------------------------------------------------------------------
(* Every step opens a transaction with fresh writes, looks at a row, ends  *)
(* a transaction, or is about a key.                                       *)
LEMMA AsksAreFresh ==
  ASSUME TypeOK, NEW p \in Pair, blocks \cap Both(p) = {}, contacts[p] \notin Accepted,
         PendingBetween(p) = {}
  PROVE  Asks(p) \in Writes /\ Sends(Asks(p), p)
<1> DEFINE w == Asks(p)
<1>1. /\ w.todo = Both(p) /\ w.tier = "unverified" /\ w.ask = p
      /\ w.insert = {} /\ w.update = {} /\ w.delete = {} /\ w.close = {}
      /\ w.block = {} /\ w.unblock = {} /\ w.verified = None
      /\ w.loaded = {r \in {p} : contacts[r] # "none"}
  BY DEF Asks, Upserts, NoWrites
<1>2. Both(p) \in SUBSET Pair /\ {r \in {p} : contacts[r] # "none"} \in SUBSET Pair
  BY PairFacts
<1>3. w \in Writes
  BY <1>2, AskType DEF Asks, Upserts
<1>4. Both(p) \ Both(p) = {} /\ Missing({}) = {} /\ Without({}, "unverified") = {}
  BY DEF Missing, Without
<1> HIDE DEF w
<1>5. Sends(w, p)
  BY <1>1, <1>4 DEF Sends, Upserted, Plain
<1> QED BY <1>3, <1>5 DEF w

LEMMA StepCases ==
  ASSUME TypeOK, RequestsNamePairs, [Next]_vars
  PROVE  \/ \E t \in Slot : \E w \in Writes : Fresh(w) /\ Plan(t, w)
         \/ \E t \in Slot, p \in Pair : LookAtRow(t, p)
         \/ \E t \in Slot : Commit(t) \/ RollBack(t)
         \/ \E u \in User : ReplaceKey(u) \/ AddKey(u)
         \/ UNCHANGED vars
<1>1. ASSUME NEW t \in Slot, NEW p \in Pair, BeginSend(t, p)
      PROVE  \E w \in Writes : Fresh(w) /\ Plan(t, w)
  BY <1>1, AsksAreFresh DEF BeginSend, Fresh
<1>2. ASSUME NEW t \in Slot, NEW p \in Pair, BeginVerify(t, p)
      PROVE  \E w \in Writes : Fresh(w) /\ Plan(t, w)
  <2> DEFINE w == [NoWrites EXCEPT !.update = {r \in {p} : contacts[r] # "trusted"},
                              !.tier = "trusted", !.verified = p, !.number = keys[p[2]]]
  <2>1. {r \in {p} : contacts[r] # "trusted"} \in SUBSET Pair /\ keys[p[2]] \in 0..MaxKeys
    BY PairFacts, CircleAssumption DEF TypeOK
  <2>2. w \in Writes
    BY <2>1, CircleAssumption DEF NoWrites, Writes, Tier
  <2> HIDE DEF w
  <2>3. Verifies(w, p) /\ Plan(t, w)
    BY <1>2 DEF BeginVerify, Verifies, w
  <2> QED BY <2>2, <2>3 DEF Fresh
<1>3. ASSUME NEW t \in Slot, NEW p \in Pair, BeginBlock(t, p)
      PROVE  \E w \in Writes : Fresh(w) /\ Plan(t, w)
  <2> DEFINE w == [NoWrites EXCEPT !.block = {p} \ blocks,
                              !.delete = {r \in {Flip(p)} : contacts[r] # "none"},
                              !.close = PendingBetween(p)]
  <2>1. /\ {p} \ blocks \in SUBSET Pair /\ {r \in {Flip(p)} : contacts[r] # "none"} \in SUBSET Pair
        /\ PendingBetween(p) \in SUBSET Request
    BY PairFacts DEF PendingBetween
  <2>2. w \in Writes
    BY <2>1, BlockType
  <2> HIDE DEF w
  <2>3. Blocks(w, p) /\ Plan(t, w)
    BY <1>3 DEF BeginBlock, Blocks, w
  <2> QED BY <2>2, <2>3 DEF Fresh
<1>4. ASSUME NEW t \in Slot, NEW p \in Pair, BeginUnblock(t, p)
      PROVE  \E w \in Writes : Fresh(w) /\ Plan(t, w)
  <2> DEFINE w == [NoWrites EXCEPT !.unblock = {p}]
  <2>1. w \in Writes
    BY CircleAssumption DEF NoWrites, Writes, Tier
  <2> HIDE DEF w
  <2>2. Unblocks(w, p) /\ Plan(t, w)
    BY <1>4 DEF BeginUnblock, Unblocks, w
  <2> QED BY <2>1, <2>2 DEF Fresh
<1>5. ASSUME NEW t \in Slot, NEW q \in Request, BeginAccept(t, q)
      PROVE  \E w \in Writes : Fresh(w) /\ Plan(t, w)
  <2> DEFINE both == Both(contactRequests[q].pair)
             w == [Upserts(contactRequests[q].pair, "verified") EXCEPT !.close = {q}, !.as = "accepted"]
  <2>1. /\ w.todo = both /\ w.tier = "verified" /\ w.insert = {} /\ w.update = {}
        /\ w.close = {q} /\ w.as = "accepted" /\ w.loaded = {} /\ w.delete = {} /\ w.ask = None
        /\ w.block = {} /\ w.unblock = {} /\ w.verified = None
    BY DEF Upserts, NoWrites
  <2>2. both \in SUBSET Pair /\ {q} \in SUBSET Request
    BY <1>5, PairFacts DEF BeginAccept, RequestsNamePairs
  <2>3. w \in Writes
    BY <2>2, AnswerType DEF Upserts
  <2>4. both \ both = {} /\ Missing({}) = {} /\ Without({}, "verified") = {}
    BY DEF Missing, Without
  <2>5. Plan(t, w) /\ contactRequests[q].status = "pending"
    BY <1>5 DEF BeginAccept
  <2> HIDE DEF w
  <2>6. Accepts(w, q)
    BY <2>1, <2>4, <2>5 DEF Accepts, Upserted, Plain
  <2> QED BY <2>3, <2>5, <2>6 DEF Fresh
<1>6. ASSUME NEW t \in Slot, NEW q \in Request, BeginDecline(t, q)
      PROVE  \E w \in Writes : Fresh(w) /\ Plan(t, w)
  <2> DEFINE both == Both(contactRequests[q].pair)
             w == [NoWrites EXCEPT !.todo = both, !.close = {q}]
  <2>1. /\ w.todo = both /\ w.tier = "none" /\ w.insert = {} /\ w.update = {}
        /\ w.close = {q} /\ w.as = "declined" /\ w.delete = {} /\ w.ask = None
        /\ w.block = {} /\ w.unblock = {} /\ w.verified = None
    BY DEF NoWrites
  <2>2. both \in SUBSET Pair /\ {q} \in SUBSET Request
    BY <1>6, PairFacts DEF BeginDecline, RequestsNamePairs
  <2>3. w \in Writes
    BY <2>2, AnswerType
  <2>4. {r \in both \ both : contacts[r] = "unverified"} = {}
    OBVIOUS
  <2>5. Plan(t, w) /\ contactRequests[q].status = "pending"
    BY <1>6 DEF BeginDecline
  <2> HIDE DEF w
  <2>6. Declines(w, q)
    BY <2>1, <2>4, <2>5 DEF Declines, Plain
  <2> QED BY <2>3, <2>5, <2>6 DEF Fresh
<1> QED BY <1>1, <1>2, <1>3, <1>4, <1>5, <1>6 DEF Next

LEMMA StepKeepsType ==
  ASSUME TypeOK, RequestsNamePairs, [Next]_vars
  PROVE  TypeOK'
<1>1. ASSUME NEW t \in Slot, NEW w \in Writes, Fresh(w), Plan(t, w) PROVE TypeOK'
  BY <1>1 DEF Plan, Enter, TypeOK, tables
<1>6. ASSUME NEW t \in Slot, NEW p \in Pair, LookAtRow(t, p) PROVE TypeOK'
  BY <1>6, OpenType, LookedType DEF LookAtRow, TypeOK, tables, history
<1>2. ASSUME NEW t \in Slot, Commit(t) PROVE TypeOK'
  <2> DEFINE w == open[t]
  <2>1. w \in Writes
    BY OpenType
  <2>2. /\ contacts' \in [Pair -> Tier \cup {"none"}]
        /\ checked' \in [Pair -> 0..MaxKeys]
        /\ blocks' \subseteq Pair
    BY <1>2, <2>1, CircleAssumption DEF Commit, TypeOK, Writes
  <2>3. contactRequests' \in [Request -> [pair : Pair \cup {None}, status : Status]]
    <3> DEFINE closed == [q \in Request |->
                            IF q \in w.close THEN [contactRequests[q] EXCEPT !.status = w.as]
                            ELSE contactRequests[q]]
    <3>1. w.as \in Status /\ w.ask \in Pair \cup {None}
      BY <2>1 DEF Writes, Status
    <3>2. closed \in [Request -> [pair : Pair \cup {None}, status : Status]]
      <4> SUFFICES ASSUME NEW q \in Request
                   PROVE  closed[q] \in [pair : Pair \cup {None}, status : Status]
        OBVIOUS
      <4>1. contactRequests[q] \in [pair : Pair \cup {None}, status : Status]
        BY DEF TypeOK
      <4> QED BY <3>1, <4>1
    <3>3. \/ contactRequests' = closed
          \/ \E q \in Request :
               contactRequests' = [closed EXCEPT ![q] = [pair |-> w.ask, status |-> "pending"]]
      BY <1>2 DEF Commit
    <3> HIDE DEF closed
    <3>4. [pair |-> w.ask, status |-> "pending"] \in [pair : Pair \cup {None}, status : Status]
      BY <3>1 DEF Status
    <3> QED BY <3>2, <3>3, <3>4
  <2> QED BY <1>2, <2>2, <2>3 DEF Commit, Close, TypeOK, history
<1>3. ASSUME NEW t \in Slot, RollBack(t) PROVE TypeOK'
  BY <1>3 DEF RollBack, Close, TypeOK, tables, history
<1>4. ASSUME NEW u \in User, ReplaceKey(u) \/ AddKey(u) PROVE TypeOK'
  <2>1. overlapped' \in BOOLEAN
    BY <1>4 DEF ReplaceKey, AddKey, NewKey, Enter, Busy, TypeOK
  <2>2. keys' \in [User -> 1..MaxKeys]
    BY <1>4, CircleAssumption DEF ReplaceKey, AddKey, NewKey, TypeOK
  <2>3. replaced' \in [User -> 1..MaxKeys]
    BY <1>4, CircleAssumption DEF ReplaceKey, AddKey, NewKey, TypeOK
  <2>4. contacts' \in [Pair -> Tier \cup {"none"}] /\ checked' \in [Pair -> 0..MaxKeys]
    BY <1>4, CircleAssumption DEF ReplaceKey, AddKey, Demote, TypeOK, Tier
  <2>5. raced' \subseteq Pair
    BY <1>4 DEF ReplaceKey, AddKey, TypeOK
  <2> QED BY <1>4, <2>1, <2>2, <2>3, <2>4, <2>5 DEF ReplaceKey, AddKey, NewKey, TypeOK
<1>5. CASE UNCHANGED vars
  BY <1>5 DEF vars, tables, history, TypeOK
<1> QED BY <1>1, <1>2, <1>3, <1>4, <1>5, <1>6, StepCases

-----------------------------------------------------------------------------
(* What a commit does to the requests.                                     *)
LEMMA CommitRequests ==
  ASSUME TypeOK, NEW t \in Slot, Commit(t)
  PROVE  LET w == open[t] IN
         \/ /\ w.ask = None
            /\ \A q \in Request : contactRequests'[q] =
                 IF q \in w.close THEN [contactRequests[q] EXCEPT !.status = w.as]
                 ELSE contactRequests[q]
         \/ \E n \in Request :
              /\ w.ask # None /\ contactRequests[n] = NoRequest
              /\ contactRequests'[n] = [pair |-> w.ask, status |-> "pending"]
              /\ \A q \in Request \ {n} : contactRequests'[q] =
                   IF q \in w.close THEN [contactRequests[q] EXCEPT !.status = w.as]
                   ELSE contactRequests[q]
BY DEF Commit

LEMMA RequestType ==
  ASSUME TypeOK, NEW q \in Request
  PROVE  /\ contactRequests[q] \in [pair : Pair \cup {None}, status : Status]
         /\ \A s \in Status : /\ [contactRequests[q] EXCEPT !.status = s].status = s
                              /\ [contactRequests[q] EXCEPT !.status = s].pair = contactRequests[q].pair
BY DEF TypeOK

LEMMA StillNamePairs ==
  ASSUME TypeOK, RequestsNamePairs, [Next]_vars
  PROVE  RequestsNamePairs'
<1> USE DEF RequestsNamePairs
<1>1. ASSUME NEW t \in Slot, NEW w \in Writes, Fresh(w), Plan(t, w) PROVE RequestsNamePairs'
  <2>1. \A q \in w.close : q \in Request /\ contactRequests[q].status # "absent"
    <3>1. ASSUME NEW p \in Pair, Sends(w, p) \/ Verifies(w, p) \/ Unblocks(w, p)
          PROVE  w.close = {}
      BY <3>1, SendFields, VerifyFields, UnblockFields
    <3>2. ASSUME NEW p \in Pair, Blocks(w, p)
          PROVE  w.close = PendingBetween(p)
      BY <3>2, BlockFields
    <3>3. ASSUME NEW q \in Request, Accepts(w, q) \/ Declines(w, q)
          PROVE  w.close = {q} /\ contactRequests[q].status = "pending"
      BY <3>3, AcceptFields, DeclineFields DEF Accepts, Declines
    <3> QED BY <1>1, <3>1, <3>2, <3>3 DEF Fresh, PendingBetween
  <2>2. UNCHANGED contactRequests /\ \A s \in Slot : open'[s] = open[s] \/ open'[s] = w
    BY <1>1 DEF Plan, TypeOK, tables
  <2> QED BY <2>1, <2>2
<1>6. ASSUME NEW t \in Slot, NEW p \in Pair, LookAtRow(t, p) PROVE RequestsNamePairs'
  <2>1. UNCHANGED contactRequests /\ \A s \in Slot : open'[s].close = open[s].close
    BY <1>6, OpenType, LookedType DEF LookAtRow, TypeOK, tables
  <2> QED BY <2>1
<1>2. ASSUME NEW t \in Slot, Commit(t) PROVE RequestsNamePairs'
  <2> DEFINE w == open[t]
  <2>1. w.as \in {"accepted", "declined"} /\ w.ask \in Pair \cup {None} /\ w.close \subseteq Request
    BY OpenType DEF Writes
  <2>2. \A q \in w.close : contactRequests[q].status # "absent"
    OBVIOUS
  <2>3. \A q \in Request :
          /\ contactRequests'[q].status # "absent" => contactRequests'[q].pair \in Pair
          /\ contactRequests'[q].status = "absent" => contactRequests'[q] = NoRequest
          /\ contactRequests[q].status # "absent" => contactRequests'[q].status # "absent"
    <3> TAKE q \in Request
    <3>1. CASE contactRequests'[q] = contactRequests[q]
      BY <3>1
    <3>2. CASE q \in w.close /\ contactRequests'[q] = [contactRequests[q] EXCEPT !.status = w.as]
      BY <2>1, <2>2, <3>2, RequestType DEF Status
    <3>3. CASE /\ contactRequests'[q] = [pair |-> w.ask, status |-> "pending"]
               /\ w.ask # None /\ contactRequests[q] = NoRequest
      BY <2>1, <3>3 DEF NoRequest
    <3> QED BY <1>2, <3>1, <3>2, <3>3, CommitRequests
  <2>4. \A s \in Slot : open'[s] = open[s] \/ open'[s] = NoWrites
    BY <1>2 DEF Commit, Close, TypeOK
  <2>5. \A s \in Slot : open[s].close \subseteq Request
    BY OpenType DEF Writes
  <2> QED BY <2>3, <2>4, <2>5 DEF NoWrites
<1>3. ASSUME NEW t \in Slot, RollBack(t) PROVE RequestsNamePairs'
  BY <1>3 DEF RollBack, Close, TypeOK, NoWrites, tables
<1>4. ASSUME NEW u \in User, ReplaceKey(u) \/ AddKey(u) PROVE RequestsNamePairs'
  BY <1>4 DEF ReplaceKey, AddKey, NewKey
<1>5. CASE UNCHANGED vars
  BY <1>5 DEF vars, tables
<1> QED BY <1>1, <1>2, <1>3, <1>4, <1>5, <1>6, StepCases

LEMMA KeysStayCounted ==
  ASSUME TypeOK, RequestsNamePairs, \A u \in User : replaced[u] <= keys[u], [Next]_vars
  PROVE  \A u \in User : replaced'[u] <= keys'[u]
<1>1. ASSUME NEW u \in User, ReplaceKey(u) \/ AddKey(u)
      PROVE  \A v \in User : replaced'[v] <= keys'[v]
  BY <1>1, CircleAssumption DEF ReplaceKey, AddKey, NewKey, TypeOK
<1> QED BY <1>1, StepCases DEF Plan, LookAtRow, Commit, RollBack, vars, tables

-----------------------------------------------------------------------------
(* What a handler would decide depends on the tables alone.                *)
LEMMA FreshStays ==
  ASSUME UNCHANGED <<contacts, contactRequests, blocks, keys>>, NEW w, Fresh(w)
  PROVE  Fresh(w)'
<1>1. \A p : PendingBetween(p)' = PendingBetween(p)
  BY DEF PendingBetween
<1>2. \A pairs, tier : /\ Missing(pairs)' = Missing(pairs)
                       /\ Without(pairs, tier)' = Without(pairs, tier)
  BY DEF Missing, Without
<1>3. ASSUME NEW p \in Pair
      PROVE  /\ Sends(w, p) => Sends(w, p)'
             /\ Verifies(w, p) => Verifies(w, p)'
             /\ Blocks(w, p) => Blocks(w, p)'
             /\ Unblocks(w, p) => Unblocks(w, p)'
  BY <1>1, <1>2 DEF Sends, Verifies, Blocks, Unblocks, Upserted, Plain
<1>4. ASSUME NEW q \in Request
      PROVE  /\ Accepts(w, q) => Accepts(w, q)'
             /\ Declines(w, q) => Declines(w, q)'
  BY <1>2 DEF Accepts, Declines, Upserted, Plain
<1> QED BY <1>3, <1>4 DEF Fresh

(* Looking at the next row goes on with what the handler would decide.     *)
LEMMA LookedIsFresh ==
  ASSUME TypeOK, RequestsNamePairs, NEW w \in Writes, Fresh(w), NEW x \in Pair, x \in w.todo
  PROVE  Fresh(Looked(w, x))
<1> DEFINE v == Looked(w, x)
<1>1. /\ v.todo = w.todo \ {x} /\ v.loaded = w.loaded
      /\ v.insert = w.insert \cup {r \in {x} : w.tier # "none" /\ contacts[r] = "none"}
      /\ v.update = w.update \cup {r \in {x} \ w.loaded :
                                     w.tier # "none" /\ contacts[r] \notin {"none", w.tier}}
      /\ v.delete = w.delete \cup {r \in {x} : w.tier = "none" /\ contacts[r] = "unverified"}
      /\ v.ask = w.ask /\ v.close = w.close /\ v.tier = w.tier /\ v.as = w.as
      /\ Plain(w) => Plain(v)
  BY LookedFields, LookedType DEF Plain
<1> HIDE DEF v
<1>2. ASSUME NEW p \in Pair, Verifies(w, p) \/ Blocks(w, p) \/ Unblocks(w, p) PROVE FALSE
  BY <1>2, VerifyFields, BlockFields, UnblockFields
<1>3. ASSUME NEW pairs, x \in pairs, w.todo \subseteq pairs
      PROVE  /\ Missing(pairs \ v.todo) = Missing(pairs \ w.todo) \cup {r \in {x} : contacts[r] = "none"}
             /\ \A tier : Without(pairs \ v.todo, tier)
                           = Without(pairs \ w.todo, tier) \cup {r \in {x} : contacts[r] \notin {"none", tier}}
  <2>1. pairs \ v.todo = (pairs \ w.todo) \cup {x}
    BY <1>1, <1>3
  <2> QED BY <2>1 DEF Missing, Without
<1>4. ASSUME NEW p \in Pair, Sends(w, p) PROVE Sends(v, p)
  <2>1. w.tier = "unverified" /\ w.todo \subseteq Both(p)
    BY <1>4 DEF Sends, Upserted
  <2>2. contacts[p] \in {"none", "unverified"}
    BY <1>4 DEF Sends, TypeOK, Tier, Accepted
  <2>3. {r \in {x} \ w.loaded : contacts[r] \notin {"none", "unverified"}}
          = {r \in {x} : contacts[r] \notin {"none", "unverified"}}
    BY <1>4, <2>2 DEF Sends
  <2>4. /\ v.insert = w.insert \cup {r \in {x} : contacts[r] = "none"}
        /\ v.update = w.update \cup {r \in {x} : contacts[r] \notin {"none", "unverified"}}
        /\ v.delete = w.delete
    BY <1>1, <2>1, <2>3
  <2>6. /\ Missing(Both(p) \ v.todo) = Missing(Both(p) \ w.todo) \cup {r \in {x} : contacts[r] = "none"}
        /\ Without(Both(p) \ v.todo, "unverified")
             = Without(Both(p) \ w.todo, "unverified")
               \cup {r \in {x} : contacts[r] \notin {"none", "unverified"}}
    BY <1>3, <2>1
  <2>5. Upserted(v, Both(p), "unverified")
    BY <1>1, <1>4, <2>1, <2>4, <2>6 DEF Sends, Upserted
  <2> QED BY <1>1, <1>4, <2>4, <2>5 DEF Sends
<1>5. ASSUME NEW q \in Request, Accepts(w, q) PROVE Accepts(v, q)
  <2> DEFINE both == Both(contactRequests[q].pair)
  <2>1. w.tier = "verified" /\ w.todo \subseteq both /\ w.loaded = {}
    BY <1>5 DEF Accepts, Upserted
  <2>2. /\ v.insert = w.insert \cup {r \in {x} : contacts[r] = "none"}
        /\ v.update = w.update \cup {r \in {x} : contacts[r] \notin {"none", "verified"}}
        /\ v.delete = w.delete
    BY <1>1, <2>1
  <2>4. /\ Missing(both \ v.todo) = Missing(both \ w.todo) \cup {r \in {x} : contacts[r] = "none"}
        /\ Without(both \ v.todo, "verified")
             = Without(both \ w.todo, "verified")
               \cup {r \in {x} : contacts[r] \notin {"none", "verified"}}
    BY <1>3, <2>1
  <2>3. Upserted(v, both, "verified")
    BY <1>1, <1>5, <2>1, <2>2, <2>4 DEF Accepts, Upserted
  <2> QED BY <1>1, <1>5, <2>2, <2>3 DEF Accepts
<1>6. ASSUME NEW q \in Request, Declines(w, q) PROVE Declines(v, q)
  <2> DEFINE both == Both(contactRequests[q].pair)
  <2>1. /\ v.insert = w.insert /\ v.update = w.update
        /\ v.delete = w.delete \cup {r \in {x} : contacts[r] = "unverified"}
    BY <1>1, <1>6 DEF Declines
  <2>2. both \ v.todo = (both \ w.todo) \cup {x}
    BY <1>1, <1>6 DEF Declines
  <2>3. v.delete = {r \in both \ v.todo : contacts[r] = "unverified"}
    BY <1>6, <2>1, <2>2 DEF Declines
  <2> QED BY <1>1, <1>6, <2>1, <2>3 DEF Declines
<1> QED BY <1>2, <1>4, <1>5, <1>6 DEF Fresh, v

LEMMA StaysAlone ==
  ASSUME TypeOK, RequestsNamePairs, ~overlapped => AloneIsFresh, ~overlapped', [Next]_vars
  PROVE  AloneIsFresh'
<1> USE DEF AloneIsFresh
<1>1. ~overlapped
  <2>1. overlapped' = overlapped \/ (overlapped' = (overlapped \/ Busy))
    BY StepCases DEF Plan, Enter, LookAtRow, Commit, RollBack, ReplaceKey, AddKey, NewKey, vars, history
  <2> QED BY <2>1
<1>2. ASSUME NEW t \in Slot, NEW w \in Writes, Fresh(w), Plan(t, w) PROVE AloneIsFresh'
  <2>1. \A s \in Slot : open[s] = NoWrites
    BY <1>2 DEF Plan, Enter, Busy
  <2>2. Fresh(w)'
    BY <1>2, FreshStays DEF Plan, tables
  <2>3. \A s \in Slot : open'[s] = IF s = t THEN w ELSE open[s]
    BY <1>2 DEF Plan, TypeOK
  <2> QED BY <2>1, <2>2, <2>3
<1>3. ASSUME NEW t \in Slot, Commit(t) \/ RollBack(t) PROVE AloneIsFresh'
  <2>1. \A s \in Slot : open'[s] = NoWrites
    BY <1>1, <1>3 DEF Commit, RollBack, Close, TypeOK
  <2> QED BY <2>1
<1>4. ASSUME NEW u \in User, ReplaceKey(u) \/ AddKey(u) PROVE AloneIsFresh'
  <2>1. \A s \in Slot : open'[s] = NoWrites
    BY <1>4 DEF ReplaceKey, AddKey, NewKey, Enter, Busy
  <2> QED BY <2>1
<1>5. CASE UNCHANGED vars
  BY <1>1, <1>5, FreshStays DEF vars, tables
<1>6. ASSUME NEW t \in Slot, NEW p \in Pair, LookAtRow(t, p) PROVE AloneIsFresh'
  <2>1. open[t] # NoWrites
    BY <1>6 DEF LookAtRow, NoWrites
  <2>2. PICK w : w = Looked(open[t], p)
    OBVIOUS
  <2>7. open[t] \in Writes
    BY OpenType
  <2>3. Fresh(w) /\ UNCHANGED <<contacts, contactRequests, blocks, keys>>
    BY <1>1, <1>6, <2>1, <2>2, <2>7, LookedIsFresh DEF LookAtRow, tables
  <2>4. Fresh(w)'
    BY <2>3, FreshStays
  <2>5. \A s \in Slot : open'[s] = IF s = t THEN w ELSE open[s]
    BY <1>6, <2>2 DEF LookAtRow, TypeOK
  <2>6. \A s \in Slot \ {t} : open[s] = NoWrites
    BY <1>1, <2>1
  <2> QED BY <2>4, <2>5, <2>6
<1> QED BY <1>2, <1>3, <1>4, <1>5, <1>6, StepCases

-----------------------------------------------------------------------------
(* What a commit does to the contact rows.                                 *)
LEMMA CommitContacts ==
  ASSUME TypeOK, NEW t \in Slot, Commit(t), NEW r \in Pair
  PROVE  LET w == open[t] IN
         /\ contacts'[r] = IF r \in w.delete THEN "none"
                           ELSE IF r \in w.insert \cup w.update THEN w.tier
                           ELSE contacts[r]
         /\ checked'[r] = IF r \in w.insert \cup w.delete THEN 0
                          ELSE IF r = w.verified THEN w.number
                          ELSE checked[r]
         /\ contacts[r] \in {"none", "unverified", "verified", "trusted"}
BY DEF Commit, TypeOK, Tier

-----------------------------------------------------------------------------
(* However requests interleave: two requests are pending between a pair    *)
(* only if both users were asking at once.                                 *)
LEMMA OpenAsk ==
  ASSUME TypeOK, NEW t \in Slot
  PROVE  open[t].ask \in Pair \cup {None}
BY OpenType DEF Writes

LEMMA PendingGrows ==
  ASSUME TypeOK, NEW t \in Slot, Commit(t), NEW r \in Pair
  PROVE  \/ PendingBetween(r)' \subseteq PendingBetween(r)
         \/ /\ open[t].ask \in Both(r)
            /\ \E n \in Request : PendingBetween(r)' \subseteq PendingBetween(r) \cup {n}
<1> DEFINE w == open[t]
<1>1. w.as \in {"accepted", "declined"}
  BY OpenType DEF Writes
<1>2. ASSUME NEW q \in Request,
             contactRequests'[q] = IF q \in w.close THEN [contactRequests[q] EXCEPT !.status = w.as]
                                   ELSE contactRequests[q]
      PROVE  q \in PendingBetween(r)' => q \in PendingBetween(r)
  <2>1. CASE q \in w.close
    <3>1. contactRequests'[q].status = w.as
      BY <1>1, <1>2, <2>1, RequestType DEF Status
    <3> QED BY <1>1, <3>1 DEF PendingBetween
  <2>2. CASE q \notin w.close
    BY <1>2, <2>2 DEF PendingBetween
  <2> QED BY <2>1, <2>2
<1> HIDE DEF w
<1>3. CASE /\ w.ask = None
           /\ \A q \in Request : contactRequests'[q] =
                IF q \in w.close THEN [contactRequests[q] EXCEPT !.status = w.as]
                ELSE contactRequests[q]
  BY <1>2, <1>3 DEF PendingBetween
<1>4. ASSUME NEW n \in Request,
             contactRequests'[n] = [pair |-> w.ask, status |-> "pending"],
             \A q \in Request \ {n} : contactRequests'[q] =
               IF q \in w.close THEN [contactRequests[q] EXCEPT !.status = w.as]
               ELSE contactRequests[q]
      PROVE  /\ PendingBetween(r)' \subseteq PendingBetween(r) \cup {n}
             /\ n \in PendingBetween(r)' => w.ask \in Both(r)
  <2>1. contactRequests'[n].pair = w.ask
    BY <1>4
  <2>2. n \in PendingBetween(r)' => w.ask \in Both(r)
    BY <2>1 DEF PendingBetween
  <2>3. \A q \in PendingBetween(r)' : q \in Request
    BY DEF PendingBetween
  <2> QED BY <1>2, <1>4, <2>2, <2>3
<1>5. \/ /\ w.ask = None
         /\ \A q \in Request : contactRequests'[q] =
              IF q \in w.close THEN [contactRequests[q] EXCEPT !.status = w.as]
              ELSE contactRequests[q]
      \/ \E n \in Request :
           /\ contactRequests'[n] = [pair |-> w.ask, status |-> "pending"]
           /\ \A q \in Request \ {n} : contactRequests'[q] =
                IF q \in w.close THEN [contactRequests[q] EXCEPT !.status = w.as]
                ELSE contactRequests[q]
  BY CommitRequests DEF w
<1>6. CASE w.ask = None
  BY <1>3, <1>5, <1>6, <1>4, PairFacts
<1> QED BY <1>3, <1>4, <1>5 DEF w

(* A step that leaves the requests alone.                                  *)
LEMMA PendingStands ==
  ASSUME PendingAgree, UNCHANGED <<contactRequests, crossed>>,
         \A t \in Slot : open'[t].ask \in {open[t].ask, None},
         None \notin Pair, TypeOK
  PROVE  PendingAgree'
<1>1. \A p : PendingBetween(p)' = PendingBetween(p)
  BY DEF PendingBetween
<1>2. ASSUME NEW t \in Slot, open'[t].ask \notin crossed \cup {None}
      PROVE  /\ PendingBetween(open[t].ask)' = {}
             /\ \A s \in Slot \ {t} : open'[s].ask \notin Both(open'[t].ask)
  <2>1. open'[t].ask = open[t].ask /\ open[t].ask \in Pair
    BY <1>2, OpenAsk
  <2>2. PendingBetween(open[t].ask) = {}
        /\ \A s \in Slot \ {t} : open[s].ask \notin Both(open[t].ask)
    BY <1>2, <2>1 DEF PendingAgree
  <2>3. None \notin Both(open[t].ask)
    BY <2>1, PairFacts
  <2>4. PendingBetween(open[t].ask)' = PendingBetween(open[t].ask)
    BY <2>1 DEF PendingBetween
  <2> QED BY <2>1, <2>2, <2>3, <2>4
<1> QED BY <1>1, <1>2 DEF PendingAgree

LEMMA PendingStaysAgreed ==
  ASSUME TypeOK, RequestsNamePairs, PendingAgree, [Next]_vars
  PROVE  PendingAgree'
<1>1. None \notin Pair
  BY CircleAssumption DEF Pair
<1>2. ASSUME NEW t \in Slot, NEW w \in Writes, Fresh(w), Plan(t, w) PROVE PendingAgree'
  <2>1. /\ UNCHANGED contactRequests
        /\ \A s \in Slot : open'[s] = IF s = t THEN w ELSE open[s]
        /\ crossed' = crossed \cup {p \in Pair : /\ w.ask \in Both(p)
                                               /\ \E s \in Slot : open[s].ask \in Both(p)}
        /\ open[t] = NoWrites
    BY <1>2 DEF Plan, TypeOK, tables
  <2>2. \A p : PendingBetween(p)' = PendingBetween(p)
    BY <2>1 DEF PendingBetween
  <2>3. ASSUME NEW p \in crossed' PROVE Flip(p) \in crossed'
    BY <2>1, <2>3, PairFacts DEF PendingAgree
  <2>4. w.ask # None => w.ask \in Pair /\ PendingBetween(w.ask) = {}
    <3>1. ASSUME NEW p \in Pair, Sends(w, p) PROVE w.ask \in Pair /\ PendingBetween(w.ask) = {}
      BY <3>1 DEF Sends
    <3>2. ASSUME NEW p \in Pair, Verifies(w, p) \/ Blocks(w, p) \/ Unblocks(w, p) PROVE w.ask = None
      BY <3>2, VerifyFields, BlockFields, UnblockFields
    <3>3. ASSUME NEW q \in Request, Accepts(w, q) \/ Declines(w, q) PROVE w.ask = None
      BY <3>3, AcceptFields, DeclineFields
    <3> QED BY <1>2, <3>1, <3>2, <3>3 DEF Fresh
  <2>5. ASSUME NEW s \in Slot, open'[s].ask \notin crossed' \cup {None}
        PROVE  /\ PendingBetween(open'[s].ask) = {}
               /\ \A x \in Slot \ {s} : open'[x].ask \notin Both(open'[s].ask)
    <3>1. CASE s = t
      <4>1. open'[s].ask = w.ask /\ w.ask \in Pair /\ PendingBetween(w.ask) = {}
        BY <2>1, <2>4, <2>5, <3>1
      <4>2. w.ask \in Both(w.ask)
        BY <4>1, PairFacts
      <4>3. \A x \in Slot : open[x].ask \notin Both(w.ask)
        BY <2>1, <2>5, <4>1, <4>2
      <4> QED BY <2>1, <3>1, <4>1, <4>3
    <3>2. CASE s # t
      <4>1. open'[s].ask = open[s].ask /\ open[s].ask \in Pair
            /\ open[s].ask \notin crossed \cup {None}
        BY <2>1, <2>5, <3>2, OpenAsk
      <4>2. PendingBetween(open[s].ask) = {}
            /\ \A x \in Slot \ {s} : open[x].ask \notin Both(open[s].ask)
        BY <4>1 DEF PendingAgree
      <4>3. open[s].ask \in Both(open[s].ask)
        BY <4>1, PairFacts
      <4>4. w.ask \notin Both(open[s].ask)
        BY <2>1, <2>5, <4>1, <4>3
      <4> QED BY <2>1, <4>1, <4>2, <4>4
    <3> QED BY <3>1, <3>2
  <2>6. ASSUME NEW s \in Slot PROVE PendingBetween(open[s].ask)' = PendingBetween(open'[s].ask)
    BY <2>1 DEF PendingBetween
  <2>7. \A p \in Pair \ crossed' : \A q, r \in PendingBetween(p)' : q = r
    BY <2>1, <2>2 DEF PendingAgree
  <2> QED BY <2>3, <2>5, <2>6, <2>7 DEF PendingAgree
<1>3. ASSUME NEW t \in Slot, NEW p \in Pair, LookAtRow(t, p) PROVE PendingAgree'
  <2>1. \A s \in Slot : open'[s].ask = open[s].ask
    BY <1>3, OpenType, LookedType DEF LookAtRow, TypeOK
  <2> QED BY <1>1, <1>3, <2>1, PendingStands DEF LookAtRow, tables, history
<1>4. ASSUME NEW t \in Slot, RollBack(t) PROVE PendingAgree'
  <2>1. \A s \in Slot : open'[s].ask \in {open[s].ask, None}
    BY <1>4 DEF RollBack, Close, NoWrites, TypeOK
  <2> QED BY <1>1, <1>4, <2>1, PendingStands DEF RollBack, tables, history
<1>5. ASSUME NEW u \in User, ReplaceKey(u) \/ AddKey(u) PROVE PendingAgree'
  BY <1>1, <1>5, PendingStands DEF ReplaceKey, AddKey, NewKey
<1>6. CASE UNCHANGED vars
  BY <1>1, <1>6, PendingStands DEF vars, tables, history
<1>7. ASSUME NEW t \in Slot, Commit(t) PROVE PendingAgree'
  <2>1. /\ UNCHANGED crossed
        /\ \A s \in Slot : open'[s] = IF s = t THEN NoWrites ELSE open[s]
    BY <1>7 DEF Commit, Close, TypeOK, history
  <2>2. open[t].ask \in Pair /\ open[t].ask \notin crossed => PendingBetween(open[t].ask) = {}
    BY <1>1 DEF PendingAgree
  <2>3. ASSUME NEW r \in Pair \ crossed PROVE \A q, o \in PendingBetween(r)' : q = o
    <3>1. CASE PendingBetween(r)' \subseteq PendingBetween(r)
      BY <2>3, <3>1 DEF PendingAgree
    <3>2. ASSUME open[t].ask \in Both(r), NEW n \in Request,
                 PendingBetween(r)' \subseteq PendingBetween(r) \cup {n}
          PROVE  \A q, o \in PendingBetween(r)' : q = o
      <4>1. /\ open[t].ask \in Pair /\ Both(open[t].ask) = Both(r)
            /\ open[t].ask = r \/ open[t].ask = Flip(r)
        BY <3>2, PairFacts
      <4>2. open[t].ask \notin crossed
        BY <2>3, <4>1, PairFacts DEF PendingAgree
      <4>3. PendingBetween(r) = {}
        BY <2>2, <4>1, <4>2 DEF PendingBetween
      <4> QED BY <3>2, <4>3
    <3> QED BY <1>7, <3>1, <3>2, PendingGrows
  <2>4. ASSUME NEW s \in Slot, open'[s].ask \notin crossed \cup {None}
        PROVE  /\ PendingBetween(open[s].ask)' = {}
               /\ \A x \in Slot \ {s} : open'[x].ask \notin Both(open'[s].ask)
    <3>1. s # t
      BY <2>1, <2>4 DEF NoWrites
    <3>2. PICK p \in Pair : p = open[s].ask /\ p \notin crossed
      BY <2>1, <2>4, <3>1, OpenAsk
    <3>3. PendingBetween(p) = {} /\ \A x \in Slot \ {s} : open[x].ask \notin Both(p)
      BY <1>1, <3>2 DEF PendingAgree
    <3>4. open[t].ask \notin Both(p)
      BY <3>1, <3>3
    <3>5. PendingBetween(p)' = {}
      BY <1>7, <3>3, <3>4, PendingGrows
    <3>6. PendingBetween(open[s].ask)' = PendingBetween(p)'
      BY <2>1, <3>1, <3>2 DEF PendingBetween
    <3>7. None \notin Both(p)
      BY PairFacts
    <3>8. \A x \in Slot \ {s} : open'[x].ask \notin Both(p)
      BY <2>1, <3>3, <3>7 DEF NoWrites
    <3> QED BY <2>1, <3>1, <3>2, <3>5, <3>6, <3>8
  <2> QED BY <2>1, <2>3, <2>4 DEF PendingAgree
<1> QED BY <1>2, <1>3, <1>4, <1>5, <1>6, <1>7, StepCases

-----------------------------------------------------------------------------
(* However requests interleave: nobody is trusted on a verification from   *)
(* before a replacement, unless it was open then.                          *)
LEMMA TrustStaysRenewed ==
  ASSUME TypeOK, RequestsNamePairs, \A u \in User : replaced[u] <= keys[u],
         OpenTrust, TrustIsRenewed, [Next]_vars
  PROVE  OpenTrust' /\ TrustIsRenewed'
<1> USE DEF OpenTrust, TrustIsRenewed
<1>1. None \notin Pair
  BY CircleAssumption DEF Pair
<1>2. ASSUME NEW t \in Slot, NEW w \in Writes, Fresh(w), Plan(t, w) PROVE OpenTrust' /\ TrustIsRenewed'
  <2>1. ASSUME NEW p \in Pair, Verifies(w, p)
        PROVE  /\ w.insert = {} /\ w.todo = {} /\ w.update \subseteq {w.verified}
               /\ w.number >= replaced[w.verified[2]]
    <3>1. p[2] \in User /\ keys[p[2]] >= replaced[p[2]]
      BY PairFacts, CircleAssumption DEF TypeOK
    <3> QED BY <2>1, <3>1, VerifyFields DEF Touches
  <2>2. ASSUME NEW p \in Pair, Sends(w, p) \/ Blocks(w, p) \/ Unblocks(w, p)
        PROVE  w.tier # "trusted" /\ w.verified = None
    BY <2>2, SendFields, BlockFields, UnblockFields DEF Touches
  <2>3. ASSUME NEW q \in Request, Accepts(w, q) \/ Declines(w, q)
        PROVE  w.tier # "trusted" /\ w.verified = None
    BY <2>3, AcceptFields, DeclineFields
  <2>4. \/ w.tier # "trusted" /\ w.verified = None
        \/ /\ w.insert = {} /\ w.todo = {} /\ w.update \subseteq {w.verified}
           /\ w.number >= replaced[w.verified[2]]
    BY <1>2, <2>1, <2>2, <2>3 DEF Fresh
  <2>5. /\ UNCHANGED <<contacts, checked, replaced, raced>>
        /\ \A s \in Slot : open'[s] = IF s = t THEN w ELSE open[s]
    BY <1>2 DEF Plan, TypeOK, tables
  <2> QED BY <2>4, <2>5
<1>3. ASSUME NEW t \in Slot, NEW p \in Pair, LookAtRow(t, p) PROVE OpenTrust' /\ TrustIsRenewed'
  <2>1. /\ UNCHANGED <<contacts, checked, replaced, raced>>
        /\ \A s \in Slot : open'[s] = IF s = t THEN Looked(open[t], p) ELSE open[s]
    BY <1>3 DEF LookAtRow, TypeOK, tables, history
  <2>2. /\ Looked(open[t], p).verified = open[t].verified
        /\ Looked(open[t], p).number = open[t].number
        /\ Looked(open[t], p).tier = open[t].tier
    BY OpenType, LookedType
  <2>3. open[t].tier # "trusted"
    BY <1>3 DEF LookAtRow
  <2> QED BY <2>1, <2>2, <2>3
<1>4. ASSUME NEW t \in Slot, RollBack(t) PROVE OpenTrust' /\ TrustIsRenewed'
  BY <1>4 DEF RollBack, Close, NoWrites, TypeOK, tables, history
<1>5. ASSUME NEW u \in User, ReplaceKey(u) \/ AddKey(u) PROVE OpenTrust' /\ TrustIsRenewed'
  <2>1. CASE AddKey(u)
    BY <2>1 DEF AddKey, NewKey
  <2>2. CASE ReplaceKey(u)
    <3>1. /\ UNCHANGED open
          /\ \A v \in User : v # u => replaced'[v] = replaced[v]
          /\ raced' = raced \cup {p \in Pair : p[2] = u /\ \E t \in Slot : open[t].verified = p}
      BY <2>2 DEF ReplaceKey, NewKey, TypeOK
    <3>2. ASSUME NEW t \in Slot, open[t].verified \notin raced' \cup {None}
          PROVE  open[t].number >= replaced'[open[t].verified[2]]
      <4>1. open[t].verified \in Pair
        BY <3>2, OpenType DEF Writes
      <4>2. open[t].verified[2] # u /\ open[t].verified[2] \in User
        BY <3>1, <3>2, <4>1, PairFacts
      <4> QED BY <3>1, <3>2, <4>2
    <3>3. ASSUME NEW r \in Pair \ raced', contacts'[r] = "trusted"
          PROVE  checked'[r] >= replaced'[r[2]]
      <4>1. /\ contacts[r] = "trusted" /\ checked'[r] = checked[r] /\ r[2] # u
        BY <2>2, <3>3 DEF ReplaceKey, Demote
      <4>2. replaced'[r[2]] = replaced[r[2]] /\ r \notin raced
        BY <3>1, <3>3, <4>1, PairFacts
      <4> QED BY <3>3, <4>1, <4>2
    <3> QED BY <3>1, <3>2, <3>3
  <2> QED BY <1>5, <2>1, <2>2
<1>6. CASE UNCHANGED vars
  BY <1>6 DEF vars, tables, history
<1>7. ASSUME NEW t \in Slot, Commit(t) PROVE OpenTrust' /\ TrustIsRenewed'
  <2>1. /\ UNCHANGED <<replaced, raced>>
        /\ \A s \in Slot : open'[s] = IF s = t THEN NoWrites ELSE open[s]
    BY <1>7 DEF Commit, Close, TypeOK, history
  <2>2. OpenTrust'
    BY <2>1 DEF NoWrites
  <2>3. ASSUME NEW r \in Pair \ raced, contacts'[r] = "trusted"
        PROVE  checked'[r] >= replaced[r[2]]
    <3>1. r # None
      BY <1>1
    <3>2. r \notin open[t].delete
      BY <1>7, <2>3, CommitContacts
    <3>3. CASE r \in open[t].insert \cup open[t].update
      <4>1. open[t].tier = "trusted"
        BY <1>7, <2>3, <3>2, <3>3, CommitContacts
      <4>2. r = open[t].verified /\ r \notin open[t].insert
        BY <3>3, <4>1
      <4> QED BY <1>7, <2>3, <3>1, <3>2, <4>2, CommitContacts
    <3>4. CASE r \notin open[t].insert \cup open[t].update
      <4>1. contacts[r] = "trusted"
        BY <1>7, <2>3, <3>2, <3>4, CommitContacts
      <4>2. checked'[r] = IF r = open[t].verified THEN open[t].number ELSE checked[r]
        BY <1>7, <3>2, <3>4, CommitContacts
      <4> QED BY <2>3, <3>1, <4>1, <4>2
    <3> QED BY <3>3, <3>4
  <2> QED BY <2>1, <2>2, <2>3
<1> QED BY <1>2, <1>3, <1>4, <1>5, <1>6, <1>7, StepCases

-----------------------------------------------------------------------------
(* What the commit of a fresh decision leaves in the tables.               *)
LEMMA SendEffect ==
  ASSUME TypeOK, NEW t \in Slot, NEW p \in Pair, Sends(open[t], p), Commit(t)
  PROVE  /\ blocks' = blocks
         /\ \E n \in Request :
              /\ contactRequests[n] = NoRequest
              /\ contactRequests'[n] = [pair |-> p, status |-> "pending"]
              /\ \A q \in Request \ {n} : contactRequests'[q] = contactRequests[q]
         /\ \A r \in Both(p) : contacts'[r] = "unverified"
         /\ \A r \in Pair \ Both(p) : contacts'[r] = contacts[r] /\ checked'[r] = checked[r]
<1>1. blocks' = blocks
  BY SendFields DEF Commit
<1>2. p # None /\ Both(p) \subseteq Pair
  BY PairFacts
<1>7. Touches(open[t], Missing(Both(p)), Without(Both(p), "unverified"), {}, "unverified")
  BY SendFields DEF Commit
<1>3. \A r \in Both(p) : contacts'[r] = "unverified"
  BY <1>2, <1>7, CommitContacts DEF Touches, Missing, Without
<1>4. \A r \in Pair \ Both(p) : contacts'[r] = contacts[r] /\ checked'[r] = checked[r]
  <2> TAKE r \in Pair \ Both(p)
  <2>1. r # open[t].verified
    BY SendFields, PairFacts
  <2> QED BY <1>7, <2>1, CommitContacts DEF Touches, Missing, Without
<1>5. open[t].ask = p /\ open[t].close = {}
  BY SendFields
<1>6. \E n \in Request :
        /\ contactRequests[n] = NoRequest
        /\ contactRequests'[n] = [pair |-> p, status |-> "pending"]
        /\ \A q \in Request \ {n} : contactRequests'[q] = contactRequests[q]
  BY <1>2, <1>5, CommitRequests, ZenonT(40)
<1> QED BY <1>1, <1>3, <1>4, <1>6

LEMMA AcceptEffect ==
  ASSUME TypeOK, RequestsNamePairs, NEW t \in Slot, NEW q \in Request, Accepts(open[t], q), Commit(t)
  PROVE  LET both == Both(contactRequests[q].pair) IN
         /\ blocks' = blocks
         /\ contactRequests'[q] = [contactRequests[q] EXCEPT !.status = "accepted"]
         /\ \A o \in Request \ {q} : contactRequests'[o] = contactRequests[o]
         /\ \A r \in both : contacts'[r] = "verified"
         /\ \A r \in Pair \ both : contacts'[r] = contacts[r] /\ checked'[r] = checked[r]
<1> DEFINE both == Both(contactRequests[q].pair)
<1>1. both \subseteq Pair
  BY PairFacts DEF Accepts, RequestsNamePairs
<1>6. Touches(open[t], Missing(both), Without(both, "verified"), {}, "verified")
  BY AcceptFields DEF Commit
<1>2. \A r \in both : contacts'[r] = "verified"
  BY <1>1, <1>6, CommitContacts DEF Touches, Missing, Without
<1>3. \A r \in Pair \ both : contacts'[r] = contacts[r] /\ checked'[r] = checked[r]
  <2> TAKE r \in Pair \ both
  <2>1. r # open[t].verified
    BY AcceptFields, PairFacts
  <2> QED BY <1>6, <2>1, CommitContacts DEF Touches, Missing, Without
<1>4. /\ contactRequests'[q] = [contactRequests[q] EXCEPT !.status = "accepted"]
      /\ \A o \in Request \ {q} : contactRequests'[o] = contactRequests[o]
  <2>1. open[t].ask = None /\ open[t].close = {q} /\ open[t].as = "accepted"
    BY AcceptFields
  <2> QED BY <2>1, CommitRequests
<1>5. blocks' = blocks
  BY AcceptFields DEF Commit
<1> QED BY <1>2, <1>3, <1>4, <1>5

LEMMA DeclineEffect ==
  ASSUME TypeOK, NEW t \in Slot, NEW q \in Request, Declines(open[t], q), Commit(t)
  PROVE  LET both == Both(contactRequests[q].pair) IN
         /\ blocks' = blocks
         /\ contactRequests'[q] = [contactRequests[q] EXCEPT !.status = "declined"]
         /\ \A o \in Request \ {q} : contactRequests'[o] = contactRequests[o]
         /\ \A r \in Pair :
              \/ contacts'[r] = contacts[r] /\ checked'[r] = checked[r]
                 /\ (r \in both => contacts[r] # "unverified")
              \/ contacts'[r] = "none" /\ r \in both /\ contacts[r] = "unverified"
<1> DEFINE both == Both(contactRequests[q].pair)
<1>1. \A r \in Pair :
        \/ contacts'[r] = contacts[r] /\ checked'[r] = checked[r]
           /\ (r \in both => contacts[r] # "unverified")
        \/ contacts'[r] = "none" /\ r \in both /\ contacts[r] = "unverified"
  <2> TAKE r \in Pair
  <2>1. /\ open[t].verified = None /\ open[t].insert = {} /\ open[t].update = {}
        /\ open[t].delete = {x \in both : contacts[x] = "unverified"}
    BY DeclineFields DEF Touches, Commit
  <2>2. r # None
    BY PairFacts
  <2> QED BY <2>1, <2>2, CommitContacts
<1>2. /\ contactRequests'[q] = [contactRequests[q] EXCEPT !.status = "declined"]
      /\ \A o \in Request \ {q} : contactRequests'[o] = contactRequests[o]
  <2>1. open[t].ask = None /\ open[t].close = {q} /\ open[t].as = "declined"
    BY DeclineFields
  <2> QED BY <2>1, CommitRequests
<1>3. blocks' = blocks
  BY DeclineFields DEF Commit
<1> QED BY <1>1, <1>2, <1>3

LEMMA VerifyEffect ==
  ASSUME TypeOK, NEW t \in Slot, NEW p \in Pair, Verifies(open[t], p), Commit(t)
  PROVE  /\ blocks' = blocks
         /\ \A q \in Request : contactRequests'[q] = contactRequests[q]
         /\ contacts[p] \in Accepted /\ contacts'[p] = "trusted" /\ checked'[p] = keys[p[2]]
         /\ \A r \in Pair \ {p} : contacts'[r] = contacts[r] /\ checked'[r] = checked[r]
<1>1. contacts[p] \in Accepted
  BY DEF Verifies
<1>2. contacts'[p] = "trusted" /\ checked'[p] = keys[p[2]]
  BY <1>1, VerifyFields, CommitContacts DEF Touches, Accepted
<1>3. \A r \in Pair \ {p} : contacts'[r] = contacts[r] /\ checked'[r] = checked[r]
  BY VerifyFields, CommitContacts DEF Touches, Missing, Without
<1>4. \A q \in Request : contactRequests'[q] = contactRequests[q]
  BY VerifyFields, CommitRequests
<1> QED BY <1>1, <1>2, <1>3, <1>4, VerifyFields DEF Commit

LEMMA BlockEffect ==
  ASSUME TypeOK, NEW t \in Slot, NEW p \in Pair, Blocks(open[t], p), Commit(t)
  PROVE  /\ blocks' = blocks \cup {p}
         /\ \A q \in PendingBetween(p) :
              contactRequests'[q] = [contactRequests[q] EXCEPT !.status = "declined"]
         /\ \A q \in Request \ PendingBetween(p) : contactRequests'[q] = contactRequests[q]
         /\ contacts'[Flip(p)] = "none"
         /\ \A r \in Pair \ {Flip(p)} : contacts'[r] = contacts[r] /\ checked'[r] = checked[r]
<1>1. contacts'[Flip(p)] = "none"
  BY BlockFields, CommitContacts, PairFacts DEF Touches
<1>2. \A r \in Pair \ {Flip(p)} : contacts'[r] = contacts[r] /\ checked'[r] = checked[r]
  <2> TAKE r \in Pair \ {Flip(p)}
  <2>1. r # open[t].verified
    BY BlockFields, PairFacts
  <2> QED BY <2>1, BlockFields, CommitContacts DEF Touches
<1>3. /\ \A q \in PendingBetween(p) :
           contactRequests'[q] = [contactRequests[q] EXCEPT !.status = "declined"]
      /\ \A q \in Request \ PendingBetween(p) : contactRequests'[q] = contactRequests[q]
  <2>1. /\ open[t].ask = None /\ open[t].close = PendingBetween(p) /\ open[t].as = "declined"
        /\ PendingBetween(p) \subseteq Request
    BY BlockFields DEF PendingBetween
  <2> QED BY <2>1, CommitRequests, ZenonT(40)
<1>4. blocks' = blocks \cup {p}
  <2>1. open[t].block = {p} \ blocks /\ open[t].unblock = {}
    BY BlockFields
  <2> QED BY <2>1 DEF Commit
<1> QED BY <1>1, <1>2, <1>3, <1>4

LEMMA UnblockEffect ==
  ASSUME TypeOK, NEW t \in Slot, NEW p \in Pair, Unblocks(open[t], p), Commit(t)
  PROVE  /\ blocks' \subseteq blocks
         /\ \A q \in Request : contactRequests'[q] = contactRequests[q]
         /\ \A r \in Pair : contacts'[r] = contacts[r] /\ checked'[r] = checked[r]
<1>1. \A r \in Pair : contacts'[r] = contacts[r] /\ checked'[r] = checked[r]
  <2> TAKE r \in Pair
  <2>1. r # open[t].verified
    BY UnblockFields, PairFacts
  <2> QED BY <2>1, UnblockFields, CommitContacts DEF Touches
<1>2. \A q \in Request : contactRequests'[q] = contactRequests[q]
  BY UnblockFields, CommitRequests
<1> QED BY <1>1, <1>2, UnblockFields DEF Commit

-----------------------------------------------------------------------------
(* As long as no two transactions were open at once, what is committed is  *)
(* fresh, and each property survives each kind of commit.                  *)

Serial == TypeOK /\ RequestsNamePairs /\ AloneIsFresh

TablesKept == UNCHANGED tables

LEMMA SerialSteps ==
  ASSUME TypeOK, RequestsNamePairs, ~overlapped => AloneIsFresh, ~overlapped', [Next]_vars
  PROVE  /\ ~overlapped
         /\ \/ TablesKept
            \/ \E u \in User : ReplaceKey(u) \/ AddKey(u)
            \/ \E t \in Slot :
                 /\ Commit(t)
                 /\ \/ \E p \in Pair : \/ Sends(open[t], p) \/ Verifies(open[t], p)
                                       \/ Blocks(open[t], p) \/ Unblocks(open[t], p)
                    \/ \E q \in Request : Accepts(open[t], q) \/ Declines(open[t], q)
<1>1. ~overlapped
  <2>1. overlapped' = overlapped \/ (overlapped' = (overlapped \/ Busy))
    BY StepCases DEF Plan, Enter, LookAtRow, Commit, RollBack, ReplaceKey, AddKey, NewKey, vars, history
  <2> QED BY <2>1
<1>2. ASSUME NEW t \in Slot, Commit(t) PROVE Fresh(open[t])
  BY <1>1, <1>2 DEF Commit, AloneIsFresh
<1> QED BY <1>1, <1>2, StepCases DEF TablesKept, tables, Fresh, Plan, LookAtRow, RollBack, vars

LEMMA PendingKept ==
  ASSUME Serial, NEW t \in Slot, Commit(t), NEW r \in Pair,
         \/ \E p \in Pair : Verifies(open[t], p) \/ Blocks(open[t], p) \/ Unblocks(open[t], p)
         \/ \E q \in Request : Accepts(open[t], q) \/ Declines(open[t], q)
  PROVE  PendingBetween(r)' \subseteq PendingBetween(r)
<1>1. \A q \in Request :
        contactRequests'[q] = contactRequests[q] \/ contactRequests'[q].status # "pending"
  <2> USE DEF Serial
  <2>1. ASSUME NEW p \in Pair, Verifies(open[t], p) \/ Unblocks(open[t], p)
        PROVE  \A q \in Request : contactRequests'[q] = contactRequests[q]
    BY <2>1, VerifyEffect, UnblockEffect
  <2>2. \A q \in Request :
          /\ [contactRequests[q] EXCEPT !.status = "accepted"].status # "pending"
          /\ [contactRequests[q] EXCEPT !.status = "declined"].status # "pending"
    BY RequestType DEF Status
  <2>3. ASSUME NEW p \in Pair, Blocks(open[t], p), NEW q \in Request
        PROVE  \/ contactRequests'[q] = contactRequests[q]
               \/ contactRequests'[q] = [contactRequests[q] EXCEPT !.status = "declined"]
    BY <2>3, BlockEffect
  <2>4. ASSUME NEW o \in Request, Accepts(open[t], o), NEW q \in Request
        PROVE  \/ contactRequests'[q] = contactRequests[q]
               \/ contactRequests'[q] = [contactRequests[q] EXCEPT !.status = "accepted"]
    BY <2>4, AcceptEffect
  <2>5. ASSUME NEW o \in Request, Declines(open[t], o), NEW q \in Request
        PROVE  \/ contactRequests'[q] = contactRequests[q]
               \/ contactRequests'[q] = [contactRequests[q] EXCEPT !.status = "declined"]
    BY <2>5, DeclineEffect
  <2> QED BY <2>1, <2>2, <2>3, <2>4, <2>5
<1> QED BY <1>1 DEF PendingBetween

LEMMA PendingAfterSend ==
  ASSUME Serial, NEW t \in Slot, Commit(t), NEW p \in Pair, Sends(open[t], p), NEW r \in Pair
  PROVE  /\ r \notin Both(p) => PendingBetween(r)' \subseteq PendingBetween(r)
         /\ r \in Both(p) => \E n \in Request : PendingBetween(r)' \subseteq {n}
<1>1. PICK n \in Request :
        /\ contactRequests'[n] = [pair |-> p, status |-> "pending"]
        /\ \A q \in Request \ {n} : contactRequests'[q] = contactRequests[q]
  BY SendEffect DEF Serial
<1>2. PendingBetween(p) = {}
  BY DEF Sends
<1>3. r \in Both(p) => Both(r) = Both(p)
  BY PairFacts
<1>4. r \notin Both(p) => p \notin Both(r)
  BY DEF Both, Flip, Pair
<1>5. r \in Both(p) => PendingBetween(r)' \subseteq {n}
  BY <1>1, <1>2, <1>3 DEF PendingBetween
<1> QED BY <1>1, <1>4, <1>5 DEF PendingBetween

LEMMA StaysWhole ==
  ASSUME Serial, NeverHalfAccepted, ~overlapped', [Next]_vars
  PROVE  NeverHalfAccepted'
<1> SUFFICES ASSUME NEW r \in Pair, contacts'[r] \in Accepted
             PROVE  contacts'[Flip(r)] # "unverified"
  BY DEF NeverHalfAccepted
<1> USE PairFacts DEF Serial, Accepted
<1>1. contacts[r] \in Accepted => contacts[Flip(r)] # "unverified"
  BY SerialSteps DEF NeverHalfAccepted
<1>2. CASE TablesKept
  BY <1>1, <1>2 DEF TablesKept, tables
<1>3. CASE \E u \in User : ReplaceKey(u) \/ AddKey(u)
  BY <1>1, <1>3 DEF ReplaceKey, AddKey, Demote
<1>4. ASSUME NEW t \in Slot, Commit(t), NEW p \in Pair,
             Sends(open[t], p) \/ Verifies(open[t], p)
      PROVE  contacts'[Flip(r)] # "unverified"
  <2>1. CASE Sends(open[t], p)
    <3>1. /\ \A x \in Both(p) : contacts'[x] = "unverified"
          /\ \A x \in Pair \ Both(p) : contacts'[x] = contacts[x]
      BY <1>4, <2>1, SendEffect
    <3>2. r \notin Both(p)
      BY <3>1
    <3>3. Flip(r) \notin Both(p)
      BY <3>2 DEF Both
    <3> QED BY <1>1, <3>1, <3>2, <3>3
  <2>2. CASE Verifies(open[t], p)
    <3>1. /\ contacts[p] \in Accepted /\ contacts'[p] = "trusted"
          /\ \A x \in Pair \ {p} : contacts'[x] = contacts[x]
      BY <1>4, <2>2, VerifyEffect
    <3> QED BY <1>1, <3>1
  <2> QED BY <1>4, <2>1, <2>2
<1>5. ASSUME NEW t \in Slot, Commit(t), NEW p \in Pair, Blocks(open[t], p)
      PROVE  contacts'[Flip(r)] # "unverified"
  <2>1. /\ contacts'[Flip(p)] = "none"
        /\ \A x \in Pair \ {Flip(p)} : contacts'[x] = contacts[x]
    BY <1>5, BlockEffect
  <2> QED BY <1>1, <2>1
<1>6. ASSUME NEW t \in Slot, Commit(t), NEW p \in Pair, Unblocks(open[t], p)
      PROVE  contacts'[Flip(r)] # "unverified"
  BY <1>1, <1>6, UnblockEffect
<1>7. ASSUME NEW t \in Slot, Commit(t), NEW q \in Request, Accepts(open[t], q)
      PROVE  contacts'[Flip(r)] # "unverified"
  <2>1. /\ \A x \in Both(contactRequests[q].pair) : contacts'[x] = "verified"
        /\ \A x \in Pair \ Both(contactRequests[q].pair) : contacts'[x] = contacts[x]
    BY <1>7, AcceptEffect
  <2>2. contactRequests[q].pair \in Pair
    BY <1>7 DEF Accepts, RequestsNamePairs
  <2>3. r \in Both(contactRequests[q].pair) <=> Flip(r) \in Both(contactRequests[q].pair)
    BY <2>2 DEF Both
  <2> QED BY <1>1, <2>1, <2>3
<1>8. ASSUME NEW t \in Slot, Commit(t), NEW q \in Request, Declines(open[t], q)
      PROVE  contacts'[Flip(r)] # "unverified"
  <2>1. \A x \in Pair : contacts'[x] = contacts[x] \/ contacts'[x] = "none"
    BY <1>8, DeclineEffect
  <2> QED BY <1>1, <2>1
<1> QED BY <1>2, <1>3, <1>4, <1>5, <1>6, <1>7, <1>8, SerialSteps

LEMMA BlocksStaySevering ==
  ASSUME Serial, BlockSevers, ~overlapped', [Next]_vars
  PROVE  BlockSevers'
<1> SUFFICES ASSUME NEW r \in Pair, r \in blocks'
             PROVE  contacts'[Flip(r)] = "none" /\ PendingBetween(r)' = {}
  <2>1. blocks' \subseteq Pair
    BY StepKeepsType DEF Serial, TypeOK
  <2> QED BY <2>1 DEF BlockSevers
<1> USE PairFacts DEF Serial
<1>1. r \in blocks => contacts[Flip(r)] = "none" /\ PendingBetween(r) = {}
  BY SerialSteps DEF BlockSevers
<1>2. CASE TablesKept \/ \E u \in User : ReplaceKey(u) \/ AddKey(u)
  <2>1. /\ UNCHANGED <<contactRequests, blocks>>
        /\ \A x \in Pair : contacts[x] = "none" => contacts'[x] = "none"
    BY <1>2 DEF TablesKept, tables, ReplaceKey, AddKey, NewKey, Demote
  <2> QED BY <1>1, <2>1 DEF PendingBetween
<1>3. ASSUME NEW t \in Slot, Commit(t), NEW p \in Pair, Sends(open[t], p)
      PROVE  contacts'[Flip(r)] = "none" /\ PendingBetween(r)' = {}
  <2>1. r \in blocks /\ blocks \cap Both(p) = {}
    BY <1>3, SendEffect DEF Sends
  <2>2. r \notin Both(p) /\ Flip(r) \notin Both(p)
    BY <2>1 DEF Both
  <2>3. contacts'[Flip(r)] = contacts[Flip(r)]
    BY <1>3, <2>2, SendEffect
  <2>4. PendingBetween(r)' \subseteq PendingBetween(r)
    BY <1>3, <2>2, PendingAfterSend
  <2> QED BY <1>1, <2>1, <2>3, <2>4
<1>4. ASSUME NEW t \in Slot, Commit(t), NEW p \in Pair, Verifies(open[t], p)
      PROVE  contacts'[Flip(r)] = "none" /\ PendingBetween(r)' = {}
  <2>1. /\ r \in blocks
        /\ contacts[p] \in Accepted
        /\ \A x \in Pair \ {p} : contacts'[x] = contacts[x]
    BY <1>4, VerifyEffect
  <2>2. Flip(r) # p
    BY <1>1, <2>1 DEF Accepted
  <2>3. PendingBetween(r)' \subseteq PendingBetween(r)
    BY <1>4, PendingKept
  <2> QED BY <1>1, <2>1, <2>2, <2>3
<1>5. ASSUME NEW t \in Slot, Commit(t), NEW p \in Pair, Blocks(open[t], p)
      PROVE  contacts'[Flip(r)] = "none" /\ PendingBetween(r)' = {}
  <2>1. /\ r \in blocks \/ r = p
        /\ contacts'[Flip(p)] = "none"
        /\ \A x \in Pair \ {Flip(p)} : contacts'[x] = contacts[x]
    BY <1>5, BlockEffect
  <2>2. PendingBetween(r)' \subseteq PendingBetween(r)
    BY <1>5, PendingKept
  <2>3. \A q \in PendingBetween(p) : contactRequests'[q].status # "pending"
    <3>1. \A q \in PendingBetween(p) :
            /\ q \in Request
            /\ contactRequests'[q] = [contactRequests[q] EXCEPT !.status = "declined"]
      BY <1>5, BlockEffect DEF PendingBetween
    <3> QED BY <3>1, RequestType DEF Status
  <2>4. r = p => PendingBetween(r)' = {}
    BY <2>2, <2>3 DEF PendingBetween
  <2> QED BY <1>1, <2>1, <2>2, <2>4
<1>6. ASSUME NEW t \in Slot, Commit(t), NEW p \in Pair, Unblocks(open[t], p)
      PROVE  contacts'[Flip(r)] = "none" /\ PendingBetween(r)' = {}
  <2>1. r \in blocks /\ contacts'[Flip(r)] = contacts[Flip(r)]
    BY <1>6, UnblockEffect
  <2>2. PendingBetween(r)' \subseteq PendingBetween(r)
    BY <1>6, PendingKept
  <2> QED BY <1>1, <2>1, <2>2
<1>7. ASSUME NEW t \in Slot, Commit(t), NEW q \in Request, Accepts(open[t], q)
      PROVE  contacts'[Flip(r)] = "none" /\ PendingBetween(r)' = {}
  <2>1. /\ r \in blocks
        /\ \A x \in Pair \ Both(contactRequests[q].pair) : contacts'[x] = contacts[x]
    BY <1>7, AcceptEffect
  <2>2. contactRequests[q].pair \in Pair /\ contactRequests[q].status = "pending"
    BY <1>7 DEF Accepts, RequestsNamePairs
  <2>3. contactRequests[q].pair \notin Both(r)
    BY <1>1, <2>1, <2>2 DEF PendingBetween
  <2>4. Flip(r) \notin Both(contactRequests[q].pair)
    BY <2>2, <2>3 DEF Both
  <2>5. PendingBetween(r)' \subseteq PendingBetween(r)
    BY <1>7, PendingKept
  <2> QED BY <1>1, <2>1, <2>4, <2>5
<1>8. ASSUME NEW t \in Slot, Commit(t), NEW q \in Request, Declines(open[t], q)
      PROVE  contacts'[Flip(r)] = "none" /\ PendingBetween(r)' = {}
  <2>1. r \in blocks /\ \A x \in Pair : contacts'[x] = contacts[x] \/ contacts'[x] = "none"
    BY <1>8, DeclineEffect
  <2>2. PendingBetween(r)' \subseteq PendingBetween(r)
    BY <1>8, PendingKept
  <2> QED BY <1>1, <2>1, <2>2
<1> QED BY <1>2, <1>3, <1>4, <1>5, <1>6, <1>7, <1>8, SerialSteps

(* An answered request is out of reach of what is committed afterwards.    *)
LEMMA AnswersStay ==
  ASSUME Serial, ~overlapped', [Next]_vars, NEW q \in Request,
         contactRequests[q].status \in {"accepted", "declined"}
  PROVE  contactRequests'[q] = contactRequests[q]
<1> USE DEF Serial
<1>1. contactRequests[q].status # "pending" /\ contactRequests[q] # NoRequest
  BY DEF NoRequest
<1>2. CASE TablesKept \/ \E u \in User : ReplaceKey(u) \/ AddKey(u)
  BY <1>2 DEF TablesKept, tables, ReplaceKey, AddKey, NewKey
<1>3. ASSUME NEW t \in Slot, Commit(t), NEW p \in Pair, Sends(open[t], p)
      PROVE  contactRequests'[q] = contactRequests[q]
  BY <1>1, <1>3, SendEffect
<1>4. ASSUME NEW t \in Slot, Commit(t), NEW p \in Pair,
             Verifies(open[t], p) \/ Unblocks(open[t], p)
      PROVE  contactRequests'[q] = contactRequests[q]
  BY <1>4, VerifyEffect, UnblockEffect
<1>5. ASSUME NEW t \in Slot, Commit(t), NEW p \in Pair, Blocks(open[t], p)
      PROVE  contactRequests'[q] = contactRequests[q]
  <2>1. q \notin PendingBetween(p)
    BY <1>1 DEF PendingBetween
  <2> QED BY <1>5, <2>1, BlockEffect
<1>6. ASSUME NEW t \in Slot, Commit(t), NEW o \in Request,
             Accepts(open[t], o) \/ Declines(open[t], o)
      PROVE  contactRequests'[q] = contactRequests[q]
  <2>1. q # o
    BY <1>1, <1>6 DEF Accepts, Declines
  <2>2. CASE Accepts(open[t], o)
    <3>1. \A x \in Request \ {o} : contactRequests'[x] = contactRequests[x]
      BY <1>6, <2>2, AcceptEffect
    <3> QED BY <2>1, <3>1
  <2>3. CASE Declines(open[t], o)
    <3>1. \A x \in Request \ {o} : contactRequests'[x] = contactRequests[x]
      BY <1>6, <2>3, DeclineEffect
    <3> QED BY <2>1, <3>1
  <2> QED BY <1>6, <2>2, <2>3
<1> QED BY <1>2, <1>3, <1>4, <1>5, <1>6, SerialSteps

-----------------------------------------------------------------------------
(* The invariant IInv is inductive.                                        *)

LEMMA InitInvariant == Init => IInv
<1> SUFFICES ASSUME Init PROVE IInv
  OBVIOUS
<1>1. TypeOK
  <2>1. /\ keys \in [User -> 1..MaxKeys] /\ replaced \in [User -> 1..MaxKeys]
        /\ checked \in [Pair -> 0..MaxKeys]
    BY CircleAssumption DEF Init
  <2>2. contactRequests \in [Request -> [pair : Pair \cup {None}, status : Status]]
    BY DEF Init, NoRequest, Status
  <2> QED BY <2>1, <2>2 DEF Init, TypeOK
<1>2. \A q \in Request : contactRequests[q] = NoRequest /\ contactRequests[q].status = "absent"
  BY DEF Init, NoRequest
<1>3. \A p \in Pair : contacts[p] = "none" /\ PendingBetween(p) = {}
  BY <1>2 DEF Init, PendingBetween
<1>4. RequestsNamePairs
  BY <1>2 DEF Init, RequestsNamePairs, NoWrites
<1>5. AloneIsFresh /\ PendingAgree /\ OpenTrust /\ \A u \in User : replaced[u] <= keys[u]
  BY <1>3 DEF Init, AloneIsFresh, PendingAgree, OpenTrust, NoWrites
<1>6. NeverHalfAccepted /\ BlockSevers /\ TrustIsRenewed
  BY <1>3 DEF Init, NeverHalfAccepted, BlockSevers, TrustIsRenewed, Accepted
<1> QED BY <1>1, <1>4, <1>5, <1>6 DEF IInv

LEMMA StepKeepsInvariant ==
  ASSUME IInv, [Next]_vars
  PROVE  IInv'
<1>1. TypeOK' /\ RequestsNamePairs' /\ (\A u \in User : replaced[u] <= keys[u])'
  BY StepKeepsType, StillNamePairs, KeysStayCounted DEF IInv
<1>2. PendingAgree' /\ OpenTrust' /\ TrustIsRenewed'
  BY PendingStaysAgreed, TrustStaysRenewed DEF IInv
<1>3. ASSUME ~overlapped'
      PROVE  AloneIsFresh' /\ NeverHalfAccepted' /\ BlockSevers'
  <2>1. ~overlapped
    BY <1>3, SerialSteps DEF IInv
  <2>2. Serial
    BY <2>1 DEF IInv, Serial
  <2> QED BY <1>3, <2>2, StaysAlone, StaysWhole, BlocksStaySevering DEF IInv
<1>4. overlapped' => NeverHalfAccepted' /\ BlockSevers'
  BY DEF NeverHalfAccepted, BlockSevers
<1> QED BY <1>1, <1>2, <1>3, <1>4 DEF IInv

(* Well-typed tables, and as long as no two transactions were open at once *)
(* what an open one is about to write suits the tables as they are.        *)
THEOREM CircleInvariantHolds == Spec => []IInv
<1>1. Init => IInv
  BY InitInvariant
<1>2. IInv /\ [Next]_vars => IInv'
  BY StepKeepsInvariant
<1> QED BY <1>1, <1>2, PTL DEF Spec

(* The tables and what handlers decide to write keep their types.          *)
THEOREM CircleTypeCorrect == Spec => []TypeOK
<1>1. IInv => TypeOK
  BY DEF IInv
<1> QED BY <1>1, CircleInvariantHolds, PTL

(* However requests overlap, two users have at most one request pending    *)
(* between them unless both were asking at once (send_contact_request).    *)
THEOREM OnlyCrossingDoubles == Spec => []OnePendingPerPair
<1>1. ASSUME IInv, NEW p \in Pair \ crossed
      PROVE  Cardinality(PendingBetween(p)) <= 1
  <2>1. CASE PendingBetween(p) = {}
    BY <2>1, FS_EmptySet
  <2>2. CASE PendingBetween(p) # {}
    <3>1. PICK q \in PendingBetween(p) : PendingBetween(p) = {q}
      BY <1>1, <2>2 DEF IInv, PendingAgree
    <3> QED BY <3>1, FS_Singleton
  <2> QED BY <2>1, <2>2
<1>2. IInv => OnePendingPerPair
  BY <1>1 DEF OnePendingPerPair
<1> QED BY <1>2, CircleInvariantHolds, PTL

(* No pair is connected on one side and waiting on the other.              *)
THEOREM ConnectionIsMutual == Spec => []NeverHalfAccepted
<1>1. IInv => NeverHalfAccepted
  BY DEF IInv
<1> QED BY <1>1, CircleInvariantHolds, PTL

(* The blocked user keeps no contact row and no pending request.           *)
THEOREM BlockIsComplete == Spec => []BlockSevers
<1>1. IInv => BlockSevers
  BY DEF IInv
<1> QED BY <1>1, CircleInvariantHolds, PTL

(* However requests overlap, a replaced key costs the trust in it          *)
(* (demote_trusted_contacts_of), except for a verification the replacement *)
(* crossed.                                                                *)
THEOREM ReplacementEndsTrust == Spec => []TrustIsRenewed
<1>1. IInv => TrustIsRenewed
  BY DEF IInv
<1> QED BY <1>1, CircleInvariantHolds, PTL

(* An answered contact request is never answered again.                    *)
THEOREM AnswersAreFinal == Spec => AnswerIsFinal
<1>1. IInv /\ [Next]_vars =>
        [~overlapped' => \A q \in Request : contactRequests[q].status \in {"accepted", "declined"}
                           => UNCHANGED contactRequests[q]]_vars
  <2> SUFFICES ASSUME IInv, [Next]_vars, ~overlapped', NEW q \in Request,
                      contactRequests[q].status \in {"accepted", "declined"}
               PROVE  contactRequests[q]' = contactRequests[q]
    OBVIOUS
  <2>1. ~overlapped
    BY SerialSteps DEF IInv
  <2>2. Serial
    BY <2>1 DEF IInv, Serial
  <2> QED BY <2>2, AnswersStay
<1> QED BY <1>1, CircleInvariantHolds, PTL DEF Spec, AnswerIsFinal
=============================================================================

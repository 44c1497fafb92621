--------------------------- MODULE MessagesProofs ---------------------------
(***************************************************************************)
(* Any number of users, drafts, messages, uploads and requests: a draft is *)
(* stored once, whatever overlaps; uploads and members agree with their    *)
(* rows as long as no two transactions were open at the same time.         *)
(***************************************************************************)
EXTENDS MessagesInvariant, FiniteSetTheorems, TLAPS

-----------------------------------------------------------------------------
(* Types of what the steps write.                                          *)

LEMMA IdleType == Idle \in Work /\ Idle.op = "idle"
BY DEF Idle, Work, Role

LEMMA WorkType ==
  ASSUME TypeOK, NEW t \in Slot
  PROVE  /\ open[t].op \in {"idle", "send", "edit", "delete", "add", "remove", "role"}
         /\ open[t].draft \in Draft \cup {None}
         /\ open[t].message \in Message \cup {None}
         /\ open[t].flag \in BOOLEAN
         /\ open[t].user \in User \cup {None}
         /\ open[t].role \in Role
BY DEF TypeOK, Work

LEMMA SendWork ==
  ASSUME NEW c \in Draft, NEW f \in BOOLEAN
  PROVE  LET w == [Idle EXCEPT !.op = "send", !.draft = c, !.flag = f] IN
         w \in Work /\ w.op = "send" /\ w.draft = c /\ w.user = None
BY DEF Idle, Work, Role

LEMMA EditWork ==
  ASSUME NEW m \in Message
  PROVE  LET w == [Idle EXCEPT !.op = "edit", !.message = m] IN
         w \in Work /\ w.op = "edit" /\ w.message = m
BY DEF Idle, Work, Role

LEMMA DeleteWork ==
  ASSUME NEW m \in Message, NEW f \in BOOLEAN
  PROVE  LET w == [Idle EXCEPT !.op = "delete", !.message = m, !.flag = f] IN
         w \in Work /\ w.op = "delete" /\ w.message = m
BY DEF Idle, Work, Role

LEMMA DraftType ==
  ASSUME TypeOK, NEW c \in Draft
  PROVE  /\ drafts[c].user \in User \cup {None} /\ drafts[c].media \in Media \cup {None}
         /\ drafts[c].copies \in 0..MaxTries /\ drafts[c].tries \in 0..MaxTries
         /\ drafts[c].sent \in BOOLEAN
BY DEF TypeOK

(* The rows of messages after an edit, a deletion, the passing of time.    *)
LEMMA MessageUpdates ==
  ASSUME NEW r \in Messages
  PROVE  /\ r.content \in {"empty", "first", "edited"}
         /\ [r EXCEPT !.content = "edited"] \in Messages
         /\ [r EXCEPT !.expires = "past"] \in Messages
         /\ \A content \in {"empty", "first", "edited"} :
              [r EXCEPT !.deleted = TRUE, !.content = content] \in Messages
BY DEF Messages

LEMMA MemberType ==
  ASSUME TypeOK, NEW u \in User
  PROVE  members[u].rows \in 0..Cardinality(Slot) /\ members[u].role \in Role
BY DEF TypeOK, Members

-----------------------------------------------------------------------------
(* The steps, by what they change.                                         *)

(* A request reads what it needs and is open from then on.                 *)
Opens(t, w) ==
  /\ open[t] = Idle /\ open' = [open EXCEPT ![t] = w]
  /\ overlapped' = (overlapped \/ Busy)
  /\ UNCHANGED <<members, messages, notices, media, timer, sweep>>

OpensSend(t, c) ==
  \E w \in Work : /\ Opens(t, w) /\ w.op = "send" /\ w.draft = c /\ w.user = None
                  /\ UnusedMedia(c)
                  /\ Arrives(c)
                  /\ drafts' = [drafts EXCEPT ![c].copies = @ - 1]

OpensContent(t, m) ==
  \E w \in Work : /\ Opens(t, w) /\ w.op \in {"edit", "delete"} /\ w.message = m
                  /\ UNCHANGED drafts

OpensMembership(t, v) ==
  \E w \in Work : /\ Opens(t, w) /\ w.op \in {"add", "remove", "role"} /\ w.user = v
                  /\ w.op = "add" => members[v].rows = 0
                  /\ w.op \in {"remove", "role"} => members[v].rows = 1
                  /\ UNCHANGED drafts

(* A copy of a draft's request is made or used up.                         *)
Copies ==
  \E c \in Draft : \/ SendAgain(c) \/ LoseRequest(c)
                   \/ \E heard \in BOOLEAN : AnswerResend(c, heard)

LEMMA StepCases ==
  ASSUME TypeOK, [Next]_vars
  PROVE  \/ \E others \in SUBSET (User \ {Creator}) : CreateGroup(others)
         \/ \E u \in User, on \in BOOLEAN : SetTimer(u, on)
         \/ \E u \in User, d \in Media : RequestUpload(u, d)
         \/ \E u \in User, c \in Draft, d \in Media \cup {None} : Compose(u, c, d)
         \/ Copies
         \/ \E t \in Slot, c \in Draft : OpensSend(t, c)
         \/ \E t \in Slot, m \in Message : OpensContent(t, m)
         \/ \E t \in Slot, v \in User : OpensMembership(t, v)
         \/ \E t \in Slot, heard \in BOOLEAN : CommitSend(t, heard) \/ RollBack(t, heard)
         \/ \E t \in Slot : \/ CommitEdit(t) \/ CommitDelete(t)
                            \/ CommitAdd(t) \/ CommitRemove(t) \/ CommitSetRole(t)
         \/ \E m \in Message : Expire(m)
         \/ BeginSweep \/ CommitSweep \/ FailSweep
         \/ UNCHANGED vars
<1>1. ASSUME NEW t \in Slot, NEW c \in Draft, BeginSend(t, c) PROVE OpensSend(t, c)
  <2> DEFINE w == [Idle EXCEPT !.op = "send", !.draft = c, !.flag = timer]
  <2>1. w \in Work /\ w.op = "send" /\ w.draft = c /\ w.user = None
    BY SendWork DEF TypeOK
  <2>2. Begin(t, w) /\ UnusedMedia(c) /\ Arrives(c)
        /\ drafts' = [drafts EXCEPT ![c].copies = @ - 1]
        /\ UNCHANGED <<members, messages, notices, media, timer, sweep>>
    BY <1>1 DEF BeginSend
  <2> HIDE DEF w
  <2> QED BY <2>1, <2>2 DEF Begin, OpensSend, Opens
<1>2. ASSUME NEW t \in Slot, NEW m \in Message,
             BeginAdminDelete(t, m) \/ \E u \in User : BeginEdit(t, u, m) \/ BeginDelete(t, u, m)
      PROVE  OpensContent(t, m)
  <2>1. ASSUME NEW u \in User, BeginEdit(t, u, m) PROVE OpensContent(t, m)
    <3> DEFINE w == [Idle EXCEPT !.op = "edit", !.message = m]
    <3>1. w \in Work /\ w.op = "edit" /\ w.message = m
      BY ONLY EditWork
    <3>2. Begin(t, w) /\ UNCHANGED <<members, messages, notices, media, timer, drafts, sweep>>
      BY <2>1 DEF BeginEdit
    <3> HIDE DEF w
    <3> QED BY <3>1, <3>2 DEF Begin, OpensContent, Opens
  <2>2. ASSUME Delete(t, m) PROVE OpensContent(t, m)
    <3> DEFINE full == messages[m].content # "empty"
               w == [Idle EXCEPT !.op = "delete", !.message = m, !.flag = full]
    <3>1. full \in BOOLEAN
      OBVIOUS
    <3>2. Begin(t, w) /\ UNCHANGED <<members, messages, notices, media, timer, drafts, sweep>>
      BY <2>2 DEF Delete
    <3> HIDE DEF full
    <3>3. w \in Work /\ w.op = "delete" /\ w.message = m
      BY ONLY <3>1, DeleteWork
    <3> HIDE DEF w
    <3> QED BY <3>2, <3>3 DEF Begin, OpensContent, Opens
  <2> QED BY <1>2, <2>1, <2>2 DEF BeginAdminDelete, BeginDelete
<1>3. ASSUME NEW t \in Slot, NEW v \in User, NEW op \in {"add", "remove", "role"},
             NEW role \in Role, BeginMembership(t, op, v, role),
             op = "add" => members[v].rows = 0,
             op \in {"remove", "role"} => members[v].rows = 1
      PROVE  OpensMembership(t, v)
  <2> DEFINE w == [Idle EXCEPT !.op = op, !.user = v, !.role = role, !.flag = TRUE]
  <2>1. w \in Work /\ w.op = op /\ w.user = v
    BY DEF Idle, Work, Role
  <2>2. Begin(t, w) /\ UNCHANGED <<members, messages, notices, media, timer, drafts, sweep>>
    BY <1>3 DEF BeginMembership
  <2>3. Opens(t, w) /\ UNCHANGED drafts
    <3> HIDE DEF w
    <3> QED BY <2>2 DEF Begin, Opens
  <2>4. /\ w.op \in {"add", "remove", "role"} /\ w.op = "add" => members[v].rows = 0
        /\ w.op \in {"remove", "role"} => members[v].rows = 1
    <3> HIDE DEF w
    <3> QED BY <1>3, <2>1
  <2> HIDE DEF w
  <2> QED BY <2>1, <2>3, <2>4 DEF OpensMembership
<1>4. ASSUME NEW t \in Slot, NEW u \in User, NEW v \in User,
             \/ BeginAdd(t, u, v) \/ BeginRemove(t, u, v) \/ BeginAdminRemove(t, v)
             \/ \E role \in Role : BeginSetRole(t, u, v, role)
      PROVE  OpensMembership(t, v)
  BY <1>3, <1>4 DEF BeginAdd, BeginRemove, BeginAdminRemove, BeginSetRole, IsAdmin, IsMember, Role
<1> QED BY <1>1, <1>2, <1>4 DEF Next, Phones, Content, Membership, Copies

-----------------------------------------------------------------------------
(* What the steps leave in the slots.                                      *)

LEMMA OpensSlots ==
  ASSUME TypeOK, NEW t \in Slot, NEW w \in Work, Opens(t, w)
  PROVE  /\ open' \in [Slot -> Work]
         /\ \A s \in Slot : open'[s] = IF s = t THEN w ELSE open[s]
         /\ open[t] = Idle
BY DEF Opens, TypeOK

LEMMA EndSlots ==
  ASSUME TypeOK, NEW t \in Slot, End(t)
  PROVE  /\ open' \in [Slot -> Work]
         /\ \A s \in Slot : open'[s] = IF s = t THEN Idle ELSE open[s]
BY IdleType DEF End, TypeOK

LEMMA RemoveSlots ==
  ASSUME TypeOK, NEW t \in Slot, CommitRemove(t)
  PROVE  /\ open' \in [Slot -> Work]
         /\ open'[t] = Idle
         /\ \A s \in Slot \ {t} :
              /\ open'[s].op = open[s].op /\ open'[s].draft = open[s].draft
              /\ open'[s].message = open[s].message /\ open'[s].user = open[s].user
              /\ open'[s].flag => open[s].flag
              /\ open[s].op \in {"remove", "role"} /\ open[s].user = open[t].user => ~open'[s].flag
<1>1. ASSUME NEW s \in Slot, s # t
      PROVE  \/ /\ open'[s] = open[s]
                /\ ~(open[s].user = open[t].user /\ open[s].op \in {"remove", "role"})
             \/ open'[s] = [open[s] EXCEPT !.flag = FALSE]
  BY <1>1 DEF CommitRemove
<1>2. ASSUME NEW s \in Slot
      PROVE  LET w == [open[s] EXCEPT !.flag = FALSE] IN
             /\ w \in Work /\ w.op = open[s].op /\ w.draft = open[s].draft
             /\ w.message = open[s].message /\ w.user = open[s].user /\ ~w.flag
  BY DEF TypeOK, Work
<1>3. open' = [s \in Slot |-> open'[s]] /\ open'[t] = Idle
  BY DEF CommitRemove
<1>4. ASSUME NEW s \in Slot PROVE open'[s] \in Work
  BY <1>1, <1>2, <1>3, IdleType DEF TypeOK
<1>5. ASSUME NEW s \in Slot, s # t
      PROVE  /\ open'[s].op = open[s].op /\ open'[s].draft = open[s].draft
             /\ open'[s].message = open[s].message /\ open'[s].user = open[s].user
             /\ open'[s].flag => open[s].flag
             /\ open[s].op \in {"remove", "role"} /\ open[s].user = open[t].user => ~open'[s].flag
  BY <1>1, <1>2, <1>5
<1> QED BY <1>3, <1>4, <1>5

(* What a commit of a send writes.                                         *)
LEMMA SendWrites ==
  ASSUME TypeOK, WorkNames, NEW t \in Slot, NEW heard \in BOOLEAN, CommitSend(t, heard)
  PROVE  LET c == open[t].draft IN
         /\ c \in Draft /\ ~Taken(c)
         /\ drafts' = [drafts EXCEPT ![c].sent = @ \/ heard]
         /\ \E m \in Message :
              /\ messages[m] = NoMessage
              /\ messages'[m] \in Messages
              /\ messages'[m].client = c /\ messages'[m].media = drafts[c].media
              /\ messages' = [messages EXCEPT ![m] = messages'[m]]
              /\ media' = [e \in Media |-> IF e = drafts[c].media
                                           THEN [media[e] EXCEPT !.message = m] ELSE media[e]]
<1> DEFINE c == open[t].draft
           m == CHOOSE n \in Unused : TRUE
           row == [client |-> c, sender |-> drafts[c].user, content |-> "first", deleted |-> FALSE,
                   expires |-> IF open[t].flag THEN "later" ELSE "never", media |-> drafts[c].media]
<1>1. c \in Draft /\ ~Taken(c)
  BY DEF WorkNames, CommitSend, Duplicate
<1>2. m \in Message /\ messages[m] = NoMessage
  BY DEF CommitSend, Unused
<1>3. row \in Messages /\ row.client = c /\ row.media = drafts[c].media
  BY <1>1, WorkType DEF Messages, TypeOK
<1>4. /\ messages' = [messages EXCEPT ![m] = row]
      /\ media' = [e \in Media |-> IF e = drafts[c].media
                                   THEN [media[e] EXCEPT !.message = m] ELSE media[e]]
      /\ drafts' = [drafts EXCEPT ![c].sent = @ \/ heard]
  BY DEF CommitSend
<1> HIDE DEF m, row
<1>5. messages'[m] = row
  BY <1>2, <1>4 DEF TypeOK
<1> QED BY <1>1, <1>2, <1>3, <1>4, <1>5

-----------------------------------------------------------------------------
(* Counting the requests that add a user.                                  *)

LEMMA SlotsAreCounted ==
  /\ Cardinality(Slot) \in Nat /\ Cardinality(Slot) >= 1
  /\ \A A \in SUBSET Slot : IsFiniteSet(A) /\ Cardinality(A) \in 0..Cardinality(Slot)
<1>1. IsFiniteSet(Slot) /\ Slot # {}
  BY MessagesAssumption
<1>2. Cardinality(Slot) \in Nat /\ Cardinality(Slot) # 0
  BY <1>1, FS_EmptySet, FS_CardinalityType
<1>3. ASSUME NEW A \in SUBSET Slot
      PROVE  IsFiniteSet(A) /\ Cardinality(A) \in Nat /\ Cardinality(A) <= Cardinality(Slot)
  BY <1>1, FS_Subset, FS_CardinalityType
<1> QED BY <1>2, <1>3

LEMMA AddIsCounted ==
  ASSUME NEW t \in Slot, open[t].op = "add"
  PROVE  LET adds == Adds(open[t].user) IN
         /\ Cardinality(adds) \in Nat /\ Cardinality(adds) >= 1
         /\ Cardinality(adds \ {t}) = Cardinality(adds) - 1
<1> DEFINE adds == Adds(open[t].user)
<1>1. t \in adds /\ adds \in SUBSET Slot
  BY DEF Adds
<1> HIDE DEF adds
<1>2. IsFiniteSet(adds) /\ Cardinality(adds) \in Nat
  BY <1>1, SlotsAreCounted
<1>3. Cardinality(adds \ {t}) = Cardinality(adds) - 1
  BY <1>1, <1>2, FS_RemoveElement
<1>4. Cardinality(adds \ {t}) \in Nat
  BY <1>1, SlotsAreCounted
<1> QED BY <1>2, <1>3, <1>4 DEF adds

-----------------------------------------------------------------------------
(* The types.                                                              *)

LEMMA StepKeepsType ==
  ASSUME TypeOK, WorkNames, CopiesWereTried, FlagMeansRow, RowsCounted, [Next]_vars
  PROVE  TypeOK'
<1> DEFINE DraftRow == [user : User \cup {None}, media : Media \cup {None},
                        copies : 0..MaxTries, tries : 0..MaxTries, sent : BOOLEAN]
<1>1. ASSUME NEW others \in SUBSET (User \ {Creator}), CreateGroup(others) PROVE TypeOK'
  BY <1>1, SlotsAreCounted DEF CreateGroup, TypeOK, Members, NoMember, Role
<1>2. ASSUME NEW u \in User, NEW on \in BOOLEAN, SetTimer(u, on) PROVE TypeOK'
  BY <1>2 DEF SetTimer, TypeOK
<1>3. ASSUME NEW u \in User, NEW d \in Media, RequestUpload(u, d) PROVE TypeOK'
  BY <1>3 DEF RequestUpload, TypeOK
<1>4. ASSUME NEW u \in User, NEW c \in Draft, NEW d \in Media \cup {None}, Compose(u, c, d)
      PROVE  TypeOK'
  <2> DEFINE row == [NoDraft EXCEPT !.user = u, !.media = d, !.copies = 1, !.tries = 1]
  <2>1. row \in DraftRow
    <3>1. 1 \in 0..MaxTries
      BY MessagesAssumption
    <3>2. NoDraft \in DraftRow
      BY MessagesAssumption DEF NoDraft
    <3> HIDE DEF row
    <3>3. \A r \in DraftRow : /\ [r EXCEPT !.user = u] \in DraftRow
                              /\ [r EXCEPT !.media = d] \in DraftRow
                              /\ [r EXCEPT !.copies = 1] \in DraftRow
                              /\ [r EXCEPT !.tries = 1] \in DraftRow
      BY <3>1
    <3> HIDE DEF DraftRow
    <3> QED BY <3>2, <3>3 DEF row
  <2>2. drafts' = [drafts EXCEPT ![c] = row]
    BY <1>4 DEF Compose
  <2> HIDE DEF row
  <2> QED BY <1>4, <2>1, <2>2 DEF Compose, TypeOK
<1>5. ASSUME Copies PROVE TypeOK'
  <2>1. drafts' \in [Draft -> DraftRow]
    <3>1. ASSUME NEW c \in Draft, SendAgain(c) PROVE drafts' \in [Draft -> DraftRow]
      BY <3>1, DraftType, MessagesAssumption DEF SendAgain, CopiesWereTried, TypeOK
    <3>2. ASSUME NEW c \in Draft, LoseRequest(c) PROVE drafts' \in [Draft -> DraftRow]
      BY <3>2, DraftType, MessagesAssumption DEF LoseRequest, TypeOK
    <3>3. ASSUME NEW c \in Draft, NEW heard \in BOOLEAN, AnswerResend(c, heard)
          PROVE  drafts' \in [Draft -> DraftRow]
      <4> DEFINE sent == drafts[c].sent \/ heard
      <4>1. sent \in BOOLEAN
        OBVIOUS
      <4>2. drafts' = [drafts EXCEPT ![c].copies = @ - 1, ![c].sent = sent]
        BY <3>3 DEF AnswerResend
      <4>3. drafts[c].copies > 0
        BY <3>3 DEF AnswerResend, Arrives
      <4>4. drafts[c].copies - 1 \in 0..MaxTries
        BY <4>3, DraftType, MessagesAssumption
      <4> HIDE DEF sent
      <4>5. [drafts[c] EXCEPT !.copies = drafts[c].copies - 1, !.sent = sent] \in DraftRow
        BY <4>1, <4>4 DEF TypeOK
      <4>6. drafts' = [drafts EXCEPT ![c] = [drafts[c] EXCEPT !.copies = drafts[c].copies - 1,
                                                             !.sent = sent]]
        BY <4>2 DEF TypeOK
      <4> QED BY <4>5, <4>6 DEF TypeOK
    <3> QED BY <1>5, <3>1, <3>2, <3>3 DEF Copies
  <2> QED BY <1>5, <2>1 DEF Copies, SendAgain, LoseRequest, AnswerResend, TypeOK
<1>6. ASSUME NEW t \in Slot, NEW w \in Work, Opens(t, w), UNCHANGED drafts PROVE TypeOK'
  BY <1>6, OpensSlots DEF Opens, TypeOK
<1>7. ASSUME NEW t \in Slot, NEW c \in Draft, OpensSend(t, c) PROVE TypeOK'
  <2>1. drafts' \in [Draft -> DraftRow]
    BY <1>7, DraftType, MessagesAssumption DEF OpensSend, Arrives, TypeOK
  <2> QED BY <1>7, <2>1, OpensSlots DEF OpensSend, Opens, TypeOK
<1>8. ASSUME NEW t \in Slot, NEW heard \in BOOLEAN, CommitSend(t, heard) PROVE TypeOK'
  <2> DEFINE c == open[t].draft
             sent == drafts[c].sent \/ heard
  <2>1. PICK m \in Message :
          /\ messages'[m] \in Messages /\ messages' = [messages EXCEPT ![m] = messages'[m]]
          /\ media' = [e \in Media |-> IF e = drafts[c].media
                                       THEN [media[e] EXCEPT !.message = m] ELSE media[e]]
    BY <1>8, SendWrites
  <2>2. messages' \in [Message -> Messages]
    BY <2>1 DEF TypeOK
  <2>3. media' \in [Media -> [owner : User \cup {None}, message : Message \cup {None}]]
    BY <2>1 DEF TypeOK
  <2>4. drafts' \in [Draft -> DraftRow]
    <3>1. sent \in BOOLEAN
      OBVIOUS
    <3>2. drafts' = [drafts EXCEPT ![c].sent = sent]
      BY <1>8, SendWrites
    <3> HIDE DEF sent
    <3> QED BY <3>1, <3>2, ZenonT(40) DEF TypeOK
  <2> QED BY <1>8, <2>2, <2>3, <2>4, EndSlots DEF CommitSend, TypeOK
<1>9. ASSUME NEW t \in Slot, NEW heard \in BOOLEAN, RollBack(t, heard) PROVE TypeOK'
  <2>1. drafts' \in [Draft -> DraftRow]
    <3>1. drafts' = IF heard THEN [drafts EXCEPT ![open[t].draft].sent = TRUE] ELSE drafts
      BY <1>9 DEF RollBack
    <3> QED BY <3>1, ZenonT(40) DEF TypeOK
  <2> QED BY <1>9, <2>1, EndSlots DEF RollBack, TypeOK
<1>10. ASSUME NEW t \in Slot, CommitEdit(t) \/ CommitDelete(t) PROVE TypeOK'
  <2>1. messages' \in [Message -> Messages]
    <3>1. open[t].message \in Message
      BY <1>10 DEF CommitEdit, CommitDelete, WorkNames
    <3> DEFINE r == messages[open[t].message]
               content == IF open[t].flag THEN "empty" ELSE r.content
    <3>2. r \in Messages /\ content \in {"empty", "first", "edited"}
      BY <3>1, MessageUpdates DEF TypeOK
    <3>3. CASE CommitEdit(t)
      <4>1. messages' = [messages EXCEPT ![open[t].message] = [r EXCEPT !.content = "edited"]]
        BY <3>3 DEF CommitEdit
      <4> QED BY <3>2, <4>1, MessageUpdates DEF TypeOK
    <3>4. CASE CommitDelete(t)
      <4>1. messages' = [messages EXCEPT ![open[t].message] =
                           [r EXCEPT !.deleted = TRUE, !.content = content]]
        BY <3>1, <3>4 DEF CommitDelete, TypeOK
      <4> HIDE DEF content, r
      <4> QED BY <3>2, <4>1, MessageUpdates DEF TypeOK
    <3> QED BY <1>10, <3>3, <3>4
  <2> QED BY <1>10, <2>1, EndSlots DEF CommitEdit, CommitDelete, TypeOK
<1>11. ASSUME NEW t \in Slot, CommitAdd(t) \/ CommitSetRole(t) PROVE TypeOK'
  <2>1. notices' \in 0..MaxNotices
    BY <1>11, MessagesAssumption DEF CommitAdd, CommitSetRole, PostNotice, TypeOK
  <2>2. open[t].user \in User /\ open[t].role \in Role
    BY <1>11, WorkType DEF CommitAdd, CommitSetRole, WorkNames
  <2>3. members' \in [User -> Members]
    <3>1. CASE CommitAdd(t)
      <4>1. members[open[t].user].rows + 1 \in 0..Cardinality(Slot)
        <5> DEFINE n == Cardinality(Adds(open[t].user))
        <5>1. n \in Nat /\ n >= 1
          BY <3>1, AddIsCounted DEF CommitAdd
        <5>2. members[open[t].user].rows + n <= Cardinality(Slot)
          BY <2>2 DEF RowsCounted
        <5> HIDE DEF n
        <5> QED BY <2>2, <5>1, <5>2, SlotsAreCounted, MemberType
      <4> QED BY <2>2, <3>1, <4>1 DEF CommitAdd, TypeOK, Members, Role
    <3>2. CASE CommitSetRole(t)
      BY <2>2, <3>2 DEF CommitSetRole, TypeOK, Members
    <3> QED BY <1>11, <3>1, <3>2
  <2> QED BY <1>11, <2>1, <2>3, EndSlots DEF CommitAdd, CommitSetRole, TypeOK
<1>12. ASSUME NEW t \in Slot, CommitRemove(t) PROVE TypeOK'
  <2>1. notices' \in 0..MaxNotices
    BY <1>12, MessagesAssumption DEF CommitRemove, PostNotice, TypeOK
  <2>2. open[t].user \in User
    BY <1>12 DEF CommitRemove, WorkNames
  <2>3. open[t].flag => members[open[t].user].rows - 1 \in 0..Cardinality(Slot)
    BY <1>12, <2>2, MemberType, SlotsAreCounted DEF CommitRemove, FlagMeansRow
  <2>4. members' \in [User -> Members]
    BY <1>12, <2>2, <2>3 DEF CommitRemove, TypeOK, Members, Role
  <2> QED BY <1>12, <2>1, <2>4, RemoveSlots DEF CommitRemove, TypeOK
<1>13. ASSUME NEW m \in Message, Expire(m) PROVE TypeOK'
  <2>1. messages' = [messages EXCEPT ![m] = [messages[m] EXCEPT !.expires = "past"]]
    BY <1>13 DEF Expire
  <2>2. [messages[m] EXCEPT !.expires = "past"] \in Messages
    BY MessageUpdates DEF TypeOK
  <2> QED BY <1>13, <2>1, <2>2 DEF Expire, TypeOK
<1>14. CASE BeginSweep \/ CommitSweep \/ FailSweep
  <2>1. messages' \in [Message -> Messages]
    <3>1. ASSUME CommitSweep, NEW m \in Message PROVE messages'[m] \in Messages
      <4>1. messages'[m] = IF m \in sweep
                           THEN [messages[m] EXCEPT !.deleted = TRUE, !.content = "empty"]
                           ELSE messages[m]
        BY <3>1 DEF CommitSweep
      <4>2. [messages[m] EXCEPT !.deleted = TRUE, !.content = "empty"] \in Messages
        BY MessageUpdates DEF TypeOK
      <4> QED BY <4>1, <4>2 DEF TypeOK
    <3>2. CASE CommitSweep
      <4>1. messages' = [m \in Message |-> messages'[m]]
        BY <3>2 DEF CommitSweep
      <4> QED BY <3>1, <3>2, <4>1
    <3> QED BY <1>14, <3>2 DEF BeginSweep, FailSweep, TypeOK
  <2>2. sweep' \in {None} \cup (SUBSET Message) /\ overlapped' \in BOOLEAN
    <3>1. Expired \in SUBSET Message /\ (overlapped \/ Busy) \in BOOLEAN
      BY DEF Expired
    <3> QED BY <1>14, <3>1 DEF BeginSweep, CommitSweep, FailSweep, TypeOK
  <2> QED BY <1>14, <2>1, <2>2 DEF BeginSweep, CommitSweep, FailSweep, TypeOK
<1>15. CASE UNCHANGED vars
  BY <1>15 DEF vars, TypeOK
<1> QED BY <1>1, <1>2, <1>3, <1>4, <1>5, <1>6, <1>7, <1>8, <1>9, <1>10, <1>11, <1>12, <1>13,
           <1>14, <1>15, StepCases DEF OpensContent, OpensMembership

-----------------------------------------------------------------------------
(* What open requests name, and the drafts they are about.                 *)

(* Only a try makes a copy, and a draft once tried keeps its user and its  *)
(* upload.                                                                 *)
LEMMA DraftsStay ==
  ASSUME TypeOK, TypeOK', WorkNames, CopiesWereTried, [Next]_vars, NEW c \in Draft
  PROVE  /\ drafts[c].user \in User => /\ drafts'[c].user = drafts[c].user
                                       /\ drafts'[c].media = drafts[c].media
         /\ drafts'[c].copies <= drafts'[c].tries
         /\ drafts'[c].tries > 0 => drafts'[c].user \in User
<1> DEFINE Stays == /\ drafts'[c].user = drafts[c].user /\ drafts'[c].media = drafts[c].media
                    /\ drafts'[c].tries = drafts[c].tries
                    /\ drafts'[c].copies <= drafts[c].copies
<1> USE DEF CopiesWereTried
<1>1. ASSUME Stays
      PROVE  drafts'[c].copies <= drafts'[c].tries
             /\ (drafts'[c].tries > 0 => drafts'[c].user \in User)
  <2>1. /\ drafts[c].copies \in Nat /\ drafts[c].tries \in Nat
        /\ drafts'[c].copies \in Nat /\ drafts'[c].tries \in Nat
    BY MessagesAssumption DEF TypeOK
  <2> QED BY <1>1, <2>1
<1>2. ASSUME NEW u \in User, NEW b \in Draft, NEW d \in Media \cup {None}, Compose(u, b, d)
      PROVE  \/ Stays
             \/ /\ drafts[c].user = None
                /\ drafts'[c].copies = 1 /\ drafts'[c].tries = 1 /\ drafts'[c].user \in User
  BY <1>2, DraftType, MessagesAssumption DEF Compose, NoDraft, TypeOK
<1>3. ASSUME NEW b \in Draft, SendAgain(b)
      PROVE  \/ Stays
             \/ /\ drafts'[c].user = drafts[c].user /\ drafts'[c].media = drafts[c].media
                /\ drafts'[c].copies = drafts[c].copies + 1
                /\ drafts'[c].tries = drafts[c].tries + 1 /\ drafts[c].tries > 0
  BY <1>3, DraftType DEF SendAgain, TypeOK
<1>4. ASSUME NEW b \in Draft, LoseRequest(b) PROVE Stays
  BY <1>4, DraftType, MessagesAssumption DEF LoseRequest, TypeOK
<1>5. ASSUME NEW b \in Draft, NEW heard \in BOOLEAN, AnswerResend(b, heard) PROVE Stays
  BY <1>5, DraftType, MessagesAssumption DEF AnswerResend, TypeOK
<1>6. ASSUME NEW t \in Slot, NEW b \in Draft, OpensSend(t, b) PROVE Stays
  BY <1>6, DraftType, MessagesAssumption DEF OpensSend, TypeOK
<1>7. ASSUME NEW t \in Slot, NEW heard \in BOOLEAN, CommitSend(t, heard) \/ RollBack(t, heard)
      PROVE  Stays
  <2>1. \E b, sent : drafts' = [drafts EXCEPT ![b].sent = sent]
    <3>1. CASE CommitSend(t, heard)
      BY <3>1 DEF CommitSend
    <3>2. CASE RollBack(t, heard) /\ heard
      BY <3>2 DEF RollBack
    <3>3. CASE RollBack(t, heard) /\ ~heard
      <4>1. drafts' = [drafts EXCEPT ![c].sent = drafts[c].sent]
        BY <3>3 DEF RollBack, TypeOK
      <4> QED BY <4>1
    <3> QED BY <1>7, <3>1, <3>2, <3>3
  <2> QED BY <2>1, DraftType, MessagesAssumption DEF TypeOK
<1>8. CASE UNCHANGED drafts
  BY <1>8, DraftType, <1>1
<1> HIDE DEF CopiesWereTried
<1>9. \/ \E u \in User, b \in Draft, d \in Media \cup {None} : Compose(u, b, d)
      \/ \E b \in Draft : SendAgain(b) \/ LoseRequest(b)
      \/ \E b \in Draft, heard \in BOOLEAN : AnswerResend(b, heard)
      \/ \E t \in Slot, b \in Draft : OpensSend(t, b)
      \/ \E t \in Slot, heard \in BOOLEAN : CommitSend(t, heard) \/ RollBack(t, heard)
      \/ UNCHANGED drafts
  BY StepCases DEF Copies, CreateGroup, SetTimer, RequestUpload, OpensContent, OpensMembership,
     CommitEdit, CommitDelete, CommitAdd, CommitRemove, CommitSetRole, Expire, BeginSweep,
     CommitSweep, FailSweep, vars
<1>10. CASE Stays
  BY <1>1, <1>10
<1>11. CASE \E u \in User, b \in Draft, d \in Media \cup {None} : Compose(u, b, d)
  BY <1>2, <1>10, <1>11, MessagesAssumption
<1>12. CASE \E b \in Draft : SendAgain(b)
  BY <1>3, <1>10, <1>12, DraftType DEF CopiesWereTried
<1> QED BY <1>4, <1>5, <1>6, <1>7, <1>8, <1>9, <1>10, <1>11, <1>12

(* Every slot is as it was, has lost its row, is idle or has just opened.  *)
LEMMA SlotCases ==
  ASSUME TypeOK, [Next]_vars, NEW s \in Slot
  PROVE  \/ open'[s] = Idle
         \/ /\ open'[s].op = open[s].op /\ open'[s].draft = open[s].draft
            /\ open'[s].message = open[s].message /\ open'[s].user = open[s].user
            /\ open'[s].flag => open[s].flag
         \/ /\ open[s] = Idle
            /\ \/ /\ open'[s].op = "send" /\ open'[s].draft \in Draft
                  /\ drafts[open'[s].draft].copies > 0
               \/ open'[s].op \in {"edit", "delete"} /\ open'[s].message \in Message
               \/ open'[s].op \in {"add", "remove", "role"} /\ open'[s].user \in User
<1>1. ASSUME NEW t \in Slot, NEW c \in Draft, OpensSend(t, c)
      PROVE  \/ open'[s] = open[s]
             \/ /\ open[s] = Idle /\ open'[s].op = "send" /\ open'[s].draft = c
                /\ drafts[c].copies > 0
  BY <1>1, OpensSlots DEF OpensSend, Arrives
<1>2. ASSUME NEW t \in Slot, NEW m \in Message, OpensContent(t, m)
      PROVE  \/ open'[s] = open[s]
             \/ open[s] = Idle /\ open'[s].op \in {"edit", "delete"} /\ open'[s].message = m
  BY <1>2, OpensSlots DEF OpensContent
<1>3. ASSUME NEW t \in Slot, NEW v \in User, OpensMembership(t, v)
      PROVE  \/ open'[s] = open[s]
             \/ open[s] = Idle /\ open'[s].op \in {"add", "remove", "role"} /\ open'[s].user = v
  BY <1>3, OpensSlots DEF OpensMembership
<1>4. ASSUME NEW t \in Slot, End(t) PROVE open'[s] = Idle \/ open'[s] = open[s]
  BY <1>4, EndSlots
<1>5. ASSUME NEW t \in Slot, CommitRemove(t)
      PROVE  \/ open'[s] = Idle
             \/ /\ open'[s].op = open[s].op /\ open'[s].draft = open[s].draft
                /\ open'[s].message = open[s].message /\ open'[s].user = open[s].user
                /\ open'[s].flag => open[s].flag
  BY <1>5, RemoveSlots
<1>6. \/ \E t \in Slot, c \in Draft : OpensSend(t, c)
      \/ \E t \in Slot, m \in Message : OpensContent(t, m)
      \/ \E t \in Slot, v \in User : OpensMembership(t, v)
      \/ \E t \in Slot : End(t) \/ CommitRemove(t)
      \/ UNCHANGED open
  BY StepCases DEF Copies, CreateGroup, SetTimer, RequestUpload, Compose, SendAgain, LoseRequest,
     AnswerResend, CommitSend, RollBack, CommitEdit, CommitDelete, CommitAdd, CommitSetRole, Expire,
     BeginSweep, CommitSweep, FailSweep, vars
<1> QED BY <1>1, <1>2, <1>3, <1>4, <1>5, <1>6

LEMMA StillNames ==
  ASSUME TypeOK, TypeOK', WorkNames, CopiesWereTried, [Next]_vars
  PROVE  WorkNames' /\ CopiesWereTried'
<1>1. CopiesWereTried'
  BY DraftsStay DEF CopiesWereTried
<1>2. ASSUME NEW s \in Slot
      PROVE  /\ open'[s].op = "send" => /\ open'[s].draft \in Draft
                                        /\ drafts'[open'[s].draft].user \in User
             /\ open'[s].op \in {"edit", "delete"} => open'[s].message \in Message
             /\ open'[s].op \in {"add", "remove", "role"} => open'[s].user \in User
  <2>1. \A c \in Draft : drafts[c].copies > 0 \/ drafts[c].user \in User
                           => drafts'[c].user \in User
    <3> TAKE c \in Draft
    <3>1. drafts[c].copies > 0 => drafts[c].user \in User
      BY DraftType, MessagesAssumption DEF CopiesWereTried
    <3> QED BY <3>1, DraftsStay
  <2>2. CASE open'[s] = Idle
    BY <2>2, IdleType
  <2>3. CASE open'[s] # Idle
    BY <2>1, <2>3, SlotCases DEF WorkNames
  <2> QED BY <2>2, <2>3
<1> QED BY <1>1, <1>2 DEF WorkNames

-----------------------------------------------------------------------------
(* Members.                                                                *)

LEMMA MemberCases ==
  ASSUME TypeOK, [Next]_vars
  PROVE  \/ \E others \in SUBSET (User \ {Creator}) : CreateGroup(others)
         \/ \E t \in Slot, v \in User : OpensMembership(t, v)
         \/ \E t \in Slot : CommitAdd(t) \/ CommitRemove(t) \/ CommitSetRole(t)
         \/ /\ UNCHANGED members
            /\ \A s \in Slot : \/ open'[s] = open[s]
                               \/ open'[s].op \in {"idle", "send", "edit", "delete"}
<1>1. ASSUME NEW t \in Slot, NEW c \in Draft, OpensSend(t, c)
      PROVE  /\ UNCHANGED members
             /\ \A s \in Slot : open'[s] = open[s] \/ open'[s].op = "send"
  BY <1>1, OpensSlots DEF OpensSend, Opens
<1>2. ASSUME NEW t \in Slot, NEW m \in Message, OpensContent(t, m)
      PROVE  /\ UNCHANGED members
             /\ \A s \in Slot : open'[s] = open[s] \/ open'[s].op \in {"edit", "delete"}
  BY <1>2, OpensSlots DEF OpensContent, Opens
<1>3. ASSUME NEW t \in Slot, End(t)
      PROVE  \A s \in Slot : open'[s] = open[s] \/ open'[s].op = "idle"
  BY <1>3, EndSlots, IdleType
<1>4. \/ \E others \in SUBSET (User \ {Creator}) : CreateGroup(others)
      \/ \E t \in Slot, c \in Draft : OpensSend(t, c)
      \/ \E t \in Slot, m \in Message : OpensContent(t, m)
      \/ \E t \in Slot, v \in User : OpensMembership(t, v)
      \/ \E t \in Slot : CommitAdd(t) \/ CommitRemove(t) \/ CommitSetRole(t)
      \/ \E t \in Slot : UNCHANGED members /\ End(t)
      \/ UNCHANGED members /\ UNCHANGED open
  BY StepCases DEF Copies, SetTimer, RequestUpload, Compose, SendAgain, LoseRequest,
     AnswerResend, CommitSend, RollBack, CommitEdit, CommitDelete, Expire,
     BeginSweep, CommitSweep, FailSweep, vars
<1> QED BY <1>1, <1>2, <1>3, <1>4

(* The rows a commit leaves.                                               *)
LEMMA RowsAfter ==
  ASSUME TypeOK, WorkNames, NEW t \in Slot, NEW u \in User
  PROVE  /\ CommitAdd(t) =>
              members'[u].rows = IF u = open[t].user THEN members[u].rows + 1 ELSE members[u].rows
         /\ CommitRemove(t) =>
              members'[u].rows = IF u = open[t].user /\ open[t].flag THEN members[u].rows - 1
                                 ELSE members[u].rows
         /\ CommitSetRole(t) => members'[u].rows = members[u].rows
<1>1. CASE CommitAdd(t)
  BY <1>1 DEF CommitAdd, TypeOK, WorkNames, CommitRemove, CommitSetRole
<1>2. CASE CommitRemove(t)
  BY <1>2 DEF CommitAdd, TypeOK, WorkNames, CommitRemove, CommitSetRole
<1>3. CASE CommitSetRole(t)
  <2>1. members' = [members EXCEPT ![open[t].user].role = open[t].role]
    BY <1>3 DEF CommitSetRole
  <2> QED BY <1>3, <2>1, MemberType DEF CommitAdd, TypeOK, CommitRemove, CommitSetRole, Members
<1> QED BY <1>1, <1>2, <1>3

LEMMA NobodyAsks ==
  ASSUME NEW others, CreateGroup(others)
  PROVE  /\ UNCHANGED open
         /\ \A s \in Slot : open[s] = Idle /\ open[s].op = "idle"
BY IdleType DEF CreateGroup, Busy

LEMMA FlagStillMeansRow ==
  ASSUME TypeOK, WorkNames, FlagMeansRow, [Next]_vars
  PROVE  FlagMeansRow'
<1> SUFFICES ASSUME NEW s \in Slot, open'[s].op \in {"remove", "role"}, open'[s].flag
             PROVE  members'[open'[s].user].rows > 0
  BY DEF FlagMeansRow
<1>1. ASSUME open'[s] = open[s]
      PROVE  /\ open[s].user \in User
             /\ members[open[s].user].rows \in Nat /\ members[open[s].user].rows > 0
  BY <1>1, MemberType, SlotsAreCounted DEF FlagMeansRow, WorkNames
<1>2. ASSUME NEW others \in SUBSET (User \ {Creator}), CreateGroup(others) PROVE FALSE
  BY <1>2, NobodyAsks
<1>3. ASSUME NEW t \in Slot, NEW v \in User, OpensMembership(t, v)
      PROVE  members'[open'[s].user].rows > 0
  <2>1. UNCHANGED members
    BY <1>3 DEF OpensMembership, Opens
  <2>2. PICK w \in Work : /\ Opens(t, w) /\ w.user = v
                          /\ w.op \in {"remove", "role"} => members[v].rows = 1
    BY <1>3 DEF OpensMembership
  <2>3. open'[s] = open[s] \/ (open'[s].user = v /\ members[v].rows = 1)
    BY <2>2, OpensSlots
  <2> QED BY <1>1, <2>1, <2>3
<1>4. ASSUME NEW t \in Slot, CommitAdd(t) \/ CommitSetRole(t)
      PROVE  members'[open'[s].user].rows > 0
  <2>1. open'[s] = open[s]
    BY <1>4, EndSlots, IdleType DEF CommitAdd, CommitSetRole
  <2>2. members'[open[s].user].rows \in {members[open[s].user].rows, members[open[s].user].rows + 1}
    BY <1>1, <1>4, <2>1, RowsAfter
  <2> QED BY <1>1, <2>1, <2>2
<1>5. ASSUME NEW t \in Slot, CommitRemove(t) PROVE members'[open'[s].user].rows > 0
  <2>1. /\ open'[s].user = open[s].user /\ open[s].op \in {"remove", "role"} /\ open[s].flag
        /\ open[s].user # open[t].user
    BY <1>5, RemoveSlots, IdleType
  <2>2. open[s].user \in User /\ members[open[s].user].rows > 0
    BY <2>1 DEF FlagMeansRow, WorkNames
  <2> QED BY <1>5, <2>1, <2>2, RowsAfter
<1> QED BY <1>1, <1>2, <1>3, <1>4, <1>5, MemberCases

LEMMA RowsStayCounted ==
  ASSUME TypeOK, TypeOK', WorkNames, FlagMeansRow, RowsCounted, [Next]_vars
  PROVE  RowsCounted'
<1> SUFFICES ASSUME NEW u \in User
             PROVE  members'[u].rows + Cardinality(Adds(u)') <= Cardinality(Slot)
  BY DEF RowsCounted
<1> DEFINE rows == members[u].rows
           n == Cardinality(Adds(u))
           before == Adds(u)
           after == Adds(u)'
<1>0. /\ before \in SUBSET Slot /\ after \in SUBSET Slot
      /\ members[u].rows \in Nat /\ members'[u].rows \in Nat
      /\ Cardinality(before) \in Nat /\ Cardinality(after) \in 0..Cardinality(Slot)
      /\ members[u].rows + Cardinality(before) <= Cardinality(Slot)
  <2>1. before \in SUBSET Slot /\ after \in SUBSET Slot
    BY DEF Adds
  <2>2. Cardinality(before) \in Nat /\ Cardinality(after) \in 0..Cardinality(Slot)
    BY <2>1, SlotsAreCounted
  <2>3. members[u].rows \in Nat /\ members'[u].rows \in Nat
    BY SlotsAreCounted DEF TypeOK, Members
  <2> QED BY <2>1, <2>2, <2>3 DEF RowsCounted
<1>1. ASSUME after \subseteq before, members'[u].rows <= members[u].rows
      PROVE  members'[u].rows + Cardinality(after) <= Cardinality(Slot)
  <2>1. IsFiniteSet(before)
    BY <1>0, SlotsAreCounted
  <2>2. Cardinality(after) <= Cardinality(before)
    BY <1>1, <2>1, FS_Subset
  <2> QED BY <1>0, <1>1, <2>2, SlotsAreCounted
<1>2. ASSUME NEW others \in SUBSET (User \ {Creator}), CreateGroup(others)
      PROVE  members'[u].rows + Cardinality(after) <= Cardinality(Slot)
  <2>1. after = {}
    BY <1>2, NobodyAsks DEF Adds
  <2>2. members'[u].rows <= 1
    BY <1>2 DEF CreateGroup, NoMember
  <2> QED BY <1>0, <2>1, <2>2, FS_EmptySet, SlotsAreCounted
<1>3. ASSUME NEW t \in Slot, NEW v \in User, OpensMembership(t, v)
      PROVE  members'[u].rows + Cardinality(after) <= Cardinality(Slot)
  <2>1. UNCHANGED members
    BY <1>3 DEF OpensMembership, Opens
  <2>2. \A s \in Slot : \/ open'[s] = open[s]
                        \/ open'[s].user = v /\ (open'[s].op = "add" => members[v].rows = 0)
    BY <1>3, OpensSlots DEF OpensMembership
  <2>3. CASE members[u].rows = 0
    BY <1>0, <2>1, <2>3, SlotsAreCounted
  <2>4. CASE members[u].rows # 0
    <3>1. after \subseteq before
      BY <2>2, <2>4 DEF Adds
    <3> QED BY <1>0, <1>1, <2>1, <3>1
  <2> QED BY <2>3, <2>4
<1>4. ASSUME NEW t \in Slot, CommitAdd(t)
      PROVE  members'[u].rows + Cardinality(after) <= Cardinality(Slot)
  <2>1. \A s \in Slot : open'[s] = IF s = t THEN Idle ELSE open[s]
    BY <1>4, EndSlots DEF CommitAdd
  <2>2. CASE u = open[t].user
    <3>1. after = before \ {t}
      BY <2>1, IdleType DEF Adds
    <3>2. Cardinality(after) = Cardinality(before) - 1
      BY <1>4, <2>2, <3>1, AddIsCounted DEF CommitAdd
    <3>3. members'[u].rows = members[u].rows + 1
      BY <1>4, <2>2, RowsAfter
    <3> QED BY <1>0, <3>2, <3>3, SlotsAreCounted
  <2>3. CASE u # open[t].user
    <3>1. after \subseteq before
      BY <2>1, IdleType DEF Adds
    <3>2. members'[u].rows = members[u].rows
      BY <1>4, <2>3, RowsAfter
    <3> QED BY <1>0, <1>1, <3>1, <3>2
  <2> QED BY <2>2, <2>3
<1>5. ASSUME NEW t \in Slot, CommitRemove(t)
      PROVE  members'[u].rows + Cardinality(after) <= Cardinality(Slot)
  <2>1. after \subseteq before
    BY <1>5, RemoveSlots, IdleType DEF Adds
  <2>2. members'[u].rows <= members[u].rows
    <3>1. members'[u].rows \in {members[u].rows, members[u].rows - 1}
      BY <1>5, RowsAfter
    <3> QED BY <1>0, <3>1
  <2> QED BY <1>1, <2>1, <2>2
<1>6. ASSUME NEW t \in Slot, CommitSetRole(t)
      PROVE  members'[u].rows + Cardinality(after) <= Cardinality(Slot)
  <2>1. after \subseteq before
    BY <1>6, EndSlots, IdleType DEF Adds, CommitSetRole
  <2>2. members'[u].rows = members[u].rows
    BY <1>6, RowsAfter
  <2> QED BY <1>0, <1>1, <2>1, <2>2
<1>7. ASSUME UNCHANGED members,
             \A s \in Slot : \/ open'[s] = open[s]
                             \/ open'[s].op \in {"idle", "send", "edit", "delete"}
      PROVE  members'[u].rows + Cardinality(after) <= Cardinality(Slot)
  <2>1. after \subseteq before
    BY <1>7 DEF Adds
  <2> QED BY <1>0, <1>1, <1>7, <2>1
<1> QED BY <1>2, <1>3, <1>4, <1>5, <1>6, <1>7, MemberCases

-----------------------------------------------------------------------------
(* Messages and uploads.                                                   *)

(* Only the commit of a send decides whose message a row is, and which     *)
(* upload it refers to.                                                    *)
LEMMA MessageCases ==
  ASSUME TypeOK, [Next]_vars
  PROVE  \/ \E t \in Slot, heard \in BOOLEAN : CommitSend(t, heard)
         \/ \A m \in Message : /\ messages'[m].client = messages[m].client
                               /\ messages'[m].media = messages[m].media
<1> DEFINE Same == \A m \in Message : /\ messages'[m].client = messages[m].client
                                      /\ messages'[m].media = messages[m].media
<1>1. ASSUME NEW t \in Slot, CommitEdit(t) PROVE Same
  BY <1>1 DEF CommitEdit, TypeOK, Messages
<1>2. ASSUME NEW t \in Slot, CommitDelete(t) PROVE Same
  <2>1. \E n, content : messages' = [messages EXCEPT ![n].deleted = TRUE, ![n].content = content]
    BY <1>2 DEF CommitDelete
  <2> QED BY <2>1 DEF TypeOK, Messages
<1>3. ASSUME NEW m \in Message, Expire(m) PROVE Same
  BY <1>3 DEF Expire, TypeOK, Messages
<1>4. ASSUME CommitSweep PROVE Same
  <2>1. ASSUME NEW m \in Message
        PROVE  \/ messages'[m] = messages[m]
               \/ messages'[m] = [messages[m] EXCEPT !.deleted = TRUE, !.content = "empty"]
    BY <1>4 DEF CommitSweep
  <2>2. \A r \in Messages : LET q == [r EXCEPT !.deleted = TRUE, !.content = "empty"] IN
          q.client = r.client /\ q.media = r.media
    BY DEF Messages
  <2>3. \A m \in Message : messages[m] \in Messages
    BY DEF TypeOK
  <2> QED BY <2>1, <2>2, <2>3
<1>5. CASE UNCHANGED messages
  BY <1>5
<1>6. \/ \E t \in Slot, heard \in BOOLEAN : CommitSend(t, heard)
      \/ \E t \in Slot : CommitEdit(t) \/ CommitDelete(t)
      \/ \E m \in Message : Expire(m)
      \/ CommitSweep
      \/ UNCHANGED messages
  BY StepCases DEF Copies, CreateGroup, SetTimer, RequestUpload, Compose, SendAgain, LoseRequest,
     AnswerResend, OpensSend, OpensContent, OpensMembership, Opens, RollBack, CommitAdd,
     CommitRemove, CommitSetRole, BeginSweep, FailSweep, vars
<1> QED BY <1>1, <1>2, <1>3, <1>4, <1>5, <1>6

LEMMA MediaCases ==
  ASSUME TypeOK, [Next]_vars
  PROVE  \/ \E t \in Slot, heard \in BOOLEAN : CommitSend(t, heard)
         \/ \E u \in User, d \in Media : RequestUpload(u, d)
         \/ UNCHANGED media
BY StepCases DEF Copies, CreateGroup, SetTimer, Compose, SendAgain, LoseRequest,
   AnswerResend, OpensSend, OpensContent, OpensMembership, Opens, RollBack, CommitEdit,
   CommitDelete, CommitAdd, CommitRemove, CommitSetRole, Expire, BeginSweep, CommitSweep,
   FailSweep, vars

LEMMA ClientStaysUnique ==
  ASSUME TypeOK, TypeOK', WorkNames, ClientIsUnique, [Next]_vars
  PROVE  ClientIsUnique'
<1>1. CASE \A m \in Message : messages'[m].client = messages[m].client
  BY <1>1 DEF ClientIsUnique, Stored
<1>2. ASSUME NEW t \in Slot, NEW heard \in BOOLEAN, CommitSend(t, heard)
      PROVE  ClientIsUnique'
  <2> DEFINE c == open[t].draft
  <2>1. PICK m \in Message :
          /\ messages[m] = NoMessage /\ messages'[m].client = c
          /\ messages' = [messages EXCEPT ![m] = messages'[m]]
    BY <1>2, SendWrites
  <2>2. \A n \in Message : messages[n].client # c
    BY <1>2, SendWrites DEF Taken
  <2>3. \A n \in Message \ {m} : messages'[n] = messages[n]
    BY <2>1 DEF TypeOK
  <2> QED BY <2>1, <2>2, <2>3 DEF ClientIsUnique, Stored
<1> QED BY <1>1, <1>2, MessageCases

-----------------------------------------------------------------------------
(* One transaction at a time.                                              *)

LEMMA SerialSteps ==
  ASSUME TypeOK, [Next]_vars, ~overlapped'
  PROVE  ~overlapped
<1>1. overlapped' = overlapped \/ overlapped' = (overlapped \/ Busy)
  BY StepCases DEF Copies, CreateGroup, SetTimer, RequestUpload, Compose, SendAgain, LoseRequest,
     AnswerResend, OpensSend, OpensContent, OpensMembership, Opens, CommitSend, RollBack,
     CommitEdit, CommitDelete, CommitAdd, CommitRemove, CommitSetRole, Expire, BeginSweep,
     CommitSweep, FailSweep, vars
<1> QED BY <1>1

LEMMA StaysAlone ==
  ASSUME TypeOK, ~overlapped => Alone, [Next]_vars, ~overlapped'
  PROVE  Alone'
<1>1. Alone
  BY SerialSteps
<1>2. ASSUME NEW t \in Slot, NEW w \in Work, Opens(t, w) PROVE Alone'
  <2>1. sweep' = None /\ \A s \in Slot : open[s] = Idle
    BY <1>2 DEF Opens, Busy
  <2> QED BY <1>2, <2>1, OpensSlots DEF Alone
<1>3. ASSUME NEW t \in Slot, End(t), UNCHANGED sweep PROVE Alone'
  BY <1>1, <1>3, EndSlots DEF Alone
<1>4. ASSUME NEW t \in Slot, CommitRemove(t) PROVE Alone'
  <2>1. \A s \in Slot \ {t} : open[s] = Idle
    BY <1>1, <1>4, IdleType DEF Alone, CommitRemove
  <2>2. \A s \in Slot : open'[s] = Idle
    BY <1>4, <2>1, IdleType DEF CommitRemove
  <2> QED BY <2>2 DEF Alone
<1>5. ASSUME BeginSweep PROVE Alone'
  BY <1>5 DEF BeginSweep, Busy, Alone
<1>6. ASSUME UNCHANGED open, sweep' = None \/ UNCHANGED sweep PROVE Alone'
  BY <1>1, <1>6 DEF Alone
<1>7. \/ \E t \in Slot, w \in Work : Opens(t, w)
      \/ \E t \in Slot : (End(t) /\ UNCHANGED sweep) \/ CommitRemove(t)
      \/ BeginSweep
      \/ UNCHANGED open /\ (sweep' = None \/ UNCHANGED sweep)
  BY StepCases DEF Copies, CreateGroup, SetTimer, RequestUpload, Compose, SendAgain, LoseRequest,
     AnswerResend, OpensSend, OpensContent, OpensMembership, CommitSend, RollBack,
     CommitEdit, CommitDelete, CommitAdd, CommitSetRole, Expire,
     CommitSweep, FailSweep, vars
<1> QED BY <1>2, <1>3, <1>4, <1>5, <1>6, <1>7

(* When a transaction ends alone, nothing is open.                         *)
LEMMA EndsAlone ==
  ASSUME TypeOK, Alone, NEW t \in Slot, open[t] # Idle, End(t) \/ CommitRemove(t)
  PROVE  \A s \in Slot : open'[s].op = "idle"
<1>1. \A s \in Slot \ {t} : open[s] = Idle
  BY DEF Alone
<1>2. CASE End(t)
  BY <1>1, <1>2, EndSlots, IdleType
<1>3. CASE CommitRemove(t)
  BY <1>1, <1>3, RemoveSlots, IdleType
<1> QED BY <1>2, <1>3

LEMMA ReadsStillHold ==
  ASSUME TypeOK, TypeOK', WorkNames, CopiesWereTried, Alone, ReadStillHolds, [Next]_vars,
         ~overlapped'
  PROVE  ReadStillHolds'
<1> SUFFICES ASSUME NEW s \in Slot
             PROVE  /\ \A c \in Draft :
                         open'[s].op = "send" /\ open'[s].draft = c => UnusedMedia(c)'
                    /\ open'[s].op = "add" => members'[open'[s].user].rows = 0
  BY StillNames DEF ReadStillHolds, WorkNames, UnusedMedia
<1> DEFINE Holds ==
      /\ \A c \in Draft : open'[s].op = "send" /\ open'[s].draft = c => UnusedMedia(c)'
      /\ open'[s].op = "add" => members'[open'[s].user].rows = 0
<1>1. ASSUME NEW c \in Draft, UnusedMedia(c), drafts[c].user \in User,
             UNCHANGED media \/ \E u \in User, d \in Media : RequestUpload(u, d)
      PROVE  UnusedMedia(c)'
  <2>1. drafts'[c].user = drafts[c].user /\ drafts'[c].media = drafts[c].media
    BY <1>1, DraftsStay
  <2>2. drafts[c].media # None =>
          /\ drafts[c].media \in Media
          /\ media[drafts[c].media] = [owner |-> drafts[c].user, message |-> None]
    BY <1>1, DraftType DEF UnusedMedia
  <2>3. drafts[c].media # None => media'[drafts[c].media] = media[drafts[c].media]
    <3>1. ASSUME NEW u \in User, NEW d \in Media, RequestUpload(u, d), drafts[c].media # None
          PROVE  media'[drafts[c].media] = media[drafts[c].media]
      <4>1. drafts[c].media # d
        BY <1>1, <2>2, <3>1, MessagesAssumption DEF RequestUpload, NoMedia
      <4> QED BY <2>2, <3>1, <4>1 DEF RequestUpload, TypeOK
    <3> QED BY <1>1, <3>1
  <2> QED BY <2>1, <2>2, <2>3 DEF UnusedMedia
<1>2. ASSUME UNCHANGED <<open, members>>,
             UNCHANGED media \/ \E u \in User, d \in Media : RequestUpload(u, d)
      PROVE  Holds
  <2>1. open'[s].op = "send" => /\ open[s].draft \in Draft /\ UnusedMedia(open[s].draft)
                                /\ drafts[open[s].draft].user \in User
    BY <1>2 DEF ReadStillHolds, WorkNames
  <2>2. \A c \in Draft : open'[s].op = "send" /\ open'[s].draft = c => UnusedMedia(c)'
    BY <1>1, <1>2, <2>1
  <2> QED BY <1>2, <2>2 DEF ReadStillHolds
<1>3. ASSUME NEW others \in SUBSET (User \ {Creator}), CreateGroup(others) PROVE Holds
  BY <1>3, NobodyAsks
<1>4. ASSUME NEW t \in Slot, NEW c \in Draft, OpensSend(t, c) PROVE Holds
  <2>1. PICK w \in Work : /\ Opens(t, w) /\ w.op = "send" /\ w.draft = c
                          /\ UnusedMedia(c) /\ drafts[c].copies > 0
    BY <1>4 DEF OpensSend, Arrives
  <2>2. drafts[c].user \in User
    BY <2>1, DraftType, MessagesAssumption DEF CopiesWereTried
  <2>3. UnusedMedia(c)'
    BY <1>1, <2>1, <2>2 DEF Opens
  <2>4. open'[s] = w \/ open'[s].op = "idle"
    BY <2>1, OpensSlots, IdleType DEF Opens, Busy
  <2> QED BY <2>1, <2>3, <2>4
<1>5. ASSUME NEW t \in Slot, NEW m \in Message, OpensContent(t, m) PROVE Holds
  <2>1. PICK w \in Work : Opens(t, w) /\ w.op \in {"edit", "delete"}
    BY <1>5 DEF OpensContent
  <2>2. open'[s] = w \/ open'[s].op = "idle"
    BY <2>1, OpensSlots, IdleType DEF Opens, Busy
  <2> QED BY <2>1, <2>2
<1>6. ASSUME NEW t \in Slot, NEW v \in User, OpensMembership(t, v) PROVE Holds
  <2>1. PICK w \in Work : /\ Opens(t, w) /\ w.op \in {"add", "remove", "role"} /\ w.user = v
                          /\ w.op = "add" => members[v].rows = 0
    BY <1>6 DEF OpensMembership
  <2>2. open'[s] = w \/ open'[s].op = "idle"
    BY <2>1, OpensSlots, IdleType DEF Opens, Busy
  <2>3. UNCHANGED members
    BY <2>1 DEF Opens
  <2> QED BY <2>1, <2>2, <2>3
<1>7. ASSUME NEW t \in Slot, open[t] # Idle, End(t) \/ CommitRemove(t) PROVE Holds
  BY <1>7, EndsAlone
<1>8. \/ /\ UNCHANGED <<open, members>>
         /\ UNCHANGED media \/ \E u \in User, d \in Media : RequestUpload(u, d)
      \/ \E others \in SUBSET (User \ {Creator}) : CreateGroup(others)
      \/ \E t \in Slot, c \in Draft : OpensSend(t, c)
      \/ \E t \in Slot, m \in Message : OpensContent(t, m)
      \/ \E t \in Slot, v \in User : OpensMembership(t, v)
      \/ \E t \in Slot : open[t] # Idle /\ (End(t) \/ CommitRemove(t))
  BY StepCases, IdleType DEF Copies, SetTimer, RequestUpload, Compose, SendAgain, LoseRequest,
     AnswerResend, CommitSend, RollBack,
     CommitEdit, CommitDelete, CommitAdd, CommitRemove, CommitSetRole, Expire,
     BeginSweep, CommitSweep, FailSweep, vars
<1> QED BY <1>2, <1>3, <1>4, <1>5, <1>6, <1>7, <1>8

(* A send that was alone links a fresh row with the upload it read unused. *)
LEMMA LinksStayAgreed ==
  ASSUME TypeOK, WorkNames, ReadStillHolds, [Next]_vars,
         \A m \in Message, d \in Media : messages[m].media = d <=> media[d].message = m
  PROVE  \A m \in Message, d \in Media : messages'[m].media = d <=> media'[d].message = m
<1>1. ASSUME NEW u \in User, NEW e \in Media, RequestUpload(u, e), NEW d \in Media
      PROVE  media'[d].message = media[d].message
  BY <1>1 DEF RequestUpload, TypeOK
<1>2. ASSUME NEW t \in Slot, NEW heard \in BOOLEAN, CommitSend(t, heard),
             NEW n \in Message, NEW d \in Media
      PROVE  messages'[n].media = d <=> media'[d].message = n
  <2> DEFINE c == open[t].draft
             upload == drafts[c].media
  <2>1. PICK m \in Message :
          /\ messages[m] = NoMessage
          /\ messages'[m] \in Messages
          /\ messages'[m].client = c /\ messages'[m].media = drafts[c].media
          /\ messages' = [messages EXCEPT ![m] = messages'[m]]
          /\ media' = [e \in Media |-> IF e = drafts[c].media
                                       THEN [media[e] EXCEPT !.message = m] ELSE media[e]]
    BY ONLY TypeOK, WorkNames, <1>2, SendWrites
  <2>2. upload = d => media[d].message = None
    <3>1. UnusedMedia(open[t].draft)
      BY <1>2 DEF CommitSend, ReadStillHolds
    <3>2. upload = d => media[d] = [owner |-> drafts[open[t].draft].user, message |-> None]
      BY <3>1, MessagesAssumption DEF UnusedMedia
    <3> QED BY <3>2
  <2>3. messages[m].media # d
    BY <2>1, MessagesAssumption DEF NoMessage
  <2>4. media'[d].message = IF d = upload THEN m ELSE media[d].message
    BY <2>1 DEF TypeOK
  <2>5. messages'[n].media = IF n = m THEN upload ELSE messages[n].media
    BY <2>1 DEF TypeOK
  <2>6. None \notin Message
    BY MessagesAssumption
  <2> HIDE DEF upload
  <2> QED BY <2>2, <2>3, <2>4, <2>5, <2>6
<1>3. CASE \E t \in Slot, heard \in BOOLEAN : CommitSend(t, heard)
  BY <1>2, <1>3
<1>4. CASE \A m \in Message : messages'[m].media = messages[m].media
  <2>1. \/ \A d \in Media : media'[d].message = media[d].message
        \/ \E t \in Slot, heard \in BOOLEAN : CommitSend(t, heard)
    BY <1>1, MediaCases
  <2> QED BY <1>3, <1>4, <2>1
<1> QED BY <1>3, <1>4, MessageCases

(* An addition that was alone finds no row of its user.                    *)
LEMMA RowsStayUnique ==
  ASSUME TypeOK, WorkNames, FlagMeansRow, ReadStillHolds, [Next]_vars,
         NEW u \in User, members[u].rows <= 1
  PROVE  members'[u].rows <= 1
<1>0. members[u].rows \in Nat
  BY MemberType, SlotsAreCounted
<1>1. ASSUME NEW others \in SUBSET (User \ {Creator}), CreateGroup(others)
      PROVE  members'[u].rows <= 1
  BY <1>1 DEF CreateGroup, NoMember
<1>2. ASSUME NEW t \in Slot, CommitAdd(t) PROVE members'[u].rows <= 1
  <2>1. members[open[t].user].rows = 0
    BY <1>2 DEF CommitAdd, ReadStillHolds
  <2> QED BY <1>2, <2>1, RowsAfter
<1>3. ASSUME NEW t \in Slot, CommitRemove(t) \/ CommitSetRole(t) PROVE members'[u].rows <= 1
  <2>1. members'[u].rows \in {members[u].rows, members[u].rows - 1}
    BY <1>3, RowsAfter
  <2> QED BY <1>0, <2>1
<1> QED BY <1>1, <1>2, <1>3, MemberCases DEF OpensMembership, Opens

-----------------------------------------------------------------------------
(* The invariant IInv is inductive.                                        *)

LEMMA InitInvariant == Init => IInv
<1> SUFFICES ASSUME Init PROVE IInv
  OBVIOUS
<1>0. /\ Cardinality(Slot) \in Nat /\ MaxTries \in Nat /\ MaxNotices \in Nat
      /\ None \notin Message /\ None \notin Draft /\ None \notin Media
  BY SlotsAreCounted, MessagesAssumption
<1>1. /\ \A t \in Slot : open[t] = Idle /\ open[t].op = "idle"
      /\ \A c \in Draft : drafts[c].copies = 0 /\ drafts[c].tries = 0
      /\ \A u \in User : members[u].rows = 0
      /\ \A m \in Message : messages[m].client = None /\ messages[m].media = None
      /\ \A d \in Media : media[d].message = None
  BY IdleType DEF Init, NoDraft, NoMember, NoMessage, NoMedia
<1>2. TypeOK
  <2>1. NoMember \in Members /\ NoMessage \in Messages
    BY <1>0 DEF NoMember, Members, Role, NoMessage, Messages
  <2>2. NoDraft \in [user : User \cup {None}, media : Media \cup {None}, copies : 0..MaxTries,
                     tries : 0..MaxTries, sent : BOOLEAN]
    BY <1>0 DEF NoDraft
  <2>3. NoMedia \in [owner : User \cup {None}, message : Message \cup {None}]
    BY DEF NoMedia
  <2>4. drafts \in [Draft -> [user : User \cup {None}, media : Media \cup {None},
                              copies : 0..MaxTries, tries : 0..MaxTries, sent : BOOLEAN]]
    BY <2>2 DEF Init
  <2>5. media \in [Media -> [owner : User \cup {None}, message : Message \cup {None}]]
    BY <2>3 DEF Init
  <2>6. /\ members \in [User -> Members] /\ messages \in [Message -> Messages]
        /\ open \in [Slot -> Work]
    BY <2>1, IdleType DEF Init
  <2>7. notices \in 0..MaxNotices
    BY <1>0 DEF Init
  <2>8. sweep \in {None} \cup (SUBSET Message) /\ timer = FALSE /\ overlapped = FALSE
    BY DEF Init
  <2> QED BY <2>4, <2>5, <2>6, <2>7, <2>8 DEF TypeOK
<1>3. WorkNames /\ CopiesWereTried /\ FlagMeansRow /\ Alone /\ ReadStillHolds
  BY <1>1 DEF WorkNames, CopiesWereTried, FlagMeansRow, Alone, ReadStillHolds, Init
<1>4. RowsCounted
  <2>1. \A u \in User : Adds(u) = {}
    BY <1>1 DEF Adds
  <2>2. \A u \in User : Cardinality(Adds(u)) = 0
    BY <2>1, FS_EmptySet
  <2> QED BY <1>0, <1>1, <2>2 DEF RowsCounted
<1>5. ClientIsUnique /\ MediaLinksAgree /\ OneRowPerMember
  BY <1>0, <1>1 DEF ClientIsUnique, Stored, MediaLinksAgree, OneRowPerMember
<1> QED BY <1>2, <1>3, <1>4, <1>5 DEF IInv

LEMMA StepKeepsInvariant ==
  ASSUME IInv, [Next]_vars
  PROVE  IInv'
<1> USE DEF IInv
<1>1. TypeOK'
  BY StepKeepsType
<1>2. /\ WorkNames' /\ CopiesWereTried' /\ FlagMeansRow'
      /\ RowsCounted' /\ ClientIsUnique'
  BY <1>1, StillNames, FlagStillMeansRow, RowsStayCounted, ClientStaysUnique
<1>3. ASSUME ~overlapped'
      PROVE  ~overlapped /\ Alone' /\ ReadStillHolds'
  <2>1. ~overlapped
    BY <1>3, SerialSteps
  <2> QED BY <1>1, <1>3, <2>1, StaysAlone, ReadsStillHold
<1>4. MediaLinksAgree'
  BY <1>3, LinksStayAgreed DEF MediaLinksAgree
<1>5. OneRowPerMember'
  BY <1>3, RowsStayUnique DEF OneRowPerMember
<1> QED BY <1>1, <1>2, <1>3, <1>4, <1>5

(* Well-typed tables, drafts that are stored once, and as long as no two   *)
(* transactions were open at once what an open one has read still holds.   *)
THEOREM MessagesInvariantHolds == Spec => []IInv
<1>1. Init => IInv
  BY InitInvariant
<1>2. IInv /\ [Next]_vars => IInv'
  BY StepKeepsInvariant
<1> QED BY <1>1, <1>2, PTL DEF Spec

(* Tables, drafts and open requests keep their types: a user never has     *)
(* more rows in the group than requests may be open, and none is removed   *)
(* that was not there.                                                     *)
THEOREM MessagesTypeCorrect == Spec => []TypeOK
<1>1. IInv => TypeOK
  BY DEF IInv
<1> QED BY <1>1, MessagesInvariantHolds, PTL

(* However often a draft is sent and however its requests interleave, its  *)
(* message is in the table once.                                           *)
THEOREM DraftsAreSentOnce == Spec => []SentOnce
<1>1. ASSUME IInv, NEW c \in Draft
      PROVE  Cardinality({m \in Message : messages[m].client = c}) <= 1
  <2> DEFINE rows == {m \in Message : messages[m].client = c}
  <2>1. ASSUME rows = {} PROVE Cardinality(rows) <= 1
    <3> HIDE DEF rows
    <3> QED BY <2>1, FS_EmptySet
  <2>2. ASSUME rows # {} PROVE Cardinality(rows) <= 1
    <3>1. PICK m \in rows : TRUE
      BY <2>2
    <3>2. rows = {m}
      BY <1>1, <3>1, MessagesAssumption DEF IInv, ClientIsUnique, Stored
    <3> HIDE DEF rows
    <3>3. Cardinality(rows) = 1
      BY <3>2, FS_Singleton
    <3> QED BY <3>3
  <2> HIDE DEF rows
  <2>3. Cardinality(rows) <= 1
    BY <2>1, <2>2
  <2> QED BY <2>3 DEF rows
<1>2. IInv => SentOnce
  BY <1>1 DEF SentOnce
<1> QED BY <1>2, MessagesInvariantHolds, PTL

(* As long as no two transactions were open at once, an upload belongs to  *)
(* the one message that refers to it.                                      *)
THEOREM UploadsHaveOneMessage == Spec => []MediaLinksAgree
<1>1. IInv => MediaLinksAgree
  BY DEF IInv
<1> QED BY <1>1, MessagesInvariantHolds, PTL

(* As long as no two transactions were open at once, a user has at most    *)
(* one row in the group.                                                   *)
THEOREM MembersAreListedOnce == Spec => []OneRowPerMember
<1>1. IInv => OneRowPerMember
  BY DEF IInv
<1> QED BY <1>1, MessagesInvariantHolds, PTL
=============================================================================

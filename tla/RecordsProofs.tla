---------------------------- MODULE RecordsProofs ---------------------------
(* Proofs about what is recorded of the other topics of Backend: that it   *)
(* is one and only, counted, or true of something. What a request writes   *)
(* is looked at when it begins (Futures, Outcomes), its commit changes     *)
(* nothing then: each handler is shown to write a table of which it holds, *)
(* and the handlers of a topic to keep it (the ...Stay lemmas). The last   *)
(* section puts the topics together with the types and the justification   *)
(* of BackendProofs, and states the theorems.                              *)
EXTENDS BackendProofs, SequenceTheorems

-----------------------------------------------------------------------------
(* The records of a meeting.                                               *)
RecordNames == {"is", "kind", "who"}

LEMMA RecordColumns ==
  ASSUME RecordsTyped, topic = "records", NEW r \in Row
  PROVE  /\ r \in DOMAIN db /\ DOMAIN db[r] = {"is", "kind", "who", "value", "status"}
         /\ db[r].value \in Nat
<1>1. db[r] \in RecordRow /\ r \in DOMAIN db
  BY RecordRows DEF RecordsTyped, Typed
<1> QED BY <1>1 DEF RecordRow

(* A request leaves what the rows are about as it is, or makes one row.    *)
LeavesRecords(w) ==
  \A c \in w : c[1] \in Row => Here(c[1]) /\ c[2] \notin RecordNames
MakesRow(w, r, kind, u) ==
  /\ kind \in Kinds /\ u \in User
  /\ MakesRecord(w, r, kind, u)
  /\ db[r].is = "none" /\ ~Pending(r)
  /\ kind \in {"vote", "assignment"} => Of(kind, u) = {}

LEMMA RowIsMade ==
  ASSUME KindsKept, topic = "records", NEW r \in Row, NEW kind \in Kinds, NEW u \in User,
         New(r), kind \in {"vote", "assignment"} => Of(kind, u) = {},
         NEW w, \A c \in w : c[1] = r /\ c[2] = "value"
  PROVE  MakesRow(Insert(r, Owned(kind, u)) \cup w, r, kind, u)
<1> DEFINE columns == [kind |-> kind, who |-> u]
           v == Insert(r, columns)
<1>1. db[r].is = "none" /\ ~Pending(r)
  BY DEF New, Unused
<1>2. db[r].kind # kind /\ db[r].who # u
  BY <1>1, ToolsAssumption, MeetingsAssumption DEF KindsKept
<1>3. <<r, "is", "here">> \in v
  BY DEF Insert
<1>4. <<r, "kind", kind>> \in v /\ <<r, "who", u>> \in v
  BY <1>2 DEF Insert, Update, Change
<1>5. DOMAIN columns = {"kind", "who"} /\ columns["kind"] = kind /\ columns["who"] = u
  OBVIOUS
<1>6. v = Insert(r, Owned(kind, u))
  BY DEF Owned
<1> HIDE DEF columns
<1>7. \A c \in Update(r, columns) : c[1] = r /\ c[2] \in {"kind", "who"} /\ c[3] = columns[c[2]]
  BY <1>5, UpdateShape
<1>8. \A c \in v : c[1] = r /\ ((c[2] = "is" /\ c[3] = "here") \/ c \in Update(r, columns))
  BY InsertShape
<1> HIDE DEF v
<1>9. \A c \in v : /\ c[1] = r
                   /\ c[2] = "is" => c[3] = "here"
                   /\ c[2] = "kind" => c[3] = kind
                   /\ c[2] = "who" => c[3] = u
  BY <1>5, <1>7, <1>8
<1>10. MakesRecord(v \cup w, r, kind, u)
  BY <1>3, <1>4, <1>9 DEF MakesRecord
<1> QED BY <1>1, <1>6, <1>10 DEF MakesRow

LEMMA RecordIsKept ==
  ASSUME RecordsTyped, topic = "records", NEW w, NEW r \in Row,
         \A c \in w : c[1] = r => c[2] \notin RecordNames
  PROVE  /\ IsIn(Written(w), r) = Here(r) /\ Written(w)[r].is = db[r].is
         /\ Written(w)[r].kind = db[r].kind /\ Written(w)[r].who = db[r].who
<1>1. ~Writes(w, r, "is") /\ ~Writes(w, r, "kind") /\ ~Writes(w, r, "who")
  BY DEF Writes, RecordNames
<1> QED BY <1>1, RecordColumns, WrittenKeeps DEF IsIn, Here

LEMMA RecordIsWritten ==
  ASSUME RecordsTyped, topic = "records", NEW w, NEW r \in Row, NEW kind, NEW u,
         MakesRecord(w, r, kind, u)
  PROVE  Written(w)[r].is = "here" /\ Written(w)[r].kind = kind /\ Written(w)[r].who = u
<1>1. Writes(w, r, "is") /\ Writes(w, r, "kind") /\ Writes(w, r, "who")
  BY DEF MakesRecord, Writes
<1>2. \A c \in w : /\ c[2] = "is" => c[3] = "here"
                   /\ c[2] = "kind" => c[3] = kind
                   /\ c[2] = "who" => c[3] = u
  BY DEF MakesRecord
<1>3. r \in DOMAIN db /\ DOMAIN db[r] = {"is", "kind", "who", "value", "status"}
  BY RecordColumns
<1>4. Written(w)[r].is = "here"
  BY <1>1, <1>2, <1>3, WrittenValue
<1>5. Written(w)[r].kind = kind
  BY <1>1, <1>2, <1>3, WrittenValue
<1>6. Written(w)[r].who = u
  BY <1>1, <1>2, <1>3, WrittenValue
<1> QED BY <1>4, <1>5, <1>6

LEMMA BallotsStay ==
  ASSUME RecordsTyped, topic = "records", NEW w, OneBallotIn(db),
         LeavesRecords(w) \/ \E r \in Row : \E kind, u : MakesRow(w, r, kind, u)
  PROVE  OneBallotIn(Written(w))
<1> DEFINE T == Written(w)
<1>1. CASE LeavesRecords(w)
  <2>1. \A r \in Row : /\ IsIn(T, r) = Here(r)
                       /\ T[r].kind = db[r].kind /\ T[r].who = db[r].who
    BY <1>1, RecordIsKept DEF LeavesRecords
  <2> HIDE DEF T
  <2> QED BY <2>1 DEF OneBallotIn, IsIn, Here, T
<1>2. ASSUME NEW r \in Row, NEW kind, NEW u, MakesRow(w, r, kind, u) PROVE OneBallotIn(T)
  <2>1. \A q \in Row \ {r} : /\ IsIn(T, q) = Here(q)
                             /\ T[q].kind = db[q].kind /\ T[q].who = db[q].who
    BY <1>2, RecordIsKept DEF MakesRow, MakesRecord
  <2>2. T[r].kind = kind /\ T[r].who = u
    BY <1>2, RecordIsWritten DEF MakesRow
  <2> HIDE DEF T
  <2>3. kind \in {"vote", "assignment"} => \A q \in Row : ~(Here(q) /\ db[q].kind = kind /\ db[q].who = u)
    BY <1>2 DEF MakesRow, Of, Table
  <2> QED BY <2>1, <2>2, <2>3 DEF OneBallotIn, IsIn, Here
<1> QED BY <1>1, <1>2

(* What is open stays one row's, or about none.                            *)
RecordsOpen ==
  /\ \A r \in Row :
       /\ db[r].is \in {"none", "here"}
       /\ db[r].is = "none" => db[r].kind = None /\ db[r].who = None /\ db[r].value = 0
  /\ \A t \in DOMAIN open : \A c \in open[t] :
       c[1] \in Row /\ c[2] \in RecordNames =>
         /\ db[c[1]].is = "none" /\ Only(t, c[1])
         /\ \E kind \in Kinds, u \in User : MakesRecord(open[t], c[1], kind, u)
UniqueRecords ==
  \A p, q \in Row :
    /\ Here(p) /\ Here(q) /\ db[p].kind = db[q].kind /\ db[p].who = db[q].who
    /\ db[p].kind \in Unique
    => p = q
RecordsAlone ==
  ~overlapped => /\ \A T \in Futures : OneBallotIn(T)
                 /\ \A T \in Outcomes : UpvotesIn(T)

LEMMA KindsInParts ==
  /\ KindsKept <=> (topic = "records" => RecordsOpen /\ UniqueRecords /\ RecordsAlone)
  /\ KindsKept' <=> (topic' = "records" => RecordsOpen' /\ UniqueRecords' /\ RecordsAlone')
BY DEF KindsKept, RecordsOpen, UniqueRecords, RecordsAlone, RecordNames

LEMMA RecordsCall ==
  ASSUME RecordsOpen, UniqueRecords, topic = "records", DOMAIN open = Slot \cup Job, NEW w, Call(w),
         LeavesRecords(w) \/ \E r \in Row : \E kind, u : MakesRow(w, r, kind, u)
  PROVE  RecordsOpen' /\ UniqueRecords'
<1>1. PICK t \in Slot : Opens(t, w)
  BY CallOpens
<1>2. db' = db /\ DOMAIN open' = DOMAIN open /\ t \in DOMAIN open /\ open[t] = {} /\ open'[t] = w
      /\ \A s \in DOMAIN open \ {t} : open'[s] = open[s]
  BY <1>1 DEF Opens
<1>3. UniqueRecords'
  BY <1>2 DEF UniqueRecords, Here
<1>4. ASSUME NEW s \in DOMAIN open', NEW c \in open'[s], c[1] \in Row, c[2] \in RecordNames
      PROVE  /\ db[c[1]].is = "none" /\ Only(s, c[1])'
             /\ \E kind \in Kinds, u \in User : MakesRecord(open'[s], c[1], kind, u)
  <2>1. CASE s = t
    <3>1. ~LeavesRecords(w)
      BY <1>2, <1>4, <2>1 DEF LeavesRecords
    <3>0. PICK r \in Row : \E kind, u : MakesRow(w, r, kind, u)
      BY <3>1
    <3>2. PICK kind, u : MakesRow(w, r, kind, u)
      BY <3>0
    <3>3. c[1] = r
      BY <1>2, <1>4, <2>1, <3>2 DEF MakesRow, MakesRecord
    <3>4. \A x \in DOMAIN open \ {t} : \A d \in open'[x] : d[1] # r
      BY <1>2, <3>2 DEF MakesRow, Pending
    <3> QED BY <1>2, <2>1, <3>2, <3>3, <3>4 DEF MakesRow, Only
  <2>2. CASE s # t
    <3>1. c \in open[s] /\ s \in DOMAIN open
      BY <1>2, <1>4, <2>2
    <3>2. /\ db[c[1]].is = "none" /\ Only(s, c[1])
          /\ \E kind \in Kinds, u \in User : MakesRecord(open[s], c[1], kind, u)
      BY <1>4, <3>1 DEF RecordsOpen
    <3>3. \A d \in w : d[1] # c[1]
      <4>1. ASSUME LeavesRecords(w) PROVE \A d \in w : d[1] # c[1]
        BY <1>4, <3>2, <4>1 DEF LeavesRecords, Here
      <4>2. ASSUME NEW r \in Row, NEW kind, NEW u, MakesRow(w, r, kind, u) PROVE \A d \in w : d[1] # c[1]
        BY <3>1, <4>2 DEF MakesRow, MakesRecord, Pending
      <4> QED BY <4>1, <4>2
    <3> QED BY <1>2, <2>2, <3>2, <3>3 DEF Only
  <2> QED BY <2>1, <2>2
<1> QED BY <1>2, <1>3, <1>4 DEF RecordsOpen

(* The votes that were given to a question.                                *)
LEMMA KindsCall ==
  ASSUME KindsKept, RecordsTyped, topic = "records", DOMAIN open = Slot \cup Job, NEW w, Call(w), w # {},
         LeavesRecords(w) \/ (\E r \in Row : \E kind, u : MakesRow(w, r, kind, u)),
         \A T : T = Written(w) /\ UpvotesIn(db) => UpvotesIn(T)'
  PROVE  KindsKept'
<1>1. RecordsOpen /\ UniqueRecords /\ RecordsAlone
  BY KindsInParts
<1>2. RecordsOpen' /\ UniqueRecords'
  BY <1>1, RecordsCall
<1>3. ASSUME ~overlapped' PROVE (\A T \in Futures' : OneBallotIn(T)) /\ \A T \in Outcomes' : UpvotesIn(T)'
  <2>1. PICK t \in Slot : Opens(t, w)
    BY CallOpens
  <2>2. Quiet /\ ~overlapped
    BY <1>3, <2>1 DEF Opens
  <2>3. Outcomes = {db} /\ UpvotesIn(db)
    BY <1>1, <2>2 DEF Outcomes, RecordsAlone
  <2>4. \A T \in Outcomes' : T = Written(w)
    <3>1. \A x : Written(x)' = Written(x)
      BY <2>1, WrittenStays DEF Opens
    <3>2. t \in DOMAIN open' /\ open'[t] = w
      BY <2>1 DEF Opens
    <3>3. ~Quiet'
      BY <3>2 DEF Quiet
    <3>4. \A s \in Opened' : open'[s] = w
      BY <2>1, <2>2 DEF Opens, Opened, Quiet
    <3>5. Outcomes' = {Written(open[s])' : s \in Opened'}
      BY <3>3 DEF Outcomes
    <3> QED BY <3>1, <3>4, <3>5
  <2>5. db \in Futures /\ \A T \in Futures' : T \in Futures \/ T = Written(w)
    BY CallFutures
  <2>6. OneBallotIn(Written(w))
    BY <1>1, <2>2, <2>5, BallotsStay DEF RecordsAlone
  <2> QED BY <1>1, <2>2, <2>3, <2>4, <2>5, <2>6 DEF RecordsAlone
<1>4. \A T : OneBallotIn(T)' = OneBallotIn(T)
  BY DEF OneBallotIn, IsIn
<1> QED BY <1>2, <1>3, <1>4, KindsInParts DEF RecordsAlone

LEMMA ValueIsKept ==
  ASSUME RecordsTyped, topic = "records", NEW w, NEW r \in Row,
         \A c \in w : c[1] = r => c[2] # "value"
  PROVE  Written(w)[r].value = db[r].value
<1>1. ~Writes(w, r, "value")
  BY DEF Writes
<1> QED BY <1>1, RecordColumns, WrittenKeeps

LEMMA NoVoteIsCounted ==
  ASSUME KindsKept, RecordsTyped, topic = "records", DOMAIN open = Slot \cup Job, NEW w, Request(w),
         LeavesRecords(w),
         \A c \in w : c[1] \in Row /\ c[2] = "value" => db[c[1]].kind # "question"
  PROVE  KindsKept'
<1> DEFINE T == Written(w)
<1>1. ASSUME NEW r \in Row
      PROVE  T[r].kind = db[r].kind /\ (db[r].kind = "question" => T[r].value = db[r].value)
  BY RecordIsKept, ValueIsKept DEF LeavesRecords
<1> HIDE DEF T
<1>2. outside' = outside
  BY DEF Request
<1>3. \A V : V = Written(w) /\ UpvotesIn(db) => UpvotesIn(V)'
  BY <1>1, <1>2 DEF UpvotesIn, T
<1> QED BY <1>3, KindsCall DEF Request

LEMMA RowIsCounted ==
  ASSUME KindsKept, RecordsTyped, topic = "records", DOMAIN open = Slot \cup Job, NEW w, Request(w),
         NEW r \in Row, NEW kind, NEW u, MakesRow(w, r, kind, u),
         kind = "question" => \A c \in w : c[2] # "value"
  PROVE  KindsKept'
<1> DEFINE T == Written(w)
<1>1. db[r].kind = None /\ db[r].value = 0
  BY DEF MakesRow, KindsKept
<1>2. T[r].kind = kind /\ (kind = "question" => T[r].value = 0)
  BY <1>1, RecordIsWritten, ValueIsKept DEF MakesRow
<1>3. ASSUME NEW q \in Row \ {r} PROVE T[q].kind = db[q].kind /\ T[q].value = db[q].value
  BY RecordIsKept, ValueIsKept DEF MakesRow, MakesRecord
<1> HIDE DEF T
<1>4. None # "question"
  BY ToolsAssumption DEF Kinds
<1>5. \A V : V = Written(w) /\ UpvotesIn(db) => UpvotesIn(V)'
  BY <1>1, <1>2, <1>3, <1>4 DEF UpvotesIn, T, Request
<1>6. \E q \in Row : \E k, v : MakesRow(w, q, k, v)
  OBVIOUS
<1> QED BY <1>5, <1>6, KindsCall DEF Request

LEMMA VoteIsCounted ==
  ASSUME KindsKept, RecordsTyped, topic = "records", DOMAIN open = Slot \cup Job,
         NEW r \in Row, UpvoteQuestion(r)
  PROVE  KindsKept'
<1> DEFINE n == db[r].value + 1
           w == Change(r, "value", n)
           T == Written(w)
<1>1. Call(w) /\ Here(r) /\ db[r].kind = "question"
  BY DEF UpvoteQuestion, InMeeting
<1>2. db[r].value \in Nat /\ n # db[r].value /\ n = db[r].value + 1
  BY RecordColumns
<1> HIDE DEF n
<1>3. /\ \A c \in w : c[1] = r /\ c[2] = "value" /\ c[3] = n
      /\ db[r]["value"] = n \/ Writes(w, r, "value")
  BY ChangeShape
<1>4. w # {}
  BY <1>2, <1>3 DEF Writes
<1> HIDE DEF w
<1>5. LeavesRecords(w)
  BY <1>1, <1>3 DEF LeavesRecords, RecordNames
<1>6. r \in DOMAIN db /\ DOMAIN db[r] = {"is", "kind", "who", "value", "status"}
  BY RecordColumns
<1>7. T[r].value = n
  BY <1>3, <1>6, WrittenValue
<1>8. ASSUME NEW q \in Row PROVE T[q].kind = db[q].kind /\ (q # r => T[q].value = db[q].value)
  BY <1>3, RecordIsKept, ValueIsKept DEF RecordNames
<1> HIDE DEF T
<1> DEFINE votes == [outside.upvotes EXCEPT ![r] = @ + 1]
<1>9. outside' = [outside EXCEPT !.upvotes = votes]
  BY DEF UpvoteQuestion
<1>10. /\ DOMAIN outside = {"upvotes", "inBreakout"} /\ outside.upvotes \in [Row -> Nat]
  BY DEF RecordsTyped
<1>11. votes[r] = outside.upvotes[r] + 1 /\ \A q \in Row \ {r} : votes[q] = outside.upvotes[q]
  BY <1>10
<1> HIDE DEF votes
<1>12. outside'.upvotes = votes
  BY <1>9, <1>10
<1>13. \A V : V = Written(w) /\ UpvotesIn(db) => UpvotesIn(V)'
  BY <1>1, <1>2, <1>7, <1>8, <1>11, <1>12 DEF UpvotesIn, T
<1> QED BY <1>1, <1>4, <1>5, <1>13, KindsCall DEF w, n

(* Commits, and the constraints that hold one back.                        *)
LEMMA RecordsCommit ==
  ASSUME KindsKept, RecordsTyped, topic = "records", DOMAIN open = Slot \cup Job, OpenAlone,
         NEW t \in Slot, CommitRecords(t)
  PROVE  KindsKept'
<1> DEFINE w == open[t]
<1>1. Closes(t) /\ Lawful(w) /\ db' = Written(w) /\ outside' = outside /\ ~Taken(w) /\ Commit(t)
  BY CommitCloses DEF CommitRecords
<1>2. t \in DOMAIN open /\ w # {}
  BY <1>1 DEF Commit
<1>3. RecordsOpen /\ UniqueRecords /\ RecordsAlone
  BY KindsInParts
<1>4. ASSUME NEW r \in Row
      PROVE  \/ \E kind \in Kinds, u \in User : db[r].is = "none" /\ MakesRecord(w, r, kind, u)
             \/ /\ \A c \in w : c[1] = r => c[2] \notin RecordNames
                /\ db'[r].is = db[r].is /\ db'[r].kind = db[r].kind /\ db'[r].who = db[r].who
  <2>1. CASE \E c \in w : c[1] = r /\ c[2] \in RecordNames
    BY <1>2, <1>3, <2>1 DEF RecordsOpen
  <2>2. CASE \A c \in w : c[1] = r => c[2] \notin RecordNames
    BY <1>1, <2>2, RecordIsKept
  <2> QED BY <2>1, <2>2
<1> HIDE DEF w
<1>5. ASSUME NEW r \in Row
      PROVE  /\ db'[r].is \in {"none", "here"}
             /\ db'[r].is = "none" => db'[r].kind = None /\ db'[r].who = None /\ db'[r].value = 0
  <2>1. CASE \E kind \in Kinds, u \in User : MakesRecord(w, r, kind, u)
    <3>1. db'[r].is = "here"
      BY <1>1, <2>1, RecordIsWritten
    <3> QED BY <3>1
  <2>2. CASE db'[r].is = db[r].is /\ db'[r].kind = db[r].kind /\ db'[r].who = db[r].who
             /\ \A c \in w : c[1] = r => c[2] \notin RecordNames
    <3>1. db[r].is = "none" => \A c \in w : c[1] # r
      BY <1>1, <2>2 DEF Lawful, Here, Writes, RecordNames
    <3>2. db[r].is = "none" => db'[r].value = db[r].value
      BY <1>1, <3>1, ValueIsKept
    <3> QED BY <1>3, <2>2, <3>2 DEF RecordsOpen
  <2> QED BY <1>4, <2>1, <2>2
<1>6. /\ DOMAIN open' = DOMAIN open
      /\ \A s \in DOMAIN open' : open'[s] = {} \/ (s # t /\ open'[s] = open[s])
  BY <1>1 DEF Closes
<1>7. ASSUME NEW s \in DOMAIN open', NEW c \in open'[s], c[1] \in Row, c[2] \in RecordNames
      PROVE  /\ db'[c[1]].is = "none" /\ Only(s, c[1])'
             /\ \E kind \in Kinds, u \in User : MakesRecord(open'[s], c[1], kind, u)
  <2>1. s # t /\ open'[s] = open[s] /\ s \in DOMAIN open
    BY <1>6, <1>7
  <2>2. /\ db[c[1]].is = "none" /\ Only(s, c[1])
        /\ \E kind \in Kinds, u \in User : MakesRecord(open[s], c[1], kind, u)
    BY <1>3, <1>7, <2>1 DEF RecordsOpen
  <2>3. \A d \in w : d[1] # c[1]
    BY <1>2, <2>1, <2>2 DEF Only, w
  <2>4. db'[c[1]].is = db[c[1]].is
    BY <1>1, <1>7, <2>3, RecordIsKept
  <2>5. Only(s, c[1])'
    BY <1>6, <2>2 DEF Only
  <2> QED BY <2>1, <2>2, <2>4, <2>5
<1>8. UniqueRecords'
  <2>1. ASSUME NEW p \in Row, NEW q \in Row, p # q, NEW kind \in Kinds, NEW u \in User,
               MakesRecord(w, p, kind, u), db'[q].is = "here",
               db'[q].kind = kind, db'[q].who = u, kind \in Unique
        PROVE  FALSE
    <3>1. Here(q) /\ db[q].kind = kind /\ db[q].who = u
      <4>1. \A c \in w : c[1] # q
        BY <2>1 DEF MakesRecord
      <4> QED BY <1>1, <2>1, <4>1, RecordIsKept DEF Here
    <3>2. Writes(w, p, "is") /\ <<p, "kind", kind>> \in w /\ <<p, "who", u>> \in w
      BY <2>1 DEF MakesRecord, Writes
    <3>3. Of(kind, u) # {}
      BY <3>1 DEF Of, Table
    <3> QED BY <1>1, <2>1, <3>2, <3>3 DEF Taken
  <2>2. \A r \in Row : \A kind, u : MakesRecord(w, r, kind, u) =>
          db'[r].kind = kind /\ db'[r].who = u
    BY <1>1, RecordIsWritten
  <2>3. ASSUME NEW p \in Row, NEW q \in Row, db'[p].is = "here", db'[q].is = "here",
               db'[p].kind = db'[q].kind, db'[p].who = db'[q].who, db'[p].kind \in Unique, p # q
        PROVE  FALSE
    <3>1. CASE \E kind \in Kinds, u \in User : MakesRecord(w, p, kind, u)
      BY <2>1, <2>2, <2>3, <3>1
    <3>2. CASE \E kind \in Kinds, u \in User : MakesRecord(w, q, kind, u)
      BY <2>1, <2>2, <2>3, <3>2
    <3>3. CASE /\ db'[p].is = db[p].is /\ db'[p].kind = db[p].kind /\ db'[p].who = db[p].who
               /\ db'[q].is = db[q].is /\ db'[q].kind = db[q].kind /\ db'[q].who = db[q].who
      BY <1>3, <2>3, <3>3 DEF UniqueRecords, Here
    <3> QED BY <1>4, <3>1, <3>2, <3>3
  <2> QED BY <2>3 DEF UniqueRecords, Here
<1>9. RecordsAlone'
  <2>1. UNCHANGED overlapped
    BY <1>1 DEF Commit
  <2>2. ~overlapped => Futures' \subseteq Futures
    BY <1>1, EndFutures
  <2>3. ~overlapped => Quiet'
    BY <1>1, NoneIsLeft DEF Quiet
  <2>4. ~overlapped => Outcomes' = {Written(w)}
    BY <1>1, <2>3 DEF Outcomes
  <2>5. Written(w) \in Outcomes
    BY <1>2 DEF Outcomes, Quiet, Opened, w
  <2> QED BY <1>1, <1>3, <2>1, <2>2, <2>4, <2>5 DEF RecordsAlone, OneBallotIn, UpvotesIn, IsIn
<1>10. RecordsOpen'
  BY <1>5, <1>7 DEF RecordsOpen
<1> QED BY <1>8, <1>9, <1>10, KindsInParts

LEMMA RecordsFail ==
  ASSUME KindsKept, RecordsTyped, topic = "records", DOMAIN open = Slot \cup Job, OpenAlone,
         NEW t \in Slot, FailRecords(t)
  PROVE  KindsKept'
<1> DEFINE w == open[t]
<1>1. Closes(t) /\ db' = db /\ outside' = outside /\ Taken(w) /\ RollBack(t) /\ UNCHANGED overlapped
  BY RollBackCloses DEF FailRecords, RollBack
<1>2. t \in DOMAIN open /\ w # {}
  BY <1>1 DEF RollBack
<1>3. RecordsOpen /\ UniqueRecords /\ RecordsAlone
  BY KindsInParts
<1>4. /\ DOMAIN open' = DOMAIN open
      /\ \A s \in DOMAIN open' : open'[s] = {} \/ open'[s] = open[s]
  BY <1>1 DEF Closes
<1>5. RecordsOpen' /\ UniqueRecords'
  BY <1>1, <1>3, <1>4 DEF RecordsOpen, UniqueRecords, Here, Only
<1>6. ASSUME ~overlapped PROVE UpvotesIn(db)
  <2>1. PICK r \in Row, kind \in Unique : Writes(w, r, "is") /\ <<r, "kind", kind>> \in w
    BY <1>1 DEF Taken
  <2>2. PICK c \in w : c[1] = r /\ c[2] = "is"
    BY <2>1 DEF Writes
  <2>3. PICK k \in Kinds, u \in User : MakesRecord(w, r, k, u)
    BY <1>2, <1>3, <2>2 DEF RecordsOpen, RecordNames
  <2>4. db[r].is = "none"
    BY <1>2, <1>3, <2>2 DEF RecordsOpen, RecordNames
  <2>5. kind = k
    <3> DEFINE d == <<r, "kind", kind>>
    <3>1. d \in w /\ d[2] = "kind" /\ d[3] = kind
      BY <2>1
    <3> HIDE DEF d
    <3> QED BY <2>3, <3>1 DEF MakesRecord
  <2> DEFINE T == Written(w)
  <2>6. T \in Outcomes
    BY <1>2 DEF Outcomes, Quiet, Opened
  <2>7. T[r].kind = kind
    BY <2>3, <2>5, RecordIsWritten
  <2>8. ASSUME NEW q \in Row \ {r} PROVE T[q].kind = db[q].kind /\ T[q].value = db[q].value
    BY <2>3, RecordIsKept, ValueIsKept DEF MakesRecord
  <2> HIDE DEF T
  <2>9. UpvotesIn(T)
    BY <1>3, <1>6, <2>6 DEF RecordsAlone
  <2>10. kind # "question" /\ db[r].kind # "question"
    <3>1. db[r].kind = None
      BY <1>3, <2>4 DEF RecordsOpen
    <3> QED BY <3>1, ToolsAssumption DEF Kinds, Unique
  <2> QED BY <2>7, <2>8, <2>9, <2>10 DEF UpvotesIn
<1>7. RecordsAlone'
  <2>1. ~overlapped => Futures' \subseteq Futures
    BY <1>1, EndFutures
  <2>2. ~overlapped => Quiet'
    BY <1>1, NoneIsLeft DEF Quiet
  <2>3. ~overlapped => Outcomes' = {db}
    BY <1>1, <2>2 DEF Outcomes
  <2> QED BY <1>1, <1>3, <1>6, <2>1, <2>3 DEF RecordsAlone, OneBallotIn, UpvotesIn, IsIn
<1> QED BY <1>5, <1>7, KindsInParts

LEMMA RecordIsUpserted ==
  ASSUME KindsKept, RecordsTyped, topic = "records", DOMAIN open = Slot \cup Job,
         NEW u \in User, NEW kind \in Kinds \ {"question", "assignment"}, NEW r \in Row, NEW n,
         Upsert(Of(kind, u), r, Owned(kind, u), [value |-> n])
  PROVE  KindsKept'
<1> DEFINE columns == [value |-> n]
           v == Update(r, columns)
<1>1. DOMAIN columns = {"value"}
  OBVIOUS
<1>2. \/ Of(kind, u) = {r} /\ Request(v)
      \/ Of(kind, u) = {} /\ New(r) /\ Request(Insert(r, Owned(kind, u)) \cup v)
  BY DEF Upsert
<1> HIDE DEF columns
<1>3. \A c \in v : c[1] = r /\ c[2] = "value"
  BY <1>1, UpdateShape
<1> HIDE DEF v
<1>4. CASE Of(kind, u) = {r} /\ Request(v)
  <2>1. Here(r) /\ db[r].kind = kind
    BY <1>4 DEF Of, Table
  <2> QED BY <1>3, <1>4, <2>1, NoVoteIsCounted DEF LeavesRecords, RecordNames
<1>5. CASE Of(kind, u) = {} /\ New(r) /\ Request(Insert(r, Owned(kind, u)) \cup v)
  <2>1. MakesRow(Insert(r, Owned(kind, u)) \cup v, r, kind, u)
    BY <1>3, <1>5, RowIsMade
  <2> QED BY <1>5, <2>1, RowIsCounted
<1> QED BY <1>2, <1>4, <1>5

LEMMA RecordIsInserted ==
  ASSUME KindsKept, RecordsTyped, topic = "records", DOMAIN open = Slot \cup Job,
         NEW u \in User, NEW kind \in Kinds, NEW r \in Row,
         kind \in {"vote", "assignment"} => Of(kind, u) = {},
         New(r), Request(Insert(r, Owned(kind, u)))
  PROVE  KindsKept'
<1> DEFINE w == Insert(r, Owned(kind, u))
           columns == [kind |-> kind, who |-> u]
<1>1. MakesRow(w \cup {}, r, kind, u)
  BY RowIsMade
<1>2. \A x : x \cup {} = x
  OBVIOUS
<1>3. DOMAIN columns = {"kind", "who"}
  OBVIOUS
<1>4. w = Insert(r, columns)
  BY DEF Owned
<1> HIDE DEF columns, w
<1>5. \A c \in w : c[2] # "value"
  BY <1>3, <1>4, InsertNames
<1>6. MakesRow(w, r, kind, u)
  BY <1>1, <1>2
<1> QED BY <1>5, <1>6, RowIsCounted DEF w

LEMMA KindsStay ==
  ASSUME KindsKept, RecordsTyped, topic = "records", DOMAIN open = Slot \cup Job, OpenAlone, RecordsNext
  PROVE  KindsKept'
<1> USE DEF Kinds, Unique
<1>1. ASSUME NEW k \in {Poll, Breakout}, NEW w, Request(w), \A c \in w : c[1] = k PROVE KindsKept'
  <2>1. k \notin Row
    BY ToolsAssumption
  <2> QED BY <1>1, <2>1, NoVoteIsCounted DEF LeavesRecords
<1>2. ASSUME NEW k \in {Poll, Breakout}, Request(Insert(k, [closed |-> FALSE])) \/ Request(Change(k, "closed", TRUE))
      PROVE  KindsKept'
  <2>1. \A columns : \A c \in Insert(k, columns) : c[1] = k
    BY InsertShape
  <2>2. \A v : \A c \in Change(k, "closed", v) : c[1] = k
    BY ChangeShape
  <2> QED BY <1>1, <1>2, <2>1, <2>2
<1>3. ASSUME NEW r \in Row, NEW status, Here(r), Request(Change(r, "status", status)) PROVE KindsKept'
  <2>1. \A c \in Change(r, "status", status) : c[1] = r /\ c[2] = "status"
    BY ChangeShape
  <2> QED BY <1>3, <2>1, NoVoteIsCounted DEF LeavesRecords, RecordNames
<1>4. ASSUME PollsAndQuestions PROVE KindsKept'
  <2>1. CreatePoll \/ ClosePoll => KindsKept'
    BY <1>2 DEF CreatePoll, ClosePoll
  <2>2. ASSUME NEW u \in User, NEW r \in Row, NEW o, VotePoll(u, o, r) PROVE KindsKept'
    BY <2>2, RecordIsUpserted DEF VotePoll
  <2>3. ASSUME NEW u \in User, NEW r \in Row, AskQuestion(u, r) PROVE KindsKept'
    BY <2>3, RecordIsInserted DEF AskQuestion
  <2>4. ASSUME NEW r \in Row, AnswerQuestion(r) \/ DismissQuestion(r) PROVE KindsKept'
    BY <1>3, <2>4 DEF AnswerQuestion, DismissQuestion, InMeeting
  <2> QED BY <1>4, <2>1, <2>2, <2>3, <2>4, VoteIsCounted DEF PollsAndQuestions
<1>5. ASSUME NEW u \in User, JoinBreakoutRoom(u) PROVE KindsKept'
  <2>1. UNCHANGED tables /\ outside' = [outside EXCEPT !.inBreakout = @ \cup {u}]
    BY <1>5 DEF JoinBreakoutRoom, Outside
  <2>2. outside'.upvotes = outside.upvotes
    BY <2>1 DEF RecordsTyped
  <2>3. UNCHANGED <<topic, db, open, overlapped>>
    BY <2>1 DEF tables
  <2>4. Futures' = Futures /\ Outcomes' = Outcomes
    BY <2>1, StillFutures
  <2>5. RecordsOpen /\ UniqueRecords /\ RecordsAlone
    BY KindsInParts
  <2>6. RecordsOpen' /\ UniqueRecords'
    BY <2>3, <2>5 DEF RecordsOpen, UniqueRecords, Only, Here
  <2>7. RecordsAlone'
    BY <2>2, <2>3, <2>4, <2>5 DEF RecordsAlone, OneBallotIn, UpvotesIn, IsIn
  <2> QED BY <2>6, <2>7, KindsInParts
<1>6. ASSUME Breakouts PROVE KindsKept'
  <2>1. CreateBreakoutRooms \/ CloseBreakoutRooms => KindsKept'
    BY <1>2 DEF CreateBreakoutRooms, CloseBreakoutRooms
  <2>2. ASSUME NEW u \in User, NEW r \in Row, AssignToBreakoutRoom(u, r) PROVE KindsKept'
    BY <2>2, RecordIsInserted DEF AssignToBreakoutRoom
  <2> QED BY <1>5, <1>6, <2>1, <2>2 DEF Breakouts
<1>7. ASSUME Speech PROVE KindsKept'
  <2>1. ASSUME NEW u \in User, NEW r \in Row, SendMessage(u, r) PROVE KindsKept'
    BY <2>1, RecordIsInserted DEF SendMessage
  <2>2. ASSUME NEW u \in User, NEW r \in Row, NEW l, SetParticipantLanguage(u, l, r) PROVE KindsKept'
    BY <2>2, RecordIsUpserted DEF SetParticipantLanguage
  <2> QED BY <1>7, <2>1, <2>2 DEF Speech
<1>8. ASSUME Registrations PROVE KindsKept'
  <2>1. ASSUME NEW u \in User, NEW r \in Row, NEW n, RegisterForMeeting(u, n, r) PROVE KindsKept'
    BY <2>1, RecordIsUpserted DEF RegisterForMeeting
  <2> QED BY <1>8, <2>1 DEF Registrations
<1> QED BY <1>4, <1>6, <1>7, <1>8, RecordsCommit, RecordsFail DEF RecordsNext

LEMMA KindsStart ==
  ASSUME RecordsInit
  PROVE  KindsKept
<1>1. Futures = {db} /\ Outcomes = {db} /\ \A t \in DOMAIN open : open[t] = {}
  BY DEF RecordsInit, Start, Futures, Outcomes, Opened, Quiet
<1>2. ASSUME NEW r \in Row
      PROVE  db[r].is = "none" /\ db[r].kind = None /\ db[r].who = None /\ db[r].value = 0
  <2>1. db[r] = [is |-> "none", kind |-> None, who |-> None, value |-> 0, status |-> "open"]
    BY DEF RecordsInit, Start
  <2> QED BY <2>1
<1>3. None # "question"
  BY ToolsAssumption DEF Kinds
<1>4. outside.upvotes = [r \in Row |-> 0]
  BY DEF RecordsInit, Start
<1>5. OneBallotIn(db) /\ UpvotesIn(db)
  BY <1>2, <1>3, <1>4 DEF OneBallotIn, UpvotesIn, IsIn
<1>6. \A r \in Row : ~Here(r)
  BY <1>2 DEF Here
<1> QED BY <1>1, <1>2, <1>5, <1>6 DEF KindsKept

LEMMA OneOfEachKind ==
  ASSUME KindsKept
  PROVE  OneOfAKind /\ UpvotesCounted
<1>1. topic = "records" =>
        \A u \in User :
          /\ \A kind \in Unique : \A p, q \in Of(kind, u) : p = q
          /\ ~overlapped => \A kind \in {"vote", "assignment"} : \A p, q \in Of(kind, u) : p = q
  BY DEF KindsKept, Of, Table, Here, Futures, OneBallotIn, IsIn
<1>2. OneOfAKind
  BY <1>1, AtMostOne DEF OneOfAKind
<1>3. UpvotesCounted
  BY DEF KindsKept, UpvotesCounted, Outcomes, UpvotesIn, InMeeting
<1> QED BY <1>2, <1>3

-----------------------------------------------------------------------------
(* Conversations, messages and the attempts to translate them.             *)
LEMMA ChatColumns ==
  ASSUME ChatTyped, topic = "chat"
  PROVE  /\ \A r \in Row : r \in DOMAIN db /\ DOMAIN db[r] = {"is", "client", "status"}
         /\ \A c \in Conversations : c \in DOMAIN db /\ DOMAIN db[c] = {"is", "type"}
         /\ \A k \in Attempts : /\ k \in DOMAIN db /\ DOMAIN db[k] = {"is", "status", "of"}
                                /\ db[k].status \in {"completed", "failed"}
         /\ Usage \in DOMAIN db /\ DOMAIN db[Usage] = {"is", "requests"} /\ db[Usage].requests \in Nat
<1>1. \A r \in Row : r \in DOMAIN db /\ db[r] \in VipMessageRow
  BY ChatRows DEF ChatTyped, Typed
<1>2. \A c \in Conversations : c \in DOMAIN db /\ db[c] \in ConversationRow
  BY ChatRows DEF ChatTyped, Typed
<1>3. \A k \in Attempts : k \in DOMAIN db /\ db[k] \in AttemptRow
  BY ChatRows DEF ChatTyped, Typed
<1>4. Usage \in DOMAIN db /\ db[Usage] \in UsageRow
  BY ChatRows DEF ChatTyped, Typed
<1>5. \A r \in Row : DOMAIN db[r] = {"is", "client", "status"}
  BY <1>1 DEF VipMessageRow
<1>6. \A c \in Conversations : DOMAIN db[c] = {"is", "type"}
  BY <1>2 DEF ConversationRow
<1>7. \A k \in Attempts : DOMAIN db[k] = {"is", "status", "of"} /\ db[k].status \in {"completed", "failed"}
  BY <1>3 DEF AttemptRow
<1>8. DOMAIN db[Usage] = {"is", "requests"} /\ db[Usage].requests \in Nat
  BY <1>4 DEF UsageRow
<1> QED BY <1>1, <1>2, <1>3, <1>4, <1>5, <1>6, <1>7, <1>8

LEMMA ChatApart ==
  /\ Row \cap Conversations = {} /\ Row \cap Attempts = {} /\ Conversations \cap Attempts = {}
  /\ Usage \notin Row /\ Usage \notin Conversations /\ Usage \notin Attempts
  /\ Preferences \notin Row /\ Preferences \notin Conversations /\ Preferences \notin Attempts
  /\ Usage # Preferences
BY ChatNames, ChatAssumption

LEMMA AttemptsAreFinite == IsFiniteSet(Attempts)
<1>1. Attempts = (({} \cup {Attempt(1)}) \cup {Attempt(2)}) \cup {Attempt(3)}
  BY DEF Attempts
<1>2. IsFiniteSet({} \cup {Attempt(1)})
  BY FS_EmptySet, FS_AddElement
<1>3. IsFiniteSet(({} \cup {Attempt(1)}) \cup {Attempt(2)})
  BY <1>2, FS_AddElement
<1> QED BY <1>1, <1>3, FS_AddElement

(* The parts of the invariant.                                             *)
ChatOpen ==
  /\ \A r \in Row :
       /\ db[r].is \in {"none", "here"}
       /\ db[r].is = "none" => db[r].client = 0 /\ db[r].status = "failed"
  /\ \A k \in Attempts :
       /\ db[k].is \in {"none", "here"}
       /\ db[k].is = "none" => db[k].status = "failed" /\ db[k].of = None
  /\ db[Usage].is \in {"none", "here"}
  /\ \A t \in DOMAIN open : \A c \in open[t] :
       /\ c[2] = "is" => c[3] = "here"
       /\ c[1] \in Row /\ c[2] \in {"is", "client"} =>
            /\ db[c[1]].is = "none" /\ Only(t, c[1])
            /\ \E client \in ClientIds : SendsMessage(open[t], c[1], client)
       /\ c[1] \in Row /\ c[2] = "status" /\ c[3] = "completed" =>
            \E k \in Attempts : MakesAttempt(open[t], k, c[1])
       /\ c[1] \in Attempts => db[c[1]].is = "none" /\ Only(t, c[1])
ChatUnique ==
  /\ \A r, m \in Row : Here(r) /\ Here(m) /\ db[r].client = db[m].client => r = m
  /\ \A r \in Row : Here(r) /\ db[r].status = "completed" =>
       \E k \in Attempts : Here(k) /\ db[k].status = "completed" /\ db[k].of = r
ChatAlone == ~overlapped => \A T \in Futures : OneThreadIn(T) /\ UsageIn(T)

LEMMA ThreadsInParts ==
  /\ ThreadsKept <=> (topic = "chat" => ChatOpen /\ ChatUnique /\ ChatAlone)
  /\ ThreadsKept' <=> (topic' = "chat" => ChatOpen' /\ ChatUnique' /\ ChatAlone')
BY DEF ThreadsKept, ChatOpen, ChatUnique, ChatAlone

(* What requests write.                                                    *)
ChatWrites(w) ==
  \A c \in w :
    /\ c[2] = "is" => c[3] = "here"
    /\ c[1] \in Row /\ c[2] \in {"is", "client"} =>
         /\ db[c[1]].is = "none"
         /\ \E client \in ClientIds : SendsMessage(w, c[1], client)
    /\ c[1] \in Row /\ c[2] = "status" /\ c[3] = "completed" =>
         \E k \in Attempts : MakesAttempt(w, k, c[1])
    /\ c[1] \in Attempts => db[c[1]].is = "none"
    /\ c[1] \in Row \cup Attempts => Here(c[1]) \/ ~Pending(c[1])

LEMMA ThreadsCall ==
  ASSUME ThreadsKept, topic = "chat", DOMAIN open = Slot \cup Job, NEW w, Call(w), ChatWrites(w),
         ~overlapped /\ OneThreadIn(db) /\ UsageIn(db) => OneThreadIn(Written(w)) /\ UsageIn(Written(w))
  PROVE  ThreadsKept'
<1>1. PICK t \in Slot : Opens(t, w)
  BY CallOpens
<1>2. db' = db /\ DOMAIN open' = DOMAIN open /\ t \in DOMAIN open /\ open[t] = {} /\ open'[t] = w
      /\ \A s \in DOMAIN open \ {t} : open'[s] = open[s]
  BY <1>1 DEF Opens
<1>3. ChatOpen /\ ChatUnique /\ ChatAlone
  BY ThreadsInParts
<1>4. ChatUnique'
  BY <1>2, <1>3 DEF ChatUnique, Here
<1>5. ASSUME NEW s \in DOMAIN open', NEW c \in open'[s]
      PROVE  /\ c[2] = "is" => c[3] = "here"
             /\ c[1] \in Row /\ c[2] \in {"is", "client"} =>
                  /\ db[c[1]].is = "none" /\ Only(s, c[1])'
                  /\ \E client \in ClientIds : SendsMessage(open'[s], c[1], client)
             /\ c[1] \in Row /\ c[2] = "status" /\ c[3] = "completed" =>
                  \E k \in Attempts : MakesAttempt(open'[s], k, c[1])
             /\ c[1] \in Attempts => db[c[1]].is = "none" /\ Only(s, c[1])'
  <2>1. CASE s = t
    <3>1. c[1] \in Row \cup Attempts /\ db[c[1]].is = "none" => Only(s, c[1])'
      BY <1>2, <1>5, <2>1 DEF ChatWrites, Pending, Here, Only
    <3> QED BY <1>2, <1>5, <2>1, <3>1 DEF ChatWrites
  <2>2. CASE s # t
    <3>1. c \in open[s] /\ s \in DOMAIN open /\ open'[s] = open[s]
      BY <1>2, <1>5, <2>2
    <3>2. c[1] \in Row \cup Attempts /\ db[c[1]].is = "none" => \A d \in w : d[1] # c[1]
      BY <3>1 DEF ChatWrites, Here, Pending
    <3>3. c[1] \in Row \cup Attempts /\ db[c[1]].is = "none" /\ Only(s, c[1]) => Only(s, c[1])'
      BY <1>2, <3>2 DEF Only
    <3> QED BY <1>3, <3>1, <3>3 DEF ChatOpen
  <2> QED BY <2>1, <2>2
<1>6. ChatOpen'
  BY <1>2, <1>3, <1>5 DEF ChatOpen
<1>7. ~overlapped' => \A T \in Futures' : OneThreadIn(T) /\ UsageIn(T)
  BY <1>3, CallFutures DEF ChatAlone
<1>8. \A T : OneThreadIn(T)' = OneThreadIn(T) /\ UsageIn(T)' = UsageIn(T)
  BY DEF OneThreadIn, UsageIn, DoneIn, IsIn
<1>9. ChatAlone'
  BY <1>7, <1>8 DEF ChatAlone
<1> QED BY <1>4, <1>6, <1>9, ThreadsInParts

LEMMA ChatRowIsKept ==
  ASSUME ChatTyped, topic = "chat", NEW w
  PROVE  /\ \A r \in Row : (\A c \in w : c[1] = r => c[2] \notin {"is", "client"}) =>
              IsIn(Written(w), r) = Here(r) /\ Written(w)[r].is = db[r].is /\ Written(w)[r].client = db[r].client
         /\ \A r \in Row : ~Writes(w, r, "status") => Written(w)[r].status = db[r].status
         /\ \A k \in Attempts : (\A c \in w : c[1] # k) =>
              /\ IsIn(Written(w), k) = Here(k) /\ Written(w)[k].is = db[k].is
              /\ Written(w)[k].status = db[k].status /\ Written(w)[k].of = db[k].of
         /\ \A k \in Conversations : (\A c \in w : c[1] # k) =>
              IsIn(Written(w), k) = Here(k) /\ Written(w)[k].type = db[k].type
         /\ (\A c \in w : c[1] # Usage) =>
              IsIn(Written(w), Usage) = Here(Usage) /\ Written(w)[Usage].requests = db[Usage].requests
<1>1. \A row, column : (\A c \in w : c[1] = row => c[2] # column) => ~Writes(w, row, column)
  BY DEF Writes
<1>2. ASSUME NEW r \in Row, \A c \in w : c[1] = r => c[2] \notin {"is", "client"}
      PROVE  Written(w)[r].is = db[r].is /\ Written(w)[r].client = db[r].client
  BY <1>1, <1>2, ChatColumns, WrittenKeeps
<1>3. ASSUME NEW r \in Row, ~Writes(w, r, "status") PROVE Written(w)[r].status = db[r].status
  BY <1>3, ChatColumns, WrittenKeeps
<1>4. ASSUME NEW k \in Attempts, \A c \in w : c[1] # k
      PROVE  /\ Written(w)[k].is = db[k].is
             /\ Written(w)[k].status = db[k].status /\ Written(w)[k].of = db[k].of
  BY <1>1, <1>4, ChatColumns, WrittenKeeps
<1>5. ASSUME NEW k \in Conversations, \A c \in w : c[1] # k
      PROVE  Written(w)[k].is = db[k].is /\ Written(w)[k].type = db[k].type
  BY <1>1, <1>5, ChatColumns, WrittenKeeps
<1>6. ASSUME \A c \in w : c[1] # Usage
      PROVE  Written(w)[Usage].is = db[Usage].is /\ Written(w)[Usage].requests = db[Usage].requests
  BY <1>1, <1>6, ChatColumns, WrittenKeeps
<1> QED BY <1>2, <1>3, <1>4, <1>5, <1>6 DEF IsIn, Here

LEMMA ChatMessageIsWritten ==
  ASSUME ChatTyped, topic = "chat", NEW w, NEW r \in Row, NEW client, SendsMessage(w, r, client)
  PROVE  Written(w)[r].is = "here" /\ Written(w)[r].client = client
<1>1. Writes(w, r, "is") /\ Writes(w, r, "client")
  BY DEF SendsMessage, Writes
<1>2. \A c \in w : c[1] = r => (c[2] = "is" => c[3] = "here") /\ (c[2] = "client" => c[3] = client)
  BY DEF SendsMessage
<1>3. r \in DOMAIN db /\ DOMAIN db[r] = {"is", "client", "status"}
  BY ChatColumns
<1>4. Written(w)[r].is = "here"
  BY <1>1, <1>2, <1>3, WrittenValue
<1>5. Written(w)[r].client = client
  BY <1>1, <1>2, <1>3, WrittenValue
<1> QED BY <1>4, <1>5

LEMMA ChatAttemptIsWritten ==
  ASSUME ChatTyped, topic = "chat", NEW w, NEW k \in Attempts, NEW r, MakesAttempt(w, k, r)
  PROVE  Written(w)[k].is = "here" /\ Written(w)[k].status = "completed" /\ Written(w)[k].of = r
<1>1. Writes(w, k, "is") /\ Writes(w, k, "status") /\ Writes(w, k, "of")
  BY DEF MakesAttempt, Writes
<1>2. \A c \in w : c[1] = k => /\ c[2] = "is" => c[3] = "here"
                               /\ c[2] = "status" => c[3] = "completed"
                               /\ c[2] = "of" => c[3] = r
  BY DEF MakesAttempt
<1>3. k \in DOMAIN db /\ DOMAIN db[k] = {"is", "status", "of"}
  BY ChatColumns
<1>4. Written(w)[k].is = "here"
  BY <1>1, <1>2, <1>3, WrittenValue
<1>5. Written(w)[k].status = "completed"
  BY <1>1, <1>2, <1>3, WrittenValue
<1>6. Written(w)[k].of = r
  <2>1. \A c \in w : c[1] = k /\ c[2] = "of" => c[3] = r
    BY <1>2
  <2>2. "of" \in DOMAIN db[k]
    BY <1>3
  <2>3. Written(w)[k]["of"] = r
    BY <1>1, <1>3, <2>1, <2>2, WrittenValue
  <2> QED BY <2>3
<1> QED BY <1>4, <1>5, <1>6

LEMMA ThreadsCommit ==
  ASSUME ThreadsKept, ChatTyped, topic = "chat", DOMAIN open = Slot \cup Job, OpenAlone,
         NEW t \in Slot, ~ChatClash(open[t]), Commit(t)
  PROVE  ThreadsKept'
<1> DEFINE w == open[t]
<1>1. Closes(t) /\ Lawful(w) /\ db' = Written(w) /\ outside' = outside /\ ~ChatClash(w)
  BY CommitCloses
<1>2. t \in DOMAIN open
  OBVIOUS
<1>3. ChatOpen /\ ChatUnique /\ ChatAlone
  BY ThreadsInParts
<1>4. /\ DOMAIN open' = DOMAIN open
      /\ \A s \in DOMAIN open' : open'[s] = {} \/ (s # t /\ open'[s] = open[s])
  BY <1>1 DEF Closes
<1>5. \A c \in w :
        /\ c[2] = "is" => c[3] = "here"
        /\ c[1] \in Row /\ c[2] \in {"is", "client"} =>
             /\ db[c[1]].is = "none" /\ Only(t, c[1])
             /\ \E client \in ClientIds : SendsMessage(w, c[1], client)
        /\ c[1] \in Row /\ c[2] = "status" /\ c[3] = "completed" =>
             \E k \in Attempts : MakesAttempt(w, k, c[1])
        /\ c[1] \in Attempts => db[c[1]].is = "none" /\ Only(t, c[1])
  BY <1>2, <1>3 DEF ChatOpen
<1>6. \A s \in DOMAIN open \ {t} : \A row : Only(s, row) => \A c \in w : c[1] # row
  BY <1>2 DEF Only
<1> HIDE DEF w
<1>7. ASSUME NEW r \in Row
      PROVE  \/ \E client \in ClientIds : db[r].is = "none" /\ SendsMessage(w, r, client)
             \/ /\ \A c \in w : c[1] = r => c[2] \notin {"is", "client"}
                /\ db'[r].is = db[r].is /\ db'[r].client = db[r].client
  <2>1. CASE \E c \in w : c[1] = r /\ c[2] \in {"is", "client"}
    BY <1>5, <2>1
  <2>2. CASE \A c \in w : c[1] = r => c[2] \notin {"is", "client"}
    BY <1>1, <2>2, ChatRowIsKept
  <2> QED BY <2>1, <2>2
<1>8. ASSUME NEW r \in Row
      PROVE  /\ db'[r].is \in {"none", "here"}
             /\ db'[r].is = "none" => db'[r].client = 0 /\ db'[r].status = "failed"
  <2>1. CASE \E client \in ClientIds : SendsMessage(w, r, client)
    <3>1. db'[r].is = "here"
      BY <1>1, <2>1, ChatMessageIsWritten
    <3> QED BY <3>1
  <2>2. CASE db'[r].is = db[r].is /\ db'[r].client = db[r].client
             /\ \A c \in w : c[1] = r => c[2] \notin {"is", "client"}
    <3>1. db[r].is = "none" => \A c \in w : c[1] # r
      BY <1>1, <2>2 DEF Lawful, Here, Writes
    <3>2. db[r].is = "none" => db'[r].status = db[r].status
      BY <1>1, <3>1, ChatRowIsKept DEF Writes
    <3> QED BY <1>3, <2>2, <3>2 DEF ChatOpen
  <2> QED BY <1>7, <2>1, <2>2
<1>9. ASSUME NEW k \in Attempts
      PROVE  /\ db'[k].is \in {"none", "here"}
             /\ db'[k].is = "none" => db'[k].status = "failed" /\ db'[k].of = None
             /\ Here(k) => db'[k].is = db[k].is /\ db'[k].status = db[k].status /\ db'[k].of = db[k].of
  <2>1. CASE \A c \in w : c[1] # k
    BY <1>1, <1>3, <2>1, ChatRowIsKept DEF ChatOpen
  <2>2. CASE \E c \in w : c[1] = k
    <3>1. db[k].is = "none" /\ Writes(w, k, "is")
      BY <1>1, <1>5, <2>2 DEF Lawful, Here
    <3>2. k \in DOMAIN db /\ "is" \in DOMAIN db[k]
      BY ChatColumns
    <3>3. db'[k].is = "here"
      BY <1>1, <1>5, <3>1, <3>2, CommitColumn
    <3> QED BY <3>1, <3>3 DEF Here
  <2> QED BY <2>1, <2>2
<1>10. db'[Usage].is \in {"none", "here"}
  <2>1. Usage \in DOMAIN db /\ "is" \in DOMAIN db[Usage]
    BY ChatColumns
  <2> QED BY <1>1, <1>3, <1>5, <2>1, CommitColumn DEF ChatOpen
<1>11. ASSUME NEW s \in DOMAIN open', NEW c \in open'[s]
       PROVE  /\ c[2] = "is" => c[3] = "here"
              /\ c[1] \in Row /\ c[2] \in {"is", "client"} =>
                   /\ db'[c[1]].is = "none" /\ Only(s, c[1])'
                   /\ \E client \in ClientIds : SendsMessage(open'[s], c[1], client)
              /\ c[1] \in Row /\ c[2] = "status" /\ c[3] = "completed" =>
                   \E k \in Attempts : MakesAttempt(open'[s], k, c[1])
              /\ c[1] \in Attempts => db'[c[1]].is = "none" /\ Only(s, c[1])'
  <2>1. s # t /\ open'[s] = open[s] /\ s \in DOMAIN open
    BY <1>4, <1>11
  <2>2. \A row : Only(s, row) => Only(s, row)' /\ \A d \in w : d[1] # row
    BY <1>4, <1>6, <2>1 DEF Only
  <2>3. \A row \in Row \cup Attempts : (\A d \in w : d[1] # row) => db'[row].is = db[row].is
    BY <1>1, ChatRowIsKept
  <2> QED BY <1>3, <1>11, <2>1, <2>2, <2>3 DEF ChatOpen
<1>12. ChatOpen'
  BY <1>8, <1>9, <1>10, <1>11 DEF ChatOpen
<1>13. \A r, m \in Row : db'[r].is = "here" /\ db'[m].is = "here" /\ db'[r].client = db'[m].client => r = m
  <2>1. ASSUME NEW r \in Row, NEW m \in Row, r # m, NEW client \in ClientIds, SendsMessage(w, r, client),
               db'[m].is = "here", db'[m].client = client
        PROVE  FALSE
    <3>1. Here(m) /\ db[m].client = client
      <4>1. \A c \in w : c[1] # m
        BY <2>1 DEF SendsMessage
      <4> QED BY <1>1, <2>1, <4>1, ChatRowIsKept DEF Here
    <3>2. <<r, "client", db[m].client>> \in w
      BY <2>1, <3>1 DEF SendsMessage
    <3> QED BY <1>1, <3>1, <3>2 DEF ChatClash, Table
  <2>2. \A r \in Row : \A client \in ClientIds : SendsMessage(w, r, client) => db'[r].client = client
    BY <1>1, ChatMessageIsWritten
  <2>3. ASSUME NEW r \in Row, NEW m \in Row, db'[r].is = "here", db'[m].is = "here",
               db'[r].client = db'[m].client, r # m
        PROVE  FALSE
    <3>1. CASE \E client \in ClientIds : SendsMessage(w, r, client)
      BY <2>1, <2>2, <2>3, <3>1
    <3>2. CASE \E client \in ClientIds : SendsMessage(w, m, client)
      BY <2>1, <2>2, <2>3, <3>2
    <3>3. CASE /\ db'[r].is = db[r].is /\ db'[r].client = db[r].client
               /\ db'[m].is = db[m].is /\ db'[m].client = db[m].client
      <4>1. Here(r) /\ Here(m) /\ db[r].client = db[m].client
        BY <2>3, <3>3 DEF Here
      <4>2. r = m
        BY <1>3, <4>1 DEF ChatUnique
      <4> QED BY <2>3, <4>2
    <3> QED BY <1>7, <3>1, <3>2, <3>3
  <2> QED BY <2>3
<1>14. ASSUME NEW r \in Row, db'[r].is = "here", db'[r].status = "completed"
       PROVE  \E k \in Attempts : db'[k].is = "here" /\ db'[k].status = "completed" /\ db'[k].of = r
  <2>1. r \in DOMAIN db /\ DOMAIN db[r] = {"is", "client", "status"}
    BY ChatColumns
  <2>2. CASE \E c \in w : c[1] = r /\ c[2] = "status" /\ c[3] = "completed"
    <3>1. PICK k \in Attempts : MakesAttempt(w, k, r)
      BY <1>5, <2>2
    <3> QED BY <1>1, <3>1, ChatAttemptIsWritten
  <2>3. CASE db'[r].status = db[r].status
    <3>1. Here(r)
      BY <1>3, <1>14, <2>3 DEF ChatOpen, Here
    <3>2. PICK k \in Attempts : Here(k) /\ db[k].status = "completed" /\ db[k].of = r
      BY <1>3, <1>14, <2>3, <3>1 DEF ChatUnique
    <3> QED BY <1>9, <3>2 DEF Here
  <2> QED BY <1>1, <1>14, <2>1, <2>2, <2>3, CommitColumn
<1>15. ChatUnique'
  BY <1>13, <1>14 DEF ChatUnique, Here
<1>16. ChatAlone'
  <2>1. UNCHANGED overlapped
    BY DEF Commit
  <2>2. ~overlapped => Futures' \subseteq Futures
    BY EndFutures
  <2> QED BY <1>3, <2>1, <2>2 DEF ChatAlone, OneThreadIn, UsageIn, DoneIn, IsIn
<1> QED BY <1>12, <1>15, <1>16, ThreadsInParts

LEMMA ThreadsRollBack ==
  ASSUME ThreadsKept, topic = "chat", DOMAIN open = Slot \cup Job, OpenAlone,
         NEW t \in Slot, RollBack(t)
  PROVE  ThreadsKept'
<1>1. Closes(t) /\ db' = db /\ UNCHANGED overlapped
  BY RollBackCloses DEF RollBack
<1>2. ChatOpen /\ ChatUnique /\ ChatAlone
  BY ThreadsInParts
<1>3. /\ DOMAIN open' = DOMAIN open
      /\ \A s \in DOMAIN open' : open'[s] = {} \/ open'[s] = open[s]
  BY <1>1 DEF Closes
<1>4. ChatOpen' /\ ChatUnique'
  BY <1>1, <1>2, <1>3 DEF ChatOpen, ChatUnique, Here, Only
<1>5. ~overlapped => Futures' \subseteq Futures
  BY EndFutures
<1>6. ChatAlone'
  BY <1>1, <1>2, <1>5 DEF ChatAlone, OneThreadIn, UsageIn, DoneIn, IsIn
<1> QED BY <1>4, <1>6, ThreadsInParts

(* An attempt, and what it adds to the usage of the day.                   *)
RecordsAttempt(v, k, outcome, m) ==
  /\ \A c \in v : /\ c[1] = k
                  /\ c[2] = "is" => c[3] = "here"
                  /\ c[2] = "status" => c[3] = outcome
                  /\ c[2] = "of" => c[3] = m
  /\ <<k, "is", "here">> \in v
  /\ outcome = "completed" => <<k, "status", outcome>> \in v
  /\ m # None => <<k, "of", m>> \in v

LEMMA AttemptShape ==
  ASSUME NEW k, NEW outcome, NEW m, db[k].status = "failed", db[k].of = None
  PROVE  RecordsAttempt(Insert(k, [status |-> outcome, of |-> m]), k, outcome, m)
<1> DEFINE columns == [status |-> outcome, of |-> m]
           v == Insert(k, columns)
<1>1. <<k, "is", "here">> \in v
  BY DEF Insert
<1>2. /\ outcome = "completed" => <<k, "status", outcome>> \in v
      /\ m # None => <<k, "of", m>> \in v
  BY DEF Insert, Update, Change
<1>3. DOMAIN columns = {"status", "of"} /\ columns["status"] = outcome /\ columns["of"] = m
  OBVIOUS
<1> HIDE DEF columns
<1>4. \A c \in Update(k, columns) : c[1] = k /\ c[2] \in {"status", "of"} /\ c[3] = columns[c[2]]
  BY <1>3, UpdateShape
<1>5. \A c \in v : c[1] = k /\ ((c[2] = "is" /\ c[3] = "here") \/ c \in Update(k, columns))
  BY InsertShape
<1> HIDE DEF v
<1>6. \A c \in v : /\ c[1] = k
                   /\ c[2] = "is" => c[3] = "here"
                   /\ c[2] = "status" => c[3] = outcome
                   /\ c[2] = "of" => c[3] = m
  BY <1>3, <1>4, <1>5
<1>7. RecordsAttempt(v, k, outcome, m)
  BY <1>1, <1>2, <1>6 DEF RecordsAttempt
<1> QED BY <1>7 DEF v, columns

LEMMA IncrementShape ==
  ASSUME ChatTyped, topic = "chat", UsageIn(db), NEW outcome
  PROVE  /\ \A c \in Increment(outcome) :
              c[1] = Usage /\ (c[2] = "is" => c[3] = "here") /\ (c[2] = "requests" => c[3] = db[Usage].requests + 1)
         /\ outcome # "completed" => Increment(outcome) = {}
         /\ outcome = "completed" =>
              /\ Here(Usage) \/ Writes(Increment(outcome), Usage, "is")
              /\ Writes(Increment(outcome), Usage, "requests")
<1> DEFINE n == db[Usage].requests + 1
           columns == [requests |-> 1]
<1>0. n = db[Usage].requests + 1 /\ n # db[Usage].requests
  BY ChatColumns
<1>1. outcome # "completed" => Increment(outcome) = {}
  BY DEF Increment
<1>2. CASE outcome = "completed" /\ Here(Usage)
  <2>1. Increment(outcome) = Change(Usage, "requests", n)
    BY <1>2 DEF Increment
  <2> HIDE DEF n
  <2>2. /\ \A c \in Change(Usage, "requests", n) : c[1] = Usage /\ c[2] = "requests" /\ c[3] = n
        /\ db[Usage]["requests"] = n \/ Writes(Change(Usage, "requests", n), Usage, "requests")
    BY ChangeShape
  <2> QED BY <1>0, <1>1, <1>2, <2>1, <2>2
<1>3. CASE outcome = "completed" /\ ~Here(Usage)
  <2>1. Increment(outcome) = Insert(Usage, columns)
    BY <1>3 DEF Increment
  <2>2. db[Usage].requests = 0
    BY <1>3 DEF UsageIn, Here, IsIn
  <2>3. DOMAIN columns = {"requests"} /\ columns["requests"] = 1
    OBVIOUS
  <2> HIDE DEF columns
  <2>4. /\ \A c \in Update(Usage, columns) : c[1] = Usage /\ c[2] = "requests" /\ c[3] = columns[c[2]]
        /\ db[Usage]["requests"] = 1 \/ Writes(Update(Usage, columns), Usage, "requests")
    BY <2>3, UpdateShape
  <2>5. /\ \A c \in Insert(Usage, columns) :
             c[1] = Usage /\ ((c[2] = "is" /\ c[3] = "here") \/ c \in Update(Usage, columns))
        /\ Writes(Insert(Usage, columns), Usage, "is")
        /\ Update(Usage, columns) \subseteq Insert(Usage, columns)
    BY InsertShape
  <2>6. Writes(Insert(Usage, columns), Usage, "requests")
    BY <2>2, <2>4, <2>5 DEF Writes
  <2>7. n = 1
    BY <2>2
  <2> HIDE DEF n
  <2>8. \A c \in Insert(Usage, columns) :
          c[1] = Usage /\ (c[2] = "is" => c[3] = "here") /\ (c[2] = "requests" => c[3] = n)
    BY <2>3, <2>4, <2>5, <2>7
  <2> QED BY <1>0, <1>3, <2>1, <2>5, <2>6, <2>8
<1> QED BY <1>1, <1>2, <1>3

LEMMA IncrementNames ==
  ASSUME NEW outcome
  PROVE  \A c \in Increment(outcome) : c[1] = Usage /\ (c[2] = "is" => c[3] = "here")
<1> DEFINE n == db[Usage].requests + 1
           columns == [requests |-> 1]
<1>1. DOMAIN columns = {"requests"}
  OBVIOUS
<1>2. Increment(outcome) \in {{}, Change(Usage, "requests", n), Insert(Usage, columns)}
  BY DEF Increment
<1> HIDE DEF n, columns
<1>3. \A c \in Change(Usage, "requests", n) : c[1] = Usage /\ c[2] = "requests"
  BY ChangeShape
<1>4. \A c \in Insert(Usage, columns) : c[1] = Usage /\ ((c[2] = "is" /\ c[3] = "here") \/ c[2] = "requests")
  BY <1>1, InsertNames
<1> QED BY <1>2, <1>3, <1>4

(* Whatever else is written of messages, the usage counts the attempt.     *)
LEMMA AttemptIsCounted ==
  ASSUME ChatTyped, topic = "chat", UsageIn(db), NEW k \in Attempts, NEW outcome \in {"completed", "failed"},
         NEW m, db[k].is = "none", db[k].status = "failed", db[k].of = None,
         NEW x, \A c \in x : c[1] \in Row
  PROVE  UsageIn(Written(x \cup TranslateAndRecord(k, outcome, m)))
<1> DEFINE v == Insert(k, [status |-> outcome, of |-> m])
           i == Increment(outcome)
           w == x \cup (v \cup i)
           T == Written(w)
<1>1. /\ \A c \in v : c[1] = k /\ (c[2] = "is" => c[3] = "here") /\ (c[2] = "status" => c[3] = outcome)
      /\ <<k, "is", "here">> \in v
      /\ outcome = "completed" => <<k, "status", outcome>> \in v
  <2>1. RecordsAttempt(v, k, outcome, m)
    BY AttemptShape
  <2> HIDE DEF v
  <2> QED BY <2>1 DEF RecordsAttempt
<1>2. /\ \A c \in i :
           c[1] = Usage /\ (c[2] = "is" => c[3] = "here") /\ (c[2] = "requests" => c[3] = db[Usage].requests + 1)
      /\ outcome # "completed" => i = {}
      /\ outcome = "completed" => (Here(Usage) \/ Writes(i, Usage, "is")) /\ Writes(i, Usage, "requests")
  BY IncrementShape
<1>3. w = x \cup TranslateAndRecord(k, outcome, m)
  BY DEF TranslateAndRecord
<1> HIDE DEF v, i
<1>4. /\ k \in DOMAIN db /\ DOMAIN db[k] = {"is", "status", "of"}
      /\ Usage \in DOMAIN db /\ DOMAIN db[Usage] = {"is", "requests"} /\ db[Usage].requests \in Nat
  BY ChatColumns
<1>5. \A c \in w : /\ c[1] = k => (c[2] = "is" => c[3] = "here") /\ (c[2] = "status" => c[3] = outcome)
                   /\ c[1] \in Attempts => c[1] = k
                   /\ c[1] = Usage => c \in i
  <2>1. k \notin Row /\ k # Usage /\ Usage \notin Row /\ Usage \notin Attempts /\ Row \cap Attempts = {}
    BY ChatApart
  <2>2. ASSUME NEW c \in w
        PROVE  /\ c[1] = k => (c[2] = "is" => c[3] = "here") /\ (c[2] = "status" => c[3] = outcome)
               /\ c[1] \in Attempts => c[1] = k
               /\ c[1] = Usage => c \in i
    <3>1. CASE c \in x
      BY <2>1, <3>1
    <3>2. CASE c \in v
      BY <1>1, <2>1, <3>2
    <3>3. CASE c \in i
      <4>1. c[1] = Usage
        BY <1>2, <3>3
      <4> QED BY <2>1, <3>3, <4>1
    <3> QED BY <3>1, <3>2, <3>3
  <2> QED BY <2>2
<1>6. Writes(w, k, "is")
  BY <1>1 DEF Writes
<1>7. db[k].status = outcome \/ Writes(w, k, "status")
  BY <1>1 DEF Writes
<1>8. outcome = "completed" => (Here(Usage) \/ Writes(w, Usage, "is")) /\ Writes(w, Usage, "requests")
  BY <1>2 DEF Writes
<1> HIDE DEF w
<1>9. T[k].is = "here"
  BY <1>4, <1>5, <1>6, WrittenValue
<1>10. T[k].status = outcome
  <2>1. \A c \in w : c[1] = k /\ c[2] = "status" => c[3] = outcome
    BY <1>5
  <2>2. "status" \in DOMAIN db[k]
    BY <1>4
  <2>3. T[k]["status"] = outcome
    BY <1>4, <1>7, <2>1, <2>2, WrittenValue
  <2> QED BY <2>3
<1>11. \A a \in Attempts \ {k} : IsIn(T, a) = Here(a) /\ T[a].status = db[a].status
  BY <1>5, ChatRowIsKept
<1>12. CASE outcome = "completed"
  <2>1. T[Usage].requests = db[Usage].requests + 1
    <3> DEFINE n == db[Usage].requests + 1
    <3>1. \A c \in w : c[1] = Usage /\ c[2] = "requests" => c[3] = n
      BY <1>2, <1>5
    <3> HIDE DEF n
    <3>2. T[Usage]["requests"] = n
      BY <1>4, <1>8, <1>12, <3>1, WrittenValue
    <3> QED BY <3>2 DEF n
  <2>2. T[Usage].is = "here"
    <3>1. \A c \in w : c[1] = Usage /\ c[2] = "is" => c[3] = "here"
      BY <1>2, <1>5
    <3>2. T[Usage]["is"] = "here"
      BY <1>4, <1>8, <1>12, <3>1, WrittenValue DEF Here
    <3> QED BY <3>2
  <2> HIDE DEF T
  <2>3. DoneIn(T) = DoneIn(db) \cup {k} /\ k \notin DoneIn(db)
    BY <1>9, <1>10, <1>11, <1>12 DEF DoneIn, IsIn, Here
  <2>4. IsFiniteSet(DoneIn(db))
    BY AttemptsAreFinite, FS_Subset DEF DoneIn
  <2>5. Cardinality(DoneIn(T)) = Cardinality(DoneIn(db)) + 1
    BY <2>3, <2>4, FS_AddElement
  <2> QED BY <1>3, <2>1, <2>2, <2>5 DEF UsageIn, IsIn, T
<1>13. CASE outcome = "failed"
  <2>1. IsIn(T, Usage) = Here(Usage) /\ T[Usage].requests = db[Usage].requests
    BY <1>2, <1>5, <1>13, ChatRowIsKept
  <2> HIDE DEF T
  <2>2. DoneIn(T) = DoneIn(db)
    BY <1>10, <1>11, <1>13 DEF DoneIn, IsIn, Here
  <2> QED BY <1>3, <2>1, <2>2 DEF UsageIn, IsIn, Here, T
<1> QED BY <1>12, <1>13

LEMMA ThreadsAreKept ==
  ASSUME ChatTyped, topic = "chat", OneThreadIn(db), NEW w, \A c \in w : c[1] \notin Conversations
  PROVE  OneThreadIn(Written(w))
<1>1. \A c \in Conversations : IsIn(Written(w), c) = Here(c) /\ Written(w)[c].type = db[c].type
  BY ChatRowIsKept
<1> QED BY <1>1 DEF OneThreadIn, IsIn, Here

LEMMA UsageIsKept ==
  ASSUME ChatTyped, topic = "chat", UsageIn(db), NEW w, \A c \in w : c[1] \notin Attempts \cup {Usage}
  PROVE  UsageIn(Written(w))
<1> DEFINE T == Written(w)
<1>1. \A a \in Attempts : IsIn(T, a) = Here(a) /\ T[a].status = db[a].status
  BY ChatRowIsKept
<1>2. IsIn(T, Usage) = Here(Usage) /\ T[Usage].requests = db[Usage].requests
  BY ChatRowIsKept
<1> HIDE DEF T
<1>3. DoneIn(T) = DoneIn(db)
  BY <1>1 DEF DoneIn, IsIn, Here
<1> QED BY <1>2, <1>3 DEF UsageIn, IsIn, Here, T

LEMMA FreshIsFree ==
  ASSUME NEW rows, NEW k, Fresh(rows, k)
  PROVE  k \in rows /\ db[k].is = "none" /\ ~Pending(k)
BY DEF Fresh

(* What is written of the message an attempt is for.                       *)
WritesMessage(x, m, outcome) ==
  \A c \in x :
    /\ c[1] = m /\ m \in Row
    /\ c[2] = "is" => c[3] = "here"
    /\ c[2] = "status" => c[3] = outcome
    /\ \/ Here(m) /\ c[2] = "status"
       \/ db[m].is = "none" /\ ~Pending(m) /\ \E client \in ClientIds : SendsMessage(x, m, client)

LEMMA MessageShape ==
  ASSUME NEW r \in Row, NEW client \in ClientIds, NEW outcome,
         db[r].is = "none", db[r].client = 0, ~Pending(r)
  PROVE  WritesMessage(Insert(r, [client |-> client, status |-> outcome]), r, outcome)
<1> DEFINE columns == [client |-> client, status |-> outcome]
           v == Insert(r, columns)
<1>1. <<r, "is", "here">> \in v
  BY DEF Insert
<1>2. <<r, "client", client>> \in v
  <2>1. db[r]["client"] # client
    BY DEF ClientIds
  <2> QED BY <2>1 DEF Insert, Update, Change
<1>3. DOMAIN columns = {"client", "status"} /\ columns["client"] = client /\ columns["status"] = outcome
  OBVIOUS
<1> HIDE DEF columns
<1>4. \A c \in Update(r, columns) : c[1] = r /\ c[2] \in {"client", "status"} /\ c[3] = columns[c[2]]
  BY <1>3, UpdateShape
<1>5. \A c \in v : c[1] = r /\ ((c[2] = "is" /\ c[3] = "here") \/ c \in Update(r, columns))
  BY InsertShape
<1> HIDE DEF v
<1>6. \A c \in v : /\ c[1] = r
                   /\ c[2] = "is" => c[3] = "here"
                   /\ c[2] = "client" => c[3] = client
                   /\ c[2] = "status" => c[3] = outcome
  BY <1>3, <1>4, <1>5
<1>7. SendsMessage(v, r, client)
  BY <1>1, <1>2, <1>6 DEF SendsMessage
<1>8. WritesMessage(v, r, outcome)
  BY <1>6, <1>7 DEF WritesMessage
<1> QED BY <1>8 DEF v, columns

LEMMA AttemptIsMade ==
  ASSUME ThreadsKept, ChatTyped, topic = "chat", DOMAIN open = Slot \cup Job,
         NEW k \in Attempts, NEW outcome \in {"completed", "failed"}, NEW m, Fresh(Attempts, k),
         NEW x, WritesMessage(x, m, outcome), Call(x \cup TranslateAndRecord(k, outcome, m))
  PROVE  ThreadsKept'
<1> DEFINE v == Insert(k, [status |-> outcome, of |-> m])
           i == Increment(outcome)
           w == x \cup TranslateAndRecord(k, outcome, m)
<1>0. db[k].is = "none" /\ ~Pending(k) /\ db[k].status = "failed" /\ db[k].of = None
  BY FreshIsFree DEF ThreadsKept
<1>1. RecordsAttempt(v, k, outcome, m)
  BY <1>0, AttemptShape
<1>2. \A c \in i : c[1] = Usage /\ (c[2] = "is" => c[3] = "here")
  BY IncrementNames
<1>3. w = x \cup (v \cup i)
  BY DEF TranslateAndRecord
<1>4. \A c \in x : c[1] \in Row /\ c[1] = m
  BY DEF WritesMessage
<1> HIDE DEF v, i, w
<1>5. k \notin Row /\ k # Usage /\ Usage \notin Row /\ Usage \notin Attempts /\ Row \cap Attempts = {}
      /\ Row \cap Conversations = {} /\ k \notin Conversations /\ Usage \notin Conversations
  BY ChatApart
<1>6. ASSUME NEW client, m \in Row, SendsMessage(x, m, client) PROVE SendsMessage(w, m, client)
  BY <1>1, <1>2, <1>3, <1>5, <1>6 DEF SendsMessage, RecordsAttempt
<1>7. ASSUME m \in Row, outcome = "completed" PROVE MakesAttempt(w, k, m)
  <2>1. m # None
    BY <1>7, ChatAssumption
  <2>2. \A c \in w : c[1] = k => c \in v
    BY <1>2, <1>3, <1>4, <1>5
  <2> QED BY <1>1, <1>3, <1>7, <2>1, <2>2 DEF MakesAttempt, RecordsAttempt
<1>8. ASSUME NEW c \in w
      PROVE  /\ c[2] = "is" => c[3] = "here"
             /\ c[1] \in Row /\ c[2] \in {"is", "client"} =>
                  /\ db[c[1]].is = "none"
                  /\ \E client \in ClientIds : SendsMessage(w, c[1], client)
             /\ c[1] \in Row /\ c[2] = "status" /\ c[3] = "completed" =>
                  \E a \in Attempts : MakesAttempt(w, a, c[1])
             /\ c[1] \in Attempts => db[c[1]].is = "none"
             /\ c[1] \in Row \cup Attempts => Here(c[1]) \/ ~Pending(c[1])
             /\ c[1] \notin Conversations
  <2>1. CASE c \in x
    <3>1. /\ c[1] = m /\ m \in Row /\ m \notin Attempts /\ m \notin Conversations
          /\ c[2] = "is" => c[3] = "here"
          /\ c[2] = "status" => c[3] = outcome
      BY <1>5, <2>1 DEF WritesMessage
    <3>2. \/ Here(m) /\ c[2] = "status"
          \/ db[m].is = "none" /\ ~Pending(m) /\ \E client \in ClientIds : SendsMessage(w, m, client)
      BY <1>6, <2>1, <3>1 DEF WritesMessage
    <3>3. c[2] = "status" /\ c[3] = "completed" => MakesAttempt(w, k, m)
      BY <1>7, <3>1
    <3> QED BY <3>1, <3>2, <3>3
  <2>2. CASE c \in v
    BY <1>0, <1>1, <1>5, <2>2 DEF RecordsAttempt
  <2>3. CASE c \in i
    <3>1. c[1] = Usage /\ (c[2] = "is" => c[3] = "here")
      BY <1>2, <2>3
    <3> QED BY <1>5, <3>1
  <2> QED BY <1>3, <2>1, <2>2, <2>3
<1>9. ChatWrites(w)
  BY <1>8 DEF ChatWrites
<1>10. OneThreadIn(db) => OneThreadIn(Written(w))
  BY <1>8, ThreadsAreKept
<1>11. UsageIn(db) => UsageIn(Written(w))
  BY <1>0, <1>4, AttemptIsCounted DEF w
<1>12. Call(w)
  BY DEF w
<1> QED BY <1>9, <1>10, <1>11, <1>12, ThreadsCall

LEMMA ThreadsStay ==
  ASSUME ThreadsKept, ChatTyped, topic = "chat", DOMAIN open = Slot \cup Job, OpenAlone, ChatNext
  PROVE  ThreadsKept'
<1>1. ASSUME NEW w, Call(w), \A c \in w : /\ c[1] \in Conversations \cup {Preferences}
                                          /\ c[2] = "is" => c[3] = "here",
             OneThreadIn(db) => OneThreadIn(Written(w))
      PROVE  ThreadsKept'
  <2>1. \A c \in w : c[1] \notin Row /\ c[1] \notin Attempts /\ c[1] # Usage
    BY <1>1, ChatApart
  <2>2. ChatWrites(w)
    BY <1>1, <2>1 DEF ChatWrites
  <2>3. UsageIn(db) => UsageIn(Written(w))
    BY <2>1, UsageIsKept
  <2> QED BY <1>1, <2>2, <2>3, ThreadsCall
<1>2. ASSUME NEW type \in ConversationTypes, NEW c \in Conversations, StartConversation(type, c) PROVE ThreadsKept'
  <2> DEFINE columns == [type |-> type]
             w == Insert(c, columns)
             T == Written(w)
  <2>1. Call(w) /\ FindConversationId(type) = {}
    BY <1>2 DEF StartConversation, Request
  <2>2. DOMAIN columns = {"type"} /\ columns["type"] = type
    OBVIOUS
  <2> HIDE DEF columns
  <2>3. \A d \in w : d[1] = c /\ ((d[2] = "is" /\ d[3] = "here") \/ d \in Update(c, columns))
    BY InsertShape
  <2>4. \A d \in Update(c, columns) : d[2] = "type"
    BY <2>2, UpdateShape
  <2>5. Update(c, columns) \subseteq w
    BY InsertShape
  <2> HIDE DEF w
  <2>6. c \in DOMAIN db /\ DOMAIN db[c] = {"is", "type"}
    BY ChatColumns
  <2>7. T[c].type = type
    <3>1. \A d \in w : d[1] = c /\ d[2] = "type" => d \in Update(c, columns)
      BY <2>3
    <3>2. T[c]["type"] = columns["type"]
      BY <2>2, <2>5, <2>6, <3>1, UpdateIsWritten
    <3> QED BY <2>2, <3>2
  <2>8. \A b \in Conversations \ {c} : IsIn(T, b) = Here(b) /\ T[b].type = db[b].type
    BY <2>3, ChatRowIsKept
  <2> HIDE DEF T
  <2>9. \A b \in Conversations : Here(b) => db[b].type # type
    BY <2>1 DEF FindConversationId
  <2>10. OneThreadIn(db) => OneThreadIn(T)
    BY <2>7, <2>8, <2>9 DEF OneThreadIn, IsIn, Here
  <2>11. \A d \in w : d[1] \in Conversations \cup {Preferences} /\ (d[2] = "is" => d[3] = "here")
    BY <2>3, <2>4
  <2> QED BY <1>1, <2>1, <2>10, <2>11 DEF T
<1>3. ASSUME SetLanguagePreferences PROVE ThreadsKept'
  <2> DEFINE w == Insert(Preferences, <<>>)
  <2>1. Call(w)
    BY <1>3 DEF SetLanguagePreferences, Request
  <2>2. \A c \in w : c[1] = Preferences /\ ((c[2] = "is" /\ c[3] = "here") \/ c[2] \in DOMAIN <<>>)
    BY InsertNames
  <2>3. \A x : x \notin DOMAIN <<>>
    OBVIOUS
  <2> HIDE DEF w
  <2>4. \A c \in w : c[1] = Preferences /\ c[2] = "is" /\ c[3] = "here"
    BY <2>2, <2>3
  <2>5. OneThreadIn(db) => OneThreadIn(Written(w))
    BY <2>4, ThreadsAreKept, ChatApart
  <2> QED BY <1>1, <2>1, <2>4, <2>5
<1>4. ASSUME NEW k \in Attempts, NEW outcome \in {"completed", "failed"}, InterpreterTranslate(k, outcome)
      PROVE  ThreadsKept'
  <2>1. Fresh(Attempts, k) /\ Call(TranslateAndRecord(k, outcome, None))
    BY <1>4 DEF InterpreterTranslate, Request
  <2>2. WritesMessage({}, None, outcome)
    BY DEF WritesMessage
  <2>3. \A x : {} \cup x = x
    OBVIOUS
  <2>4. Call({} \cup TranslateAndRecord(k, outcome, None))
    BY <2>1, <2>3
  <2> QED BY <2>1, <2>2, <2>4, AttemptIsMade
<1>5. ASSUME NEW k \in Attempts, NEW outcome \in {"completed", "failed"}, NEW r \in Row,
             NEW client \in ClientIds, SendVipMessage(r, client, k, outcome)
      PROVE  ThreadsKept'
  <2>1. /\ Fresh(Attempts, k) /\ New(r)
        /\ Call(Insert(r, [client |-> client, status |-> outcome]) \cup TranslateAndRecord(k, outcome, r))
    BY <1>5 DEF SendVipMessage, Request
  <2>2. db[r].is = "none" /\ ~Pending(r) /\ db[r].client = 0
    BY <2>1 DEF New, Unused, ThreadsKept
  <2>3. WritesMessage(Insert(r, [client |-> client, status |-> outcome]), r, outcome)
    BY <2>2, MessageShape
  <2> QED BY <2>1, <2>3, AttemptIsMade
<1>6. ASSUME NEW k \in Attempts, NEW outcome \in {"completed", "failed"}, NEW r \in Row,
             RetryTranslation(r, k, outcome)
      PROVE  ThreadsKept'
  <2>1. /\ Fresh(Attempts, k) /\ Here(r)
        /\ Call(Change(r, "status", outcome) \cup TranslateAndRecord(k, outcome, r))
    BY <1>6 DEF RetryTranslation, Request
  <2>2. \A c \in Change(r, "status", outcome) : c[1] = r /\ c[2] = "status" /\ c[3] = outcome
    BY ChangeShape
  <2>3. WritesMessage(Change(r, "status", outcome), r, outcome)
    BY <2>1, <2>2 DEF WritesMessage
  <2> QED BY <2>1, <2>3, AttemptIsMade
<1>7. ASSUME UNCHANGED tables PROVE ThreadsKept'
  <2>1. Futures' = Futures /\ UNCHANGED <<topic, db, open, overlapped>>
    BY <1>7, StillFutures DEF tables
  <2>2. ChatOpen /\ ChatUnique /\ ChatAlone
    BY ThreadsInParts
  <2>3. ChatOpen' /\ ChatUnique'
    BY <2>1, <2>2 DEF ChatOpen, ChatUnique, Here, Only
  <2>4. ChatAlone'
    BY <2>1, <2>2 DEF ChatAlone, OneThreadIn, UsageIn, DoneIn, IsIn
  <2> QED BY <2>3, <2>4, ThreadsInParts
<1>8. CircleChanges => UNCHANGED tables
  BY DEF CircleChanges, Outside
<1>9. VipMessages => ThreadsKept'
  BY <1>4, <1>5, <1>6 DEF VipMessages
<1> QED BY <1>2, <1>3, <1>7, <1>8, <1>9, ThreadsCommit, ThreadsRollBack DEF ChatNext

LEMMA ThreadsStart ==
  ASSUME ChatInit
  PROVE  ThreadsKept
<1>1. Futures = {db} /\ \A t \in DOMAIN open : open[t] = {}
  BY DEF ChatInit, Start, Futures, Opened
<1> USE ChatApart
<1>2. ASSUME NEW r \in Row PROVE db[r].is = "none" /\ db[r].client = 0 /\ db[r].status = "failed"
  <2>1. db[r] = [is |-> "none", client |-> 0, status |-> "failed"]
    BY DEF ChatInit, Start
  <2> QED BY <2>1
<1>3. ASSUME NEW c \in Conversations PROVE db[c].is = "none"
  <2>1. db[c] = [is |-> "none", type |-> "direct"]
    BY DEF ChatInit, Start
  <2> QED BY <2>1
<1>4. ASSUME NEW k \in Attempts PROVE db[k].is = "none" /\ db[k].status = "failed" /\ db[k].of = None
  <2>1. db[k] = [is |-> "none", status |-> "failed", of |-> None]
    BY DEF ChatInit, Start
  <2> QED BY <2>1
<1>5. db[Usage].is = "none" /\ db[Usage].requests = 0
  <2>1. db[Usage] = [is |-> "none", requests |-> 0]
    BY DEF ChatInit, Start
  <2> QED BY <2>1
<1>6. DoneIn(db) = {}
  BY <1>4 DEF DoneIn, IsIn
<1>7. UsageIn(db) /\ OneThreadIn(db)
  BY <1>3, <1>5, <1>6, FS_EmptySet DEF UsageIn, OneThreadIn, IsIn
<1> QED BY <1>1, <1>2, <1>4, <1>5, <1>7 DEF ThreadsKept, Here

LEMMA OneThread ==
  ASSUME ThreadsKept
  PROVE  OneThreadEach /\ UsageIsWork
<1>1. topic = "chat" /\ ~overlapped =>
        \A type \in ConversationTypes : \A a, b \in FindConversationId(type) : a = b
  BY DEF ThreadsKept, Futures, OneThreadIn, IsIn, FindConversationId, Here
<1>2. OneThreadEach
  BY <1>1, AtMostOne DEF OneThreadEach, ThreadsKept, Table
<1>3. UsageIsWork
  BY DEF UsageIsWork, ThreadsKept, Futures, UsageIn, DoneIn, IsIn, Table, Here
<1> QED BY <1>2, <1>3

-----------------------------------------------------------------------------
(* The files.                                                              *)
FileFits(r) ==
  /\ db[r].is = "none" => db[r].kind = None /\ db[r].status = "ready"
  /\ db[r].kind = "recording" =>
       /\ r \in egress => Here(r) /\ db[r].status = "processing"
       /\ Here(r) /\ db[r].status = "ready" =>
            r \in objects \/ \E t \in DOMAIN open : <<r, "is", "gone">> \in open[t]
       /\ ~Here(r) => r \notin objects \cup egress
MakesFile(w, r) ==
  /\ \A d \in w : d[1] = r /\ (d[2] = "is" => d[3] = "here")
  /\ (\E d \in w : d[2] = "kind" /\ d[3] = "recording") =>
       /\ \A d \in w : d[2] = "status" => d[3] = "processing"
       /\ Writes(w, r, "status")
ChangeIsLawful(t, c) ==
  /\ c[1] \in Row /\ c[2] \in {"is", "kind", "status"}
  /\ c[2] = "is" => c[3] \in {"here", "gone"} /\ c = <<c[1], "is", c[3]>>
  /\ c[2] = "is" /\ c[3] = "here" =>
       db[c[1]].is = "none" /\ Only(t, c[1]) /\ MakesFile(open[t], c[1])
  /\ c[2] = "is" /\ c[3] = "gone" =>
       /\ open[t] = {c} /\ db[c[1]].is # "none"
       /\ db[c[1]].kind = "recording" =>
            c[1] \notin objects \cup egress /\ db[c[1]].status # "processing"
  /\ c[2] = "kind" => <<c[1], "is", "here">> \in open[t]
  /\ c[2] = "status" =>
       \/ <<c[1], "is", "here">> \in open[t]
       \/ /\ open[t] = {c} /\ Here(c[1])
          /\ db[c[1]].kind = "recording" /\ db[c[1]].status = "processing"
          /\ c[1] \notin egress /\ (c[3] = "ready" => c[1] \in objects)
          /\ \A s \in DOMAIN open \ {t} : \A d \in open[s] : ~(d[1] = c[1] /\ d[2] = "status")

LEMMA FilesInParts ==
  /\ FilesKept <=> (topic = "files" /\ ~outside.failed /\ ~outside.deleted =>
       (\A r \in Row : FileFits(r)) /\ \A t \in DOMAIN open : \A c \in open[t] : ChangeIsLawful(t, c))
  /\ FilesKept' <=> (topic' = "files" /\ ~outside'.failed /\ ~outside'.deleted =>
       (\A r \in Row : FileFits(r)') /\ \A t \in DOMAIN open' : \A c \in open'[t] : ChangeIsLawful(t, c)')
BY DEF FilesKept, FileFits, ChangeIsLawful, MakesFile

(* A row that is being made is touched by nobody else.                     *)
LEMMA MadeIsAlone ==
  ASSUME NEW t \in DOMAIN open, NEW r, <<r, "is", "here">> \in open[t],
         \A c \in open[t] : ChangeIsLawful(t, c)
  PROVE  db[r].is = "none" /\ Only(t, r) /\ MakesFile(open[t], r)
<1> DEFINE c == <<r, "is", "here">>
<1>1. c \in open[t] /\ c[1] = r /\ c[2] = "is" /\ c[3] = "here"
  OBVIOUS
<1> HIDE DEF c
<1> QED BY <1>1 DEF ChangeIsLawful

FilesAllFit ==
  /\ \A r \in Row : FileFits(r)
  /\ \A t \in DOMAIN open : \A c \in open[t] : ChangeIsLawful(t, c)
FilesWorld ==
  DOMAIN outside = {"egress", "objects", "failed", "deleted"} /\ egress \subseteq Row /\ objects \subseteq Row

LEMMA FilesTypedWorld ==
  ASSUME FilesTyped, topic = "files"
  PROVE  /\ FilesWorld
         /\ FilesAllFit => \A t \in DOMAIN open : \A c \in open[t] : c[1] \in Row
         /\ \A r \in Row : r \in DOMAIN db /\ DOMAIN db[r] = {"is", "kind", "status"}
<1>1. FilesWorld
  BY DEF FilesTyped, FilesWorld, egress, objects
<1>2. FilesAllFit => \A t \in DOMAIN open : \A c \in open[t] : c[1] \in Row
  BY DEF FilesAllFit, ChangeIsLawful
<1>3. \A r \in Row : r \in DOMAIN db /\ db[r] \in FileRow
  BY FilesRows DEF FilesTyped, Typed
<1> QED BY <1>1, <1>2, <1>3 DEF FileRow

(* A file is made.                                                         *)
LEMMA NewFileShape ==
  ASSUME NEW r, NEW kind \in FileKinds, NEW status, kind = "recording" => status = "processing",
         db[r].is = "none", db[r].kind = None, db[r].status = "ready"
  PROVE  /\ MakesFile(NewFile(r, kind, status), r) /\ <<r, "is", "here">> \in NewFile(r, kind, status)
         /\ \A c \in NewFile(r, kind, status) :
              c[2] \in {"is", "kind", "status"} /\ (c[2] = "is" => c = <<r, "is", "here">>)
<1> DEFINE columns == [kind |-> kind, status |-> status]
           v == Insert(r, columns)
<1>1. <<r, "is", "here">> \in v
  BY DEF Insert
<1>2. status = "processing" => <<r, "status", status>> \in v
  BY DEF Insert, Update, Change
<1>3. DOMAIN columns = {"kind", "status"} /\ columns["kind"] = kind /\ columns["status"] = status
  OBVIOUS
<1> HIDE DEF columns
<1>4. \A c \in Update(r, columns) : c[1] = r /\ c[2] \in {"kind", "status"} /\ c[3] = columns[c[2]]
  BY <1>3, UpdateShape
<1>5. \A c \in v : c[1] = r /\ ((c[2] = "is" /\ c[3] = "here" /\ c = <<r, "is", "here">>) \/ c \in Update(r, columns))
  BY InsertShape
<1>6. v = NewFile(r, kind, status)
  BY DEF NewFile, columns
<1> HIDE DEF v
<1>7. \A c \in v : /\ c[1] = r /\ c[2] \in {"is", "kind", "status"}
                   /\ c[2] = "is" => c[3] = "here" /\ c = <<r, "is", "here">>
                   /\ c[2] = "kind" => c[3] = kind
                   /\ c[2] = "status" => c[3] = status
  BY <1>3, <1>4, <1>5
<1>8. status = "processing" => Writes(v, r, "status")
  BY <1>2 DEF Writes
<1>9. MakesFile(v, r)
  BY <1>7, <1>8 DEF MakesFile
<1> QED BY <1>1, <1>6, <1>7, <1>9

LEMMA FileIsMade ==
  ASSUME FilesAllFit, topic = "files", DOMAIN open = Slot \cup Job, NEW r \in Row, New(r),
         NEW w, Call(w), MakesFile(w, r), <<r, "is", "here">> \in w,
         \A c \in w : c[2] \in {"is", "kind", "status"} /\ (c[2] = "is" => c = <<r, "is", "here">>),
         objects' = objects, egress' = egress \/ egress' = egress \cup {r}
  PROVE  FilesAllFit'
<1>1. PICK t \in Slot : Opens(t, w)
  BY CallOpens
<1>2. /\ db' = db /\ DOMAIN open' = DOMAIN open /\ t \in DOMAIN open /\ open[t] = {} /\ open'[t] = w
      /\ \A s \in DOMAIN open \ {t} : open'[s] = open[s]
  BY <1>1 DEF Opens
<1>3. db[r].is = "none" /\ ~Pending(r)
  BY DEF New, Unused
<1>4. db[r].kind # "recording"
  BY <1>3, FilesAssumption DEF FilesAllFit, FileFits, FileKinds
<1>5. \A s \in DOMAIN open \ {t} : \A c \in open[s] : c[1] # r
  BY <1>3 DEF Pending
<1>6. ASSUME NEW q \in Row PROVE FileFits(q)'
  <2>1. FileFits(q)
    BY DEF FilesAllFit
  <2>2. \A s \in DOMAIN open : <<q, "is", "gone">> \in open[s] => <<q, "is", "gone">> \in open'[s]
    BY <1>2
  <2> QED BY <1>2, <1>3, <1>4, <2>1, <2>2 DEF FileFits, Here
<1>7. ASSUME NEW s \in DOMAIN open', NEW c \in open'[s] PROVE ChangeIsLawful(s, c)'
  <2>1. CASE s = t
    <3>1. c \in w /\ c[1] = r
      BY <1>2, <1>7, <2>1 DEF MakesFile
    <3>2. c[2] = "is" => c[3] = "here"
      BY <3>1 DEF MakesFile
    <3>3. Only(s, r)'
      BY <1>2, <1>5, <2>1 DEF Only
    <3>4. MakesFile(w, r)'
      BY <1>2 DEF MakesFile, Writes
    <3> QED BY <1>2, <1>3, <2>1, <3>1, <3>2, <3>3, <3>4 DEF ChangeIsLawful
  <2>2. CASE s # t
    <3>1. s \in DOMAIN open /\ c \in open[s] /\ open'[s] = open[s] /\ ChangeIsLawful(s, c) /\ c[1] # r
      BY <1>2, <1>5, <1>7, <2>2 DEF FilesAllFit
    <3>2. \A d \in w : d[1] = r
      BY DEF MakesFile
    <3>3. Only(s, c[1]) => Only(s, c[1])'
      BY <1>2, <3>1, <3>2 DEF Only
    <3>4. MakesFile(open[s], c[1])' = MakesFile(open'[s], c[1])
      BY <3>1 DEF MakesFile, Writes
    <3>5. (\A x \in DOMAIN open \ {s} : \A d \in open[x] : ~(d[1] = c[1] /\ d[2] = "status"))
            => \A x \in DOMAIN open' \ {s} : \A d \in open'[x] : ~(d[1] = c[1] /\ d[2] = "status")
      BY <1>2, <3>1, <3>2
    <3>6. c[1] \in egress' => c[1] \in egress
      BY <3>1
    <3> QED BY <1>2, <3>1, <3>3, <3>4, <3>5, <3>6 DEF ChangeIsLawful, Here
  <2> QED BY <2>1, <2>2
<1> QED BY <1>6, <1>7 DEF FilesAllFit

(* What becomes of the others, when a request is about one file that others*)
(* do but delete.                                                          *)
LEMMA OtherFilesFit ==
  ASSUME FilesAllFit, DOMAIN open = Slot \cup Job, NEW r \in Row, NEW w, NEW t \in DOMAIN open, Opens(t, w),
         \A c \in w : c[1] = r,
         \A s \in DOMAIN open : \A c \in open[s] : c[1] = r =>
           c[2] = "is" /\ c[3] = "gone" /\ (db[r].kind = "recording" => r \notin objects' \cup egress'),
         \A q \in Row \ {r} : (q \in egress' => q \in egress) /\ (q \in objects' <=> q \in objects),
         \A s \in DOMAIN open : \A c \in open[s] : c[1] \in Row
  PROVE  /\ \A q \in Row \ {r} : FileFits(q)'
         /\ \A s \in DOMAIN open' \ {t} : \A c \in open'[s] : ChangeIsLawful(s, c)'
<1>2. /\ db' = db /\ DOMAIN open' = DOMAIN open /\ open[t] = {} /\ open'[t] = w
      /\ \A s \in DOMAIN open \ {t} : open'[s] = open[s]
  BY DEF Opens
<1>6. ASSUME NEW q \in Row \ {r} PROVE FileFits(q)'
  <2>1. FileFits(q)
    BY DEF FilesAllFit
  <2>2. \A s \in DOMAIN open : <<q, "is", "gone">> \in open[s] => <<q, "is", "gone">> \in open'[s]
    BY <1>2
  <2>3. (q \in egress' => q \in egress) /\ (q \in objects' <=> q \in objects)
    OBVIOUS
  <2> QED BY <1>2, <2>1, <2>2, <2>3 DEF FileFits, Here
<1>7. ASSUME NEW s \in DOMAIN open' \ {t}, NEW c \in open'[s] PROVE ChangeIsLawful(s, c)'
  <2>1. s \in DOMAIN open /\ c \in open[s] /\ open'[s] = open[s] /\ ChangeIsLawful(s, c) /\ c[1] \in Row
    BY <1>2, <1>7 DEF FilesAllFit
  <2>2. CASE c[1] = r
    <3>1. /\ c[2] = "is" /\ c[3] = "gone" /\ db' = db
          /\ db[r].kind = "recording" => r \notin objects' \cup egress'
      BY <1>2, <2>1, <2>2
    <3>2. c[2] # "kind" /\ c[2] # "status" /\ c[3] # "here"
      BY <3>1
    <3> QED BY <2>1, <2>2, <3>1, <3>2 DEF ChangeIsLawful
  <2>3. CASE c[1] # r
    <3>1. Only(s, c[1]) => Only(s, c[1])'
      BY <1>2, <2>1, <2>3 DEF Only
    <3>2. MakesFile(open[s], c[1])' = MakesFile(open'[s], c[1])
      BY <2>1 DEF MakesFile, Writes
    <3>3. (\A x \in DOMAIN open \ {s} : \A d \in open[x] : ~(d[1] = c[1] /\ d[2] = "status"))
            => \A x \in DOMAIN open' \ {s} : \A d \in open'[x] : ~(d[1] = c[1] /\ d[2] = "status")
      BY <1>2, <2>1, <2>3
    <3>4. (c[1] \in egress' => c[1] \in egress) /\ (c[1] \in objects' <=> c[1] \in objects)
      BY <2>1, <2>3
    <3> QED BY <1>2, <2>1, <3>1, <3>2, <3>3, <3>4 DEF ChangeIsLawful, Here
  <2> QED BY <2>2, <2>3
<1> QED BY <1>6, <1>7

(* Who may have changed a file that is there.                              *)
LEMMA HereIsNotMade ==
  ASSUME FilesAllFit, NEW r, db[r].is # "none", NEW s \in DOMAIN open, NEW c \in open[s], c[1] = r
  PROVE  \/ c[2] = "is" /\ c[3] = "gone" /\ c = <<r, "is", "gone">> /\ open[s] = {c}
            /\ (db[r].kind = "recording" => r \notin objects \cup egress /\ db[r].status # "processing")
         \/ /\ c[2] = "status" /\ open[s] = {c} /\ Here(r)
            /\ db[r].kind = "recording" /\ db[r].status = "processing" /\ r \notin egress
            /\ c[3] = "ready" => r \in objects
            /\ \A x \in DOMAIN open \ {s} : \A d \in open[x] : ~(d[1] = r /\ d[2] = "status")
<1>1. ChangeIsLawful(s, c) /\ \A d \in open[s] : ChangeIsLawful(s, d)
  BY DEF FilesAllFit
<1>2. <<r, "is", "here">> \notin open[s]
  BY <1>1, MadeIsAlone
<1>3. CASE c[2] = "is"
  <2>1. c[3] # "here"
    BY <1>1, <1>2, <1>3 DEF ChangeIsLawful
  <2> QED BY <1>1, <1>3, <2>1 DEF ChangeIsLawful
<1>4. CASE c[2] = "kind"
  BY <1>1, <1>2, <1>4 DEF ChangeIsLawful
<1>5. CASE c[2] = "status"
  BY <1>1, <1>2, <1>5 DEF ChangeIsLawful
<1> QED BY <1>1, <1>3, <1>4, <1>5 DEF ChangeIsLawful

LEMMA FileIsStopped ==
  ASSUME FilesAllFit, FilesWorld, topic = "files", DOMAIN open = Slot \cup Job,
         \A s \in DOMAIN open : \A c \in open[s] : c[1] \in Row,
         NEW r \in Row, NEW result \in {"processing", "ready", "failed"}, StopRecording(r, result)
  PROVE  FilesAllFit'
<1>1. Here(r) /\ db[r].kind = "recording" /\ r \in egress /\ db[r].status = "processing"
  BY DEF StopRecording, OfKind, FilesAllFit, FileFits
<1> DEFINE w == Change(r, "status", result)
<1>2. PICK t \in Slot : Opens(t, w)
  BY CallOpens DEF StopRecording
<1>3. /\ db' = db /\ DOMAIN open' = DOMAIN open /\ t \in DOMAIN open /\ open[t] = {} /\ open'[t] = w
      /\ \A s \in DOMAIN open \ {t} : open'[s] = open[s]
  BY <1>2 DEF Opens
<1>4. \A s \in DOMAIN open : \A c \in open[s] : c[1] # r
  BY <1>1, HereIsNotMade DEF Here
<1>5. CASE result = "processing"
  <2>1. w = {} /\ outside' = outside
    BY <1>1, <1>5 DEF Change, StopRecording
  <2>2. DOMAIN open' = DOMAIN open /\ \A s \in DOMAIN open : open'[s] = open[s]
    BY <1>3, <2>1
  <2>3. \A q \in Row : FileFits(q)' = FileFits(q)
    BY <1>3, <2>1, <2>2 DEF FileFits, Here, egress, objects
  <2>4. \A s \in DOMAIN open : \A c \in open[s] : ChangeIsLawful(s, c)' = ChangeIsLawful(s, c)
    BY <1>3, <2>1, <2>2 DEF ChangeIsLawful, MakesFile, Writes, Only, Here, egress, objects
  <2> HIDE DEF w
  <2> QED BY <2>2, <2>3, <2>4 DEF FilesAllFit
<1>6. CASE result # "processing"
  <2>1. w = {<<r, "status", result>>}
    BY <1>1, <1>6 DEF Change
  <2>2. egress' = egress \ {r} /\ objects' = (IF result = "ready" THEN objects \cup {r} ELSE objects)
    BY <1>6 DEF StopRecording, FilesWorld, egress, objects
  <2> HIDE DEF w
  <2>3. \A c \in w : c = <<r, "status", result>> /\ c[1] = r
    BY <2>1
  <2>4. \A q \in Row \ {r} : (q \in egress' => q \in egress) /\ (q \in objects' <=> q \in objects)
    BY <2>2
  <2>5. \A s \in DOMAIN open : \A c \in open[s] : c[1] = r =>
          c[2] = "is" /\ c[3] = "gone" /\ (db[r].kind = "recording" => r \notin objects' \cup egress')
    BY <1>4
  <2>6. /\ \A q \in Row \ {r} : FileFits(q)'
        /\ \A s \in DOMAIN open' \ {t} : \A c \in open'[s] : ChangeIsLawful(s, c)'
    BY <1>2, <1>3, <2>3, <2>4, <2>5, OtherFilesFit
  <2>7. FileFits(r)'
    BY <1>1, <1>3, <2>2 DEF FileFits, Here
  <2>8. ASSUME NEW c \in open'[t] PROVE ChangeIsLawful(t, c)'
    <3>1. c = <<r, "status", result>> /\ open'[t] = {c}
      BY <1>3, <2>1, <2>8
    <3>2. c[1] = r /\ c[2] = "status" /\ c[3] = result
      BY <3>1
    <3>3. \A s \in DOMAIN open' \ {t} : \A d \in open'[s] : ~(d[1] = r /\ d[2] = "status")
      BY <1>3, <1>4
    <3>4. r \notin egress' /\ (result = "ready" => r \in objects')
      BY <2>2
    <3>5. Here(r)' /\ db'[r].kind = "recording" /\ db'[r].status = "processing"
      BY <1>1, <1>3 DEF Here
    <3> HIDE DEF w
    <3> QED BY <3>1, <3>2, <3>3, <3>4, <3>5 DEF ChangeIsLawful
  <2> QED BY <2>6, <2>7, <2>8 DEF FilesAllFit
<1> QED BY <1>5, <1>6

LEMMA FileIsDeleted ==
  ASSUME FilesAllFit, FilesWorld, topic = "files", DOMAIN open = Slot \cup Job,
         \A s \in DOMAIN open : \A c \in open[s] : c[1] \in Row,
         NEW r \in Row, DeleteRecording(r) \/ DeleteDocument(r)
  PROVE  FilesAllFit'
<1>1. Here(r) /\ (db[r].kind = "recording" => db[r].status # "processing")
  BY DEF DeleteRecording, DeleteDocument, OfKind
<1> DEFINE w == Delete(r)
<1>2. PICK t \in Slot : Opens(t, w)
  BY CallOpens DEF DeleteRecording, DeleteDocument
<1>3. /\ db' = db /\ DOMAIN open' = DOMAIN open /\ t \in DOMAIN open /\ open[t] = {} /\ open'[t] = w
      /\ \A s \in DOMAIN open \ {t} : open'[s] = open[s]
  BY <1>2 DEF Opens
<1>4. egress' = egress /\ objects' = objects \ {r}
  BY DEF DeleteRecording, DeleteDocument, FilesWorld, egress, objects
<1>5. db[r].kind = "recording" => r \notin egress'
  BY <1>1, <1>4 DEF FilesAllFit, FileFits
<1>6. w = {<<r, "is", "gone">>}
  BY <1>1 DEF Delete, Change, Here
<1> HIDE DEF w
<1>7. \A c \in w : c[1] = r
  BY <1>6
<1>8. ASSUME NEW s \in DOMAIN open, NEW c \in open[s], c[1] = r
      PROVE  c[2] = "is" /\ c[3] = "gone" /\ (db[r].kind = "recording" => r \notin objects' \cup egress')
  <2>1. db[r].is # "none"
    BY <1>1 DEF Here
  <2> QED BY <1>1, <1>4, <1>5, <1>8, <2>1, HereIsNotMade
<1>9. \A q \in Row \ {r} : (q \in egress' => q \in egress) /\ (q \in objects' <=> q \in objects)
  BY <1>4
<1>10. /\ \A q \in Row \ {r} : FileFits(q)'
       /\ \A s \in DOMAIN open' \ {t} : \A c \in open'[s] : ChangeIsLawful(s, c)'
  BY <1>2, <1>3, <1>7, <1>8, <1>9, OtherFilesFit
<1>11. FileFits(r)'
  <2>1. <<r, "is", "gone">> \in open'[t] /\ t \in DOMAIN open'
    BY <1>3, <1>6
  <2> QED BY <1>1, <1>3, <1>5, <2>1 DEF FileFits, Here
<1>12. ASSUME NEW c \in open'[t] PROVE ChangeIsLawful(t, c)'
  <2>1. c = <<r, "is", "gone">> /\ open'[t] = {c}
    BY <1>3, <1>6, <1>12
  <2>2. c[1] = r /\ c[2] = "is" /\ c[3] = "gone"
    BY <2>1
  <2>3. db'[r].is # "none" /\ db' = db /\ r \notin objects'
    BY <1>1, <1>3, <1>4 DEF Here
  <2> QED BY <1>1, <1>5, <2>1, <2>2, <2>3 DEF ChangeIsLawful
<1> QED BY <1>10, <1>11, <1>12 DEF FilesAllFit

(* What happens outside.                                                   *)
LEMMA FilesOutside ==
  ASSUME FilesAllFit, FilesWorld, UNCHANGED tables, NEW r \in Row,
         \/ r \in egress /\ egress' = egress \ {r} /\ objects' = objects \cup {r}
         \/ db[r].kind = "document" /\ egress' = egress /\ objects' = objects \cup {r}
  PROVE  FilesAllFit'
<1>1. db' = db /\ open' = open
  BY DEF tables
<1>2. ASSUME NEW q \in Row PROVE FileFits(q)'
  <2>1. FileFits(q)
    BY DEF FilesAllFit
  <2>2. (q \in egress' => q \in egress) /\ (q \in objects => q \in objects')
    OBVIOUS
  <2>3. q \in objects' => q \in objects \/ q \in egress \/ db[q].kind # "recording"
    OBVIOUS
  <2> QED BY <1>1, <2>1, <2>2, <2>3 DEF FileFits, Here
<1>3. ASSUME NEW s \in DOMAIN open', NEW c \in open'[s] PROVE ChangeIsLawful(s, c)'
  <2>1. ChangeIsLawful(s, c)
    BY <1>1, <1>3 DEF FilesAllFit
  <2>2. (c[1] \in egress' => c[1] \in egress) /\ (c[1] \in objects => c[1] \in objects')
    OBVIOUS
  <2>3. c[1] \in objects' => c[1] \in objects \/ c[1] \in egress \/ db[c[1]].kind # "recording"
    OBVIOUS
  <2>4. Only(s, c[1])' = Only(s, c[1]) /\ MakesFile(open[s], c[1])' = MakesFile(open[s], c[1])
    BY <1>1 DEF Only, MakesFile, Writes
  <2> QED BY <1>1, <2>1, <2>2, <2>3, <2>4 DEF ChangeIsLawful, Here
<1> QED BY <1>2, <1>3 DEF FilesAllFit

LEMMA FileIsSame ==
  ASSUME FilesTyped, topic = "files", NEW w, NEW q \in Row, \A c \in w : c[1] # q
  PROVE  Written(w)[q] = db[q]
<1>1. q \in DOMAIN db /\ db[q] \in FileRow
  BY FilesRows DEF FilesTyped, Typed
<1>2. db[q] = [column \in DOMAIN db[q] |-> db[q][column]]
  BY <1>1 DEF FileRow
<1> QED BY <1>1, <1>2, RowIsKept

(* What becomes of the others when what one request did with a file is     *)
(* written.                                                                *)
LEMMA OtherFilesStay ==
  ASSUME FilesAllFit, FilesTyped, topic = "files", DOMAIN open = Slot \cup Job,
         NEW t \in Slot \cup Job, Commit(t), NEW r \in Row, \A c \in open[t] : c[1] = r,
         \A s \in DOMAIN open \ {t} : \A c \in open[s] : c[1] = r =>
           /\ c[2] = "is" /\ c[3] = "gone" /\ open[s] = {c} /\ db'[r].is # "none"
           /\ db'[r].kind = "recording" =>
                r \notin objects \cup egress /\ db'[r].status # "processing",
         FileFits(r)'
  PROVE  FilesAllFit'
<1>1. /\ db' = Written(open[t]) /\ DOMAIN open' = DOMAIN open /\ open'[t] = {}
      /\ \A s \in DOMAIN open \ {t} : open'[s] = open[s]
      /\ outside' = outside /\ egress' = egress /\ objects' = objects
  BY DEF Commit, egress, objects
<1>2. \A q \in Row \ {r} : db'[q] = db[q]
  BY <1>1, FileIsSame
<1>3. ASSUME NEW q \in Row \ {r} PROVE FileFits(q)'
  <2>1. FileFits(q)
    BY DEF FilesAllFit
  <2>2. ASSUME NEW s \in DOMAIN open, <<q, "is", "gone">> \in open[s]
        PROVE  s \in DOMAIN open' /\ <<q, "is", "gone">> \in open'[s]
    <3>1. s # t
      BY <2>2
    <3> QED BY <1>1, <2>2, <3>1
  <2> QED BY <1>1, <1>2, <2>1, <2>2 DEF FileFits, Here
<1>4. ASSUME NEW s \in DOMAIN open', NEW c \in open'[s] PROVE ChangeIsLawful(s, c)'
  <2>1. s \in DOMAIN open /\ s # t /\ c \in open[s] /\ open'[s] = open[s] /\ c[1] \in Row /\ ChangeIsLawful(s, c)
    BY <1>1, <1>4, FilesTypedWorld DEF FilesAllFit
  <2>2. CASE c[1] = r
    <3>1. /\ c[2] = "is" /\ c[3] = "gone" /\ open'[s] = {c} /\ db'[r].is # "none"
          /\ db'[r].kind = "recording" => r \notin objects' \cup egress' /\ db'[r].status # "processing"
      BY <1>1, <2>1, <2>2
    <3>2. c[2] # "kind" /\ c[2] # "status" /\ c[3] # "here"
      BY <3>1
    <3> QED BY <2>1, <2>2, <3>1, <3>2 DEF ChangeIsLawful
  <2>3. CASE c[1] # r
    <3>1. Only(s, c[1]) => Only(s, c[1])'
      BY <1>1, <2>1 DEF Only
    <3>2. MakesFile(open[s], c[1])' = MakesFile(open'[s], c[1])
      BY <2>1 DEF MakesFile, Writes
    <3>3. (\A x \in DOMAIN open \ {s} : \A d \in open[x] : ~(d[1] = c[1] /\ d[2] = "status"))
            => \A x \in DOMAIN open' \ {s} : \A d \in open'[x] : ~(d[1] = c[1] /\ d[2] = "status")
      BY <1>1, <2>1
    <3>4. db'[c[1]] = db[c[1]]
      BY <1>2, <2>1, <2>3
    <3> QED BY <1>1, <2>1, <3>1, <3>2, <3>3, <3>4 DEF ChangeIsLawful, Here
  <2> QED BY <2>2, <2>3
<1>5. \A q \in Row : FileFits(q)'
  BY <1>3
<1> QED BY <1>4, <1>5 DEF FilesAllFit

LEMMA MadeFileIsWritten ==
  ASSUME FilesAllFit, FilesTyped, topic = "files", DOMAIN open = Slot \cup Job,
         NEW t \in Slot \cup Job, Commit(t), NEW r \in Row, <<r, "is", "here">> \in open[t]
  PROVE  FilesAllFit'
<1>1. db' = Written(open[t]) /\ egress' = egress /\ objects' = objects
  BY DEF Commit, egress, objects
<1>2. /\ t \in DOMAIN open /\ \A c \in open[t] : ChangeIsLawful(t, c)
      /\ r \in DOMAIN db /\ DOMAIN db[r] = {"is", "kind", "status"}
  BY FilesTypedWorld DEF FilesAllFit
<1>3. db[r].is = "none" /\ Only(t, r) /\ MakesFile(open[t], r)
  BY <1>2, MadeIsAlone
<1>4. \A c \in open[t] : c[1] = r /\ (c[2] = "is" => c[3] = "here")
  BY <1>3 DEF MakesFile
<1>5. Writes(open[t], r, "is")
  <2> DEFINE c == <<r, "is", "here">>
  <2>1. c \in open[t] /\ c[1] = r /\ c[2] = "is"
    OBVIOUS
  <2> HIDE DEF c
  <2> QED BY <2>1 DEF Writes
<1>6. db'[r].is = "here"
  <2>1. Written(open[t])[r]["is"] = "here"
    BY <1>2, <1>4, <1>5, WrittenValue
  <2> QED BY <1>1, <2>1
<1>7. ASSUME db'[r].kind = "recording" PROVE db'[r].status = "processing"
  <2>1. db[r].kind # "recording"
    BY <1>3, FilesAssumption DEF FilesAllFit, FileFits, FileKinds
  <2>2. \E c \in open[t] : c[1] = r /\ c[2] = "kind" /\ Written(open[t])[r]["kind"] = c[3]
    <3>1. Writes(open[t], r, "kind")
      <4>1. ~Writes(open[t], r, "kind") => Written(open[t])[r]["kind"] = db[r]["kind"]
        BY <1>2, WrittenKeeps
      <4> QED BY <1>1, <1>7, <2>1, <4>1
    <3> QED BY <1>2, <3>1, WrittenTakes
  <2>3. \E d \in open[t] : d[2] = "kind" /\ d[3] = "recording"
    BY <1>1, <1>7, <2>2
  <2>4. (\A d \in open[t] : d[2] = "status" => d[3] = "processing") /\ Writes(open[t], r, "status")
    BY <1>3, <2>3 DEF MakesFile
  <2>5. Written(open[t])[r]["status"] = "processing"
    BY <1>2, <2>4, WrittenValue
  <2> QED BY <1>1, <2>5
<1>8. FileFits(r)'
  BY <1>6, <1>7 DEF FileFits, Here
<1>9. \A s \in DOMAIN open \ {t} : \A c \in open[s] : c[1] # r
  BY <1>3 DEF Only
<1> QED BY <1>4, <1>8, <1>9, OtherFilesStay

LEMMA FileIsWritten ==
  ASSUME FilesAllFit, FilesTyped, topic = "files", DOMAIN open = Slot \cup Job,
         NEW t \in Slot \cup Job, Commit(t)
  PROVE  FilesAllFit'
<1>1. PICK c \in open[t] : TRUE
  BY DEF Commit
<1> DEFINE r == c[1]
<1>2. /\ t \in DOMAIN open /\ ChangeIsLawful(t, c) /\ r \in Row
      /\ r \in DOMAIN db /\ DOMAIN db[r] = {"is", "kind", "status"} /\ FileFits(r)
  BY FilesTypedWorld DEF FilesAllFit
<1>3. db' = Written(open[t]) /\ egress' = egress /\ objects' = objects
  BY DEF Commit, egress, objects
<1>4. CASE <<r, "is", "here">> \in open[t]
  BY <1>2, <1>4, MadeFileIsWritten
<1>5. CASE c[2] = "is" /\ c[3] = "gone"
  <2>1. /\ open[t] = {c} /\ db[r].is # "none"
        /\ db[r].kind = "recording" => r \notin objects \cup egress /\ db[r].status # "processing"
    BY <1>2, <1>5 DEF ChangeIsLawful
  <2>2. Writes(open[t], r, "is") /\ ~Writes(open[t], r, "kind") /\ ~Writes(open[t], r, "status")
    BY <1>5, <2>1 DEF Writes
  <2>3. Written(open[t])[r]["is"] = "gone"
    <3>1. \A d \in open[t] : d[1] = r /\ d[2] = "is" => d[3] = "gone"
      BY <1>5, <2>1
    <3> QED BY <1>2, <2>2, <3>1, WrittenValue
  <2>4. Written(open[t])[r]["kind"] = db[r]["kind"]
    BY <1>2, <2>2, WrittenKeeps
  <2>5. Written(open[t])[r]["status"] = db[r]["status"]
    BY <1>2, <2>2, WrittenKeeps
  <2>6. db'[r].is = "gone" /\ db'[r].kind = db[r].kind /\ db'[r].status = db[r].status
    BY <1>3, <2>3, <2>4, <2>5
  <2>7. FileFits(r)'
    BY <1>3, <2>1, <2>6 DEF FileFits, Here
  <2>8. ASSUME NEW s \in DOMAIN open \ {t}, NEW d \in open[s], d[1] = r
        PROVE  /\ d[2] = "is" /\ d[3] = "gone" /\ open[s] = {d} /\ db'[r].is # "none"
               /\ db'[r].kind = "recording" => r \notin objects \cup egress /\ db'[r].status # "processing"
    <3> HIDE DEF r
    <3>1. \/ d[2] = "is" /\ d[3] = "gone" /\ open[s] = {d}
          \/ db[r].kind = "recording" /\ db[r].status = "processing"
      BY <2>1, <2>8, HereIsNotMade
    <3> QED BY <2>1, <2>6, <3>1
  <2>9. \A d \in open[t] : d[1] = r
    BY <2>1
  <2> HIDE DEF r
  <2> QED BY <1>2, <2>7, <2>8, <2>9, OtherFilesStay
<1>6. CASE c[2] = "status" /\ <<r, "is", "here">> \notin open[t]
  <2>1. /\ open[t] = {c} /\ Here(r) /\ db[r].kind = "recording" /\ db[r].status = "processing"
        /\ r \notin egress /\ (c[3] = "ready" => r \in objects)
        /\ \A s \in DOMAIN open \ {t} : \A d \in open[s] : ~(d[1] = r /\ d[2] = "status")
    BY <1>2, <1>6 DEF ChangeIsLawful
  <2>2. ~Writes(open[t], r, "is") /\ ~Writes(open[t], r, "kind") /\ Writes(open[t], r, "status")
    BY <1>6, <2>1 DEF Writes
  <2>3. Written(open[t])[r]["status"] = c[3]
    <3> DEFINE v == c[3]
    <3>1. \A d \in open[t] : d[1] = r /\ d[2] = "status" => d[3] = v
      BY <2>1
    <3>2. r \in DOMAIN db /\ "status" \in DOMAIN db[r]
      BY <1>2
    <3>3. db[r]["status"] = v \/ Writes(open[t], r, "status")
      BY <2>2
    <3> HIDE DEF v, r
    <3>4. Written(open[t])[r]["status"] = v
      BY <3>1, <3>2, <3>3, WrittenValue
    <3> QED BY <3>4 DEF v
  <2>4. Written(open[t])[r]["kind"] = db[r]["kind"]
    BY <1>2, <2>2, WrittenKeeps
  <2>5. Written(open[t])[r]["is"] = db[r]["is"]
    BY <1>2, <2>2, WrittenKeeps
  <2>6. db'[r].is = "here" /\ db'[r].kind = "recording" /\ db'[r].status = c[3]
    BY <1>3, <2>1, <2>3, <2>4, <2>5 DEF Here
  <2>7. FileFits(r)'
    BY <1>3, <2>1, <2>6 DEF FileFits, Here
  <2>8. \A s \in DOMAIN open \ {t} : \A d \in open[s] : d[1] # r
    BY <2>1, HereIsNotMade DEF Here
  <2>9. \A d \in open[t] : d[1] = r
    BY <2>1
  <2> HIDE DEF r
  <2> QED BY <1>2, <2>7, <2>8, <2>9, OtherFilesStay
<1>7. c[2] \in {"is", "kind", "status"} /\ (c[2] = "is" => c[3] \in {"here", "gone"} /\ c = <<r, "is", c[3]>>)
      /\ (c[2] = "kind" => <<r, "is", "here">> \in open[t])
  BY <1>2 DEF ChangeIsLawful
<1>8. c[2] = "is" /\ c[3] = "here" => <<r, "is", "here">> \in open[t]
  BY <1>7
<1> QED BY <1>4, <1>5, <1>6, <1>7, <1>8

LEMMA NewFileIsMade ==
  ASSUME FilesAllFit, topic = "files", DOMAIN open = Slot \cup Job, NEW r \in Row,
         \/ StartRecording(r) /\ objects' = objects /\ egress' = egress \cup {r}
         \/ RequestDocumentUpload(r) \/ GenerateNotes(r) \/ \E q \in Row : TranscribeRecording(q, r)
  PROVE  FilesAllFit'
<1>1. New(r) => db[r].is = "none" /\ db[r].kind = None /\ db[r].status = "ready"
  <2>1. New(r) => db[r].is = "none"
    BY DEF New, Unused
  <2> QED BY <2>1 DEF FilesAllFit, FileFits
<1>2. PICK kind \in FileKinds, status \in {"processing", "ready"} :
        /\ kind = "recording" => status = "processing"
        /\ New(r) /\ Call(NewFile(r, kind, status)) /\ objects' = objects
        /\ egress' = egress \/ egress' = egress \cup {r}
  BY DEF StartRecording, RequestDocumentUpload, GenerateNotes, TranscribeRecording, NewHere, Request, FileKinds,
         egress, objects
<1> DEFINE w == NewFile(r, kind, status)
<1>3. /\ MakesFile(w, r) /\ <<r, "is", "here">> \in w
      /\ \A c \in w : c[2] \in {"is", "kind", "status"} /\ (c[2] = "is" => c = <<r, "is", "here">>)
  BY <1>1, <1>2, NewFileShape
<1>4. Call(w)
  BY <1>2
<1> HIDE DEF w
<1> QED BY <1>2, <1>3, <1>4, FileIsMade

LEMMA FilesStay ==
  ASSUME FilesKept, FilesTyped, FilesTyped', topic = "files", DOMAIN open = Slot \cup Job, FilesNext
  PROVE  FilesKept'
<1> SUFFICES ASSUME ~outside'.failed, ~outside'.deleted PROVE FilesAllFit'
  BY FilesInParts DEF FilesAllFit
<1>1. /\ FilesWorld /\ (FilesAllFit => \A s \in DOMAIN open : \A c \in open[s] : c[1] \in Row)
      /\ \A r \in Row : r \in DOMAIN db /\ DOMAIN db[r] = {"is", "kind", "status"}
  BY FilesTypedWorld
<1>2. ASSUME DeleteOccasion \/ \E t \in Slot : FailFiles(t) PROVE FALSE
  BY <1>1, <1>2 DEF DeleteOccasion, FailFiles, FilesWorld
<1>3. CASE \E t \in Slot : CommitFiles(t)
  <2>1. ~outside.failed /\ ~outside.deleted
    BY <1>3 DEF CommitFiles, CommitDeletion, Commit
  <2>2. FilesAllFit
    BY <2>1, FilesInParts DEF FilesAllFit
  <2>3. \A t \in Slot : ~Deletes(open[t])
    <3> DEFINE c == <<Occasion, "is", "gone">>
    <3>1. c[1] = Occasion
      OBVIOUS
    <3> HIDE DEF c
    <3>2. \A t \in Slot : c \notin open[t]
      BY <1>1, <2>2, <3>1, FilesAssumption
    <3> QED BY <3>2 DEF Deletes, c
  <2>4. \E t \in Slot : Commit(t)
    BY <1>3, <2>3 DEF CommitFiles, CommitDeletion
  <2> QED BY <2>2, <2>4, FileIsWritten
<1>4. FilesAllFit \/ \E t \in Slot : CommitFiles(t)
  <2>1. ASSUME ~outside.failed, ~outside.deleted PROVE FilesAllFit
    BY <2>1, FilesInParts DEF FilesAllFit
  <2>2. CASE Recordings
    <3>1. outside'.failed = outside.failed /\ outside'.deleted = outside.deleted
      BY <1>1, <2>2 DEF Recordings, StartRecording, DeleteRecording, StopRecording, FilesWorld
    <3> QED BY <2>1, <3>1
  <2>3. CASE Documents
    <3>1. outside'.failed = outside.failed /\ outside'.deleted = outside.deleted
      BY <1>1, <2>3 DEF Documents, RequestDocumentUpload, DeleteDocument, Request, FilesWorld
    <3> QED BY <2>1, <3>1
  <2>4. CASE Assistant
    <3>1. outside'.failed = outside.failed /\ outside'.deleted = outside.deleted
      BY <2>4 DEF Assistant, GenerateNotes, TranscribeRecording, Request
    <3> QED BY <2>1, <3>1
  <2>5. CASE \E r \in Row : EgressEnds(r) \/ Upload(r)
    <3>1. outside'.failed = outside.failed /\ outside'.deleted = outside.deleted
      BY <1>1, <2>5 DEF EgressEnds, Upload, Outside, FilesWorld
    <3> QED BY <2>1, <3>1
  <2> QED BY <1>2, <2>2, <2>3, <2>4, <2>5 DEF FilesNext
<1>5. CASE FilesAllFit
  <2>1. ASSUME NEW r \in Row, StartRecording(r) PROVE FilesAllFit'
    <3>1. objects' = objects /\ egress' = egress \cup {r}
      BY <1>1, <2>1 DEF StartRecording, FilesWorld, egress, objects
    <3> QED BY <1>5, <2>1, <3>1, NewFileIsMade
  <2>2. ASSUME NEW r \in Row, NEW result \in {"processing", "ready", "failed"}, StopRecording(r, result)
        PROVE  FilesAllFit'
    BY <1>1, <1>5, <2>2, FileIsStopped
  <2>3. ASSUME NEW r \in Row, DeleteRecording(r) \/ DeleteDocument(r) PROVE FilesAllFit'
    BY <1>1, <1>5, <2>3, FileIsDeleted
  <2>4. ASSUME NEW r \in Row, RequestDocumentUpload(r) \/ GenerateNotes(r) \/ \E q \in Row : TranscribeRecording(q, r)
        PROVE  FilesAllFit'
    BY <1>5, <2>4, NewFileIsMade
  <2>5. ASSUME NEW r \in Row, EgressEnds(r) \/ Upload(r) PROVE FilesAllFit'
    <3>1. UNCHANGED tables
      BY <2>5 DEF EgressEnds, Upload, Outside
    <3>2. \/ r \in egress /\ egress' = egress \ {r} /\ objects' = objects \cup {r}
          \/ db[r].kind = "document" /\ egress' = egress /\ objects' = objects \cup {r}
      BY <1>1, <2>5 DEF EgressEnds, Upload, Outside, FilesWorld, egress, objects
    <3> QED BY <1>1, <1>5, <3>1, <3>2, FilesOutside
  <2> QED BY <1>2, <1>3, <2>1, <2>2, <2>3, <2>4, <2>5 DEF FilesNext, Recordings, Documents, Assistant
<1> QED BY <1>3, <1>4, <1>5

LEMMA FilesBegin ==
  ASSUME FilesInit
  PROVE  FilesKept
<1>1. /\ \A r \in Row : db[r] = [is |-> "none", kind |-> None, status |-> "ready"]
      /\ outside = [egress |-> {}, objects |-> {}, failed |-> FALSE, deleted |-> FALSE]
      /\ \A t \in DOMAIN open : open[t] = {}
  BY FilesAssumption DEF FilesInit, Start
<1>2. ASSUME NEW r \in Row PROVE FileFits(r)
  <2>1. db[r].is = "none" /\ db[r].kind = None /\ db[r].status = "ready" /\ r \notin egress /\ r \notin objects
    BY <1>1 DEF egress, objects
  <2> QED BY <2>1 DEF FileFits, Here
<1>3. \A t \in DOMAIN open : \A c \in open[t] : ChangeIsLawful(t, c)
  BY <1>1
<1> QED BY <1>2, <1>3, FilesInParts

LEMMA FilesAreMatched ==
  ASSUME FilesKept
  PROVE  FilesMatchRows
<1> SUFFICES ASSUME topic = "files", Quiet, ~outside.failed, ~outside.deleted, NEW r \in Row, db[r].kind = "recording"
             PROVE  /\ Here(r) /\ db[r].status = "ready" => r \in objects
                    /\ ~Here(r) => r \notin objects \cup egress
  BY DEF FilesMatchRows
<1>1. FileFits(r)
  BY FilesInParts
<1>2. \A t \in DOMAIN open : <<r, "is", "gone">> \notin open[t]
  BY DEF Quiet
<1> QED BY <1>1, <1>2 DEF FileFits

(* The least and the greatest of some numbers.                             *)
LEMMA LeastOf ==
  ASSUME NEW S, S \subseteq Nat, S # {}
  PROVE  \E m \in S : \A n \in S : m <= n
<1> DEFINE R == {ss \in Nat \X Nat : ss[1] < ss[2]}
<1>1. IsWellFoundedOn(R, Nat)
  BY NatLessThanWellFounded DEF OpToRel
<1> HIDE DEF R
<1>2. \E m \in S : \A n \in S : ~(<<n, m>> \in R)
  BY <1>1, WFMin
<1>3. ASSUME NEW m \in Nat, NEW n \in Nat, ~(<<n, m>> \in R) PROVE m <= n
  <2>1. <<n, m>> \in Nat \X Nat /\ <<n, m>>[1] = n /\ <<n, m>>[2] = m
    OBVIOUS
  <2>2. ~(n < m)
    BY <1>3, <2>1 DEF R
  <2> QED BY <2>2
<1> QED BY <1>2, <1>3

LEMMA GreatestOf ==
  ASSUME NEW S, S \subseteq Int, S # {}, NEW b \in Int, \A n \in S : n <= b
  PROVE  \E m \in S : \A n \in S : n <= m
<1> DEFINE D == {k \in Nat : b - k \in S}
<1>1. D # {}
  <2>1. PICK n \in S : TRUE
    OBVIOUS
  <2>2. n \in Int /\ n <= b
    OBVIOUS
  <2>3. b - n \in Nat /\ b - (b - n) = n
    BY ONLY <2>2, b \in Int
  <2> QED BY <2>1, <2>3
<1>2. PICK m \in D : \A n \in D : m <= n
  <2> HIDE DEF D
  <2>1. D \subseteq Nat
    BY DEF D
  <2> QED BY <1>1, <2>1, LeastOf
<1>3. ASSUME NEW n \in S PROVE n <= b - m
  <2>1. b - n \in D
    <3>1. n \in Int /\ b \in Int /\ n <= b
      OBVIOUS
    <3> HIDE DEF D
    <3>2. b - n \in Nat /\ b - (b - n) = n
      BY ONLY <3>1
    <3> QED BY <3>2 DEF D
  <2> QED BY <1>2, <2>1
<1> QED BY <1>2, <1>3

-----------------------------------------------------------------------------
(* The login.                                                              *)
Remembers(k) ==
  /\ Len(outside.log) = k + Len(outside.hits)
  /\ \A i \in DOMAIN outside.hits : outside.hits[i] = outside.log[k + i]
  /\ \A i \in 1..k : outside.log[i] + LoginWindow < now
LogIsSpaced ==
  \A i, j \in DOMAIN outside.log :
    /\ outside.log[i] <= now
    /\ i <= j => outside.log[i] <= outside.log[j]
    /\ j = i + LoginLimit => outside.log[i] + LoginWindow < outside.log[j]
LogIsKept ==
  /\ outside.log \in Seq(Nat) /\ outside.hits \in Seq(Nat)
  /\ LogIsSpaced /\ \E k \in 0..Len(outside.log) : Remembers(k)
LEMMA RateInParts ==
  /\ RateKept <=> (topic = "login" => LogIsKept)
  /\ RateKept' <=> (topic' = "login" => LogIsKept')
BY DEF RateKept, LogIsKept, LogIsSpaced, Remembers

LoginLog == DOMAIN outside = {"says", "now", "hits", "log", "in"} /\ now \in Nat
LEMMA LoginTypedWorld ==
  ASSUME LoginTyped, topic = "login"
  PROVE  LoginLog
BY RecoveryAssumption DEF LoginTyped, LoginLog

LEMMA LogUnchanged ==
  ASSUME LogIsKept, LoginLog, outside'.log = outside.log, outside'.hits = outside.hits,
         now' \in Nat, now <= now'
  PROVE  LogIsKept'
<1>1. DOMAIN outside.log = 1..Len(outside.log) /\ \A i \in DOMAIN outside.log : outside.log[i] \in Nat
  BY DEF LogIsKept
<1>2. now \in Nat /\ LoginWindow \in Nat
  BY RecoveryAssumption DEF LoginLog
<1>3. LogIsSpaced'
  BY <1>1, <1>2 DEF LogIsKept, LogIsSpaced
<1>4. PICK k \in 0..Len(outside.log) : Remembers(k)
  BY DEF LogIsKept
<1>5. k <= Len(outside.log) /\ Len(outside.log) \in Nat
  BY <1>4 DEF LogIsKept
<1>6. \A i \in 1..k : outside.log[i] + LoginWindow < now'
  <2> SUFFICES ASSUME NEW i \in 1..k PROVE outside.log[i] + LoginWindow < now'
    OBVIOUS
  <2>1. outside.log[i] + LoginWindow < now
    BY <1>4 DEF Remembers
  <2>2. outside.log[i] \in Nat
    BY <1>1, <1>4, <1>5
  <2> QED BY <1>2, <2>1, <2>2
<1>7. Remembers(k)'
  BY <1>4, <1>6 DEF Remembers
<1> QED BY <1>3, <1>7 DEF LogIsKept

LEMMA HitIsLogged ==
  ASSUME LogIsKept, LoginLog, Hit
  PROVE  LogIsKept'
<1>1. PICK n \in 0..Len(outside.hits) :
        /\ Evict(n) /\ Len(outside.hits) - n < LoginLimit
        /\ outside' = [outside EXCEPT !.hits = Append(SubSeq(@, n + 1, Len(@)), now),
                                      !.log = Append(@, now)]
  BY DEF Hit
<1> DEFINE log == outside.log
           hits == outside.hits
           left == SubSeq(hits, n + 1, Len(hits))
<1>2. /\ outside'.hits = Append(left, now) /\ outside'.log = Append(log, now) /\ now' = now
  BY <1>1 DEF LoginLog, now
<1>3. /\ log \in Seq(Nat) /\ hits \in Seq(Nat) /\ now \in Nat
      /\ LoginWindow \in Nat /\ LoginLimit \in Nat \ {0}
  BY RecoveryAssumption DEF LogIsKept, LoginLog
<1>4. PICK k \in 0..Len(log) : Remembers(k)
  BY DEF LogIsKept
<1>5. /\ Len(log) \in Nat /\ Len(hits) \in Nat /\ n \in Nat /\ n <= Len(hits)
      /\ k \in Nat /\ Len(log) = k + Len(hits)
      /\ DOMAIN log = 1..Len(log) /\ DOMAIN hits = 1..Len(hits)
      /\ \A i \in 1..Len(log) : log[i] \in Nat
      /\ \A i \in 1..Len(hits) : hits[i] = log[k + i]
      /\ \A i \in 1..k : log[i] + LoginWindow < now
      /\ \A i \in 1..n : hits[i] + LoginWindow < now
      /\ Len(hits) - n < LoginLimit
  <2>1. Len(log) \in Nat /\ Len(hits) \in Nat /\ DOMAIN log = 1..Len(log) /\ DOMAIN hits = 1..Len(hits)
        /\ \A i \in 1..Len(log) : log[i] \in Nat
    BY <1>3
  <2>2. \A i \in 1..n : hits[i] + LoginWindow < now
    BY <1>1 DEF Evict, Old
  <2> QED BY <1>1, <1>4, <2>1, <2>2 DEF Remembers
<1>6. /\ left \in Seq(Nat) /\ Len(left) = Len(hits) - n
      /\ \A i \in 1..Len(hits) - n : left[i] = hits[n + i]
  <2>1. \A i \in n + 1..Len(hits) : hits[i] \in Nat
    <3>1. \A i \in n + 1..Len(hits) : i \in DOMAIN hits
      BY <1>5
    <3>2. \A i \in DOMAIN hits : hits[i] \in Nat
      BY <1>3
    <3> QED BY <3>1, <3>2
  <2>2. /\ left \in Seq(Nat)
        /\ Len(left) = IF n + 1 <= Len(hits) THEN Len(hits) - (n + 1) + 1 ELSE 0
        /\ \A i \in 1..Len(hits) - (n + 1) + 1 : left[i] = hits[(n + 1) + i - 1]
    BY <1>5, <2>1, SubSeqProperties
  <2>3. Len(left) = Len(hits) - n
    BY <1>5, <2>2
  <2>4. ASSUME NEW i \in 1..Len(hits) - n PROVE left[i] = hits[n + i]
    <3>1. i \in 1..Len(hits) - (n + 1) + 1 /\ (n + 1) + i - 1 = n + i
      BY <1>5
    <3> QED BY <2>2, <3>1
  <2> QED BY <2>2, <2>3, <2>4
<1>7. LogIsSpaced /\ \A i, j \in 1..Len(log) :
        /\ log[i] <= now
        /\ i <= j => log[i] <= log[j]
        /\ j = i + LoginLimit => log[i] + LoginWindow < log[j]
  BY <1>5 DEF LogIsKept, LogIsSpaced
<1> HIDE DEF log, hits, left
<1> DEFINE newlog == Append(log, now)
           newhits == Append(left, now)
<1>8. /\ newlog \in Seq(Nat) /\ Len(newlog) = Len(log) + 1 /\ DOMAIN newlog = 1..Len(log) + 1
      /\ \A i \in 1..Len(log) : newlog[i] = log[i]
      /\ newlog[Len(log) + 1] = now
  <2>1. /\ newlog \in Seq(Nat) /\ Len(newlog) = Len(log) + 1
        /\ \A i \in 1..Len(log) : newlog[i] = log[i]
        /\ newlog[Len(log) + 1] = now
    BY <1>3, AppendProperties
  <2> HIDE DEF newlog
  <2>2. DOMAIN newlog = 1..Len(newlog)
    BY <2>1
  <2> QED BY <2>1, <2>2
<1>9. /\ newhits \in Seq(Nat) /\ Len(newhits) = Len(hits) - n + 1 /\ DOMAIN newhits = 1..Len(hits) - n + 1
      /\ \A i \in 1..Len(hits) - n : newhits[i] = left[i]
      /\ newhits[Len(hits) - n + 1] = now
  <2>1. /\ newhits \in Seq(Nat) /\ Len(newhits) = Len(left) + 1
        /\ \A i \in 1..Len(left) : newhits[i] = left[i]
        /\ newhits[Len(left) + 1] = now
    BY <1>3, <1>6, AppendProperties
  <2> HIDE DEF newhits
  <2>2. DOMAIN newhits = 1..Len(newhits)
    BY <2>1
  <2> QED BY <1>6, <2>1, <2>2
<1> HIDE DEF newlog, newhits
<1>10. ASSUME NEW i \in 1..k + n PROVE log[i] + LoginWindow < now
  <2>1. CASE i <= k
    BY <1>5, <2>1
  <2>2. CASE i > k
    <3>1. i - k \in 1..n /\ i - k \in 1..Len(hits)
      BY <1>5, <2>2
    <3>2. hits[i - k] = log[k + (i - k)] /\ k + (i - k) = i
      BY <1>5, <3>1
    <3> QED BY <1>5, <3>1, <3>2
  <2> QED BY <1>5, <2>1, <2>2
<1>n. Len(log) \in Nat /\ LoginLimit \in Nat \ {0} /\ now \in Nat
  BY <1>3, <1>5
<1>11. ASSUME NEW i \in 1..Len(log) + 1, NEW j \in 1..Len(log) + 1
       PROVE  /\ newlog[i] <= now
              /\ i <= j => newlog[i] <= newlog[j]
              /\ j = i + LoginLimit => newlog[i] + LoginWindow < newlog[j]
  <2>0. (i = Len(log) + 1 \/ i \in 1..Len(log)) /\ (j = Len(log) + 1 \/ j \in 1..Len(log))
    BY <1>n
  <2>1. newlog[i] <= now /\ newlog[i] \in Nat
    <3>1. CASE i = Len(log) + 1
      BY <1>3, <1>8, <3>1
    <3>2. CASE i \in 1..Len(log)
      BY <1>5, <1>7, <1>8, <3>2
    <3> QED BY <2>0, <3>1, <3>2
  <2>2. i <= j => newlog[i] <= newlog[j]
    <3>1. CASE j = Len(log) + 1
      BY <1>8, <2>1, <3>1
    <3>2. ASSUME j # Len(log) + 1, i <= j PROVE newlog[i] <= newlog[j]
      <4>1. i \in 1..Len(log) /\ j \in 1..Len(log)
        BY <1>n, <2>0, <3>2
      <4>2. newlog[i] = log[i] /\ newlog[j] = log[j]
        BY <1>8, <4>1
      <4> QED BY <1>7, <3>2, <4>1, <4>2
    <3> QED BY <3>1, <3>2
  <2>3. ASSUME j = i + LoginLimit PROVE newlog[i] + LoginWindow < newlog[j]
    <3>a. i \in 1..Len(log)
      BY <1>3, <1>5, <2>3
    <3>0. i \in 1..Len(log) /\ newlog[i] = log[i]
      BY <1>8, <3>a
    <3>1. CASE j = Len(log) + 1
      <4>1. i \in 1..k + n
        BY <1>3, <1>5, <2>3, <3>1
      <4> QED BY <1>8, <1>10, <3>0, <3>1, <4>1
    <3>2. CASE j # Len(log) + 1
      <4>1. j \in 1..Len(log) /\ newlog[j] = log[j]
        <5>1. j \in 1..Len(log)
          BY <2>0, <3>2
        <5> QED BY <1>8, <5>1
      <4> QED BY <1>7, <2>3, <3>0, <4>1
    <3> QED BY <3>1, <3>2
  <2> QED BY <2>1, <2>2, <2>3
<1>12. outside'.log = newlog /\ outside'.hits = newhits
  BY <1>2 DEF newlog, newhits, log, left
<1>13. LogIsSpaced'
  BY <1>2, <1>8, <1>11, <1>12 DEF LogIsSpaced
<1>14. Remembers(k + n)'
  <2>1. Len(newlog) = (k + n) + Len(newhits)
    BY <1>5, <1>8, <1>9
  <2>2. ASSUME NEW i \in 1..Len(hits) - n + 1 PROVE newhits[i] = newlog[(k + n) + i]
    <3>1. CASE i = Len(hits) - n + 1
      <4>1. (k + n) + i = Len(log) + 1
        BY <1>5, <3>1
      <4> QED BY <1>8, <1>9, <3>1, <4>1
    <3>2. CASE i # Len(hits) - n + 1
      <4>1. i \in 1..Len(hits) - n /\ n + i \in 1..Len(hits) /\ k + (n + i) = (k + n) + i /\ (k + n) + i \in 1..Len(log)
        BY <1>5, <3>2
      <4>2. newhits[i] = left[i] /\ left[i] = hits[n + i]
        BY <1>6, <1>9, <4>1
      <4>3. hits[n + i] = log[k + (n + i)]
        BY <1>5, <4>1
      <4>4. newlog[(k + n) + i] = log[(k + n) + i]
        BY <1>8, <4>1
      <4> QED BY <4>1, <4>2, <4>3, <4>4
    <3> QED BY <3>1, <3>2
  <2>3. ASSUME NEW i \in 1..(k + n) PROVE newlog[i] + LoginWindow < now
    <3>1. i \in 1..Len(log)
      BY <1>5
    <3> QED BY <1>8, <1>10, <3>1
  <2> QED BY <1>2, <1>9, <1>12, <2>1, <2>2, <2>3 DEF Remembers
<1>15. k + n \in 0..Len(newlog)
  BY <1>5, <1>8
<1> QED BY <1>8, <1>9, <1>12, <1>13, <1>14, <1>15 DEF LogIsKept

LEMMA RateStays ==
  ASSUME RateKept, LoginTyped, topic = "login", LoginNext
  PROVE  RateKept'
<1>1. LoginLog /\ LogIsKept
  BY LoginTypedWorld, RateInParts
<1>2. CASE UNCHANGED outside
  BY <1>1, <1>2, LogUnchanged, RateInParts DEF LoginLog, now
<1>3. CASE Hit
  BY <1>1, <1>3, HitIsLogged, RateInParts
<1>4. ASSUME NEW k \in Checks, CompleteLogin(k) PROVE RateKept'
  <2>1. outside'.log = outside.log /\ outside'.hits = outside.hits /\ now' = now
    BY <1>1, <1>4 DEF CompleteLogin, LoginLog, now
  <2> QED BY <1>1, <2>1, LogUnchanged, RateInParts DEF LoginLog
<1>5. CASE ClockTicks
  <2>1. outside'.log = outside.log /\ outside'.hits = outside.hits /\ now' = now + 1
    BY <1>1, <1>5 DEF ClockTicks, Outside, LoginLog, now
  <2>2. now' \in Nat /\ now <= now'
    BY <1>1, <2>1 DEF LoginLog
  <2> QED BY <1>1, <2>1, <2>2, LogUnchanged, RateInParts
<1>6. CASE Restart
  <2>1. outside'.log = <<>> /\ outside'.hits = <<>>
    BY <1>1, <1>6 DEF Restart, Outside, LoginLog
  <2>2. <<>> \in Seq(Nat) /\ Len(<<>>) = 0 /\ DOMAIN <<>> = {}
    BY EmptySeq
  <2>3. LogIsSpaced'
    BY <2>1, <2>2 DEF LogIsSpaced
  <2>4. Remembers(0)'
    BY <2>1, <2>2 DEF Remembers
  <2> QED BY <2>1, <2>2, <2>3, <2>4, RateInParts DEF LogIsKept
<1>7. ASSUME NEW k \in Checks, Decide(k, {"passed", "failed"}) PROVE RateKept'
  <2>1. outside'.log = outside.log /\ outside'.hits = outside.hits /\ now' = now
    BY <1>1, <1>7 DEF Decide, Outside, LoginLog, now
  <2> QED BY <1>1, <2>1, LogUnchanged, RateInParts DEF LoginLog
<1>8. CASE \E k \in Checks : RecordLoginLiveness(k)
  BY <1>2, <1>8 DEF RecordLoginLiveness, Request
<1>9. CASE \E t \in Slot : Commit(t) \/ (RollBack(t) /\ UNCHANGED outside)
  BY <1>2, <1>9 DEF Commit
<1> QED BY <1>3, <1>4, <1>5, <1>6, <1>7, <1>8, <1>9 DEF LoginNext, LoginSteps, TryWrongCode, StartLogin

LEMMA RateStarts ==
  ASSUME LoginInit
  PROVE  RateKept
<1>1. outside.log = <<>> /\ outside.hits = <<>>
  BY DEF LoginInit, Start
<1>2. <<>> \in Seq(Nat) /\ Len(<<>>) = 0 /\ DOMAIN <<>> = {}
  BY EmptySeq
<1>3. LogIsSpaced
  BY <1>1, <1>2 DEF LogIsSpaced
<1>4. Remembers(0)
  BY <1>1, <1>2 DEF Remembers
<1> QED BY <1>1, <1>2, <1>3, <1>4, RateInParts DEF LogIsKept

(* Two tries of one window are less than the limit apart in the log.       *)
LEMMA TriesAreWithinLimit ==
  ASSUME RateKept, LoginTyped
  PROVE  WithinRateLimit
<1> SUFFICES ASSUME topic = "login", NEW t \in 0..now
             PROVE  Cardinality({i \in DOMAIN outside.log : outside.log[i] \in t..t + LoginWindow}) <= LoginLimit
  BY DEF WithinRateLimit
<1> DEFINE S == {i \in DOMAIN outside.log : outside.log[i] \in t..t + LoginWindow}
           log == outside.log
<1>1. LoginLog /\ LogIsKept
  BY LoginTypedWorld, RateInParts
<1>2. /\ DOMAIN log = 1..Len(log) /\ Len(log) \in Nat /\ \A i \in DOMAIN log : log[i] \in Nat
      /\ LoginWindow \in Nat /\ LoginLimit \in Nat \ {0} /\ t \in Nat
  BY <1>1, RecoveryAssumption DEF LogIsKept, LoginLog
<1>3. \A i, j \in DOMAIN log :
        /\ i <= j => log[i] <= log[j]
        /\ j = i + LoginLimit => log[i] + LoginWindow < log[j]
  BY <1>1 DEF LogIsKept, LogIsSpaced
<1>4. \A i \in S : i \in DOMAIN log /\ i \in Nat /\ t <= log[i] /\ log[i] <= t + LoginWindow
  BY <1>2
<1> HIDE DEF S, log
<1>5. CASE S = {}
  BY <1>2, <1>5, FS_EmptySet DEF S
<1>6. CASE S # {}
  <2>1. PICK m \in S : \A i \in S : m <= i
    BY <1>4, <1>6, LeastOf
  <2>2. ASSUME NEW i \in S PROVE i <= m + LoginLimit - 1
    <3>1. SUFFICES ASSUME i > m + LoginLimit - 1 PROVE FALSE
      BY <1>2, <1>4, <2>1
    <3> DEFINE j == m + LoginLimit
    <3>2. m \in DOMAIN log /\ i \in DOMAIN log /\ m \in Nat /\ i \in Nat
      BY <1>4, <2>1
    <3>3. j \in Nat /\ j <= i /\ 1 <= j
      BY <1>2, <3>1, <3>2
    <3>4. j \in DOMAIN log
      BY <1>2, <3>2, <3>3
    <3>5. j = m + LoginLimit
      OBVIOUS
    <3> HIDE DEF j
    <3>6. log[j] <= log[i] /\ log[m] + LoginWindow < log[j]
      BY <1>3, <3>2, <3>3, <3>4, <3>5
    <3>7. t <= log[m] /\ log[i] <= t + LoginWindow
      BY <1>4, <2>1
    <3>8. log[m] \in Nat /\ log[i] \in Nat /\ log[j] \in Nat
      BY <1>2, <3>2, <3>4
    <3> QED BY <1>2, <3>6, <3>7, <3>8
  <2>3. m \in Nat /\ m + LoginLimit - 1 \in Nat
    BY <1>2, <1>4
  <2>4. S \subseteq m..m + LoginLimit - 1
    BY <1>4, <2>1, <2>2, <2>3
  <2>5. IsFiniteSet(m..m + LoginLimit - 1) /\ Cardinality(m..m + LoginLimit - 1) = LoginLimit
    <3> DEFINE b == m + LoginLimit - 1
    <3>1. m \in Int /\ b \in Int /\ m <= b /\ b - m + 1 = LoginLimit
      BY <1>2, <2>3
    <3> HIDE DEF b
    <3>2. IsFiniteSet(m..b) /\ Cardinality(m..b) = LoginLimit
      <4>1. IsFiniteSet(m..b) /\ Cardinality(m..b) = IF m > b THEN 0 ELSE b - m + 1
        BY <3>1, FS_Interval
      <4> QED BY <3>1, <4>1
    <3> QED BY <3>2 DEF b
  <2>6. Cardinality(S) <= Cardinality(m..m + LoginLimit - 1)
    BY <2>4, <2>5, FS_Subset
  <2> QED BY <2>5, <2>6 DEF S, log
<1> QED BY <1>5, <1>6

(* The outcome after a request that was alone begins, and after it ends.   *)
LEMMA CallOutcomes ==
  ASSUME DOMAIN open = Slot \cup Job, Quiet, NEW w, w # {}, Call(w)
  PROVE  Outcomes' = {Written(w)} /\ (overlapped' <=> overlapped) /\ Outcomes = {db}
<1>1. PICK t \in Slot : Opens(t, w)
  BY CallOpens
<1>2. db' = db /\ DOMAIN open' = DOMAIN open /\ t \in DOMAIN open /\ open'[t] = w
      /\ \A s \in DOMAIN open \ {t} : open'[s] = {}
  BY <1>1 DEF Opens, Quiet
<1>3. ~Quiet' /\ Opened' = {t}
  BY <1>2 DEF Quiet, Opened
<1>4. Written(w)' = Written(w) /\ Written(open[t])' = Written(open'[t])
  BY <1>2 DEF Written, Value
<1>5. Outcomes' = {Written(open[s])' : s \in Opened'}
  BY <1>3 DEF Outcomes
<1>6. Outcomes' = {Written(w)}
  <2>1. Written(open[t])' = Written(w)
    <3>1. Written(open[t])' = Written(w)'
      BY <1>2 DEF Written, Value
    <3> QED BY <1>4, <3>1
  <2> QED BY <1>3, <1>5, <2>1
<1>7. overlapped' <=> overlapped
  BY DEF Call, Begin
<1>8. Outcomes = {db}
  BY DEF Outcomes
<1> QED BY <1>6, <1>7, <1>8

LEMMA CommitOutcomes ==
  ASSUME DOMAIN open = Slot \cup Job, OpenAlone, ~overlapped, NEW t \in Slot \cup Job, Commit(t)
  PROVE  Outcomes' = {db'} /\ db' \in Outcomes /\ ~overlapped'
<1>1. Closes(t) /\ db' = Written(open[t]) /\ t \in Opened /\ ~Quiet
  BY CommitCloses DEF Closes, Opened, Quiet
<1>2. Quiet'
  BY <1>1, NoneIsLeft DEF Quiet
<1> QED BY <1>1, <1>2 DEF Outcomes, Closes

-----------------------------------------------------------------------------
(* The attendance, of a world outside and of a table as it will be when    *)
(* all that is open has been written.                                      *)
AttendanceNames == {"is", "joined", "left", "removed"}
TimesTyped(T) ==
  \A p \in Row :
    T[p].joined \in Nat \cup {None} /\ T[p].left \in Nat \cup {None} /\ T[p].removed \in BOOLEAN
TimesIn(T, n) ==
  \A p \in Row :
    /\ T[p].joined # None => T[p].joined \in 1..n
    /\ ~T[p].removed /\ T[p].joined # None /\ T[p].left # None =>
         T[p].joined < T[p].left /\ T[p].left <= n
CrowdIn(T, n, most) == \A m \in 0..n : Cardinality(PresentAt(T, m)) <= most
BusiestIn(T, most) ==
  \/ most = 0
  \/ \E p \in Row : T[p].joined # None /\ Cardinality(PresentAt(T, T[p].joined)) = most
FullIn(T, group, most) ==
  AttendingIn(T) = group /\ (\A p \in Row : ~T[p].removed) /\ BusiestIn(T, most)
StaysIn(o, T) ==
  /\ TimesIn(T, o.now) /\ AttendingIn(T) \subseteq o.there /\ Cardinality(o.there) <= o.busiest
  /\ CrowdIn(T, o.now, o.busiest)
  /\ ~o.lost => FullIn(T, o.there, o.busiest)
WorldGood(o) ==
  o.now \in Nat /\ o.there \in SUBSET Row /\ o.busiest \in Nat /\ o.lost \in BOOLEAN

LEMMA PresentAreCounted ==
  /\ \A S \in SUBSET Row : IsFiniteSet(S) /\ Cardinality(S) \in Nat
  /\ \A T, m : PresentAt(T, m) \in SUBSET Row
  /\ \A T : AttendingIn(T) \in SUBSET Row
<1>1. ASSUME NEW S \in SUBSET Row PROVE IsFiniteSet(S) /\ Cardinality(S) \in Nat
  BY RequestsAssumption, FS_Subset, FS_CardinalityType
<1>2. \A T, m : PresentAt(T, m) \in SUBSET Row
  BY DEF PresentAt
<1>3. \A T : AttendingIn(T) \in SUBSET Row
  BY DEF AttendingIn
<1> QED BY <1>1, <1>2, <1>3

(* Whoever is there now is attending; before, nobody more than there was.  *)
LEMMA CrowdGrows ==
  ASSUME NEW T, NEW U, NEW n \in Nat, None \notin Nat, TimesTyped(U), TimesIn(U, n + 1),
         \A m \in 0..n : PresentAt(U, m) \subseteq PresentAt(T, m),
         NEW most \in Nat, NEW more \in Nat, CrowdIn(T, n, most), most <= more,
         NEW group \in SUBSET Row, AttendingIn(U) \subseteq group, Cardinality(group) <= more
  PROVE  CrowdIn(U, n + 1, more) /\ PresentAt(U, n + 1) = AttendingIn(U)
<1>1. ASSUME NEW p \in Row PROVE p \in PresentAt(U, n + 1) <=> p \in AttendingIn(U)
  <2>1. U[p].joined # None => U[p].joined \in 1..n + 1
    BY DEF TimesIn
  <2>2. ~U[p].removed /\ U[p].joined # None /\ U[p].left # None => U[p].left \in Nat /\ U[p].left <= n + 1
    BY DEF TimesIn, TimesTyped
  <2> QED BY <2>1, <2>2 DEF PresentAt, AttendingIn
<1>2. PresentAt(U, n + 1) = AttendingIn(U)
  BY <1>1, PresentAreCounted
<1>3. ASSUME NEW m \in 0..n + 1 PROVE Cardinality(PresentAt(U, m)) <= more
  <2>1. CASE m = n + 1
    <3>1. PresentAt(U, m) \subseteq group
      BY <1>2, <2>1
    <3>2. Cardinality(PresentAt(U, m)) <= Cardinality(group)
      BY <3>1, PresentAreCounted, FS_Subset
    <3> QED BY <3>2, PresentAreCounted
  <2>2. CASE m # n + 1
    <3>1. m \in 0..n
      BY <2>2
    <3>2. Cardinality(PresentAt(U, m)) <= Cardinality(PresentAt(T, m))
      BY <3>1, PresentAreCounted, FS_Subset
    <3>3. Cardinality(PresentAt(T, m)) <= most
      BY <3>1 DEF CrowdIn
    <3> QED BY <3>2, <3>3, PresentAreCounted
  <2> QED BY <2>1, <2>2
<1> QED BY <1>2, <1>3 DEF CrowdIn

(* One person's row changes, n is the time before.                         *)
OthersAsIn(T, U, p) ==
  \A q \in Row \ {p} :
    U[q].joined = T[q].joined /\ U[q].left = T[q].left /\ U[q].removed = T[q].removed

LEMMA StayBegins ==
  ASSUME NEW o, NEW o2, NEW T, NEW U, NEW p \in Row, None \notin Nat, WorldGood(o), WorldGood(o2),
         TimesTyped(T), TimesTyped(U), StaysIn(o, T), OthersAsIn(T, U, p),
         U[p].joined = o.now + 1, U[p].left = None, ~U[p].removed, ~T[p].removed,
         o2.now = o.now + 1, o2.there = o.there \cup {p},
         o2.busiest = IF Cardinality(o2.there) > o.busiest THEN Cardinality(o2.there) ELSE o.busiest,
         ~o2.lost => ~o.lost /\ T[p].joined = None
  PROVE  StaysIn(o2, U)
<1> DEFINE n == o.now
<1>1. n \in Nat /\ n + 1 \in Nat /\ o.busiest \in Nat /\ o2.busiest \in Nat /\ n + 1 # None
      /\ o2.there \in SUBSET Row
  BY DEF WorldGood
<1>2. TimesIn(T, n) /\ AttendingIn(T) \subseteq o.there /\ CrowdIn(T, n, o.busiest)
      /\ (~o.lost => FullIn(T, o.there, o.busiest))
  BY DEF StaysIn
<1>3. TimesIn(U, n + 1)
  <2>1. ASSUME NEW q \in Row
        PROVE  /\ U[q].joined # None => U[q].joined \in 1..n + 1
               /\ ~U[q].removed /\ U[q].joined # None /\ U[q].left # None =>
                    U[q].joined < U[q].left /\ U[q].left <= n + 1
    <3>1. CASE q = p
      BY <1>1, <3>1
    <3>2. CASE q # p
      <4>1. U[q].joined = T[q].joined /\ U[q].left = T[q].left /\ U[q].removed = T[q].removed
        BY <3>2 DEF OthersAsIn
      <4>2. T[q].left \in Nat \cup {None}
        BY DEF TimesTyped
      <4> QED BY <1>1, <1>2, <4>1, <4>2 DEF TimesIn
    <3> QED BY <3>1, <3>2
  <2> QED BY <2>1 DEF TimesIn
<1>4. ASSUME NEW m \in 0..n PROVE PresentAt(U, m) = PresentAt(T, m) \ {p}
  <2>1. p \notin PresentAt(U, m)
    BY <1>1 DEF PresentAt
  <2>2. ASSUME NEW q \in Row, q # p PROVE q \in PresentAt(U, m) <=> q \in PresentAt(T, m)
    <3>1. U[q].joined = T[q].joined /\ U[q].left = T[q].left /\ U[q].removed = T[q].removed
      BY <2>2 DEF OthersAsIn
    <3> QED BY <3>1 DEF PresentAt
  <2> QED BY <2>1, <2>2, PresentAreCounted
<1>5. AttendingIn(U) = AttendingIn(T) \cup {p}
  <2>1. p \in AttendingIn(U)
    BY <1>1 DEF AttendingIn
  <2>2. ASSUME NEW q \in Row, q # p PROVE q \in AttendingIn(U) <=> q \in AttendingIn(T)
    <3>1. U[q].joined = T[q].joined /\ U[q].left = T[q].left /\ U[q].removed = T[q].removed
      BY <2>2 DEF OthersAsIn
    <3> QED BY <3>1 DEF AttendingIn
  <2> QED BY <2>1, <2>2, PresentAreCounted
<1>6. o.busiest <= o2.busiest /\ Cardinality(o2.there) <= o2.busiest /\ Cardinality(o2.there) \in Nat
  BY <1>1, PresentAreCounted
<1>7. CrowdIn(U, n + 1, o2.busiest) /\ PresentAt(U, n + 1) = AttendingIn(U)
  <2>1. AttendingIn(U) \subseteq o2.there
    BY <1>2, <1>5
  <2>2. \A m \in 0..n : PresentAt(U, m) \subseteq PresentAt(T, m)
    BY <1>4
  <2> HIDE DEF n
  <2> QED BY <1>1, <1>2, <1>3, <1>6, <2>1, <2>2, CrowdGrows
<1>8. ASSUME ~o2.lost PROVE FullIn(U, o2.there, o2.busiest)
  <2>1. FullIn(T, o.there, o.busiest) /\ T[p].joined = None
    BY <1>2, <1>8
  <2>2. AttendingIn(U) = o2.there
    BY <1>5, <2>1 DEF FullIn
  <2>3. \A q \in Row : ~U[q].removed
    BY <2>1 DEF FullIn, OthersAsIn
  <2>4. CASE Cardinality(o2.there) > o.busiest
    <3>1. o2.busiest = Cardinality(o2.there)
      BY <2>4
    <3>2. U[p].joined # None /\ Cardinality(PresentAt(U, U[p].joined)) = o2.busiest
      BY <1>1, <1>7, <2>2, <3>1
    <3> QED BY <2>2, <2>3, <3>2 DEF FullIn, BusiestIn
  <2>5. CASE ~(Cardinality(o2.there) > o.busiest)
    <3>1. o2.busiest = o.busiest
      BY <2>5
    <3>2. CASE o.busiest = 0
      BY <2>2, <2>3, <3>1, <3>2 DEF FullIn, BusiestIn
    <3>3. CASE o.busiest # 0
      <4>1. PICK q \in Row : T[q].joined # None /\ Cardinality(PresentAt(T, T[q].joined)) = o.busiest
        BY <2>1, <3>3 DEF FullIn, BusiestIn
      <4>2. q # p /\ T[q].joined \in 0..n
        BY <1>1, <1>2, <2>1, <4>1 DEF TimesIn
      <4>3. p \notin PresentAt(T, T[q].joined)
        BY <2>1 DEF PresentAt
      <4>4. PresentAt(U, T[q].joined) = PresentAt(T, T[q].joined)
        BY <1>4, <4>2, <4>3
      <4>5. U[q].joined = T[q].joined
        BY <4>2 DEF OthersAsIn
      <4> QED BY <2>2, <2>3, <3>1, <4>1, <4>4, <4>5 DEF FullIn, BusiestIn
    <3> QED BY <3>2, <3>3
  <2> QED BY <2>4, <2>5
<1> QED BY <1>2, <1>3, <1>5, <1>6, <1>7, <1>8 DEF StaysIn

(* Somebody leaves, or is removed: lost then.                              *)
LEMMA StayEnds ==
  ASSUME NEW o, NEW o2, NEW T, NEW U, NEW p \in Row, None \notin Nat, WorldGood(o), WorldGood(o2),
         TimesTyped(T), TimesTyped(U), StaysIn(o, T), OthersAsIn(T, U, p),
         U[p].joined = T[p].joined, U[p].left = o.now + 1,
         \/ U[p].removed /\ o2.lost
         \/ /\ U[p].removed = T[p].removed /\ (o.lost => o2.lost)
            /\ T[p].removed \/ T[p].joined = None \/ T[p].left = None,
         o2.now = o.now + 1, o2.there = o.there \ {p}, o2.busiest = o.busiest
  PROVE  StaysIn(o2, U)
<1> DEFINE n == o.now
<1>1. n \in Nat /\ n + 1 \in Nat /\ o.busiest \in Nat /\ n + 1 # None
      /\ o2.there \in SUBSET Row /\ o.there \in SUBSET Row
  BY DEF WorldGood
<1>2. TimesIn(T, n) /\ AttendingIn(T) \subseteq o.there /\ CrowdIn(T, n, o.busiest)
      /\ (~o.lost => FullIn(T, o.there, o.busiest)) /\ Cardinality(o.there) <= o.busiest
  BY DEF StaysIn
<1>3. TimesIn(U, n + 1)
  <2>1. ASSUME NEW q \in Row
        PROVE  /\ U[q].joined # None => U[q].joined \in 1..n + 1
               /\ ~U[q].removed /\ U[q].joined # None /\ U[q].left # None =>
                    U[q].joined < U[q].left /\ U[q].left <= n + 1
    <3>0. T[q].joined # None => T[q].joined \in 1..n
      BY <1>2 DEF TimesIn
    <3>1. CASE q = p
      BY <1>1, <3>0, <3>1
    <3>2. CASE q # p
      <4>1. U[q].joined = T[q].joined /\ U[q].left = T[q].left /\ U[q].removed = T[q].removed
        BY <3>2 DEF OthersAsIn
      <4>2. T[q].left \in Nat \cup {None}
        BY DEF TimesTyped
      <4> QED BY <1>1, <1>2, <3>0, <4>1, <4>2 DEF TimesIn
    <3> QED BY <3>1, <3>2
  <2> QED BY <2>1 DEF TimesIn
<1>4. ASSUME NEW m \in 0..n, NEW q \in Row
      PROVE  /\ q \in PresentAt(U, m) => q \in PresentAt(T, m)
             /\ ~o2.lost /\ q \in PresentAt(T, m) => q \in PresentAt(U, m)
  <2>1. CASE q = p
    <3>1. CASE U[p].removed /\ o2.lost
      BY <2>1, <3>1 DEF PresentAt
    <3>2. CASE /\ U[p].removed = T[p].removed
               /\ T[p].removed \/ T[p].joined = None \/ T[p].left = None
      BY <1>1, <2>1, <3>2 DEF PresentAt
    <3> QED BY <3>1, <3>2
  <2>2. CASE q # p
    <3>1. U[q].joined = T[q].joined /\ U[q].left = T[q].left /\ U[q].removed = T[q].removed
      BY <2>2 DEF OthersAsIn
    <3> QED BY <3>1 DEF PresentAt
  <2> QED BY <2>1, <2>2
<1>5. AttendingIn(U) = AttendingIn(T) \ {p}
  <2>1. p \notin AttendingIn(U)
    BY <1>1 DEF AttendingIn
  <2>2. ASSUME NEW q \in Row, q # p PROVE q \in AttendingIn(U) <=> q \in AttendingIn(T)
    <3>1. U[q].joined = T[q].joined /\ U[q].left = T[q].left /\ U[q].removed = T[q].removed
      BY <2>2 DEF OthersAsIn
    <3> QED BY <3>1 DEF AttendingIn
  <2> QED BY <2>1, <2>2, PresentAreCounted
<1>6. Cardinality(o2.there) <= o.busiest
  <2>1. o2.there \subseteq o.there
    OBVIOUS
  <2>2. Cardinality(o2.there) <= Cardinality(o.there)
    BY <1>1, <2>1, PresentAreCounted, FS_Subset
  <2> QED BY <1>1, <1>2, <2>2, PresentAreCounted
<1>7. CrowdIn(U, n + 1, o2.busiest)
  <2>1. AttendingIn(U) \subseteq o2.there
    BY <1>2, <1>5
  <2>2. \A m \in 0..n : PresentAt(U, m) \subseteq PresentAt(T, m)
    BY <1>4, PresentAreCounted
  <2> HIDE DEF n
  <2>3. CrowdIn(U, n + 1, o.busiest)
    BY <1>1, <1>2, <1>3, <1>6, <2>1, <2>2, CrowdGrows
  <2> QED BY <2>3
<1>8. ASSUME ~o2.lost PROVE FullIn(U, o2.there, o2.busiest)
  <2>1. FullIn(T, o.there, o.busiest)
    BY <1>2, <1>8
  <2>2. AttendingIn(U) = o2.there
    BY <1>5, <2>1 DEF FullIn
  <2>3. \A q \in Row : ~U[q].removed
    BY <1>8, <2>1 DEF FullIn, OthersAsIn
  <2>4. CASE o.busiest = 0
    BY <2>2, <2>3, <2>4 DEF FullIn, BusiestIn
  <2>5. CASE o.busiest # 0
    <3>1. PICK q \in Row : T[q].joined # None /\ Cardinality(PresentAt(T, T[q].joined)) = o.busiest
      BY <2>1, <2>5 DEF FullIn, BusiestIn
    <3>2. T[q].joined \in 0..n
      BY <1>1, <1>2, <3>1 DEF TimesIn
    <3>3. PresentAt(U, T[q].joined) = PresentAt(T, T[q].joined)
      BY <1>4, <1>8, <3>2, PresentAreCounted
    <3>4. U[q].joined = T[q].joined
      BY DEF OthersAsIn
    <3> QED BY <2>2, <2>3, <3>1, <3>3, <3>4 DEF FullIn, BusiestIn
  <2> QED BY <2>4, <2>5
<1> QED BY <1>2, <1>3, <1>5, <1>6, <1>7, <1>8 DEF StaysIn

(* What is open has been written over the tables, and what comes of that.  *)
Over(T, A) ==
  [row \in DOMAIN T |->
    LET columns == {c[2] : c \in {d \in A : d[1] = row}} IN
    [column \in DOMAIN T[row] |->
      IF column \in columns THEN Value(A, row, column) ELSE T[row][column]]]
AllOf(O) == UNION {O[t] : t \in DOMAIN O}
PromisedIn(T, O, V) ==
  /\ \A t \in DOMAIN O : \A c \in O[t] : V[c[1]][c[2]] = c[3]
  /\ \A p \in Row : \A column \in DOMAIN T[p] :
       (\A t \in DOMAIN O : ~Writes(O[t], p, column)) => V[p][column] = T[p][column]
AttendanceGood(o, T, O) ==
  PromisedIn(T, O, Over(T, AllOf(O))) /\ StaysIn(o, Over(T, AllOf(O)))

LEMMA AttendanceInParts ==
  /\ AttendanceKept <=>
       (topic = "attendance" /\ ~outside.blurred => AttendanceGood(outside, db, open))
  /\ AttendanceKept' <=>
       (topic' = "attendance" /\ ~outside'.blurred => AttendanceGood(outside', db', open'))
<1>1. Latest = Over(db, AllOf(open)) /\ Latest' = Over(db', AllOf(open'))
  BY DEF Latest, Written, Over, AllOf
<1>2. /\ Promised(Latest) <=> PromisedIn(db, open, Latest)
      /\ Promised(Latest)' <=> PromisedIn(db', open', Latest')
  BY DEF Promised, PromisedIn
<1>3. /\ AttendanceIn(Latest) <=> StaysIn(outside, Latest)
      /\ AttendanceIn(Latest)' <=> StaysIn(outside', Latest')
  BY DEF AttendanceIn, StaysIn, FullIn, TimesIn, CrowdIn, BusiestIn, AttendingIn, PresentAt, there, now
<1> QED BY <1>1, <1>2, <1>3 DEF AttendanceKept, AttendanceGood

AttendanceShape(T, O) ==
  /\ DOMAIN T = Row /\ \A p \in Row : DOMAIN T[p] = AttendanceNames
  /\ \A t \in DOMAIN O : \A c \in O[t] : c[1] \in Row /\ c[2] \in AttendanceNames
Settles(T, A, V) ==
  \A p \in Row : \A column \in AttendanceNames :
    /\ \A c \in A : c[1] = p /\ c[2] = column => c[3] = V[p][column]
    /\ T[p][column] = V[p][column] \/ Writes(A, p, column)
SameIn(T, U) == \A p \in Row : \A column \in AttendanceNames : T[p][column] = U[p][column]

LEMMA OverSettles ==
  ASSUME NEW T, DOMAIN T = Row, \A p \in Row : DOMAIN T[p] = AttendanceNames, NEW A, NEW V,
         Settles(T, A, V)
  PROVE  SameIn(Over(T, A), V)
<1> SUFFICES ASSUME NEW p \in Row, NEW column \in AttendanceNames
             PROVE  Over(T, A)[p][column] = V[p][column]
  BY DEF SameIn
<1> DEFINE columns == {c[2] : c \in {d \in A : d[1] = p}}
<1>1. Over(T, A)[p][column] = IF column \in columns THEN Value(A, p, column) ELSE T[p][column]
  BY DEF Over
<1>2. CASE column \in columns
  <2>1. \E c \in A : c[1] = p /\ c[2] = column
    BY <1>2
  <2>2. Value(A, p, column) = (CHOOSE c \in A : c[1] = p /\ c[2] = column)[3]
    BY DEF Value
  <2>3. Value(A, p, column) = V[p][column]
    BY <2>1, <2>2 DEF Settles
  <2> QED BY <1>1, <1>2, <2>3
<1>3. CASE column \notin columns
  <2>1. ~Writes(A, p, column)
    BY <1>3 DEF Writes
  <2> QED BY <1>1, <1>3, <2>1 DEF Settles
<1> QED BY <1>2, <1>3

LEMMA StaysAsSame ==
  ASSUME NEW o, NEW T, NEW U, SameIn(T, U), StaysIn(o, T)
  PROVE  StaysIn(o, U)
<1>1. \A p \in Row : T[p].joined = U[p].joined /\ T[p].left = U[p].left /\ T[p].removed = U[p].removed
  BY DEF SameIn, AttendanceNames
<1>2. AttendingIn(U) = AttendingIn(T)
  BY <1>1 DEF AttendingIn
<1>3. \A m : PresentAt(U, m) = PresentAt(T, m)
  BY <1>1 DEF PresentAt
<1>4. TimesIn(T, o.now) => TimesIn(U, o.now)
  BY <1>1 DEF TimesIn
<1>5. CrowdIn(T, o.now, o.busiest) => CrowdIn(U, o.now, o.busiest)
  BY <1>3 DEF CrowdIn
<1>6. BusiestIn(T, o.busiest) => BusiestIn(U, o.busiest)
  BY <1>1, <1>3 DEF BusiestIn
<1> QED BY <1>1, <1>2, <1>4, <1>5, <1>6 DEF StaysIn, FullIn

LEMMA SettledIsGood ==
  ASSUME NEW o, NEW T, NEW O, NEW V, AttendanceShape(T, O), Settles(T, AllOf(O), V), StaysIn(o, V)
  PROVE  AttendanceGood(o, T, O)
<1> DEFINE A == AllOf(O)
           U == Over(T, A)
<1>1. SameIn(U, V)
  BY OverSettles DEF AttendanceShape
<1>2. SameIn(V, U)
  BY <1>1 DEF SameIn
<1>3. StaysIn(o, U)
  BY <1>2, StaysAsSame
<1>4. \A t \in DOMAIN O : O[t] \subseteq A
  BY DEF AllOf
<1> HIDE DEF U, A
<1>5. ASSUME NEW t \in DOMAIN O, NEW c \in O[t] PROVE U[c[1]][c[2]] = c[3]
  <2>1. c[1] \in Row /\ c[2] \in AttendanceNames /\ c \in A
    BY <1>4 DEF AttendanceShape
  <2>2. c[3] = V[c[1]][c[2]]
    BY <2>1 DEF Settles, A
  <2> QED BY <1>1, <2>1, <2>2 DEF SameIn
<1>6. ASSUME NEW p \in Row, NEW column \in DOMAIN T[p], \A t \in DOMAIN O : ~Writes(O[t], p, column)
      PROVE  U[p][column] = T[p][column]
  <2>1. column \in AttendanceNames
    BY DEF AttendanceShape
  <2>2. ~Writes(A, p, column)
    BY <1>6 DEF Writes, A, AllOf
  <2>3. T[p][column] = V[p][column]
    BY <2>1, <2>2 DEF Settles, A
  <2> QED BY <1>1, <2>1, <2>3 DEF SameIn
<1>7. PromisedIn(T, O, U)
  BY <1>5, <1>6 DEF PromisedIn
<1> QED BY <1>3, <1>7 DEF AttendanceGood, U, A

LEMMA GoodIsSettled ==
  ASSUME NEW o, NEW T, NEW O, AttendanceShape(T, O), AttendanceGood(o, T, O)
  PROVE  \E V : Settles(T, AllOf(O), V) /\ StaysIn(o, V)
<1> DEFINE A == AllOf(O)
           V == Over(T, A)
<1>1. PromisedIn(T, O, V) /\ StaysIn(o, V)
  BY DEF AttendanceGood
<1> HIDE DEF V, A
<1>2. ASSUME NEW p \in Row, NEW column \in AttendanceNames
      PROVE  /\ \A c \in A : c[1] = p /\ c[2] = column => c[3] = V[p][column]
             /\ T[p][column] = V[p][column] \/ Writes(A, p, column)
  <2>1. \A c \in A : \E t \in DOMAIN O : c \in O[t]
    BY DEF A, AllOf
  <2>2. ~Writes(A, p, column) => \A t \in DOMAIN O : ~Writes(O[t], p, column)
    BY DEF Writes, A, AllOf
  <2>3. column \in DOMAIN T[p]
    BY DEF AttendanceShape
  <2> QED BY <1>1, <2>1, <2>2, <2>3 DEF PromisedIn
<1>3. Settles(T, A, V)
  BY <1>2 DEF Settles
<1> QED BY <1>1, <1>3 DEF A

(* A request about somebody of whom nothing is open: X is what is written. *)
LEMMA CallSettles ==
  ASSUME DOMAIN open = Slot \cup Job, NEW w, Call(w), NEW p \in Row, ~Pending(p), NEW X,
         \A c \in w : c[1] = p /\ c[3] = X[c[2]],
         \A column \in AttendanceNames : db[p][column] = X[column] \/ Writes(w, p, column),
         NEW V, Settles(db, AllOf(open), V),
         NEW U, U = [q \in Row |-> IF q = p THEN X ELSE V[q]]
  PROVE  /\ Settles(db', AllOf(open'), U)
         /\ \A column \in AttendanceNames : V[p][column] = db[p][column]
<1> DEFINE A == AllOf(open)
           B == AllOf(open')
<1>1. PICK s \in Slot : Opens(s, w)
  BY CallOpens
<1>2. B \subseteq A \cup w /\ A \subseteq B /\ w \subseteq B /\ db' = db
  <2>1. s \in DOMAIN open
    OBVIOUS
  <2> QED BY <1>1, <2>1 DEF Opens, AllOf
<1>3. \A c \in A : c[1] # p
  BY DEF AllOf, Pending
<1> HIDE DEF A, B
<1>4. \A column \in AttendanceNames : V[p][column] = db[p][column]
  BY <1>3 DEF Settles, Writes, A
<1>5. ASSUME NEW q \in Row, NEW column \in AttendanceNames
      PROVE  /\ \A c \in B : c[1] = q /\ c[2] = column => c[3] = U[q][column]
             /\ db[q][column] = U[q][column] \/ Writes(B, q, column)
  <2>1. CASE q = p
    BY <1>2, <1>3, <2>1 DEF Writes
  <2>2. CASE q # p
    <3>1. U[q] = V[q]
      BY <2>2
    <3>2. \A c \in B : c[1] = q => c \in A
      BY <1>2, <2>2
    <3>3. /\ \A c \in A : c[1] = q /\ c[2] = column => c[3] = V[q][column]
          /\ db[q][column] = V[q][column] \/ Writes(A, q, column)
      BY DEF Settles, A
    <3> QED BY <1>2, <3>1, <3>2, <3>3 DEF Writes
  <2> QED BY <2>1, <2>2
<1>6. Settles(db, B, U)
  BY <1>5 DEF Settles
<1> QED BY <1>2, <1>4, <1>6 DEF B

LEMMA CommitSettles ==
  ASSUME DOMAIN open = Slot \cup Job, NEW t \in Slot, Commit(t), AttendanceShape(db, open),
         NEW V, Settles(db, AllOf(open), V)
  PROVE  Settles(db', AllOf(open'), V)
<1> DEFINE A == AllOf(open)
           B == AllOf(open')
<1>1. Closes(t) /\ db' = Written(open[t])
  BY CommitCloses
<1>2. B \subseteq A /\ A \subseteq B \cup open[t] /\ open[t] \subseteq A
  <2>1. t \in DOMAIN open
    OBVIOUS
  <2> QED BY <1>1, <2>1 DEF Closes, AllOf
<1> HIDE DEF A, B
<1>3. ASSUME NEW p \in Row, NEW column \in AttendanceNames
      PROVE  /\ \A c \in B : c[1] = p /\ c[2] = column => c[3] = V[p][column]
             /\ db'[p][column] = V[p][column] \/ Writes(B, p, column)
  <2>1. /\ \A c \in A : c[1] = p /\ c[2] = column => c[3] = V[p][column]
        /\ db[p][column] = V[p][column] \/ Writes(A, p, column)
    BY DEF Settles, A
  <2>2. ASSUME ~Writes(B, p, column) PROVE db'[p][column] = V[p][column]
    <3> DEFINE v == V[p][column]
    <3>1. p \in DOMAIN db /\ column \in DOMAIN db[p]
      BY DEF AttendanceShape
    <3>2. \A c \in open[t] : c[1] = p /\ c[2] = column => c[3] = v
      BY <1>2, <2>1
    <3>3. db[p][column] = v \/ Writes(open[t], p, column)
      BY <1>2, <2>1, <2>2 DEF Writes
    <3> HIDE DEF v
    <3>4. Written(open[t])[p][column] = v
      BY <3>1, <3>2, <3>3, WrittenValue
    <3> QED BY <1>1, <3>4 DEF v
  <2> QED BY <1>2, <2>1, <2>2
<1>4. Settles(db', B, V)
  BY <1>3 DEF Settles
<1> QED BY <1>4 DEF B

LEMMA AttendanceIsTyped ==
  ASSUME AttendanceTyped, topic = "attendance"
  PROVE  /\ AttendanceShape(db, open) /\ WorldGood(outside) /\ None \notin Nat
         /\ DOMAIN outside = {"now", "there", "busiest", "lost", "blurred"}
         /\ \A V : Settles(db, AllOf(open), V) => TimesTyped(V)
<1>1. \A p \in Row : db[p] \in AttendanceRow
  BY AttendanceRows
<1>2. outside \in [now : Nat, there : SUBSET Row, busiest : Nat, lost : BOOLEAN, blurred : BOOLEAN]
  BY DEF AttendanceTyped
<1>3. DOMAIN db = Row
  BY DEF AttendanceTyped, Typed, AttendanceSchema
<1>4. ASSUME NEW t \in DOMAIN open, NEW c \in open[t]
      PROVE  /\ c[1] \in Row /\ c[2] \in AttendanceNames
             /\ c[2] \in {"joined", "left"} => c[3] \in Nat \cup {None}
             /\ c[2] = "removed" => c[3] \in BOOLEAN
  <2>1. FitsAt(AttendanceSchema, c[1], c[2], c[3])
    BY DEF AttendanceTyped, Typed, Fit
  <2> DEFINE r == [db[c[1]] EXCEPT ![c[2]] = c[3]]
  <2>2. c[1] \in Row /\ c[2] \in DOMAIN db[c[1]] /\ r \in AttendanceRow
    BY <2>1 DEF FitsAt, AttendanceSchema
  <2>3. c[2] \in AttendanceNames
    BY <1>1, <2>2 DEF AttendanceRow, AttendanceNames
  <2>4. r[c[2]] = c[3]
    BY <2>2
  <2> HIDE DEF r
  <2>5. r.joined \in Nat \cup {None} /\ r.left \in Nat \cup {None} /\ r.removed \in BOOLEAN
    BY <2>2 DEF AttendanceRow
  <2> QED BY <2>2, <2>3, <2>4, <2>5
<1>5. AttendanceShape(db, open)
  BY <1>1, <1>3, <1>4 DEF AttendanceShape, AttendanceRow, AttendanceNames
<1>6. ASSUME NEW V, Settles(db, AllOf(open), V) PROVE TimesTyped(V)
  <2>1. \A c \in AllOf(open) :
          /\ c[2] \in {"joined", "left"} => c[3] \in Nat \cup {None}
          /\ c[2] = "removed" => c[3] \in BOOLEAN
    BY <1>4 DEF AllOf
  <2>2. ASSUME NEW p \in Row, NEW column \in AttendanceNames
        PROVE  \/ V[p][column] = db[p][column]
               \/ \E c \in AllOf(open) : c[2] = column /\ c[3] = V[p][column]
    BY <1>6 DEF Settles, Writes
  <2>3. {"joined", "left", "removed"} \subseteq AttendanceNames
    BY DEF AttendanceNames
  <2>4. ASSUME NEW p \in Row
        PROVE  V[p].joined \in Nat \cup {None} /\ V[p].left \in Nat \cup {None} /\ V[p].removed \in BOOLEAN
    <3>1. db[p].joined \in Nat \cup {None} /\ db[p].left \in Nat \cup {None} /\ db[p].removed \in BOOLEAN
      BY <1>1 DEF AttendanceRow
    <3>2. V[p].joined \in Nat \cup {None}
      BY <2>1, <2>2, <2>3, <3>1
    <3>3. V[p].left \in Nat \cup {None}
      BY <2>1, <2>2, <2>3, <3>1
    <3>4. V[p].removed \in BOOLEAN
      <4>1. CASE V[p]["removed"] = db[p]["removed"]
        BY <3>1, <4>1
      <4>2. ASSUME NEW c \in AllOf(open), c[2] = "removed", c[3] = V[p]["removed"] PROVE V[p].removed \in BOOLEAN
        BY <2>1, <4>2
      <4> QED BY <2>2, <2>3, <4>1, <4>2
    <3> QED BY <3>2, <3>3, <3>4
  <2> QED BY <2>4 DEF TimesTyped
<1> QED BY <1>2, <1>5, <1>6, ToolsAssumption DEF WorldGood

(* The same of the state after a step.                                     *)
AttendanceTidy ==
  /\ AttendanceShape(db, open) /\ WorldGood(outside)
  /\ \A V : Settles(db, AllOf(open), V) => TimesTyped(V)

Attended == AttendanceTyped /\ topic = "attendance"

LEMMA AttendanceIsTidy == Attended => AttendanceTidy
BY AttendanceIsTyped DEF Attended, AttendanceTidy

LEMMA AttendanceStaysTidy ==
  ASSUME AttendanceTyped, topic = "attendance", DOMAIN open = Slot \cup Job, AttendanceNext,
         topic' = "attendance"
  PROVE  /\ AttendanceShape(db', open') /\ WorldGood(outside')
         /\ \A V : Settles(db', AllOf(open'), V) => TimesTyped(V)
<1>1. Attended'
  BY AttendanceTypesStay DEF Attended
<1>2. AttendanceTidy'
  BY <1>1, AttendanceIsTidy, PTL
<1> QED BY <1>2 DEF AttendanceTidy

(* What a request about somebody leads from and to.                        *)
LeadsTo(T, U, p, X) ==
  /\ StaysIn(outside, T) /\ TimesTyped(T) /\ TimesTyped(U) /\ OthersAsIn(T, U, p)
  /\ T[p].joined = db[p].joined /\ T[p].left = db[p].left /\ T[p].removed = db[p].removed
  /\ U[p] = X
  /\ StaysIn(outside', U) => AttendanceKept'

LEMMA AttendanceCalls ==
  ASSUME AttendanceKept, AttendanceTyped, topic = "attendance", DOMAIN open = Slot \cup Job,
         AttendanceNext, ~outside.blurred,
         NEW w, Call(w), NEW p \in Row, ~Pending(p), NEW X,
         \A c \in w : c[1] = p /\ c[3] = X[c[2]],
         \A column \in AttendanceNames : db[p][column] = X[column] \/ Writes(w, p, column)
  PROVE  \E T, U : LeadsTo(T, U, p, X)
<1>1. AttendanceGood(outside, db, open)
  BY AttendanceInParts
<1>2. AttendanceShape(db, open) /\ \A V : Settles(db, AllOf(open), V) => TimesTyped(V)
  BY AttendanceIsTyped
<1>3. PICK V : Settles(db, AllOf(open), V) /\ StaysIn(outside, V)
  BY <1>1, <1>2, GoodIsSettled
<1>4. PICK U : U = [q \in Row |-> IF q = p THEN X ELSE V[q]]
  OBVIOUS
<1>5. /\ Settles(db', AllOf(open'), U)
      /\ \A column \in AttendanceNames : V[p][column] = db[p][column]
  BY <1>3, <1>4, CallSettles
<1>6. topic' = "attendance"
  BY DEF Call, Begin
<1>7. AttendanceShape(db', open') /\ \A W : Settles(db', AllOf(open'), W) => TimesTyped(W)
  BY <1>6, AttendanceStaysTidy
<1>8. OthersAsIn(V, U, p) /\ U[p] = X
  BY <1>4 DEF OthersAsIn
<1>9. V[p].joined = db[p].joined /\ V[p].left = db[p].left /\ V[p].removed = db[p].removed
  BY <1>5 DEF AttendanceNames
<1>10. StaysIn(outside', U) => AttendanceKept'
  BY <1>5, <1>7, SettledIsGood, AttendanceInParts
<1> QED BY <1>2, <1>3, <1>5, <1>7, <1>8, <1>9, <1>10 DEF LeadsTo

LEMMA SomebodyArrives ==
  ASSUME AttendanceKept, AttendanceTyped, topic = "attendance", DOMAIN open = Slot \cup Job,
         AttendanceNext, NEW p \in Row, Arrive(p), ~outside'.blurred, topic' = "attendance"
  PROVE  AttendanceKept'
<1> DEFINE X == [is |-> db[p].is, joined |-> now + 1, left |-> None, removed |-> db[p].removed]
           joins == Change(p, "joined", now + 1)
           stays == Change(p, "left", None)
           w == joins \cup stays
<1>1. ~outside.blurred /\ ~Pending(p) /\ ~db[p].removed /\ Call(w)
  BY DEF Arrive
<1>2. /\ outside'.now = outside.now + 1 /\ outside'.there = outside.there \cup {p}
      /\ outside'.busiest = Busiest(outside.there \cup {p})
      /\ outside'.lost = (outside.lost \/ db[p].joined # None)
  BY DEF Arrive, now, there
<1>3. /\ X["is"] = db[p]["is"] /\ X["joined"] = now + 1 /\ X["left"] = None
      /\ X["removed"] = db[p]["removed"]
  OBVIOUS
<1> HIDE DEF X
<1>4. /\ \A c \in joins : c[1] = p /\ c[2] = "joined" /\ c[3] = now + 1
      /\ db[p]["joined"] = now + 1 \/ Writes(joins, p, "joined")
      /\ \A c \in stays : c[1] = p /\ c[2] = "left" /\ c[3] = None
      /\ db[p]["left"] = None \/ Writes(stays, p, "left")
  BY ChangeShape
<1> HIDE DEF joins, stays
<1>5. \A c \in w : c[1] = p /\ c[3] = X[c[2]]
  BY <1>3, <1>4
<1>6. \A column \in AttendanceNames : db[p][column] = X[column] \/ Writes(w, p, column)
  BY <1>3, <1>4 DEF Writes, AttendanceNames
<1> HIDE DEF w
<1>7. PICK T, U : LeadsTo(T, U, p, X)
  BY <1>1, <1>5, <1>6, AttendanceCalls
<1>8. WorldGood(outside) /\ None \notin Nat /\ WorldGood(outside')
  BY AttendanceIsTyped, AttendanceStaysTidy
<1>9. StaysIn(outside', U)
  <2>1. U[p].joined = outside.now + 1 /\ U[p].left = None /\ ~U[p].removed /\ ~T[p].removed
        /\ T[p].joined = db[p].joined
    BY <1>1, <1>3, <1>7 DEF LeadsTo, now
  <2>2. outside'.busiest =
          IF Cardinality(outside'.there) > outside.busiest THEN Cardinality(outside'.there) ELSE outside.busiest
    BY <1>2 DEF Busiest
  <2>3. ~outside'.lost => ~outside.lost /\ T[p].joined = None
    BY <1>2, <2>1
  <2>4. StaysIn(outside, T) /\ TimesTyped(T) /\ TimesTyped(U) /\ OthersAsIn(T, U, p)
    BY <1>7 DEF LeadsTo
  <2> QED BY <1>2, <1>8, <2>1, <2>2, <2>3, <2>4, StayBegins
<1> QED BY <1>7, <1>9 DEF LeadsTo

LEMMA SomebodyGoes ==
  ASSUME AttendanceKept, AttendanceTyped, topic = "attendance", DOMAIN open = Slot \cup Job,
         AttendanceNext, NEW p \in Row, GoAway(p), ~outside'.blurred, topic' = "attendance"
  PROVE  AttendanceKept'
<1> DEFINE X == [is |-> db[p].is, joined |-> db[p].joined, left |-> now + 1, removed |-> db[p].removed]
           w == Change(p, "left", now + 1)
<1>0. DOMAIN outside = {"now", "there", "busiest", "lost", "blurred"}
  BY AttendanceIsTyped
<1>1. /\ ~outside.blurred /\ ~Pending(p) /\ Call(w)
      /\ db[p].removed \/ db[p].joined = None \/ db[p].left = None
  BY <1>0 DEF GoAway
<1>2. /\ outside'.now = outside.now + 1 /\ outside'.there = outside.there \ {p}
      /\ outside'.busiest = outside.busiest /\ outside'.lost = outside.lost
  BY <1>0 DEF GoAway
<1>3. /\ X["is"] = db[p]["is"] /\ X["joined"] = db[p]["joined"] /\ X["left"] = now + 1
      /\ X["removed"] = db[p]["removed"]
  OBVIOUS
<1> HIDE DEF X
<1>4. /\ \A c \in w : c[1] = p /\ c[2] = "left" /\ c[3] = now + 1
      /\ db[p]["left"] = now + 1 \/ Writes(w, p, "left")
  BY ChangeShape
<1> HIDE DEF w
<1>5. \A c \in w : c[1] = p /\ c[3] = X[c[2]]
  BY <1>3, <1>4
<1>6. \A column \in AttendanceNames : db[p][column] = X[column] \/ Writes(w, p, column)
  BY <1>3, <1>4 DEF AttendanceNames
<1>7. PICK T, U : LeadsTo(T, U, p, X)
  BY <1>1, <1>5, <1>6, AttendanceCalls
<1>8. WorldGood(outside) /\ None \notin Nat /\ WorldGood(outside')
  BY AttendanceIsTyped, AttendanceStaysTidy
<1>9. StaysIn(outside', U)
  <2>1. /\ U[p].joined = T[p].joined /\ U[p].left = outside.now + 1 /\ U[p].removed = T[p].removed
        /\ T[p].removed \/ T[p].joined = None \/ T[p].left = None
    BY <1>1, <1>3, <1>7 DEF LeadsTo, now
  <2>2. outside.lost => outside'.lost
    BY <1>2
  <2>3. StaysIn(outside, T) /\ TimesTyped(T) /\ TimesTyped(U) /\ OthersAsIn(T, U, p)
    BY <1>7 DEF LeadsTo
  <2> QED BY <1>2, <1>8, <2>1, <2>2, <2>3, StayEnds
<1> QED BY <1>7, <1>9 DEF LeadsTo

LEMMA SomebodyIsRemoved ==
  ASSUME AttendanceKept, AttendanceTyped, topic = "attendance", DOMAIN open = Slot \cup Job,
         AttendanceNext, NEW p \in Row, SendAway(p), ~outside'.blurred, topic' = "attendance"
  PROVE  AttendanceKept'
<1> DEFINE on == TRUE
           X == [is |-> db[p].is, joined |-> db[p].joined, left |-> now + 1, removed |-> on]
           goes == Change(p, "removed", on)
           ends == Change(p, "left", now + 1)
           w == goes \cup ends
<1>0. DOMAIN outside = {"now", "there", "busiest", "lost", "blurred"}
  BY AttendanceIsTyped
<1>1. ~outside.blurred /\ ~Pending(p) /\ Call(w)
  BY <1>0 DEF SendAway
<1>2. /\ outside'.now = outside.now + 1 /\ outside'.there = outside.there \ {p}
      /\ outside'.busiest = outside.busiest /\ outside'.lost
  BY <1>0 DEF SendAway
<1>3. /\ X["is"] = db[p]["is"] /\ X["joined"] = db[p]["joined"] /\ X["left"] = now + 1
      /\ X["removed"] = on
  OBVIOUS
<1>o. on
  OBVIOUS
<1> HIDE DEF X, on
<1>4. /\ \A c \in goes : c[1] = p /\ c[2] = "removed" /\ c[3] = on
      /\ db[p]["removed"] = on \/ Writes(goes, p, "removed")
      /\ \A c \in ends : c[1] = p /\ c[2] = "left" /\ c[3] = now + 1
      /\ db[p]["left"] = now + 1 \/ Writes(ends, p, "left")
  BY ChangeShape
<1> HIDE DEF goes, ends
<1>5. \A c \in w : c[1] = p /\ c[3] = X[c[2]]
  BY <1>3, <1>4
<1>6. \A column \in AttendanceNames : db[p][column] = X[column] \/ Writes(w, p, column)
  BY <1>3, <1>4 DEF Writes, AttendanceNames
<1> HIDE DEF w
<1>7. PICK T, U : LeadsTo(T, U, p, X)
  BY <1>1, <1>5, <1>6, AttendanceCalls
<1>8. WorldGood(outside) /\ None \notin Nat /\ WorldGood(outside')
  BY AttendanceIsTyped, AttendanceStaysTidy
<1>9. StaysIn(outside', U)
  <2>1. U[p].joined = T[p].joined /\ U[p].left = outside.now + 1 /\ U[p].removed
    <3>1. U[p].joined = T[p].joined /\ U[p].left = outside.now + 1
      BY <1>3, <1>7 DEF LeadsTo, now
    <3>2. U[p]["removed"] = on
      BY <1>3, <1>7 DEF LeadsTo
    <3> QED BY <1>o, <3>1, <3>2, Zenon
  <2>3. StaysIn(outside, T) /\ TimesTyped(T) /\ TimesTyped(U) /\ OthersAsIn(T, U, p)
    BY <1>7 DEF LeadsTo
  <2> QED BY <1>2, <1>8, <2>1, <2>3, StayEnds
<1> QED BY <1>7, <1>9 DEF LeadsTo

(* Whoever was admitted comes in, and nothing is written.                  *)
LEMMA TheAdmittedArrive ==
  ASSUME AttendanceKept, AttendanceTyped, topic = "attendance", NEW p \in Row, ArriveAdmitted(p)
  PROVE  AttendanceKept'
<1>0. DOMAIN outside = {"now", "there", "busiest", "lost", "blurred"} /\ WorldGood(outside)
  BY AttendanceIsTyped
<1>1. UNCHANGED <<topic, db, open>>
  BY DEF ArriveAdmitted, Outside, tables
<1>2. /\ outside'.now = outside.now /\ outside'.there = outside.there \cup {p}
      /\ outside'.busiest = Busiest(outside.there \cup {p})
      /\ outside'.lost /\ outside'.blurred = outside.blurred
  BY <1>0 DEF ArriveAdmitted, Outside, there
<1>3. outside.busiest <= outside'.busiest /\ Cardinality(outside'.there) <= outside'.busiest
      /\ outside'.busiest \in Nat
  <2>1. Cardinality(outside'.there) \in Nat /\ outside.busiest \in Nat
    BY <1>0, <1>2, PresentAreCounted DEF WorldGood
  <2> QED BY <1>2, <2>1 DEF Busiest
<1>4. ASSUME NEW T, StaysIn(outside, T) PROVE StaysIn(outside', T)
  <2>1. CrowdIn(T, outside'.now, outside'.busiest)
    <3>1. \A m \in 0..outside.now :
            Cardinality(PresentAt(T, m)) \in Nat /\ Cardinality(PresentAt(T, m)) <= outside.busiest
      BY <1>4, PresentAreCounted DEF StaysIn, CrowdIn
    <3> QED BY <1>0, <1>2, <1>3, <3>1 DEF CrowdIn, WorldGood
  <2> QED BY <1>2, <1>3, <1>4, <2>1 DEF StaysIn
<1>5. AttendanceGood(outside, db, open) => AttendanceGood(outside', db, open)
  BY <1>4 DEF AttendanceGood
<1> QED BY <1>1, <1>2, <1>5, AttendanceInParts

LEMMA AttendanceStays ==
  ASSUME AttendanceKept, AttendanceTyped, topic = "attendance", DOMAIN open = Slot \cup Job, AttendanceNext
  PROVE  AttendanceKept'
<1>1. SUFFICES ASSUME topic' = "attendance", ~outside'.blurred PROVE AttendanceKept'
  BY AttendanceInParts
<1>2. ASSUME NEW t \in Slot, Commit(t) PROVE AttendanceKept'
  <2>1. outside' = outside
    BY <1>2 DEF Commit
  <2>2. AttendanceGood(outside, db, open)
    BY <1>1, <2>1, AttendanceInParts
  <2>3. AttendanceShape(db, open) /\ AttendanceShape(db', open')
    BY <1>1, AttendanceIsTyped, AttendanceStaysTidy
  <2>4. PICK V : Settles(db, AllOf(open), V) /\ StaysIn(outside, V)
    BY <2>2, <2>3, GoodIsSettled
  <2>5. Settles(db', AllOf(open'), V)
    BY <1>2, <2>3, <2>4, CommitSettles
  <2>6. AttendanceGood(outside', db', open')
    BY <2>1, <2>3, <2>4, <2>5, SettledIsGood
  <2> QED BY <2>6, AttendanceInParts
<1>3. DOMAIN outside = {"now", "there", "busiest", "lost", "blurred"}
  BY AttendanceIsTyped
<1>4. \A p \in Row : ~AdmitAgain(p)
  BY <1>1, <1>3 DEF AdmitAgain
<1>5. \A t \in Slot : ~FailAttendance(t)
  BY <1>1, <1>3 DEF FailAttendance
<1> QED BY <1>1, <1>2, <1>4, <1>5, SomebodyArrives, SomebodyGoes, SomebodyIsRemoved, TheAdmittedArrive
        DEF AttendanceNext

LEMMA AttendanceStarts ==
  ASSUME AttendanceInit
  PROVE  AttendanceKept
<1> DEFINE O == [t \in Slot \cup Job |-> {}]
<1>0. /\ \A p \in Row : db[p].joined = None /\ db[p].left = None /\ ~db[p].removed
      /\ outside.now = 0 /\ outside.busiest = 0 /\ outside.there = {}
      /\ DOMAIN db = Row /\ \A p \in Row : DOMAIN db[p] = AttendanceNames
      /\ open = O
  BY DEF AttendanceInit, Start, AttendanceNames
<1>1. \A m : PresentAt(db, m) = {}
  BY <1>0 DEF PresentAt
<1>2. AttendingIn(db) = {}
  BY <1>0 DEF AttendingIn
<1>3. TimesIn(db, outside.now)
  BY <1>0 DEF TimesIn
<1>4. CrowdIn(db, outside.now, outside.busiest)
  <2>1. \A m \in 0..outside.now : Cardinality(PresentAt(db, m)) = 0
    BY <1>1, FS_EmptySet
  <2> QED BY <1>0, <2>1 DEF CrowdIn
<1>5. StaysIn(outside, db)
  BY <1>0, <1>2, <1>3, <1>4, FS_EmptySet DEF StaysIn, FullIn, BusiestIn
<1>6. AllOf(open) = {}
  BY <1>0 DEF AllOf
<1>7. AttendanceShape(db, open) /\ Settles(db, AllOf(open), db)
  BY <1>0, <1>6 DEF AttendanceShape, Settles
<1>8. AttendanceGood(outside, db, open)
  BY <1>5, <1>7, SettledIsGood
<1> QED BY <1>8, AttendanceInParts

(* The sweep line counts who has come less who has gone: who is there.     *)
EventsOf(S, a, k) == {<<a[p], k, p>> : p \in S}
LEMMA AsManyEvents ==
  ASSUME NEW S, IsFiniteSet(S), NEW a, NEW k
  PROVE  IsFiniteSet(EventsOf(S, a, k)) /\ Cardinality(EventsOf(S, a, k)) = Cardinality(S)
<1> DEFINE E == {<<a[p], k, p>> : p \in S}
           f == [p \in S |-> <<a[p], k, p>>]
<1>1. f \in [S -> E]
  OBVIOUS
<1>2. \A p, q \in S : f[p] = f[q] => p = q
  OBVIOUS
<1>3. \A e \in E : \E p \in S : f[p] = e
  OBVIOUS
<1> HIDE DEF f, E
<1>4. DOMAIN f = S
  BY <1>1
<1>5. IsInjective(f)
  BY <1>2, <1>4 DEF IsInjective
<1>6. f \in Bijection(S, E)
  BY <1>1, <1>3, <1>5 DEF Bijection, Injection, Surjection
<1>7. ExistsBijection(S, E)
  BY <1>6 DEF ExistsBijection
<1>8. IsFiniteSet(E) /\ Cardinality(E) = Cardinality(S)
  BY <1>7, FS_Bijection
<1> QED BY <1>8 DEF E, EventsOf

CameAt == [p \in Row |-> db[p].joined]
WentAt(asOf) == [p \in Row |-> Departure(p, asOf)]
Arrived(e) == {p \in Reported : CameAt[p] < e[1] \/ (CameAt[p] = e[1] /\ e[2] = 1)}
Departed(asOf, e) == {p \in Reported : WentAt(asOf)[p] <= e[1]}

LEMMA RunningIsCounted ==
  ASSUME None \notin Nat, TimesTyped(db), NEW n \in Nat, TimesIn(db, n), NEW asOf, asOf = n + 1,
         NEW e \in Events(asOf)
  PROVE  /\ e[1] \in Nat /\ e[2] \in {1, 0 - 1}
         /\ Departed(asOf, e) \subseteq Arrived(e) /\ Arrived(e) \subseteq Row
         /\ Running(Events(asOf), e) = Cardinality(Arrived(e) \ Departed(asOf, e))
<1> DEFINE D == WentAt(asOf)
           J == {<<CameAt[p], 1, p>> : p \in Reported}
           L == {<<D[p], 0 - 1, p>> : p \in Reported}
<1>1. ASSUME NEW p \in Reported
      PROVE  /\ p \in Row /\ CameAt[p] = db[p].joined /\ CameAt[p] \in 1..n /\ CameAt[p] \in Nat
             /\ D[p] \in Nat /\ CameAt[p] < D[p] /\ D[p] <= n + 1
  <2>1. p \in Row /\ db[p].joined # None /\ ~db[p].removed
    BY DEF Reported
  <2>2. CameAt[p] = db[p].joined /\ D[p] = IF db[p].left = None THEN asOf ELSE db[p].left
    BY <2>1 DEF CameAt, WentAt, Departure
  <2>3. db[p].joined \in 1..n
    BY <2>1 DEF TimesIn
  <2>4. db[p].left # None => db[p].left \in Nat /\ db[p].joined < db[p].left /\ db[p].left <= n
    BY <2>1 DEF TimesIn, TimesTyped
  <2> QED BY <2>1, <2>2, <2>3, <2>4
<1>2. Events(asOf) = J \cup L
  <2>1. {<<db[p].joined, 1, p>> : p \in Reported} = J
    <3>1. \A p \in Reported : <<db[p].joined, 1, p>> = <<CameAt[p], 1, p>>
      BY <1>1
    <3> QED BY <3>1
  <2>2. Leaves(asOf) = L
    <3>1. \A p \in Reported : Departure(p, asOf) = D[p] /\ D[p] > db[p].joined
      BY <1>1 DEF WentAt
    <3>2. {q \in Reported : Departure(q, asOf) > db[q].joined} = Reported
      BY <3>1
    <3>3. \A p \in Reported : <<Departure(p, asOf), 0 - 1, p>> = <<D[p], 0 - 1, p>>
      BY <3>1
    <3> QED BY <3>2, <3>3 DEF Leaves
  <2> QED BY <2>1, <2>2 DEF Events
<1> HIDE DEF D
<1>3. e[1] \in Nat /\ e[2] \in {1, 0 - 1}
  BY <1>1, <1>2
<1>4. Departed(asOf, e) \subseteq Arrived(e) /\ Arrived(e) \subseteq Row /\ Departed(asOf, e) \subseteq Row
  BY <1>1, <1>3 DEF Departed, Arrived, D
<1> DEFINE sofar == {f \in Events(asOf) : Before(f, e)}
<1>5. {f \in sofar : f[2] = 1} = {<<CameAt[p], 1, p>> : p \in Arrived(e)}
  <2>1. ASSUME NEW f \in sofar, f[2] = 1 PROVE f \in {<<CameAt[p], 1, p>> : p \in Arrived(e)}
    <3>1. PICK p \in Reported : f = <<CameAt[p], 1, p>>
      BY <1>2, <2>1
    <3>2. p \in Arrived(e)
      BY <1>1, <1>3, <2>1, <3>1 DEF Arrived, Before
    <3> QED BY <3>1, <3>2
  <2>2. ASSUME NEW p \in Arrived(e) PROVE <<CameAt[p], 1, p>> \in sofar /\ <<CameAt[p], 1, p>>[2] = 1
    <3>1. p \in Reported /\ (CameAt[p] < e[1] \/ (CameAt[p] = e[1] /\ e[2] = 1))
      BY DEF Arrived
    <3>2. <<CameAt[p], 1, p>> \in Events(asOf)
      BY <1>2, <3>1
    <3>3. Before(<<CameAt[p], 1, p>>, e)
      BY <3>1 DEF Before
    <3> QED BY <3>2, <3>3
  <2> HIDE DEF sofar
  <2> QED BY <2>1, <2>2
<1>6. {f \in sofar : f[2] # 1} = {<<D[p], 0 - 1, p>> : p \in Departed(asOf, e)}
  <2>1. ASSUME NEW f \in sofar, f[2] # 1 PROVE f \in {<<D[p], 0 - 1, p>> : p \in Departed(asOf, e)}
    <3>1. PICK p \in Reported : f = <<D[p], 0 - 1, p>>
      BY <1>2, <2>1
    <3>2. D[p] <= e[1]
      BY <1>1, <1>3, <2>1, <3>1 DEF Before
    <3>3. p \in Departed(asOf, e)
      BY <3>1, <3>2 DEF Departed, D
    <3> QED BY <3>1, <3>3
  <2>2. ASSUME NEW p \in Departed(asOf, e) PROVE <<D[p], 0 - 1, p>> \in sofar /\ <<D[p], 0 - 1, p>>[2] # 1
    <3>1. p \in Reported /\ D[p] <= e[1]
      BY DEF Departed, D
    <3>2. <<D[p], 0 - 1, p>> \in Events(asOf)
      BY <1>2, <3>1
    <3>3. Before(<<D[p], 0 - 1, p>>, e)
      BY <1>1, <1>3, <3>1 DEF Before
    <3> QED BY <3>2, <3>3
  <2> HIDE DEF sofar
  <2> QED BY <2>1, <2>2
<1>7. Running(Events(asOf), e) = Cardinality({f \in sofar : f[2] = 1}) - Cardinality({f \in sofar : f[2] # 1})
  BY DEF Running
<1>8. IsFiniteSet(Arrived(e)) /\ IsFiniteSet(Departed(asOf, e))
  BY <1>4, RequestsAssumption, FS_Subset
<1>9. /\ Cardinality({f \in sofar : f[2] = 1}) = Cardinality(Arrived(e))
      /\ Cardinality({f \in sofar : f[2] # 1}) = Cardinality(Departed(asOf, e))
  <2>1. {f \in sofar : f[2] = 1} = EventsOf(Arrived(e), CameAt, 1)
    BY <1>5 DEF EventsOf
  <2>2. {f \in sofar : f[2] # 1} = EventsOf(Departed(asOf, e), D, 0 - 1)
    BY <1>6 DEF EventsOf
  <2>3. Cardinality(EventsOf(Arrived(e), CameAt, 1)) = Cardinality(Arrived(e))
    BY <1>8, AsManyEvents
  <2>4. Cardinality(EventsOf(Departed(asOf, e), D, 0 - 1)) = Cardinality(Departed(asOf, e))
    BY <1>8, AsManyEvents
  <2> HIDE DEF sofar
  <2> QED BY <2>1, <2>2, <2>3, <2>4
<1>10. Cardinality(Arrived(e) \ Departed(asOf, e)) = Cardinality(Arrived(e)) - Cardinality(Departed(asOf, e))
  <2> DEFINE X == Arrived(e)
             Y == Departed(asOf, e)
  <2>1. IsFiniteSet(X) /\ Y \subseteq X
    BY <1>4, <1>8
  <2> HIDE DEF X, Y
  <2>2. Cardinality(X \ Y) = Cardinality(X) - Cardinality(X \cap Y) /\ X \cap Y = Y
    BY <2>1, FS_Difference
  <2> QED BY <2>2 DEF X, Y
<1> HIDE DEF sofar
<1> QED BY <1>3, <1>4, <1>7, <1>9, <1>10

(* At an arrival it counts who is there then, at a departure a part of     *)
(* those.                                                                  *)
LEMMA PeakIsReached ==
  ASSUME AttendanceKept, AttendanceTyped, topic = "attendance", Quiet, ~outside.blurred,
         NEW asOf, asOf = now + 1
  PROVE  /\ \A e \in Events(asOf) :
              Running(Events(asOf), e) \in Nat /\ Running(Events(asOf), e) <= outside.busiest
         /\ ~outside.lost /\ outside.busiest # 0 =>
              \E e \in Events(asOf) : Running(Events(asOf), e) = outside.busiest
<1>1. now \in Nat /\ outside.busiest \in Nat /\ None \notin Nat
  BY AttendanceIsTyped DEF WorldGood, now
<1>2. StaysIn(outside, db) /\ TimesTyped(db)
  <2>1. AttendanceGood(outside, db, open) /\ AttendanceShape(db, open)
    BY AttendanceIsTyped, AttendanceInParts
  <2>2. PICK V : Settles(db, AllOf(open), V) /\ StaysIn(outside, V)
    BY <2>1, GoodIsSettled
  <2>3. AllOf(open) = {}
    BY DEF Quiet, AllOf
  <2>4. SameIn(V, db) /\ Settles(db, AllOf(open), db)
    BY <2>2, <2>3 DEF Settles, SameIn, Writes
  <2> QED BY <2>2, <2>4, StaysAsSame, AttendanceIsTyped
<1>3. /\ TimesIn(db, now) /\ CrowdIn(db, now, outside.busiest)
      /\ ~outside.lost => BusiestIn(db, outside.busiest) /\ \A p \in Row : ~db[p].removed
  BY <1>2 DEF StaysIn, FullIn, now
<1>4. \A e \in Events(asOf) :
        /\ e[1] \in Nat /\ e[2] \in {1, 0 - 1}
        /\ Departed(asOf, e) \subseteq Arrived(e) /\ Arrived(e) \subseteq Row
        /\ Running(Events(asOf), e) = Cardinality(Arrived(e) \ Departed(asOf, e))
  BY <1>1, <1>2, <1>3, RunningIsCounted
<1>5. \A p \in Row : p \in Reported =>
        /\ CameAt[p] = db[p].joined /\ db[p].joined # None /\ db[p].joined \in 1..now
        /\ ~db[p].removed
        /\ WentAt(asOf)[p] = (IF db[p].left = None THEN asOf ELSE db[p].left)
        /\ db[p].left # None => db[p].left \in Nat /\ db[p].left <= now
  BY <1>1, <1>2, <1>3 DEF Reported, CameAt, WentAt, Departure, TimesIn, TimesTyped
<1>6. ASSUME NEW e \in Events(asOf) PROVE e[1] <= now \/ Arrived(e) \ Departed(asOf, e) = {}
  <2>1. ASSUME NEW p \in Reported, ~(e[1] <= now) PROVE p \in Departed(asOf, e)
    <3>0. p \in Row /\ e[1] \in Nat
      BY <1>4 DEF Reported
    <3>1. e[1] >= now + 1
      BY <1>1, <2>1, <3>0
    <3>2. /\ WentAt(asOf)[p] = (IF db[p].left = None THEN asOf ELSE db[p].left)
          /\ db[p].left # None => db[p].left \in Nat /\ db[p].left <= now
      BY <1>5, <3>0
    <3>3. WentAt(asOf)[p] \in Nat /\ WentAt(asOf)[p] <= now + 1
      BY <1>1, <3>2
    <3>4. WentAt(asOf)[p] <= e[1]
      BY <1>1, <3>0, <3>1, <3>3
    <3> QED BY <3>4 DEF Departed
  <2> QED BY <2>1 DEF Arrived
<1>7. ASSUME NEW e \in Events(asOf), NEW p \in Reported, e[1] <= now
      PROVE  /\ p \in Arrived(e) \ Departed(asOf, e) => p \in PresentAt(db, e[1])
             /\ e[2] = 1 /\ p \in PresentAt(db, e[1]) => p \in Arrived(e) \ Departed(asOf, e)
  <2>1. p \in Row /\ e[1] \in Nat
    BY <1>4 DEF Reported
  <2>2. /\ p \in Arrived(e) <=> (db[p].joined < e[1] \/ (db[p].joined = e[1] /\ e[2] = 1))
        /\ p \in Departed(asOf, e) <=> (IF db[p].left = None THEN asOf ELSE db[p].left) <= e[1]
    BY <1>5, <2>1 DEF Arrived, Departed
  <2>3. p \in PresentAt(db, e[1]) <=> db[p].joined <= e[1] /\ (db[p].left = None \/ db[p].left > e[1])
    BY <1>5, <2>1 DEF PresentAt
  <2>4. db[p].joined \in Nat /\ (db[p].left # None => db[p].left \in Nat)
    BY <1>5, <2>1
  <2>5. CASE db[p].left = None
    BY <1>1, <1>7, <2>1, <2>2, <2>3, <2>4, <2>5
  <2>6. CASE db[p].left # None
    BY <1>1, <1>7, <2>1, <2>2, <2>3, <2>4, <2>6
  <2> QED BY <2>5, <2>6
<1>8. ASSUME NEW e \in Events(asOf)
      PROVE  Running(Events(asOf), e) \in Nat /\ Running(Events(asOf), e) <= outside.busiest
  <2>1. CASE e[1] <= now
    <3>1. Arrived(e) \ Departed(asOf, e) \subseteq PresentAt(db, e[1])
      BY <1>7, <2>1 DEF Arrived
    <3>2. IsFiniteSet(PresentAt(db, e[1])) /\ Cardinality(PresentAt(db, e[1])) \in Nat
      BY PresentAreCounted
    <3>3. Cardinality(PresentAt(db, e[1])) <= outside.busiest
      <4>0. e[1] \in Nat
        BY <1>4
      <4>1. e[1] \in 0..now
        BY <1>1, <2>1, <4>0
      <4> QED BY <1>3, <4>1 DEF CrowdIn
    <3> DEFINE X == Arrived(e) \ Departed(asOf, e)
    <3>4. Running(Events(asOf), e) = Cardinality(X) /\ X \subseteq PresentAt(db, e[1])
      BY <1>4, <3>1
    <3> HIDE DEF X
    <3>5. IsFiniteSet(X) /\ Cardinality(X) <= Cardinality(PresentAt(db, e[1])) /\ Cardinality(X) \in Nat
      BY <3>2, <3>4, FS_Subset, FS_CardinalityType
    <3> QED BY <1>1, <3>2, <3>3, <3>4, <3>5
  <2>2. CASE ~(e[1] <= now)
    BY <1>1, <1>4, <1>6, <2>2, FS_EmptySet
  <2> QED BY <2>1, <2>2
<1>9. ASSUME ~outside.lost, outside.busiest # 0
      PROVE  \E e \in Events(asOf) : Running(Events(asOf), e) = outside.busiest
  <2>1. PICK p \in Row : db[p].joined # None /\ Cardinality(PresentAt(db, db[p].joined)) = outside.busiest
    BY <1>3, <1>9 DEF BusiestIn
  <2> DEFINE e == <<db[p].joined, 1, p>>
  <2>2. e \in Events(asOf) /\ e[1] = db[p].joined /\ e[2] = 1
    BY <1>3, <1>9, <2>1 DEF Events, Reported
  <2>3. e[1] <= now
    BY <1>3, <2>1 DEF TimesIn
  <2> HIDE DEF e
  <2>4. PresentAt(db, e[1]) \subseteq Reported
    BY DEF PresentAt, Reported
  <2>5. Arrived(e) \subseteq Reported
    BY DEF Arrived
  <2>6. Arrived(e) \ Departed(asOf, e) = PresentAt(db, e[1])
    BY <1>7, <2>2, <2>3, <2>4, <2>5
  <2> QED BY <1>4, <2>1, <2>2, <2>6
<1> QED BY <1>8, <1>9

LEMMA PeakIsReported ==
  ASSUME AttendanceKept, AttendanceTyped
  PROVE  PeakIsTrue
<1> SUFFICES ASSUME topic = "attendance", Quiet, ~outside.blurred
             PROVE  /\ PeakConcurrent(now + 1) <= outside.busiest
                    /\ ~outside.lost => PeakConcurrent(now + 1) = outside.busiest
  BY DEF PeakIsTrue
<1>1. outside.busiest \in Nat
  BY AttendanceIsTyped DEF WorldGood
<1>2. PICK asOf : asOf = now + 1
  OBVIOUS
<1> DEFINE counts == {0} \cup {Running(Events(asOf), e) : e \in Events(asOf)}
<1>3. \A n \in counts : n \in Nat /\ n <= outside.busiest
  BY <1>1, <1>2, PeakIsReached
<1>4. ~outside.lost => outside.busiest \in counts
  <2>1. CASE outside.busiest = 0
    BY <2>1
  <2>2. CASE outside.busiest # 0
    BY <1>2, <2>2, PeakIsReached
  <2> QED BY <2>1, <2>2
<1>5. PeakConcurrent(asOf) = CHOOSE n \in counts : \A m \in counts : m <= n
  BY DEF PeakConcurrent
<1>6. 0 \in counts
  OBVIOUS
<1> HIDE DEF counts
<1>7. \E n \in counts : \A m \in counts : m <= n
  <2>1. counts \subseteq Int /\ counts # {} /\ outside.busiest \in Int /\ \A n \in counts : n <= outside.busiest
    BY <1>1, <1>3, <1>6
  <2> QED BY <2>1, GreatestOf
<1>8. PeakConcurrent(asOf) \in counts /\ \A m \in counts : m <= PeakConcurrent(asOf)
  BY <1>5, <1>7
<1>9. PeakConcurrent(asOf) \in Nat /\ PeakConcurrent(asOf) <= outside.busiest
  BY <1>3, <1>8
<1>10. ~outside.lost => PeakConcurrent(asOf) = outside.busiest
  BY <1>1, <1>4, <1>8, <1>9
<1> QED BY <1>2, <1>9, <1>10

-----------------------------------------------------------------------------
(* The keys, of a world outside and of what the tables will and may be.    *)
UnderwayIn(o, d) == o.step[d] \in {"sealed", "uploaded"}
SealedIn(o, T, p, d) == T[Envelope(p)].key = d /\ T[Envelope(p)].seal = o.seal[d]

RowsGood(o, Out) ==
  \A n \in Batches : \A T \in Out :
    T[Prekey(n)].is # "none" =>
      /\ n <= o.made /\ T[Prekey(n)].batch = n
      /\ ~T[Prekey(n)].consumed => o.secret = n
Opens1(o, p) == \E d \in Drafts : Writer(d) = p /\ o.opening[d] = "opened"
SpentIn(o, p) == o.cached[p] # None \/ Opens1(o, p)
SealsGood(o, Out) ==
  \A d \in Drafts : o.seal[d] # Signed =>
    /\ o.step[d] # "new" /\ o.seal[d] <= o.made
    /\ \A T \in Out : T[Prekey(o.seal[d])].consumed
    /\ \A e \in Drafts : o.seal[e] = o.seal[d] => e = d
    /\ o.secret = o.seal[d] \/ SpentIn(o, Writer(d))
UnderwayGood(o, Out) ==
  \A d \in Drafts : UnderwayIn(o, d) =>
    /\ o.saved[Writer(d)] = None
    /\ \A e \in Drafts : UnderwayIn(o, e) /\ Writer(e) = Writer(d) => e = d
    /\ o.step[d] = "uploaded" => d \in o.skipped \/ \A T \in Out : SealedIn(o, T, Writer(d), d)
BeforeGood(o, Fut) ==
  \A d \in Drafts : o.step[d] \in {"new", "sealed"} =>
    d \notin o.skipped /\ \A T \in Fut : T[Envelope(Writer(d))].key # d
SentGood(o) ==
  \A d \in Drafts : o.step[d] = "sent" => o.saved[Writer(d)] # None /\ o.used[d] = o.saved[Writer(d)]
SavedGood(o, Fut) ==
  \A p \in Phones : o.saved[p] # None =>
    /\ o.saved[p] \in Drafts /\ Writer(o.saved[p]) = p
    /\ o.step[o.saved[p]] = "sent"
    /\ o.saved[p] \in o.skipped \/ \A T \in Fut : SealedIn(o, T, p, o.saved[p])
Fills(o, T, p, key) == key \in Drafts \ o.skipped /\ Writer(key) = p /\ SealedIn(o, T, p, key)
EnvelopeGood(o, Fut) ==
  \A p \in Phones : \A T \in Fut :
    T[Envelope(p)].is = "here" => Fills(o, T, p, T[Envelope(p)].key)
CachedGood(o) ==
  \A p \in Phones : o.cached[p] # None =>
    o.saved[p] # None /\ (o.saved[p] \in o.skipped \/ o.cached[p] = o.saved[p])
SecretFits(o, d, key) ==
  o.seal[key] # Signed => o.secret = 0 \/ (o.secret = o.seal[key] /\ o.opening[d] = "fetched")
KeyFits(o, d, key) ==
  /\ key \in Drafts \ o.skipped /\ Writer(key) = Writer(d) /\ o.step[key] # "new"
  /\ o.saved[Writer(d)] \in o.skipped \/ key = o.saved[Writer(d)]
  /\ SecretFits(o, d, key)
OpensGood(o, d) ==
  /\ o.step[d] = "sent" /\ KeyFits(o, d, o.read[d][1])
  /\ o.read[d][2] = o.seal[o.read[d][1]]
OpeningGood(o) == \A d \in Drafts : o.opening[d] # "no" => OpensGood(o, d)

KeysGood(o, Out, Fut) ==
  /\ RowsGood(o, Out) /\ SealsGood(o, Out) /\ UnderwayGood(o, Out) /\ BeforeGood(o, Fut)
  /\ SentGood(o) /\ SavedGood(o, Fut) /\ EnvelopeGood(o, Fut) /\ CachedGood(o) /\ OpeningGood(o)

LEMMA KeysInParts ==
  /\ KeysKept <=> (topic = "keys" /\ ~overlapped /\ ~outside.mishap => KeysGood(outside, Outcomes, Futures))
  /\ KeysKept' <=> (topic' = "keys" /\ ~overlapped' /\ ~outside'.mishap => KeysGood(outside', Outcomes', Futures'))
<1>1. PrekeysKept <=> RowsGood(outside, Outcomes) /\ SealsGood(outside, Outcomes)
  BY DEF PrekeysKept, RowsGood, SealsGood, Spent, SpentIn, Opens1
<1>2. PrekeysKept' <=> RowsGood(outside', Outcomes') /\ SealsGood(outside', Outcomes')
  BY DEF PrekeysKept, RowsGood, SealsGood, Spent, SpentIn, Opens1
<1>3. SendersKept <=> /\ UnderwayGood(outside, Outcomes) /\ BeforeGood(outside, Futures)
                      /\ SentGood(outside) /\ SavedGood(outside, Futures) /\ EnvelopeGood(outside, Futures)
  BY DEF SendersKept, UnderwayGood, BeforeGood, SentGood, SavedGood, EnvelopeGood, Fills, Underway, UnderwayIn,
         Sealed, SealedIn, IsIn
<1>4. SendersKept' <=> /\ UnderwayGood(outside', Outcomes') /\ BeforeGood(outside', Futures')
                       /\ SentGood(outside') /\ SavedGood(outside', Futures') /\ EnvelopeGood(outside', Futures')
  BY DEF SendersKept, UnderwayGood, BeforeGood, SentGood, SavedGood, EnvelopeGood, Fills, Underway, UnderwayIn,
         Sealed, SealedIn, IsIn
<1>5. ReaderKept <=> CachedGood(outside) /\ OpeningGood(outside)
  BY DEF ReaderKept, CachedGood, OpeningGood, OpensGood, KeyFits, SecretFits
<1>6. ReaderKept' <=> CachedGood(outside') /\ OpeningGood(outside')
  BY DEF ReaderKept, CachedGood, OpeningGood, OpensGood, KeyFits, SecretFits
<1> QED BY <1>1, <1>2, <1>3, <1>4, <1>5, <1>6 DEF KeysKept, KeysGood

(* Every message that was sent can be read.                                *)
LEMMA SentCanBeRead ==
  ASSUME KeysKept
  PROVE  SentIsReadable
<1> SUFFICES ASSUME topic = "keys", Quiet, ~overlapped, ~outside.mishap, NEW d \in Drafts,
                    outside.step[d] = "sent", outside.used[d] \notin outside.skipped
             PROVE  Readable(d)
  BY DEF SentIsReadable
<1> DEFINE p == Writer(d)
           key == outside.saved[p]
<1>1. KeysGood(outside, Outcomes, Futures)
  BY KeysInParts
<1>2. p \in Phones
  BY DEF Drafts, Phones, Writer
<1>3. key # None /\ outside.used[d] = key /\ key \notin outside.skipped
  BY <1>1 DEF KeysGood, SentGood
<1>4. outside.cached[p] = None \/ outside.cached[p] = key
  BY <1>1, <1>2, <1>3 DEF KeysGood, CachedGood
<1>5. key \in Drafts /\ Writer(key) = p /\ SealedIn(outside, db, p, key)
  <2>1. db \in Futures
    BY DEF Futures
  <2> QED BY <1>1, <1>2, <1>3, <2>1 DEF KeysGood, SavedGood
<1>6. db[Envelope(p)].key = key /\ db[Envelope(p)].seal = outside.seal[key]
  BY <1>5 DEF SealedIn
<1>7. outside.seal[key] # Signed /\ outside.cached[p] = None =>
        outside.secret = outside.seal[key] \/ Opens1(outside, p)
  BY <1>1, <1>5 DEF KeysGood, SealsGood, SpentIn
<1>8. ASSUME Opens1(outside, p)
      PROVE  \E f \in Drafts : Writer(f) = p /\ outside.opening[f] = "opened" /\ outside.read[f][1] = outside.used[d]
  <2>1. PICK f \in Drafts : Writer(f) = p /\ outside.opening[f] = "opened"
    BY <1>8 DEF Opens1
  <2>2. KeyFits(outside, f, outside.read[f][1])
    BY <1>1, <2>1 DEF KeysGood, OpeningGood, OpensGood
  <2>3. outside.read[f][1] = key
    BY <1>3, <2>1, <2>2 DEF KeyFits
  <2> QED BY <1>3, <2>1, <2>3
<1>9. \/ outside.cached[p] = outside.used[d]
      \/ /\ outside.cached[p] = None
         /\ \/ Opens1(outside, p)
            \/ db[Envelope(p)].key = outside.used[d] /\ db[Envelope(p)].seal \in {Signed, outside.secret}
  BY <1>3, <1>4, <1>6, <1>7
<1> QED BY <1>8, <1>9 DEF Readable

KeysNumbers(o) ==
  /\ o.made \in 0..2 /\ o.secret \in 0..2 /\ \A d \in Drafts : o.seal[d] \in 0..2
  /\ \A d \in Drafts : o.opening[d] \in {"no", "fetched", "opened"}
SameMade(o, o2) == o2.made = o.made
SameSecret(o, o2) == o2.secret = o.secret
SameReader(o, o2) == o2.cached = o.cached /\ o2.opening = o.opening /\ o2.read = o.read
SameWriters(o, o2) ==
  o2.step = o.step /\ o2.seal = o.seal /\ o2.used = o.used /\ o2.saved = o.saved /\ o2.skipped = o.skipped

LEMMA WritersAreTwo == \A d \in Drafts : Writer(d) \in Phones
BY DEF Drafts, Writer, Phones

(* A writer with a key other than the one it stored has no third.          *)
LEMMA NoThirdKey ==
  ASSUME NEW a \in Drafts, NEW b \in Drafts, NEW c \in Drafts,
         Writer(a) = Writer(c), Writer(b) = Writer(c), a # c, b # c
  PROVE  a = b
BY DEF Drafts, Writer

LEMMA SavedIsSent ==
  ASSUME NEW o, NEW Fut, SavedGood(o, Fut), SentGood(o), NEW d \in Drafts, o.step[d] = "sent"
  PROVE  /\ o.saved[Writer(d)] \in Drafts /\ Writer(o.saved[Writer(d)]) = Writer(d)
         /\ o.step[o.saved[Writer(d)]] = "sent" /\ o.saved[Writer(d)] # None
BY WritersAreTwo DEF SavedGood, SentGood

LEMMA FewerTables ==
  ASSUME NEW o, NEW Out, NEW Fut, KeysGood(o, Out, Fut), NEW Out2 \in SUBSET Out, NEW Fut2 \in SUBSET Fut
  PROVE  KeysGood(o, Out2, Fut2)
<1>1. RowsGood(o, Out2)
  BY DEF KeysGood, RowsGood
<1>2. SealsGood(o, Out2)
  BY DEF KeysGood, SealsGood
<1>3. UnderwayGood(o, Out2)
  BY DEF KeysGood, UnderwayGood
<1>4. BeforeGood(o, Fut2)
  BY DEF KeysGood, BeforeGood
<1>5. SavedGood(o, Fut2)
  BY DEF KeysGood, SavedGood
<1>6. EnvelopeGood(o, Fut2)
  BY DEF KeysGood, EnvelopeGood
<1> QED BY <1>1, <1>2, <1>3, <1>4, <1>5, <1>6 DEF KeysGood

(* What the reader does leaves the parts of the writers as they are; of    *)
(* the seals, it may spend more.                                           *)
LEMMA ReaderLeavesWriters ==
  ASSUME NEW o, NEW Out, NEW Fut, KeysGood(o, Out, Fut), NEW o2, SameMade(o, o2), SameWriters(o, o2)
  PROVE  /\ UnderwayGood(o2, Out) /\ BeforeGood(o2, Fut) /\ SentGood(o2) /\ SavedGood(o2, Fut)
         /\ EnvelopeGood(o2, Fut)
         /\ SameSecret(o, o2) => RowsGood(o2, Out)
         /\ SameSecret(o, o2) /\ (\A p \in Phones : SpentIn(o, p) => SpentIn(o2, p)) => SealsGood(o2, Out)
<1>1. UnderwayGood(o2, Out) /\ BeforeGood(o2, Fut) /\ SentGood(o2) /\ SavedGood(o2, Fut) /\ EnvelopeGood(o2, Fut)
  BY DEF KeysGood, UnderwayGood, BeforeGood, SentGood, SavedGood, EnvelopeGood, Fills, SameWriters, UnderwayIn, SealedIn
<1>2. ASSUME SameSecret(o, o2) PROVE RowsGood(o2, Out)
  BY <1>2 DEF KeysGood, RowsGood, SameMade, SameSecret
<1>3. ASSUME SameSecret(o, o2), \A p \in Phones : SpentIn(o, p) => SpentIn(o2, p)
      PROVE  SealsGood(o2, Out)
  BY <1>3, WritersAreTwo DEF KeysGood, SealsGood, SameMade, SameSecret, SameWriters
<1> QED BY <1>1, <1>2, <1>3

(* The list of the prekeys' ids plays no part.                             *)
LEMMA SameKeysGood ==
  ASSUME NEW o, NEW Out, NEW Fut, KeysGood(o, Out, Fut), NEW o2,
         SameMade(o, o2), SameSecret(o, o2), SameReader(o, o2), SameWriters(o, o2)
  PROVE  KeysGood(o2, Out, Fut)
<1>1. \A p : SpentIn(o, p) <=> SpentIn(o2, p)
  BY DEF SpentIn, Opens1, SameReader
<1>2. CachedGood(o2)
  BY DEF KeysGood, CachedGood, SameReader, SameWriters
<1>3. OpeningGood(o2)
  BY DEF KeysGood, OpeningGood, OpensGood, KeyFits, SecretFits, SameReader, SameSecret, SameWriters
<1> QED BY <1>1, <1>2, <1>3, ReaderLeavesWriters DEF KeysGood

LEMMA EnvelopeIsFetched ==
  ASSUME NEW o, KeysNumbers(o), NEW Out, NEW Fut, KeysGood(o, Out, Fut), NEW o2,
         SameMade(o, o2), SameSecret(o, o2), SameWriters(o, o2), o2.cached = o.cached,
         NEW d \in Drafts, o.step[d] = "sent", o.opening[d] = "no", o.cached[Writer(d)] = None,
         o2.opening[d] = "fetched", \A e \in Drafts \ {d} : o2.opening[e] = o.opening[e],
         NEW T \in Fut, T[Envelope(Writer(d))].is = "here",
         o2.read[d] = <<T[Envelope(Writer(d))].key, T[Envelope(Writer(d))].seal>>,
         \A e \in Drafts \ {d} : o2.read[e] = o.read[e]
  PROVE  KeysGood(o2, Out, Fut)
<1> DEFINE p == Writer(d)
           key == T[Envelope(p)].key
           saved == o.saved[p]
<1>1. \A q \in Phones : SpentIn(o, q) => SpentIn(o2, q)
  BY DEF SpentIn, Opens1
<1>2. CachedGood(o2)
  BY DEF KeysGood, CachedGood, SameWriters
<1>3. p \in Phones
  BY WritersAreTwo
<1>4. key \in Drafts \ o.skipped /\ Writer(key) = p /\ SealedIn(o, T, p, key)
  BY <1>3 DEF KeysGood, EnvelopeGood, Fills
<1>5. saved \in Drafts /\ Writer(saved) = p /\ saved # None
  BY SavedIsSent DEF KeysGood
<1>6. saved \in o.skipped \/ key = saved
  BY <1>3, <1>5 DEF KeysGood, SavedGood, SealedIn
<1>7. o.step[key] # "new"
  BY <1>4 DEF KeysGood, BeforeGood
<1>8. o.seal[key] # Signed => o.secret = 0 \/ o.secret = o.seal[key]
  <2> SUFFICES ASSUME o.seal[key] # Signed PROVE o.secret = 0 \/ o.secret = o.seal[key]
    OBVIOUS
  <2>1. CASE Opens1(o, p)
    <3>1. PICK f \in Drafts : Writer(f) = p /\ o.opening[f] = "opened"
      BY <2>1 DEF Opens1
    <3>2. KeyFits(o, f, o.read[f][1])
      BY <3>1 DEF KeysGood, OpeningGood, OpensGood
    <3>3. o.read[f][1] = key
      <4>1. CASE saved \in o.skipped
        BY <1>4, <1>5, <3>1, <3>2, <4>1, NoThirdKey DEF KeyFits
      <4>2. CASE saved \notin o.skipped
        BY <1>6, <3>1, <3>2, <4>2 DEF KeyFits
      <4> QED BY <4>1, <4>2
    <3>4. SecretFits(o, f, key)
      BY <3>2, <3>3 DEF KeyFits
    <3> QED BY <3>1, <3>4 DEF SecretFits
  <2>2. CASE ~Opens1(o, p)
    BY <1>4, <2>2 DEF KeysGood, SealsGood, SpentIn
  <2> QED BY <2>1, <2>2
<1>9. SecretFits(o2, d, key)
  BY <1>8 DEF SecretFits, SameSecret, SameWriters
<1>10. o2.read[d][1] = key /\ o2.read[d][2] = o.seal[key]
  BY <1>4 DEF SealedIn
<1>11. OpeningGood(o2)
  <2>1. ASSUME NEW e \in Drafts, o2.opening[e] # "no" PROVE OpensGood(o2, e)
    <3>1. CASE e = d
      <4>1. KeyFits(o2, d, key)
        BY <1>4, <1>6, <1>7, <1>9 DEF KeyFits, SameWriters
      <4>2. o2.step[d] = "sent" /\ o2.read[d][2] = o2.seal[key]
        BY <1>10 DEF SameWriters
      <4> QED BY <1>10, <3>1, <4>1, <4>2 DEF OpensGood
    <3>2. CASE e # d
      <4>1. OpensGood(o, e) /\ o2.read[e] = o.read[e] /\ o2.opening[e] = o.opening[e]
        BY <2>1, <3>2 DEF KeysGood, OpeningGood
      <4> QED BY <4>1 DEF OpensGood, KeyFits, SecretFits, SameSecret, SameWriters
    <3> QED BY <3>1, <3>2
  <2> QED BY <2>1 DEF OpeningGood
<1> QED BY <1>1, <1>2, <1>11, ReaderLeavesWriters DEF KeysGood

(* The secret is taken from the store and deleted: it is of no other       *)
(* prekey that may be given away, and of no other envelope.                *)
LEMMA SecretIsTaken ==
  ASSUME NEW o, KeysNumbers(o), NEW Out, Out # {}, NEW Fut, KeysGood(o, Out, Fut), NEW o2,
         SameMade(o, o2), SameWriters(o, o2), o2.cached = o.cached, o2.read = o.read,
         NEW d \in Drafts, o.opening[d] = "fetched", NEW key, key = o.read[d][1],
         \A e \in Drafts \ {d} : o2.opening[e] = o.opening[e],
         IF o.seal[key] = Signed THEN o2.opening[d] = "opened" /\ o2.secret = o.secret
         ELSE o2.opening[d] = (IF o.secret = o.seal[key] THEN "opened" ELSE "no") /\ o2.secret = 0
  PROVE  KeysGood(o2, Out, Fut)
<1>1. CachedGood(o2)
  BY DEF KeysGood, CachedGood, SameWriters
<1>2. KeyFits(o, d, key)
  BY DEF KeysGood, OpeningGood, OpensGood
<1>3. key \in Drafts /\ Writer(key) = Writer(d) /\ SecretFits(o, d, key)
  BY <1>2 DEF KeyFits
<1>4. o2.secret = o.secret \/ (o2.secret = 0 /\ o.secret = o.seal[key] /\ o.seal[key] # Signed)
  BY <1>3 DEF SecretFits
<1>5. ASSUME o.seal[key] # Signed, o.secret = o.seal[key]
      PROVE  /\ \A T \in Out : T[Prekey(o.secret)].consumed
             /\ \A e \in Drafts : o.seal[e] = o.secret => e = key
             /\ o.secret \in Batches
  BY <1>3, <1>5 DEF KeysGood, SealsGood, KeysNumbers, Batches, Signed
<1>6. \A q : SpentIn(o, q) => SpentIn(o2, q)
  <2>1. ASSUME NEW q, Opens1(o, q) PROVE Opens1(o2, q)
    <3>1. PICK f \in Drafts : Writer(f) = q /\ o.opening[f] = "opened"
      BY <2>1 DEF Opens1
    <3>2. o2.opening[f] = "opened"
      BY <3>1
    <3> QED BY <3>1, <3>2 DEF Opens1
  <2> QED BY <2>1 DEF SpentIn
<1>7. RowsGood(o2, Out)
  <2>1. CASE o2.secret = o.secret
    BY <2>1, ReaderLeavesWriters DEF SameSecret
  <2>2. CASE o2.secret # o.secret
    <3>1. o.secret = o.seal[key] /\ o.seal[key] # Signed
      BY <1>4, <2>2
    <3>2. \A n \in Batches : \A T \in Out : ~T[Prekey(n)].consumed => o.secret # n
      BY <1>5, <3>1
    <3> QED BY <3>2 DEF KeysGood, RowsGood, SameMade
  <2> QED BY <2>1, <2>2
<1>8. SealsGood(o2, Out)
  <2>1. CASE o2.secret = o.secret
    BY <1>6, <2>1, ReaderLeavesWriters DEF SameSecret
  <2>2. CASE o2.secret # o.secret
    <3>1. o.secret = o.seal[key] /\ o.seal[key] # Signed
      BY <1>4, <2>2
    <3>2. SpentIn(o2, Writer(d))
      BY <3>1 DEF SpentIn, Opens1
    <3>3. \A e \in Drafts : o.seal[e] # Signed => SpentIn(o2, Writer(e))
      <4>1. ASSUME NEW e \in Drafts, o.seal[e] # Signed PROVE SpentIn(o2, Writer(e))
        <5>1. CASE o.secret = o.seal[e]
          BY <1>3, <1>5, <3>1, <3>2, <5>1
        <5>2. CASE o.secret # o.seal[e]
          BY <1>6, <4>1, <5>2 DEF KeysGood, SealsGood
        <5> QED BY <5>1, <5>2
      <4> QED BY <4>1
    <3> QED BY <3>3 DEF KeysGood, SealsGood, SameMade, SameWriters
  <2> QED BY <2>1, <2>2
<1>9. OpeningGood(o2)
  <2>1. ASSUME NEW e \in Drafts, o2.opening[e] # "no" PROVE OpensGood(o2, e)
    <3>1. o.opening[e] # "no"
      BY <2>1
    <3>2. OpensGood(o, e)
      BY <3>1 DEF KeysGood, OpeningGood
    <3>3. SecretFits(o2, e, o.read[e][1])
      <4>1. SecretFits(o, e, o.read[e][1])
        BY <3>2 DEF OpensGood, KeyFits
      <4>2. CASE o.seal[key] # Signed
        BY <4>2 DEF SecretFits
      <4>3. CASE o.seal[key] = Signed /\ e = d
        BY <4>3 DEF SecretFits, SameWriters
      <4>4. CASE o.seal[key] = Signed /\ e # d
        BY <4>1, <4>4 DEF SecretFits, SameWriters
      <4> QED BY <4>2, <4>3, <4>4
    <3> QED BY <3>2, <3>3 DEF OpensGood, KeyFits, SameWriters
  <2> QED BY <2>1 DEF OpeningGood
<1> QED BY <1>1, <1>7, <1>8, <1>9, ReaderLeavesWriters DEF KeysGood

LEMMA KeyIsCached ==
  ASSUME NEW o, NEW Out, NEW Fut, KeysGood(o, Out, Fut), NEW o2,
         SameMade(o, o2), SameSecret(o, o2), SameWriters(o, o2), o2.read = o.read,
         NEW d \in Drafts, o.opening[d] = "opened", o2.opening[d] = "no",
         \A e \in Drafts \ {d} : o2.opening[e] = o.opening[e],
         o2.cached[Writer(d)] = o.read[d][1],
         \A q \in Phones \ {Writer(d)} : o2.cached[q] = o.cached[q]
  PROVE  KeysGood(o2, Out, Fut)
<1> DEFINE p == Writer(d)
           key == o.read[d][1]
<1>1. o.step[d] = "sent" /\ KeyFits(o, d, key)
  BY DEF KeysGood, OpeningGood, OpensGood
<1>2. o2.cached[p] = key /\ key # None /\ o.saved[p] # None
  BY <1>1, SavedIsSent, KeysAssumption DEF KeyFits, KeysGood
<1>3. CachedGood(o2)
  <2>1. o.saved[p] \in o.skipped \/ key = o.saved[p]
    BY <1>1 DEF KeyFits
  <2> QED BY <1>2, <2>1 DEF KeysGood, CachedGood, SameWriters
<1>4. ASSUME NEW q \in Phones, SpentIn(o, q) PROVE SpentIn(o2, q)
  <2>1. CASE q = p
    BY <1>2, <2>1 DEF SpentIn
  <2>2. CASE q # p
    BY <1>4, <2>2 DEF SpentIn, Opens1
  <2> QED BY <2>1, <2>2
<1>5. OpeningGood(o2)
  <2>1. ASSUME NEW e \in Drafts, o2.opening[e] # "no" PROVE OpensGood(o2, e)
    <3>1. o2.opening[e] = o.opening[e] /\ OpensGood(o, e)
      BY <2>1 DEF KeysGood, OpeningGood
    <3> QED BY <3>1 DEF OpensGood, KeyFits, SecretFits, SameSecret, SameWriters
  <2> QED BY <2>1 DEF OpeningGood
<1> QED BY <1>3, <1>4, <1>5, ReaderLeavesWriters DEF KeysGood

LEMMA ReaderIsClosed ==
  ASSUME NEW o, NEW Out, NEW Fut, KeysGood(o, Out, Fut), NEW o2,
         SameMade(o, o2), SameSecret(o, o2), SameWriters(o, o2), o2.cached = o.cached,
         \A d \in Drafts : o.opening[d] # "opened" /\ o2.opening[d] = "no"
  PROVE  KeysGood(o2, Out, Fut)
<1>1. \A q : SpentIn(o, q) => SpentIn(o2, q)
  BY DEF SpentIn, Opens1
<1>2. CachedGood(o2)
  BY DEF KeysGood, CachedGood, SameWriters
<1>3. OpeningGood(o2)
  BY DEF OpeningGood
<1> QED BY <1>1, <1>2, <1>3, ReaderLeavesWriters DEF KeysGood

(* A writer goes on: the first message is sent under the key it made.      *)
LEMMA KeyIsStored ==
  ASSUME NEW o, NEW Out, NEW Fut, KeysGood(o, Out, Fut), NEW o2,
         SameMade(o, o2), SameSecret(o, o2), SameReader(o, o2), o2.seal = o.seal, o2.skipped = o.skipped,
         NEW d \in Drafts, o.step[d] = "uploaded",
         o2.step[d] = "sent", \A e \in Drafts \ {d} : o2.step[e] = o.step[e],
         o2.used[d] = d, \A e \in Drafts \ {d} : o2.used[e] = o.used[e],
         o2.saved[Writer(d)] = d, \A q \in Phones \ {Writer(d)} : o2.saved[q] = o.saved[q],
         d \in o.skipped \/ \A T \in Fut : SealedIn(o, T, Writer(d), d)
  PROVE  KeysGood(o2, Out, Fut)
<1> DEFINE p == Writer(d)
<1>1. p \in Phones /\ d # None
  BY WritersAreTwo, KeysAssumption
<1>2. UnderwayIn(o, d) /\ ~UnderwayIn(o2, d)
  BY DEF UnderwayIn
<1>3. \A e \in Drafts : UnderwayIn(o2, e) => UnderwayIn(o, e) /\ e # d
  BY <1>2 DEF UnderwayIn
<1>4. o.saved[p] = None /\ \A e \in Drafts : UnderwayIn(o, e) /\ Writer(e) = p => e = d
  BY <1>2 DEF KeysGood, UnderwayGood
<1>5. RowsGood(o2, Out)
  BY DEF KeysGood, RowsGood, SameMade, SameSecret
<1>6. SealsGood(o2, Out)
  <2>1. \A e \in Drafts : o.step[e] # "new" => o2.step[e] # "new"
    OBVIOUS
  <2>2. \A q : SpentIn(o, q) <=> SpentIn(o2, q)
    BY DEF SpentIn, Opens1, SameReader
  <2> QED BY <2>1, <2>2 DEF KeysGood, SealsGood, SameMade, SameSecret
<1>7. UnderwayGood(o2, Out)
  <2>1. ASSUME NEW e \in Drafts, UnderwayIn(o2, e)
        PROVE  /\ o2.saved[Writer(e)] = None
               /\ \A f \in Drafts : UnderwayIn(o2, f) /\ Writer(f) = Writer(e) => f = e
               /\ o2.step[e] = "uploaded" => e \in o2.skipped \/ \A T \in Out : SealedIn(o2, T, Writer(e), e)
    <3>1. UnderwayIn(o, e) /\ e # d /\ Writer(e) # p /\ Writer(e) \in Phones
      BY <1>3, <1>4, <2>1, WritersAreTwo
    <3>2. o2.saved[Writer(e)] = o.saved[Writer(e)] /\ o2.step[e] = o.step[e]
      BY <3>1
    <3>3. /\ o.saved[Writer(e)] = None
          /\ \A f \in Drafts : UnderwayIn(o, f) /\ Writer(f) = Writer(e) => f = e
          /\ o.step[e] = "uploaded" => e \in o.skipped \/ \A T \in Out : SealedIn(o, T, Writer(e), e)
      BY <3>1 DEF KeysGood, UnderwayGood
    <3> QED BY <1>3, <3>2, <3>3 DEF SealedIn
  <2> QED BY <2>1 DEF UnderwayGood
<1>8. BeforeGood(o2, Fut) /\ EnvelopeGood(o2, Fut)
  BY DEF KeysGood, BeforeGood, EnvelopeGood, Fills, SealedIn
<1>9. \A e \in Drafts : o.step[e] = "sent" => Writer(e) # p /\ e # d
  BY <1>4 DEF KeysGood, SentGood
<1>10. SentGood(o2)
  <2>1. ASSUME NEW e \in Drafts, o2.step[e] = "sent"
        PROVE  o2.saved[Writer(e)] # None /\ o2.used[e] = o2.saved[Writer(e)]
    <3>1. CASE e = d
      BY <1>1, <3>1
    <3>2. CASE e # d
      <4>1. o.step[e] = "sent" /\ Writer(e) # p /\ Writer(e) \in Phones
        BY <1>9, <2>1, <3>2, WritersAreTwo
      <4> QED BY <3>2, <4>1 DEF KeysGood, SentGood
    <3> QED BY <3>1, <3>2
  <2> QED BY <2>1 DEF SentGood
<1>11. SavedGood(o2, Fut)
  <2>1. ASSUME NEW q \in Phones, o2.saved[q] # None
        PROVE  /\ o2.saved[q] \in Drafts /\ Writer(o2.saved[q]) = q
               /\ o2.step[o2.saved[q]] = "sent"
               /\ o2.saved[q] \in o2.skipped \/ \A T \in Fut : SealedIn(o2, T, q, o2.saved[q])
    <3>1. CASE q = p
      BY <3>1 DEF SealedIn
    <3>2. CASE q # p
      <4>1. o2.saved[q] = o.saved[q]
        BY <3>2
      <4>2. /\ o.saved[q] \in Drafts /\ Writer(o.saved[q]) = q /\ o.step[o.saved[q]] = "sent"
            /\ o.saved[q] \in o.skipped \/ \A T \in Fut : SealedIn(o, T, q, o.saved[q])
        BY <2>1, <4>1 DEF KeysGood, SavedGood
      <4> QED BY <4>1, <4>2 DEF SealedIn
    <3> QED BY <3>1, <3>2
  <2> QED BY <2>1 DEF SavedGood
<1>12. CachedGood(o2)
  <2>1. ASSUME NEW q \in Phones, o2.cached[q] # None
        PROVE  o2.saved[q] # None /\ (o2.saved[q] \in o2.skipped \/ o2.cached[q] = o2.saved[q])
    <3>1. o.saved[q] # None /\ (o.saved[q] \in o.skipped \/ o.cached[q] = o.saved[q])
      BY <2>1 DEF KeysGood, CachedGood, SameReader
    <3>2. q # p
      BY <1>4, <3>1
    <3> QED BY <3>1, <3>2 DEF SameReader
  <2> QED BY <2>1 DEF CachedGood
<1>13. OpeningGood(o2)
  <2>1. ASSUME NEW e \in Drafts, o2.opening[e] # "no" PROVE OpensGood(o2, e)
    <3>1. OpensGood(o, e)
      BY <2>1 DEF KeysGood, OpeningGood, SameReader
    <3>2. e # d /\ o2.saved[Writer(e)] = o.saved[Writer(e)]
      BY <1>9, <3>1, WritersAreTwo DEF OpensGood
    <3> QED BY <3>1, <3>2 DEF OpensGood, KeyFits, SecretFits, SameReader, SameSecret
  <2> QED BY <2>1 DEF OpeningGood
<1> QED BY <1>5, <1>6, <1>7, <1>8, <1>10, <1>11, <1>12, <1>13 DEF KeysGood

(* A message is sent under the key that is stored, or not at all.          *)
LEMMA DraftIsDone ==
  ASSUME NEW o, NEW Out, NEW Fut, KeysGood(o, Out, Fut), NEW o2,
         SameMade(o, o2), SameSecret(o, o2), SameReader(o, o2),
         o2.seal = o.seal, o2.saved = o.saved, o2.skipped = o.skipped,
         NEW d \in Drafts, \A e \in Drafts \ {d} : o2.step[e] = o.step[e],
         \A e \in Drafts \ {d} : o2.used[e] = o.used[e],
         \/ /\ o.step[d] = "new" /\ o.saved[Writer(d)] # None
            /\ o2.step[d] = "sent" /\ o2.used[d] = o.saved[Writer(d)]
         \/ o.step[d] \in {"sealed", "uploaded"} /\ o2.step[d] = "failed"
  PROVE  KeysGood(o2, Out, Fut)
<1>1. \A e \in Drafts : UnderwayIn(o2, e) => UnderwayIn(o, e) /\ o2.step[e] = o.step[e]
  BY DEF UnderwayIn
<1>2. RowsGood(o2, Out)
  BY DEF KeysGood, RowsGood, SameMade, SameSecret
<1>3. SealsGood(o2, Out)
  <2>1. \A e \in Drafts : o.step[e] # "new" => o2.step[e] # "new"
    OBVIOUS
  <2>2. \A q : SpentIn(o, q) <=> SpentIn(o2, q)
    BY DEF SpentIn, Opens1, SameReader
  <2> QED BY <2>1, <2>2 DEF KeysGood, SealsGood, SameMade, SameSecret
<1>4. UnderwayGood(o2, Out)
  BY <1>1 DEF KeysGood, UnderwayGood, SealedIn
<1>5. BeforeGood(o2, Fut) /\ EnvelopeGood(o2, Fut)
  BY DEF KeysGood, BeforeGood, EnvelopeGood, Fills, SealedIn
<1>6. SentGood(o2)
  BY DEF KeysGood, SentGood
<1>7. \A e \in Drafts : (o.step[e] = "sent" => o2.step[e] = "sent") /\ (o.step[e] # "new" => o2.step[e] # "new")
  OBVIOUS
<1>8. SavedGood(o2, Fut)
  BY <1>7 DEF KeysGood, SavedGood, SealedIn
<1>9. CachedGood(o2)
  BY DEF KeysGood, CachedGood, SameReader
<1>10. OpeningGood(o2)
  BY <1>7 DEF KeysGood, OpeningGood, OpensGood, KeyFits, SecretFits, SameReader, SameSecret
<1> QED BY <1>2, <1>3, <1>4, <1>5, <1>6, <1>8, <1>9, <1>10 DEF KeysGood

(* Every one of the tables has the envelopes of one there was before.      *)
SameEnvelopes(Tables2, Tables) ==
  \A U \in Tables2 : \E T \in Tables : \A p \in Phones : U[Envelope(p)] = T[Envelope(p)]

(* A batch of prekeys is made when there is no secret to be lost.          *)
LEMMA BatchIsMade ==
  ASSUME NEW o, KeysNumbers(o), NEW T0, NEW Fut, T0 \in Fut, KeysGood(o, {T0}, Fut), NEW o2,
         NEW n \in Batches, n = o.made + 1, o.secret = 0, \A d \in Drafts : o.opening[d] = "no",
         o2.made = n, o2.secret = n, SameReader(o, o2), SameWriters(o, o2),
         NEW U, U[Prekey(n)].batch = n, NEW Fut2, \A T \in Fut2 : T \in Fut \/ T = U,
         \A m \in Batches \ {n} : U[Prekey(m)] = T0[Prekey(m)],
         \A p \in Phones : U[Envelope(p)] = T0[Envelope(p)]
  PROVE  KeysGood(o2, {U}, Fut2)
<1>1. RowsGood(o2, {U})
  <2>1. ASSUME NEW m \in Batches, U[Prekey(m)].is # "none"
        PROVE  m <= o2.made /\ U[Prekey(m)].batch = m /\ (~U[Prekey(m)].consumed => o2.secret = m)
    <3>1. CASE m = n
      BY <3>1 DEF Batches
    <3>2. CASE m # n
      <4>1. m <= o.made /\ T0[Prekey(m)].batch = m /\ (~T0[Prekey(m)].consumed => o.secret = m)
        BY <2>1, <3>2 DEF KeysGood, RowsGood
      <4>2. m # 0 /\ m <= n
        BY <4>1 DEF Batches, KeysNumbers
      <4> QED BY <3>2, <4>1, <4>2
    <3> QED BY <3>1, <3>2
  <2> QED BY <2>1 DEF RowsGood
<1>2. SealsGood(o2, {U})
  <2>1. ASSUME NEW d \in Drafts, o2.seal[d] # Signed
        PROVE  /\ o2.step[d] # "new" /\ o2.seal[d] <= o2.made /\ U[Prekey(o2.seal[d])].consumed
               /\ \A e \in Drafts : o2.seal[e] = o2.seal[d] => e = d
               /\ SpentIn(o2, Writer(d))
    <3>1. o2.seal = o.seal /\ o2.step = o.step /\ o.seal[d] \in 0..2 /\ o.seal[d] # 0
      BY <2>1 DEF SameWriters, KeysNumbers, Signed
    <3>2. /\ o.step[d] # "new" /\ o.seal[d] <= o.made /\ T0[Prekey(o.seal[d])].consumed
          /\ \A e \in Drafts : o.seal[e] = o.seal[d] => e = d
          /\ SpentIn(o, Writer(d))
      BY <3>1 DEF KeysGood, SealsGood, Signed
    <3>3. o.seal[d] \in Batches \ {n} /\ o.seal[d] <= n
      BY <3>1, <3>2 DEF Batches, KeysNumbers
    <3>4. SpentIn(o2, Writer(d))
      BY <3>2 DEF SpentIn, Opens1, SameReader
    <3> QED BY <3>1, <3>2, <3>3, <3>4
  <2> QED BY <2>1 DEF SealsGood
<1>3. UnderwayGood(o2, {U})
  BY WritersAreTwo DEF KeysGood, UnderwayGood, SameWriters, UnderwayIn, SealedIn
<1>4. BeforeGood(o2, Fut2)
  BY WritersAreTwo DEF KeysGood, BeforeGood, SameWriters
<1>5. SentGood(o2) /\ CachedGood(o2)
  BY DEF KeysGood, SentGood, CachedGood, SameWriters, SameReader
<1>6. SavedGood(o2, Fut2)
  BY DEF KeysGood, SavedGood, SameWriters, SealedIn
<1>7. EnvelopeGood(o2, Fut2)
  BY DEF KeysGood, EnvelopeGood, Fills, SameWriters, SealedIn
<1>8. OpeningGood(o2)
  BY DEF OpeningGood, SameReader
<1> QED BY <1>1, <1>2, <1>3, <1>4, <1>5, <1>6, <1>7, <1>8 DEF KeysGood

(* A draft is taken up, sealed or with the reading phone left out: all but *)
(* the prekeys and what was sealed for them.                               *)
LEMMA DraftIsTakenUp ==
  ASSUME NEW o, NEW Out, NEW Fut, KeysGood(o, Out, Fut), NEW o2,
         SameMade(o, o2), SameSecret(o, o2), SameReader(o, o2), o2.used = o.used, o2.saved = o.saved,
         NEW d \in Drafts, o.step[d] = "new", o.saved[Writer(d)] = None,
         \A e \in Drafts : Writer(e) = Writer(d) => ~UnderwayIn(o, e),
         \/ o2.step[d] = "sealed" /\ o2.skipped = o.skipped
         \/ o2.step[d] = "uploaded" /\ o2.skipped = o.skipped \cup {d},
         \A e \in Drafts \ {d} : o2.step[e] = o.step[e] /\ o2.seal[e] = o.seal[e],
         NEW Out2, SameEnvelopes(Out2, Out), NEW Fut2, SameEnvelopes(Fut2, Fut)
  PROVE  /\ UnderwayGood(o2, Out2) /\ BeforeGood(o2, Fut2) /\ SentGood(o2) /\ SavedGood(o2, Fut2)
         /\ EnvelopeGood(o2, Fut2) /\ CachedGood(o2) /\ OpeningGood(o2)
<1>1. \A e \in Drafts : UnderwayIn(o2, e) => e = d \/ (UnderwayIn(o, e) /\ e # d /\ Writer(e) # Writer(d))
  BY DEF UnderwayIn
<1>2. UnderwayGood(o2, Out2)
  <2>1. ASSUME NEW e \in Drafts, UnderwayIn(o2, e)
        PROVE  /\ o2.saved[Writer(e)] = None
               /\ \A f \in Drafts : UnderwayIn(o2, f) /\ Writer(f) = Writer(e) => f = e
               /\ o2.step[e] = "uploaded" => e \in o2.skipped \/ \A T \in Out2 : SealedIn(o2, T, Writer(e), e)
    <3>1. CASE e = d
      BY <1>1, <3>1
    <3>2. CASE e # d
      <4>1. UnderwayIn(o, e) /\ Writer(e) # Writer(d)
        BY <1>1, <2>1, <3>2
      <4>2. /\ o.saved[Writer(e)] = None
            /\ \A f \in Drafts : UnderwayIn(o, f) /\ Writer(f) = Writer(e) => f = e
            /\ o.step[e] = "uploaded" => e \in o.skipped \/ \A T \in Out : SealedIn(o, T, Writer(e), e)
        BY <4>1 DEF KeysGood, UnderwayGood
      <4>3. o2.step[e] = "uploaded" => e \in o2.skipped \/ \A T \in Out2 : SealedIn(o2, T, Writer(e), e)
        BY <3>2, <4>2, WritersAreTwo DEF SealedIn, SameEnvelopes
      <4> QED BY <1>1, <4>1, <4>2, <4>3
    <3> QED BY <3>1, <3>2
  <2> QED BY <2>1 DEF UnderwayGood
<1>3. BeforeGood(o2, Fut2)
  <2>1. ASSUME NEW e \in Drafts, o2.step[e] \in {"new", "sealed"}
        PROVE  e \notin o2.skipped /\ \A U \in Fut2 : U[Envelope(Writer(e))].key # e
    <3>1. o.step[e] \in {"new", "sealed"}
      BY <2>1
    <3>2. e \notin o.skipped /\ \A T \in Fut : T[Envelope(Writer(e))].key # e
      BY <3>1 DEF KeysGood, BeforeGood
    <3>3. e \notin o2.skipped
      BY <2>1, <3>2
    <3> QED BY <3>2, <3>3, WritersAreTwo DEF SameEnvelopes
  <2> QED BY <2>1 DEF BeforeGood
<1>4. SentGood(o2)
  BY DEF KeysGood, SentGood
<1>5. \A p \in Phones : o.saved[p] # None => o.saved[p] \in Drafts \ {d}
  BY DEF KeysGood, SavedGood
<1>6. SavedGood(o2, Fut2)
  <2>1. ASSUME NEW p \in Phones, o2.saved[p] # None
        PROVE  /\ o2.saved[p] \in Drafts /\ Writer(o2.saved[p]) = p /\ o2.step[o2.saved[p]] = "sent"
               /\ o2.saved[p] \in o2.skipped \/ \A T \in Fut2 : SealedIn(o2, T, p, o2.saved[p])
    <3>1. /\ o.saved[p] \in Drafts \ {d} /\ Writer(o.saved[p]) = p /\ o.step[o.saved[p]] = "sent"
          /\ o.saved[p] \in o.skipped \/ \A T \in Fut : SealedIn(o, T, p, o.saved[p])
      BY <1>5, <2>1 DEF KeysGood, SavedGood
    <3> QED BY <3>1 DEF SealedIn, SameEnvelopes
  <2> QED BY <2>1 DEF SavedGood
<1>7. EnvelopeGood(o2, Fut2)
  <2>1. ASSUME NEW p \in Phones, NEW U \in Fut2, U[Envelope(p)].is = "here"
        PROVE  Fills(o2, U, p, U[Envelope(p)].key)
    <3>1. PICK T \in Fut : U[Envelope(p)] = T[Envelope(p)]
      BY DEF SameEnvelopes
    <3>2. Fills(o, T, p, T[Envelope(p)].key)
      BY <2>1, <3>1 DEF KeysGood, EnvelopeGood
    <3>3. T[Envelope(Writer(d))].key # d
      BY DEF KeysGood, BeforeGood
    <3>4. T[Envelope(p)].key # d
      BY <3>2, <3>3 DEF Fills
    <3> QED BY <3>1, <3>2, <3>4 DEF Fills, SealedIn
  <2> QED BY <2>1 DEF EnvelopeGood
<1>8. CachedGood(o2)
  BY DEF KeysGood, CachedGood, SameReader
<1>9. OpeningGood(o2)
  <2>1. ASSUME NEW e \in Drafts, o2.opening[e] # "no" PROVE OpensGood(o2, e)
    <3>1. OpensGood(o, e)
      BY <2>1 DEF KeysGood, OpeningGood, SameReader
    <3>2. PICK key : key = o.read[e][1]
      OBVIOUS
    <3>3. e # d /\ key # d /\ key \in Drafts /\ d \notin o.skipped
      BY <3>1, <3>2 DEF OpensGood, KeyFits, KeysGood, BeforeGood
    <3>4. KeyFits(o2, e, key)
      BY <3>1, <3>2, <3>3 DEF OpensGood, KeyFits, SecretFits, SameReader, SameSecret
    <3>5. o2.step[e] = "sent" /\ o2.read[e] = o.read[e] /\ o2.read[e][2] = o2.seal[key]
      BY <3>1, <3>2, <3>3 DEF OpensGood, SameReader
    <3> QED BY <3>2, <3>4, <3>5 DEF OpensGood
  <2> QED BY <2>1 DEF OpeningGood
<1> QED BY <1>2, <1>3, <1>4, <1>6, <1>7, <1>8, <1>9

(* What a writer does next, of the worlds outside before and after; what   *)
(* is written to a prekey, and to an envelope.                             *)
SealsDraft(o, o2, d, seal) ==
  /\ SameMade(o, o2) /\ SameSecret(o, o2) /\ SameReader(o, o2) /\ o2.used = o.used /\ o2.saved = o.saved
  /\ o.step[d] = "new" /\ o.saved[Writer(d)] = None
  /\ \A e \in Drafts : Writer(e) = Writer(d) => ~UnderwayIn(o, e)
  /\ o2.step[d] = "sealed" /\ o2.seal[d] = seal /\ o2.skipped = o.skipped
  /\ \A e \in Drafts \ {d} : o2.step[e] = o.step[e] /\ o2.seal[e] = o.seal[e]
LeavesOut(o, o2, d) ==
  /\ SameMade(o, o2) /\ SameSecret(o, o2) /\ SameReader(o, o2)
  /\ o2.seal = o.seal /\ o2.used = o.used /\ o2.saved = o.saved
  /\ o.step[d] = "new" /\ o.saved[Writer(d)] = None
  /\ \A e \in Drafts : Writer(e) = Writer(d) => ~UnderwayIn(o, e)
  /\ o2.step[d] = "uploaded" /\ o2.skipped = o.skipped \cup {d}
  /\ \A e \in Drafts \ {d} : o2.step[e] = o.step[e]
UploadsDraft(o, o2, d) ==
  /\ SameMade(o, o2) /\ SameSecret(o, o2) /\ SameReader(o, o2)
  /\ o2.seal = o.seal /\ o2.used = o.used /\ o2.saved = o.saved /\ o2.skipped = o.skipped
  /\ o.step[d] = "sealed" /\ o2.step[d] = "uploaded"
  /\ \A e \in Drafts \ {d} : o2.step[e] = o.step[e]
ConsumesPrekey(T0, U, n) ==
  /\ T0[Prekey(n)].is # "none" /\ ~T0[Prekey(n)].consumed
  /\ U[Prekey(n)].batch = T0[Prekey(n)].batch /\ U[Prekey(n)].consumed
  /\ \A m \in Batches \ {n} : U[Prekey(m)] = T0[Prekey(m)]
  /\ \A p \in Phones : U[Envelope(p)] = T0[Envelope(p)]
FillsEnvelope(T0, U, d, seal) ==
  /\ U[Envelope(Writer(d))].key = d /\ U[Envelope(Writer(d))].seal = seal
  /\ \A m \in Batches : U[Prekey(m)] = T0[Prekey(m)]
  /\ \A p \in Phones \ {Writer(d)} : U[Envelope(p)] = T0[Envelope(p)]
OneMore(Fut, Fut2, U) == \A T \in Fut2 : T \in Fut \/ T = U

LEMMA NoPrekeyIsLeft ==
  ASSUME NEW o, NEW Out, NEW Fut, KeysGood(o, Out, Fut), NEW o2,
         NEW d \in Drafts, SealsDraft(o, o2, d, Signed)
  PROVE  KeysGood(o2, Out, Fut)
<1> USE DEF SealsDraft
<1>1. SameEnvelopes(Out, Out) /\ SameEnvelopes(Fut, Fut)
  BY DEF SameEnvelopes
<1>2. RowsGood(o2, Out)
  BY DEF KeysGood, RowsGood, SameMade, SameSecret
<1>3. SealsGood(o2, Out)
  <2>1. ASSUME NEW e \in Drafts, o2.seal[e] # Signed PROVE e # d /\ o.seal[e] # Signed
    BY <2>1
  <2>2. \A q : SpentIn(o, q) <=> SpentIn(o2, q)
    BY DEF SpentIn, Opens1, SameReader
  <2> QED BY <2>1, <2>2 DEF KeysGood, SealsGood, SameMade, SameSecret
<1> QED BY <1>1, <1>2, <1>3, DraftIsTakenUp DEF KeysGood

(* The reading phone is left out; a prekey may be used up for it.          *)
NoFresher(T0, U) ==
  \A m \in Batches :
    /\ U[Prekey(m)].is # "none" =>
         T0[Prekey(m)].is # "none" /\ U[Prekey(m)].batch = T0[Prekey(m)].batch
    /\ T0[Prekey(m)].consumed => U[Prekey(m)].consumed
LEMMA DeviceIsSkipped ==
  ASSUME NEW o, KeysNumbers(o), NEW Out, NEW Fut, KeysGood(o, Out, Fut), NEW o2,
         NEW d \in Drafts, LeavesOut(o, o2, d),
         NEW Out2, SameEnvelopes(Out2, Out), NEW Fut2, SameEnvelopes(Fut2, Fut),
         \A U \in Out2 : \E T \in Out : NoFresher(T, U)
  PROVE  KeysGood(o2, Out2, Fut2)
<1> USE DEF LeavesOut
<1>1. RowsGood(o2, Out2)
  <2>1. ASSUME NEW n \in Batches, NEW U \in Out2, U[Prekey(n)].is # "none"
        PROVE  n <= o2.made /\ U[Prekey(n)].batch = n /\ (~U[Prekey(n)].consumed => o2.secret = n)
    <3>1. PICK T \in Out : NoFresher(T, U)
      OBVIOUS
    <3> QED BY <2>1, <3>1 DEF NoFresher, KeysGood, RowsGood, SameMade, SameSecret
  <2> QED BY <2>1 DEF RowsGood
<1>2. SealsGood(o2, Out2)
  <2>1. ASSUME NEW e \in Drafts, o2.seal[e] # Signed
        PROVE  /\ o2.step[e] # "new" /\ o2.seal[e] <= o2.made
               /\ \A f \in Drafts : o2.seal[f] = o2.seal[e] => f = e
               /\ o2.secret = o2.seal[e] \/ SpentIn(o2, Writer(e))
    BY <2>1 DEF KeysGood, SealsGood, SpentIn, Opens1, SameReader, SameMade, SameSecret
  <2>2. ASSUME NEW e \in Drafts, o2.seal[e] # Signed, NEW U \in Out2
        PROVE  U[Prekey(o2.seal[e])].consumed
    <3>1. PICK T \in Out : NoFresher(T, U)
      OBVIOUS
    <3>2. T[Prekey(o.seal[e])].consumed
      BY <2>2 DEF KeysGood, SealsGood
    <3>3. o.seal[e] \in Batches
      BY <2>2 DEF KeysNumbers, Batches, Signed
    <3> QED BY <3>1, <3>2, <3>3 DEF NoFresher
  <2> QED BY <2>1, <2>2 DEF SealsGood
<1> QED BY <1>1, <1>2, DraftIsTakenUp DEF KeysGood

LEMMA PrekeyIsGiven ==
  ASSUME NEW o, KeysNumbers(o), NEW T0, NEW Fut, T0 \in Fut, KeysGood(o, {T0}, Fut), NEW o2,
         NEW n \in Batches, NEW d \in Drafts, SealsDraft(o, o2, d, T0[Prekey(n)].batch),
         NEW U, ConsumesPrekey(T0, U, n), NEW Fut2, OneMore(Fut, Fut2, U)
  PROVE  KeysGood(o2, {U}, Fut2)
<1> USE DEF SealsDraft, ConsumesPrekey, OneMore
<1>1. SameEnvelopes({U}, {T0}) /\ SameEnvelopes(Fut2, Fut)
  BY DEF SameEnvelopes
<1>2. n <= o.made /\ T0[Prekey(n)].batch = n /\ o.secret = n /\ n # Signed
  BY DEF KeysGood, RowsGood, Batches, Signed
<1>3. RowsGood(o2, {U})
  BY <1>2 DEF KeysGood, RowsGood, SameMade, SameSecret
<1>4. ASSUME NEW e \in Drafts, e # d, o.seal[e] # Signed
      PROVE  /\ o.step[e] # "new" /\ o.seal[e] <= o.made /\ U[Prekey(o.seal[e])].consumed /\ o.seal[e] # n
             /\ \A f \in Drafts : o.seal[f] = o.seal[e] => f = e
             /\ o.secret = o.seal[e] \/ SpentIn(o2, Writer(e))
  <2>1. /\ o.step[e] # "new" /\ o.seal[e] <= o.made /\ T0[Prekey(o.seal[e])].consumed
        /\ \A f \in Drafts : o.seal[f] = o.seal[e] => f = e
        /\ o.secret = o.seal[e] \/ SpentIn(o, Writer(e))
    BY <1>4 DEF KeysGood, SealsGood
  <2>2. o.seal[e] \in Batches \ {n}
    BY <1>4, <2>1 DEF Batches, KeysNumbers, Signed
  <2>3. SpentIn(o, Writer(e)) => SpentIn(o2, Writer(e))
    BY DEF SpentIn, Opens1, SameReader
  <2> QED BY <2>1, <2>2, <2>3
<1>5. SealsGood(o2, {U})
  <2>1. ASSUME NEW e \in Drafts, o2.seal[e] # Signed
        PROVE  /\ o2.step[e] # "new" /\ o2.seal[e] <= o2.made /\ U[Prekey(o2.seal[e])].consumed
               /\ \A f \in Drafts : o2.seal[f] = o2.seal[e] => f = e
               /\ o2.secret = o2.seal[e] \/ SpentIn(o2, Writer(e))
    <3>1. CASE e = d
      <4>1. o2.seal[e] = n /\ o2.step[e] # "new" /\ n <= o2.made /\ U[Prekey(n)].consumed /\ o2.secret = n
        BY <1>2, <3>1 DEF SameMade, SameSecret
      <4>2. \A f \in Drafts \ {d} : o2.seal[f] # n
        BY <1>2, <1>4
      <4> QED BY <3>1, <4>1, <4>2
    <3>2. CASE e # d
      <4>1. o2.seal[e] = o.seal[e] /\ o2.step[e] = o.step[e]
        BY <3>2
      <4>2. o2.seal[d] = n
        BY <1>2
      <4> QED BY <1>4, <2>1, <3>2, <4>1, <4>2 DEF SameMade, SameSecret
    <3> QED BY <3>1, <3>2
  <2> QED BY <2>1 DEF SealsGood
<1> QED BY <1>1, <1>3, <1>5, DraftIsTakenUp DEF KeysGood

LEMMA EnvelopeIsUploaded ==
  ASSUME NEW o, KeysNumbers(o), NEW T0, NEW Fut, T0 \in Fut, KeysGood(o, {T0}, Fut), NEW o2,
         NEW d \in Drafts, UploadsDraft(o, o2, d),
         NEW U, FillsEnvelope(T0, U, d, o.seal[d]), NEW Fut2, OneMore(Fut, Fut2, U)
  PROVE  KeysGood(o2, {U}, Fut2)
<1> USE DEF UploadsDraft, FillsEnvelope, OneMore
<1>1. \A e \in Drafts : UnderwayIn(o2, e) <=> UnderwayIn(o, e)
  BY DEF UnderwayIn
<1>2. UnderwayIn(o, d) /\ o.saved[Writer(d)] = None
      /\ \A e \in Drafts : UnderwayIn(o, e) /\ Writer(e) = Writer(d) => e = d
  BY DEF KeysGood, UnderwayGood, UnderwayIn
<1>3. RowsGood(o2, {U})
  BY DEF KeysGood, RowsGood, SameMade, SameSecret
<1>4. SealsGood(o2, {U})
  <2>1. ASSUME NEW e \in Drafts, o2.seal[e] # Signed
        PROVE  /\ o2.step[e] # "new" /\ o2.seal[e] <= o2.made /\ U[Prekey(o2.seal[e])].consumed
               /\ \A f \in Drafts : o2.seal[f] = o2.seal[e] => f = e
               /\ o2.secret = o2.seal[e] \/ SpentIn(o2, Writer(e))
    <3>1. /\ o.step[e] # "new" /\ o.seal[e] <= o.made /\ T0[Prekey(o.seal[e])].consumed
          /\ \A f \in Drafts : o.seal[f] = o.seal[e] => f = e
          /\ o.secret = o.seal[e] \/ SpentIn(o, Writer(e))
      BY <2>1 DEF KeysGood, SealsGood
    <3>2. U[Prekey(o.seal[e])] = T0[Prekey(o.seal[e])]
      <4>1. o.seal[e] \in Batches
        BY <2>1 DEF Batches, KeysNumbers, Signed
      <4> QED BY <4>1
    <3>3. SpentIn(o, Writer(e)) => SpentIn(o2, Writer(e))
      BY DEF SpentIn, Opens1, SameReader
    <3> QED BY <3>1, <3>2, <3>3 DEF SameMade, SameSecret
  <2> QED BY <2>1 DEF SealsGood
<1>5. UnderwayGood(o2, {U})
  <2>1. ASSUME NEW e \in Drafts, UnderwayIn(o2, e)
        PROVE  /\ o2.saved[Writer(e)] = None
               /\ \A f \in Drafts : UnderwayIn(o2, f) /\ Writer(f) = Writer(e) => f = e
               /\ o2.step[e] = "uploaded" => e \in o2.skipped \/ SealedIn(o2, U, Writer(e), e)
    <3>1. /\ o.saved[Writer(e)] = None
          /\ \A f \in Drafts : UnderwayIn(o, f) /\ Writer(f) = Writer(e) => f = e
          /\ o.step[e] = "uploaded" => e \in o.skipped \/ SealedIn(o, T0, Writer(e), e)
      BY <1>1, <2>1 DEF KeysGood, UnderwayGood
    <3>2. CASE e = d
      BY <1>1, <3>1, <3>2 DEF SealedIn
    <3>3. CASE e # d
      <4>1. Writer(e) # Writer(d) /\ o2.step[e] = o.step[e]
        BY <1>1, <1>2, <2>1, <3>3
      <4> QED BY <1>1, <3>1, <4>1, WritersAreTwo DEF SealedIn
    <3> QED BY <3>2, <3>3
  <2> QED BY <2>1 DEF UnderwayGood
<1>6. BeforeGood(o2, Fut2)
  <2>1. ASSUME NEW e \in Drafts, o2.step[e] \in {"new", "sealed"}
        PROVE  e \notin o2.skipped /\ \A T \in Fut2 : T[Envelope(Writer(e))].key # e
    <3>1. e # d /\ e \notin o.skipped /\ \A S \in Fut : S[Envelope(Writer(e))].key # e
      BY <2>1 DEF KeysGood, BeforeGood
    <3>2. CASE Writer(e) = Writer(d)
      BY <3>1, <3>2
    <3>3. CASE Writer(e) # Writer(d)
      BY <3>1, <3>3, WritersAreTwo
    <3> QED BY <3>2, <3>3
  <2> QED BY <2>1 DEF BeforeGood
<1>7. SentGood(o2) /\ CachedGood(o2)
  BY DEF KeysGood, SentGood, CachedGood, SameReader
<1>8. SavedGood(o2, Fut2)
  <2>1. ASSUME NEW p \in Phones, o2.saved[p] # None
        PROVE  /\ o2.saved[p] \in Drafts /\ Writer(o2.saved[p]) = p /\ o2.step[o2.saved[p]] = "sent"
               /\ o2.saved[p] \in o2.skipped \/ \A T \in Fut2 : SealedIn(o2, T, p, o2.saved[p])
    <3>1. /\ o.saved[p] \in Drafts /\ Writer(o.saved[p]) = p /\ o.step[o.saved[p]] = "sent"
          /\ o.saved[p] \in o.skipped \/ \A T \in Fut : SealedIn(o, T, p, o.saved[p])
      BY <2>1 DEF KeysGood, SavedGood
    <3>2. p # Writer(d) /\ o.saved[p] # d
      BY <1>2, <2>1, <3>1
    <3> QED BY <3>1, <3>2 DEF SealedIn
  <2> QED BY <2>1 DEF SavedGood
<1>9. EnvelopeGood(o2, Fut2)
  <2>1. ASSUME NEW p \in Phones, NEW T \in Fut2, T[Envelope(p)].is = "here"
        PROVE  Fills(o2, T, p, T[Envelope(p)].key)
    <3>1. CASE T = U /\ p = Writer(d)
      <4>1. d \notin o.skipped
        BY DEF KeysGood, BeforeGood
      <4> QED BY <3>1, <4>1 DEF Fills, SealedIn
    <3>2. CASE T = U /\ p # Writer(d)
      <4>1. T[Envelope(p)] = T0[Envelope(p)]
        BY <3>2
      <4>2. Fills(o, T0, p, T0[Envelope(p)].key)
        BY <2>1, <4>1 DEF KeysGood, EnvelopeGood
      <4> QED BY <4>1, <4>2 DEF Fills, SealedIn
    <3>3. CASE T # U
      <4>1. Fills(o, T, p, T[Envelope(p)].key)
        BY <2>1, <3>3 DEF KeysGood, EnvelopeGood
      <4> QED BY <4>1 DEF Fills, SealedIn
    <3> QED BY <3>1, <3>2, <3>3
  <2> QED BY <2>1 DEF EnvelopeGood
<1>10. OpeningGood(o2)
  <2>1. \A e \in Drafts : (o.step[e] = "sent" => o2.step[e] = "sent") /\ (o.step[e] # "new" => o2.step[e] # "new")
    OBVIOUS
  <2> QED BY <2>1 DEF KeysGood, OpeningGood, OpensGood, KeyFits, SecretFits, SameReader, SameSecret
<1> QED BY <1>3, <1>4, <1>5, <1>6, <1>7, <1>8, <1>9, <1>10 DEF KeysGood

(* What is outside, by its parts.                                          *)
LEMMA KeysWorldFacts ==
  ASSUME KeysTyped, topic = "keys"
  PROVE  /\ KeysNumbers(outside) /\ Outcomes # {} /\ db \in Futures
         /\ DOMAIN outside = {"made", "secret", "listed", "cached", "opening", "read",
                              "step", "seal", "used", "saved", "skipped", "mishap"}
         /\ DOMAIN outside.cached = Phones /\ DOMAIN outside.saved = Phones
         /\ DOMAIN outside.opening = Drafts /\ DOMAIN outside.read = Drafts
         /\ DOMAIN outside.step = Drafts /\ DOMAIN outside.seal = Drafts /\ DOMAIN outside.used = Drafts
<1>1. outside \in KeysWorld
  BY DEF KeysTyped
<1>2. Outcomes # {}
  BY DEF Outcomes, Quiet, Opened
<1>3. KeysNumbers(outside)
  BY <1>1 DEF KeysWorld, KeysNumbers
<1> QED BY <1>1, <1>2, <1>3 DEF KeysWorld, Futures

(* A step outside the database.                                            *)
LEMMA KeysOutside ==
  ASSUME UNCHANGED tables, ~outside'.mishap => KeysGood(outside', Outcomes, Futures)
  PROVE  KeysKept'
BY StillFutures, KeysInParts

LEMMA ReaderStays ==
  ASSUME KeysKept, KeysTyped, topic = "keys", ~overlapped, ~outside.mishap,
         ListPrekeys \/ CloseApp \/ \E d \in Drafts : ListSenderKeys(d) \/ FindLocalPrekeySecret(d) \/ CacheSenderKey(d)
  PROVE  KeysKept'
<1> DEFINE o == outside
<1> USE KeysWorldFacts, WritersAreTwo
<1>0. KeysGood(o, Outcomes, Futures)
  BY KeysInParts
<1>1. ASSUME ListPrekeys PROVE KeysKept'
  <2>1. UNCHANGED tables /\ outside' = [outside EXCEPT !.listed = TRUE]
    BY <1>1 DEF ListPrekeys, Outside
  <2>2. SameMade(o, outside') /\ SameSecret(o, outside') /\ SameReader(o, outside') /\ SameWriters(o, outside')
    BY <2>1 DEF SameMade, SameSecret, SameReader, SameWriters
  <2> QED BY <1>0, <2>1, <2>2, SameKeysGood, KeysOutside
<1>2. ASSUME CloseApp PROVE KeysKept'
  <2> DEFINE none == [d \in Drafts |-> "no"]
             opened == \E d \in Drafts : outside.opening[d] = "opened"
             mishap == outside.mishap \/ opened
  <2>1. UNCHANGED tables /\ outside' = [outside EXCEPT !.opening = none, !.mishap = mishap]
    BY <1>2 DEF CloseApp, Outside
  <2>2. \A d \in Drafts : none[d] = "no"
    OBVIOUS
  <2> HIDE DEF none, mishap
  <2>3. /\ SameMade(o, outside') /\ SameSecret(o, outside') /\ SameWriters(o, outside')
        /\ outside'.cached = o.cached /\ outside'.opening = none /\ outside'.mishap = mishap
    BY <2>1 DEF SameMade, SameSecret, SameWriters
  <2>4. ASSUME ~mishap PROVE \A d \in Drafts : outside.opening[d] # "opened"
    BY <2>4 DEF mishap
  <2>5. ASSUME ~outside'.mishap PROVE KeysGood(outside', Outcomes, Futures)
    <3>1. ~mishap
      BY <2>3, <2>5
    <3>2. \A d \in Drafts : o.opening[d] # "opened" /\ outside'.opening[d] = "no"
      BY <2>2, <2>3, <2>4, <3>1
    <3> QED BY <1>0, <2>3, <3>2, ReaderIsClosed
  <2> QED BY <2>1, <2>5, KeysOutside
<1>3. ASSUME NEW d \in Drafts, ListSenderKeys(d) PROVE KeysKept'
  <2> DEFINE e == <<db[Envelope(Writer(d))].key, db[Envelope(Writer(d))].seal>>
  <2>1. /\ outside.step[d] = "sent" /\ outside.opening[d] = "no" /\ outside.cached[Writer(d)] = None
        /\ Outside([outside EXCEPT !.opening[d] = "fetched", !.read[d] = e])
        /\ db[Envelope(Writer(d))].is = "here"
    BY <1>3 DEF ListSenderKeys
  <2> HIDE DEF e
  <2>2. outside' = [outside EXCEPT !.opening = [@ EXCEPT ![d] = "fetched"], !.read = [@ EXCEPT ![d] = e]]
    BY <2>1 DEF Outside
  <2>3. /\ SameMade(o, outside') /\ SameSecret(o, outside') /\ SameWriters(o, outside')
        /\ outside'.cached = o.cached
        /\ outside'.opening = [o.opening EXCEPT ![d] = "fetched"] /\ outside'.read = [o.read EXCEPT ![d] = e]
    BY <2>2 DEF SameMade, SameSecret, SameWriters
  <2>4. /\ outside'.opening[d] = "fetched" /\ outside'.read[d] = e
        /\ \A f \in Drafts \ {d} : outside'.opening[f] = o.opening[f] /\ outside'.read[f] = o.read[f]
    BY <2>3
  <2>5. outside'.read[d] = <<db[Envelope(Writer(d))].key, db[Envelope(Writer(d))].seal>>
    BY <2>4 DEF e
  <2>6. KeysGood(outside', Outcomes, Futures)
    BY <1>0, <2>1, <2>3, <2>4, <2>5, EnvelopeIsFetched
  <2> QED BY <2>1, <2>6, KeysOutside DEF Outside
<1>4. ASSUME NEW d \in Drafts, FindLocalPrekeySecret(d) PROVE KeysKept'
  <2> DEFINE seal == outside.read[d][2]
             key == outside.read[d][1]
             next == IF outside.secret = seal THEN "opened" ELSE "no"
             listed == outside.listed /\ outside.secret = 0
  <2>1. /\ outside.opening[d] = "fetched"
        /\ IF seal = Signed THEN Outside([outside EXCEPT !.opening[d] = "opened"])
           ELSE Outside([outside EXCEPT !.opening[d] = next, !.secret = 0, !.listed = listed])
    BY <1>4 DEF FindLocalPrekeySecret
  <2>2. outside.seal[key] = seal
    BY <1>0, <2>1 DEF KeysGood, OpeningGood, OpensGood
  <2> HIDE DEF listed, seal, next
  <2>3. UNCHANGED tables
    BY <2>1 DEF Outside
  <2>4. CASE seal = Signed
    <3>1. outside' = [outside EXCEPT !.opening = [@ EXCEPT ![d] = "opened"]]
      BY <2>1, <2>4 DEF Outside
    <3>2. /\ SameMade(o, outside') /\ SameSecret(o, outside') /\ SameWriters(o, outside')
          /\ outside'.cached = o.cached /\ outside'.read = o.read
          /\ outside'.opening = [o.opening EXCEPT ![d] = "opened"]
      BY <3>1 DEF SameMade, SameSecret, SameWriters
    <3>3. /\ outside'.opening[d] = "opened" /\ outside'.secret = o.secret
          /\ \A f \in Drafts \ {d} : outside'.opening[f] = o.opening[f]
      BY <3>2 DEF SameSecret
    <3>4. KeysGood(outside', Outcomes, Futures)
      BY <1>0, <2>1, <2>2, <2>4, <3>2, <3>3, SecretIsTaken
    <3> QED BY <2>3, <3>4, KeysOutside
  <2>5. CASE seal # Signed
    <3>1. outside' = [outside EXCEPT !.opening = [@ EXCEPT ![d] = next], !.secret = 0, !.listed = listed]
      BY <2>1, <2>5 DEF Outside
    <3>2. /\ SameMade(o, outside') /\ SameWriters(o, outside')
          /\ outside'.cached = o.cached /\ outside'.read = o.read /\ outside'.secret = 0
          /\ outside'.opening = [o.opening EXCEPT ![d] = next]
      BY <3>1 DEF SameMade, SameWriters
    <3>3. /\ outside'.opening[d] = next
          /\ \A f \in Drafts \ {d} : outside'.opening[f] = o.opening[f]
      BY <3>2
    <3>4. outside'.opening[d] = (IF o.secret = o.seal[key] THEN "opened" ELSE "no")
      BY <2>2, <3>3 DEF next
    <3>5. KeysGood(outside', Outcomes, Futures)
      BY <1>0, <2>1, <2>2, <2>5, <3>2, <3>3, <3>4, SecretIsTaken
    <3> QED BY <2>3, <3>5, KeysOutside
  <2> QED BY <2>4, <2>5
<1>5. ASSUME NEW d \in Drafts, CacheSenderKey(d) PROVE KeysKept'
  <2> DEFINE key == outside.read[d][1]
  <2>1. /\ outside.opening[d] = "opened" /\ UNCHANGED tables
        /\ outside' = [outside EXCEPT !.cached = [@ EXCEPT ![Writer(d)] = key], !.opening = [@ EXCEPT ![d] = "no"]]
    BY <1>5 DEF CacheSenderKey, Outside
  <2> HIDE DEF key
  <2>2. /\ SameMade(o, outside') /\ SameSecret(o, outside') /\ SameWriters(o, outside')
        /\ outside'.read = o.read /\ outside'.cached = [o.cached EXCEPT ![Writer(d)] = key]
        /\ outside'.opening = [o.opening EXCEPT ![d] = "no"]
    BY <2>1 DEF SameMade, SameSecret, SameWriters
  <2>3. /\ outside'.opening[d] = "no" /\ \A f \in Drafts \ {d} : outside'.opening[f] = o.opening[f]
        /\ outside'.cached[Writer(d)] = key
        /\ \A q \in Phones \ {Writer(d)} : outside'.cached[q] = o.cached[q]
    BY <2>2
  <2>4. outside'.cached[Writer(d)] = o.read[d][1]
    BY <2>3 DEF key
  <2>5. KeysGood(outside', Outcomes, Futures)
    BY <1>0, <2>1, <2>2, <2>3, <2>4, KeyIsCached
  <2> QED BY <2>1, <2>5, KeysOutside
<1> QED BY <1>1, <1>2, <1>3, <1>4, <1>5

(* What every outcome has of an envelope nobody changes, every future has. *)
LEMMA EnvelopeIsThere ==
  ASSUME KeysTyped, topic = "keys", NEW p \in Phones, NEW d \in Drafts, ~Pending(Envelope(p)),
         \A T \in Outcomes : SealedIn(outside, T, p, d)
  PROVE  \A T \in Futures : SealedIn(outside, T, p, d)
<1>1. CASE Quiet
  <2>1. Outcomes = {db} /\ Futures = {db}
    BY <1>1 DEF Outcomes, Futures, Quiet, Opened
  <2> QED BY <2>1
<1>2. CASE ~Quiet
  <2>1. Futures = {db} \cup Outcomes
    BY <1>2 DEF Outcomes, Futures
  <2>2. PICK t \in Opened : Written(open[t]) \in Outcomes
    BY <1>2 DEF Outcomes, Opened, Quiet
  <2>3. \A c \in open[t] : c[1] # Envelope(p)
    BY <2>2 DEF Pending, Opened
  <2>4. Envelope(p) \in DOMAIN db /\ db[Envelope(p)] \in EnvelopeRow
    BY KeysRows DEF KeysTyped, Typed
  <2> DEFINE e == Envelope(p)
  <2>5. e \in DOMAIN db /\ DOMAIN db[e] = {"is", "key", "seal"} /\ \A c \in open[t] : c[1] # e
    BY <2>3, <2>4 DEF EnvelopeRow
  <2>6. SealedIn(outside, Written(open[t]), p, d)
    BY <2>2
  <2> HIDE DEF e
  <2>7. Written(open[t])[e] = [column \in DOMAIN db[e] |-> db[e][column]]
    BY <2>5, RowIsKept
  <2>8. Written(open[t])[e].key = db[e].key /\ Written(open[t])[e].seal = db[e].seal
    BY <2>5, <2>7
  <2>9. SealedIn(outside, db, p, d)
    BY <2>6, <2>8 DEF SealedIn, e
  <2> QED BY <2>1, <2>9
<1> QED BY <1>1, <1>2

LEMMA SendersStay ==
  ASSUME KeysKept, KeysTyped, topic = "keys", ~overlapped, ~outside.mishap, NEW d \in Drafts,
         SendSealed(d) \/ SendWithSaved(d) \/ SendFails(d)
  PROVE  KeysKept'
<1> DEFINE o == outside
<1> USE KeysWorldFacts, WritersAreTwo
<1>0. KeysGood(o, Outcomes, Futures)
  BY KeysInParts
<1>1. ASSUME SendSealed(d) PROVE KeysKept'
  <2> DEFINE mishap == outside.mishap \/ Pending(Envelope(Writer(d)))
  <2>1. /\ outside.step[d] = "uploaded" /\ UNCHANGED tables
        /\ outside' = [outside EXCEPT !.step = [@ EXCEPT ![d] = "sent"], !.used = [@ EXCEPT ![d] = d],
                                      !.saved = [@ EXCEPT ![Writer(d)] = d], !.mishap = mishap]
    BY <1>1 DEF SendSealed, Outside
  <2>2. ~mishap => ~Pending(Envelope(Writer(d)))
    OBVIOUS
  <2> HIDE DEF mishap
  <2>3. /\ SameMade(o, outside') /\ SameSecret(o, outside') /\ SameReader(o, outside') /\ outside'.seal = o.seal
        /\ outside'.step = [o.step EXCEPT ![d] = "sent"] /\ outside'.used = [o.used EXCEPT ![d] = d]
        /\ outside'.saved = [o.saved EXCEPT ![Writer(d)] = d] /\ outside'.mishap = mishap
        /\ outside'.skipped = o.skipped
    BY <2>1 DEF SameMade, SameSecret, SameReader
  <2>4. /\ outside'.step[d] = "sent" /\ \A e \in Drafts \ {d} : outside'.step[e] = o.step[e]
        /\ outside'.used[d] = d /\ \A e \in Drafts \ {d} : outside'.used[e] = o.used[e]
        /\ outside'.saved[Writer(d)] = d /\ \A q \in Phones \ {Writer(d)} : outside'.saved[q] = o.saved[q]
    BY <2>3
  <2>5. ASSUME ~outside'.mishap PROVE KeysGood(outside', Outcomes, Futures)
    <3>1. d \in o.skipped \/ \A T \in Outcomes : SealedIn(o, T, Writer(d), d)
      BY <1>0, <2>1 DEF KeysGood, UnderwayGood, UnderwayIn
    <3>2. d \in o.skipped \/ \A T \in Futures : SealedIn(o, T, Writer(d), d)
      BY <2>2, <2>3, <2>5, <3>1, EnvelopeIsThere
    <3> QED BY <1>0, <2>1, <2>3, <2>4, <3>2, KeyIsStored
  <2> QED BY <2>1, <2>5, KeysOutside
<1>2. ASSUME SendWithSaved(d) PROVE KeysKept'
  <2> DEFINE key == outside.saved[Writer(d)]
  <2>1. /\ outside.step[d] = "new" /\ key # None /\ UNCHANGED tables
        /\ outside' = [outside EXCEPT !.step = [@ EXCEPT ![d] = "sent"], !.used = [@ EXCEPT ![d] = key]]
    BY <1>2 DEF SendWithSaved, Outside
  <2> HIDE DEF key
  <2>2. /\ SameMade(o, outside') /\ SameSecret(o, outside') /\ SameReader(o, outside')
        /\ outside'.seal = o.seal /\ outside'.saved = o.saved /\ outside'.skipped = o.skipped
        /\ outside'.step = [o.step EXCEPT ![d] = "sent"] /\ outside'.used = [o.used EXCEPT ![d] = key]
    BY <2>1 DEF SameMade, SameSecret, SameReader
  <2>3. /\ outside'.step[d] = "sent" /\ \A e \in Drafts \ {d} : outside'.step[e] = o.step[e]
        /\ outside'.used[d] = key /\ \A e \in Drafts \ {d} : outside'.used[e] = o.used[e]
    BY <2>2
  <2>4. key = o.saved[Writer(d)]
    BY DEF key
  <2>5. KeysGood(outside', Outcomes, Futures)
    BY <1>0, <2>1, <2>2, <2>3, <2>4, DraftIsDone
  <2> QED BY <2>1, <2>5, KeysOutside
<1>3. ASSUME SendFails(d) PROVE KeysKept'
  <2>1. /\ outside.step[d] \in {"sealed", "uploaded"} /\ UNCHANGED tables
        /\ outside' = [outside EXCEPT !.step = [@ EXCEPT ![d] = "failed"]]
    BY <1>3 DEF SendFails, Outside
  <2>2. /\ SameMade(o, outside') /\ SameSecret(o, outside') /\ SameReader(o, outside')
        /\ outside'.seal = o.seal /\ outside'.saved = o.saved /\ outside'.used = o.used
        /\ outside'.skipped = o.skipped /\ outside'.step = [o.step EXCEPT ![d] = "failed"]
    BY <2>1 DEF SameMade, SameSecret, SameReader
  <2>3. outside'.step[d] = "failed" /\ \A e \in Drafts \ {d} : outside'.step[e] = o.step[e]
    BY <2>2
  <2>4. KeysGood(outside', Outcomes, Futures)
    BY <1>0, <2>1, <2>2, <2>3, DraftIsDone
  <2> QED BY <2>1, <2>4, KeysOutside
<1> QED BY <1>1, <1>2, <1>3

LEMMA CallOfNothing ==
  ASSUME DOMAIN open = Slot \cup Job, Call({})
  PROVE  Outcomes' \subseteq Outcomes /\ Futures' \subseteq Futures
<1>1. PICK t \in Slot : Opens(t, {})
  BY CallOpens
<1>2. db' = db /\ DOMAIN open' = DOMAIN open /\ open[t] = {} /\ \A s \in DOMAIN open : open'[s] = open[s]
  BY <1>1 DEF Opens
<1>3. Opened' = Opened /\ (Quiet' <=> Quiet)
  BY <1>2 DEF Opened, Quiet
<1>4. \A x : Written(x)' = Written(x)
  BY <1>2, WrittenStays
<1>5. ASSUME NEW s \in Opened PROVE Written(open[s])' = Written(open[s])
  BY <1>2, <1>4 DEF Opened
<1>6. {Written(open[s])' : s \in Opened} = {Written(open[s]) : s \in Opened}
  BY <1>5
<1> QED BY <1>2, <1>3, <1>6 DEF Outcomes, Futures

LEMMA CallAlone ==
  ASSUME DOMAIN open = Slot \cup Job, NEW w, w # {}, Call(w), ~overlapped'
  PROVE  /\ Quiet /\ Outcomes = {db} /\ Outcomes' = {Written(w)}
         /\ db \in Futures /\ \A T \in Futures' : T \in Futures \/ T = Written(w)
<1>1. Quiet
  BY DEF Call, Begin
<1> QED BY <1>1, CallOutcomes, CallFutures

LEMMA KeysRowsKept ==
  ASSUME KeysTyped, topic = "keys", NEW w
  PROVE  /\ \A m \in Batches : (\A c \in w : c[1] # Prekey(m)) => Written(w)[Prekey(m)] = db[Prekey(m)]
         /\ \A p \in Phones : (\A c \in w : c[1] # Envelope(p)) => Written(w)[Envelope(p)] = db[Envelope(p)]
<1>1. \A m \in Batches : Prekey(m) \in DOMAIN db /\ db[Prekey(m)] \in PrekeyRow
  BY KeysRows DEF KeysTyped, Typed, Prekeys
<1>2. \A p \in Phones : Envelope(p) \in DOMAIN db /\ db[Envelope(p)] \in EnvelopeRow
  BY KeysRows DEF KeysTyped, Typed
<1>3. ASSUME NEW row \in DOMAIN db, db[row] \in PrekeyRow \/ db[row] \in EnvelopeRow, \A c \in w : c[1] # row
      PROVE  Written(w)[row] = db[row]
  <2>1. db[row] = [column \in DOMAIN db[row] |-> db[row][column]]
    BY <1>3 DEF PrekeyRow, EnvelopeRow
  <2> QED BY <1>3, <2>1, RowIsKept
<1>4. ASSUME NEW m \in Batches, \A c \in w : c[1] # Prekey(m) PROVE Written(w)[Prekey(m)] = db[Prekey(m)]
  BY <1>1, <1>3, <1>4
<1>5. ASSUME NEW p \in Phones, \A c \in w : c[1] # Envelope(p) PROVE Written(w)[Envelope(p)] = db[Envelope(p)]
  BY <1>2, <1>3, <1>5
<1> QED BY <1>4, <1>5

LEMMA KeysColumns ==
  ASSUME KeysTyped, topic = "keys"
  PROVE  /\ \A m \in Batches : /\ Prekey(m) \in DOMAIN db /\ DOMAIN db[Prekey(m)] = {"is", "batch", "consumed"}
                               /\ db[Prekey(m)].consumed \in BOOLEAN /\ db[Prekey(m)].batch \in 0..2
         /\ \A p \in Phones : Envelope(p) \in DOMAIN db /\ DOMAIN db[Envelope(p)] = {"is", "key", "seal"}
<1>1. \A m \in Batches : Prekey(m) \in DOMAIN db /\ db[Prekey(m)] \in PrekeyRow
  BY KeysRows DEF KeysTyped, Typed, Prekeys
<1>2. \A p \in Phones : Envelope(p) \in DOMAIN db /\ db[Envelope(p)] \in EnvelopeRow
  BY KeysRows DEF KeysTyped, Typed
<1> QED BY <1>1, <1>2 DEF PrekeyRow, EnvelopeRow

LEMMA KeyNames ==
  /\ \A m, n : Prekey(m) = Prekey(n) => m = n
  /\ \A p, q : Envelope(p) = Envelope(q) => p = q
  /\ \A m, p : Prekey(m) # Envelope(p)
BY DEF Prekey, Envelope

(* A batch of prekeys is made.                                             *)
LEMMA RegisterStays ==
  ASSUME KeysKept, KeysTyped, topic = "keys", DOMAIN open = Slot \cup Job, ~overlapped, ~outside.mishap,
         RegisterWithBackend
  PROVE  KeysKept'
<1> DEFINE o == outside
           mishap == outside.mishap \/ outside.secret # 0 \/ Opening
<1> USE KeysWorldFacts, WritersAreTwo
<1>1. PICK n : n = outside.made + 1
  OBVIOUS
<1> DEFINE columns == [batch |-> n]
           w == Insert(Prekey(n), columns)
<1>2. /\ outside.made < 2 /\ Call(w)
      /\ outside' = [outside EXCEPT !.made = n, !.secret = n, !.mishap = mishap]
  BY <1>1 DEF RegisterWithBackend
<1>3. n \in Batches /\ n = o.made + 1
  BY <1>1, <1>2 DEF KeysNumbers, Batches
<1>4. ~mishap => o.secret = 0 /\ \A d \in Drafts : o.opening[d] = "no"
  BY DEF Opening
<1> HIDE DEF mishap
<1>5. /\ outside'.made = n /\ outside'.secret = n /\ outside'.mishap = mishap
      /\ SameReader(o, outside') /\ SameWriters(o, outside')
  BY <1>2 DEF SameReader, SameWriters
<1>6. DOMAIN columns = {"batch"} /\ columns["batch"] = n /\ <<Prekey(n), "is", "here">> \in w
      /\ Update(Prekey(n), columns) \subseteq w
      /\ \A c \in w : c[1] = Prekey(n) /\ (c = <<Prekey(n), "is", "here">> \/ c \in Update(Prekey(n), columns))
  BY InsertShape, UpdateShape DEF Insert
<1> HIDE DEF columns
<1>7. \A c \in w : c[1] = Prekey(n)
  BY <1>6
<1>8. w # {}
  BY <1>6
<1>9. Written(w)[Prekey(n)].batch = n
  <2>1. "batch" \in DOMAIN columns /\ Prekey(n) \in DOMAIN db /\ "batch" \in DOMAIN db[Prekey(n)]
    BY <1>3, <1>6, KeysColumns
  <2>2. \A c \in w : c[1] = Prekey(n) /\ c[2] = "batch" => c \in Update(Prekey(n), columns)
    BY <1>6
  <2> QED BY <1>6, <2>1, <2>2, UpdateIsWritten
<1> HIDE DEF w
<1>10. /\ \A m \in Batches \ {n} : Written(w)[Prekey(m)] = db[Prekey(m)]
       /\ \A p \in Phones : Written(w)[Envelope(p)] = db[Envelope(p)]
  BY <1>7, KeyNames, KeysRowsKept
<1>11. PICK U : U = Written(w)
  OBVIOUS
<1> SUFFICES ASSUME ~overlapped', ~outside'.mishap PROVE KeysGood(outside', Outcomes', Futures')
  BY KeysInParts
<1>12. /\ Outcomes = {db} /\ Outcomes' = {U}
       /\ db \in Futures /\ \A T \in Futures' : T \in Futures \/ T = U
  BY <1>2, <1>8, <1>11, CallAlone
<1>13. KeysGood(o, {db}, Futures)
  BY <1>12, KeysInParts
<1>14. KeysNumbers(o) /\ ~mishap
  BY <1>5
<1>15. /\ U[Prekey(n)].batch = n /\ \A m \in Batches \ {n} : U[Prekey(m)] = db[Prekey(m)]
       /\ \A p \in Phones : U[Envelope(p)] = db[Envelope(p)]
  BY <1>9, <1>10, <1>11
<1>16. db \in Futures /\ KeysGood(o, {db}, Futures) /\ n \in Batches /\ n = o.made + 1
       /\ o.secret = 0 /\ (\A d \in Drafts : o.opening[d] = "no")
  BY <1>3, <1>4, <1>12, <1>13, <1>14
<1>17. outside'.made = n /\ outside'.secret = n /\ SameReader(o, outside') /\ SameWriters(o, outside')
       /\ \A T \in Futures' : T \in Futures \/ T = U
  BY <1>5, <1>12
<1>18. KeysGood(outside', {U}, Futures')
  BY ONLY <1>14, <1>15, <1>16, <1>17, BatchIsMade
<1> QED BY <1>12, <1>18

(* A draft is given a prekey.                                              *)
LEMMA BundleStays ==
  ASSUME KeysKept, KeysTyped, topic = "keys", DOMAIN open = Slot \cup Job, ~overlapped, ~outside.mishap,
         NEW d \in Drafts, GetPrekeyBundle(d)
  PROVE  KeysKept'
<1> DEFINE o == outside
           on == TRUE
           mishap == outside.mishap \/ Another(d)
<1>1. PICK k \in ClaimOne \cup {None} :
        /\ Call(IF k = None THEN {} ELSE Change(k, "consumed", on))
        /\ outside' = [outside EXCEPT !.step[d] = "sealed",
                                      !.seal[d] = IF k = None THEN Signed ELSE db[k].batch,
                                      !.mishap = mishap]
  BY DEF GetPrekeyBundle, Claim
<1>2. outside.step[d] = "new" /\ outside.saved[Writer(d)] = None
  BY DEF GetPrekeyBundle, FirstMessage
<1>3. ~mishap => \A e \in Drafts : Writer(e) = Writer(d) => ~UnderwayIn(o, e)
  BY DEF UnderwayIn, Underway, Another
<1>4. on = TRUE
  OBVIOUS
<1> HIDE DEF on, mishap
<1>5. PICK seal : seal = IF k = None THEN Signed ELSE db[k].batch
  OBVIOUS
<1>5a. outside' = [outside EXCEPT !.step = [@ EXCEPT ![d] = "sealed"], !.seal = [@ EXCEPT ![d] = seal],
                                  !.mishap = mishap]
  BY <1>1, <1>5
<1>6. /\ SameMade(o, outside') /\ SameSecret(o, outside') /\ SameReader(o, outside')
      /\ outside'.used = o.used /\ outside'.saved = o.saved /\ outside'.mishap = mishap
      /\ outside'.skipped = o.skipped
      /\ outside'.step = [o.step EXCEPT ![d] = "sealed"] /\ outside'.seal = [o.seal EXCEPT ![d] = seal]
  BY <1>5a, KeysWorldFacts DEF SameMade, SameSecret, SameReader
<1>7. /\ outside'.step[d] = "sealed" /\ outside'.seal[d] = seal
      /\ \A e \in Drafts \ {d} : outside'.step[e] = o.step[e] /\ outside'.seal[e] = o.seal[e]
  BY <1>6, KeysWorldFacts
<1> SUFFICES ASSUME ~overlapped', ~outside'.mishap PROVE KeysGood(outside', Outcomes', Futures')
  BY KeysInParts
<1>8. KeysGood(o, Outcomes, Futures) /\ KeysNumbers(o) /\ db \in Futures
      /\ \A e \in Drafts : Writer(e) = Writer(d) => ~UnderwayIn(o, e)
  BY <1>3, <1>6, KeysInParts, KeysWorldFacts
<1>9. CASE k = None
  <2>1. Call({}) /\ seal = Signed
    BY <1>1, <1>5, <1>9
  <2>2. KeysGood(outside', Outcomes, Futures)
    <3>1. SealsDraft(o, outside', d, Signed)
      BY <1>2, <1>6, <1>7, <1>8, <2>1 DEF SealsDraft
    <3> QED BY <1>8, <3>1, NoPrekeyIsLeft
  <2> QED BY <2>1, <2>2, CallOfNothing, FewerTables
<1>10. CASE k # None
  <2> DEFINE w == Change(k, "consumed", on)
  <2>1. PICK n \in Batches : k = Prekey(n)
    BY <1>10 DEF ClaimOne, Prekeys
  <2>2. Call(w) /\ seal = db[Prekey(n)].batch /\ db[Prekey(n)].is # "none" /\ ~db[Prekey(n)].consumed
    BY <1>1, <1>5, <1>10, <2>1 DEF ClaimOne, Here
  <2>3. /\ \A c \in w : c[1] = Prekey(n) /\ c[2] = "consumed" /\ c[3] = on
        /\ db[Prekey(n)]["consumed"] = on \/ Writes(w, Prekey(n), "consumed")
    BY <2>1, ChangeShape
  <2>4. w # {}
    BY <1>4, <2>2, <2>3 DEF Writes
  <2> HIDE DEF w
  <2>5. Prekey(n) \in DOMAIN db /\ DOMAIN db[Prekey(n)] = {"is", "batch", "consumed"}
    BY KeysColumns
  <2>6. Written(w)[Prekey(n)]["consumed"] = on
    BY <2>3, <2>5, WrittenValue
  <2>7. Written(w)[Prekey(n)]["batch"] = db[Prekey(n)]["batch"]
    <3>1. ~Writes(w, Prekey(n), "batch")
      BY <2>3 DEF Writes
    <3> QED BY <2>5, <3>1, WrittenKeeps
  <2>8. /\ \A m \in Batches \ {n} : Written(w)[Prekey(m)] = db[Prekey(m)]
        /\ \A p \in Phones : Written(w)[Envelope(p)] = db[Envelope(p)]
    BY <2>3, KeyNames, KeysRowsKept
  <2>9. PICK U : U = Written(w)
    OBVIOUS
  <2>10. /\ Outcomes = {db} /\ Outcomes' = {U}
         /\ \A T \in Futures' : T \in Futures \/ T = U
    BY <2>2, <2>4, <2>9, CallAlone
  <2>11. /\ U[Prekey(n)].batch = db[Prekey(n)].batch /\ U[Prekey(n)].consumed
         /\ \A m \in Batches \ {n} : U[Prekey(m)] = db[Prekey(m)]
         /\ \A p \in Phones : U[Envelope(p)] = db[Envelope(p)]
    BY <1>4, <2>6, <2>7, <2>8, <2>9
  <2>12. KeysGood(o, {db}, Futures)
    BY <1>8, <2>10
  <2>13. KeysGood(outside', {U}, Futures')
    <3>1. SealsDraft(o, outside', d, db[Prekey(n)].batch)
      BY <1>2, <1>6, <1>7, <1>8, <2>2 DEF SealsDraft
    <3>2. ConsumesPrekey(db, U, n)
      BY <2>2, <2>11 DEF ConsumesPrekey
    <3>3. OneMore(Futures, Futures', U)
      BY <2>10 DEF OneMore
    <3> QED BY <1>8, <2>12, <3>1, <3>2, <3>3, PrekeyIsGiven
  <2> QED BY <2>10, <2>13
<1> QED BY <1>9, <1>10

(* A prekey is used up for a device that is left out.                      *)
IsTrue(x) == x = TRUE
LEMMA ClaimWrites ==
  ASSUME KeysTyped, topic = "keys", DOMAIN open = Slot \cup Job, NEW k \in ClaimOne, NEW on, IsTrue(on),
         Call(Change(k, "consumed", on)), ~overlapped'
  PROVE  \E U : /\ Outcomes = {db} /\ Outcomes' = {U} /\ OneMore(Futures, Futures', U)
                /\ NoFresher(db, U) /\ \A p \in Phones : U[Envelope(p)] = db[Envelope(p)]
<1> DEFINE w == Change(k, "consumed", on)
<1>1. PICK n \in Batches : k = Prekey(n)
  BY DEF ClaimOne, Prekeys
<1>2. db[Prekey(n)].is # "none" /\ ~db[Prekey(n)].consumed
  BY <1>1 DEF ClaimOne, Here
<1>3. /\ \A c \in w : c[1] = Prekey(n) /\ c[2] = "consumed" /\ c[3] = on
      /\ db[Prekey(n)]["consumed"] = on \/ Writes(w, Prekey(n), "consumed")
  BY <1>1, ChangeShape
<1>4. w # {}
  BY <1>2, <1>3 DEF Writes, IsTrue
<1>5. Call(w)
  OBVIOUS
<1> HIDE DEF w
<1>6. Prekey(n) \in DOMAIN db /\ DOMAIN db[Prekey(n)] = {"is", "batch", "consumed"}
  BY KeysColumns
<1>7. Written(w)[Prekey(n)]["consumed"] = on
  BY <1>3, <1>6, WrittenValue
<1>8. Written(w)[Prekey(n)]["batch"] = db[Prekey(n)]["batch"]
  <2>1. ~Writes(w, Prekey(n), "batch")
    BY <1>3 DEF Writes
  <2> QED BY <1>6, <2>1, WrittenKeeps
<1>9. /\ \A m \in Batches \ {n} : Written(w)[Prekey(m)] = db[Prekey(m)]
      /\ \A p \in Phones : Written(w)[Envelope(p)] = db[Envelope(p)]
  BY <1>3, KeyNames, KeysRowsKept
<1>10. PICK U : U = Written(w)
  OBVIOUS
<1>11. Outcomes = {db} /\ Outcomes' = {U} /\ OneMore(Futures, Futures', U)
  BY <1>4, <1>5, <1>10, CallAlone DEF OneMore
<1>12. NoFresher(db, U)
  BY <1>2, <1>7, <1>8, <1>9, <1>10 DEF NoFresher, IsTrue
<1> QED BY <1>9, <1>10, <1>11, <1>12

LEMMA SkipStays ==
  ASSUME KeysKept, KeysTyped, topic = "keys", DOMAIN open = Slot \cup Job, ~overlapped, ~outside.mishap,
         NEW d \in Drafts, SkipDevice(d)
  PROVE  KeysKept'
<1> DEFINE o == outside
           on == TRUE
           skipped == outside.skipped \cup {d}
           mishap == outside.mishap \/ Another(d)
<1>1. outside.step[d] = "new" /\ outside.saved[Writer(d)] = None
  BY DEF SkipDevice, FirstMessage
<1>2. Call({}) \/ \E k \in ClaimOne : Call(Change(k, "consumed", on))
  <2>1. CASE Call({})
    BY <2>1
  <2>2. ASSUME NEW k \in ClaimOne, Claim(k) PROVE Call(Change(k, "consumed", on))
    <3>1. k # None
      BY <2>2 DEF Claim
    <3> QED BY <2>2, <3>1 DEF Claim
  <2> QED BY <2>1, <2>2 DEF SkipDevice
<1>3. outside' = [outside EXCEPT !.step = [@ EXCEPT ![d] = "uploaded"], !.skipped = skipped, !.mishap = mishap]
  BY DEF SkipDevice
<1>4. ~mishap => \A e \in Drafts : Writer(e) = Writer(d) => ~UnderwayIn(o, e)
  BY DEF UnderwayIn, Underway, Another
<1>5. IsTrue(on)
  BY DEF IsTrue
<1> HIDE DEF on, mishap, skipped
<1>6. /\ SameMade(o, outside') /\ SameSecret(o, outside') /\ SameReader(o, outside')
      /\ outside'.seal = o.seal /\ outside'.used = o.used /\ outside'.saved = o.saved
      /\ outside'.mishap = mishap /\ outside'.skipped = skipped
      /\ outside'.step = [o.step EXCEPT ![d] = "uploaded"]
  BY <1>3, KeysWorldFacts DEF SameMade, SameSecret, SameReader
<1>7. /\ outside'.step[d] = "uploaded" /\ \A e \in Drafts \ {d} : outside'.step[e] = o.step[e]
      /\ outside'.skipped = o.skipped \cup {d}
  BY <1>6, KeysWorldFacts DEF skipped
<1> SUFFICES ASSUME ~overlapped', ~outside'.mishap PROVE KeysGood(outside', Outcomes', Futures')
  BY KeysInParts
<1>8. KeysGood(o, Outcomes, Futures) /\ KeysNumbers(o) /\ db \in Futures
      /\ \A e \in Drafts : Writer(e) = Writer(d) => ~UnderwayIn(o, e)
  BY <1>4, <1>6, KeysInParts, KeysWorldFacts
<1>9. LeavesOut(o, outside', d)
  BY <1>1, <1>6, <1>7, <1>8 DEF LeavesOut
<1>10. CASE Call({})
  <2>1. /\ SameEnvelopes(Outcomes, Outcomes) /\ SameEnvelopes(Futures, Futures)
        /\ \A U \in Outcomes : \E T \in Outcomes : NoFresher(T, U)
    BY DEF SameEnvelopes, NoFresher
  <2>2. KeysGood(outside', Outcomes, Futures)
    BY ONLY <1>8, <1>9, <2>1, DeviceIsSkipped
  <2> QED BY <1>10, <2>2, CallOfNothing, FewerTables
<1>11. ASSUME NEW k \in ClaimOne, Call(Change(k, "consumed", on))
       PROVE  KeysGood(outside', Outcomes', Futures')
  <2>1. PICK U : /\ Outcomes = {db} /\ Outcomes' = {U} /\ OneMore(Futures, Futures', U)
                 /\ NoFresher(db, U) /\ \A p \in Phones : U[Envelope(p)] = db[Envelope(p)]
    BY <1>5, <1>11, ClaimWrites
  <2>2. SameEnvelopes(Outcomes', Outcomes)
    BY <2>1 DEF SameEnvelopes
  <2>3. SameEnvelopes(Futures', Futures)
    BY <1>8, <2>1 DEF SameEnvelopes, OneMore
  <2>4. \A V \in Outcomes' : \E T \in Outcomes : NoFresher(T, V)
    BY <2>1
  <2> QED BY ONLY <1>8, <1>9, <2>2, <2>3, <2>4, DeviceIsSkipped
<1> QED BY <1>2, <1>10, <1>11

(* The envelope of a draft is uploaded.                                    *)
LEMMA UploadStays ==
  ASSUME KeysKept, KeysTyped, topic = "keys", DOMAIN open = Slot \cup Job, ~overlapped, ~outside.mishap,
         NEW d \in Drafts, UploadSenderKey(d)
  PROVE  KeysKept'
<1> DEFINE o == outside
           e == Envelope(Writer(d))
           columns == [key |-> d, seal |-> outside.seal[d]]
           is == IF Here(e) THEN {} ELSE {<<e, "is", "here">>}
           w == is \cup Update(e, columns)
<1>1. /\ outside.step[d] = "sealed" /\ Call(w)
      /\ outside' = [outside EXCEPT !.step = [@ EXCEPT ![d] = "uploaded"]]
  BY DEF UploadSenderKey
<1>2. /\ SameMade(o, outside') /\ SameSecret(o, outside') /\ SameReader(o, outside')
      /\ outside'.seal = o.seal /\ outside'.used = o.used /\ outside'.saved = o.saved
      /\ outside'.skipped = o.skipped /\ outside'.step = [o.step EXCEPT ![d] = "uploaded"]
  BY <1>1, KeysWorldFacts DEF SameMade, SameSecret, SameReader
<1>3. outside'.step[d] = "uploaded" /\ \A f \in Drafts \ {d} : outside'.step[f] = o.step[f]
  BY <1>2, KeysWorldFacts
<1> SUFFICES ASSUME ~overlapped', ~outside'.mishap PROVE KeysGood(outside', Outcomes', Futures')
  BY KeysInParts
<1>4. KeysGood(o, Outcomes, Futures) /\ KeysNumbers(o) /\ db \in Futures
  BY KeysInParts, KeysWorldFacts
<1>5. db[e].key # d
  BY <1>1, <1>4 DEF KeysGood, BeforeGood
<1>6. DOMAIN columns = {"key", "seal"} /\ columns["key"] = d /\ columns["seal"] = o.seal[d]
  OBVIOUS
<1>7. e \in DOMAIN db /\ DOMAIN db[e] = {"is", "key", "seal"}
  BY KeysColumns, WritersAreTwo
<1>8. \A c \in is : c = <<e, "is", "here">>
  OBVIOUS
<1> HIDE DEF columns, is, e
<1>9. /\ \A c \in Update(e, columns) : c[1] = e /\ c[2] \in DOMAIN columns /\ c[3] = columns[c[2]]
      /\ \A column \in DOMAIN columns :
           db[e][column] = columns[column] \/ Writes(Update(e, columns), e, column)
  BY UpdateShape
<1>10. \A c \in is : c[1] = e /\ c[2] = "is"
  BY <1>8
<1>11. w # {}
  <2>1. Writes(Update(e, columns), e, "key")
    BY <1>5, <1>6, <1>9
  <2> QED BY <2>1 DEF Writes
<1>12. Update(e, columns) \subseteq w /\ \A c \in w : c[1] = e /\ (c[2] # "is" => c \in Update(e, columns))
  BY <1>9, <1>10
<1> HIDE DEF w
<1>13. Written(w)[e]["key"] = d
  BY <1>6, <1>7, <1>12, UpdateIsWritten
<1>14. Written(w)[e]["seal"] = o.seal[d]
  BY <1>6, <1>7, <1>12, UpdateIsWritten
<1>15. /\ \A m \in Batches : Written(w)[Prekey(m)] = db[Prekey(m)]
       /\ \A p \in Phones \ {Writer(d)} : Written(w)[Envelope(p)] = db[Envelope(p)]
  BY <1>12, KeyNames, KeysRowsKept DEF e
<1>16. PICK U : U = Written(w)
  OBVIOUS
<1>17. /\ Outcomes = {db} /\ Outcomes' = {U}
       /\ \A T \in Futures' : T \in Futures \/ T = U
  BY <1>1, <1>11, <1>16, CallAlone
<1>18. /\ U[Envelope(Writer(d))].key = d /\ U[Envelope(Writer(d))].seal = o.seal[d]
       /\ \A m \in Batches : U[Prekey(m)] = db[Prekey(m)]
       /\ \A p \in Phones \ {Writer(d)} : U[Envelope(p)] = db[Envelope(p)]
  BY <1>13, <1>14, <1>15, <1>16 DEF e
<1>19. KeysGood(o, {db}, Futures)
  BY <1>4, <1>17
<1>20. KeysGood(outside', {U}, Futures')
  <2>1. UploadsDraft(o, outside', d)
    BY <1>1, <1>2, <1>3 DEF UploadsDraft
  <2>2. FillsEnvelope(db, U, d, o.seal[d])
    BY <1>18 DEF FillsEnvelope
  <2>3. OneMore(Futures, Futures', U)
    BY <1>17 DEF OneMore
  <2> QED BY <1>4, <1>19, <2>1, <2>2, <2>3, EnvelopeIsUploaded
<1> QED BY <1>17, <1>20

LEMMA KeysStay ==
  ASSUME KeysKept, KeysTyped, topic = "keys", DOMAIN open = Slot \cup Job, OpenAlone, KeysNext
  PROVE  KeysKept'
<1>1. ~overlapped /\ ~outside.mishap
  BY DEF KeysNext
<1>2. ASSUME RegisterWithBackend PROVE KeysKept'
  BY <1>1, <1>2, RegisterStays
<1>3. CASE PhoneReads
  BY <1>1, <1>2, <1>3, ReaderStays DEF PhoneReads
<1>4. CASE PhoneWrites
  BY <1>1, <1>4, BundleStays, SkipStays, UploadStays, SendersStay DEF PhoneWrites
<1>5. ASSUME NEW t \in Slot, Commit(t) PROVE KeysKept'
  <2>1. Outcomes' \subseteq Outcomes /\ Futures' \subseteq Futures
    BY <1>1, <1>5, CommitOutcomes, EndFutures
  <2>2. outside' = outside
    BY <1>5 DEF Commit
  <2>3. KeysGood(outside, Outcomes', Futures')
    BY <1>1, <2>1, KeysInParts, FewerTables
  <2> QED BY <2>2, <2>3, KeysInParts
<1>6. ASSUME NEW t \in Slot, RollBack(t), outside' = [outside EXCEPT !.mishap = TRUE] PROVE KeysKept'
  <2>1. outside'.mishap = TRUE
    BY <1>6, KeysWorldFacts
  <2> QED BY <2>1, KeysInParts
<1> QED BY <1>3, <1>4, <1>5, <1>6 DEF KeysNext

LEMMA KeysStart ==
  ASSUME KeysInit
  PROVE  KeysKept
<1>1. /\ \A m \in Batches : db[Prekey(m)] = [is |-> "none", batch |-> 0, consumed |-> FALSE]
      /\ \A p \in Phones : db[Envelope(p)] = [is |-> "none", key |-> None, seal |-> Signed]
  <2>1. \A p \in Phones : Envelope(p) \notin Prekeys
    BY KeyNames DEF Prekeys
  <2> QED BY <2>1 DEF KeysInit, Start, Prekeys
<1>2. Outcomes = {db} /\ Futures = {db}
  BY DEF KeysInit, Start, Outcomes, Futures, Quiet, Opened
<1>3. /\ \A d \in Drafts : outside.seal[d] = Signed /\ outside.step[d] = "new" /\ outside.opening[d] = "no"
      /\ \A p \in Phones : outside.saved[p] = None /\ outside.cached[p] = None
      /\ outside.skipped = {}
  BY DEF KeysInit, Start
<1>4. RowsGood(outside, Outcomes) /\ SealsGood(outside, Outcomes) /\ UnderwayGood(outside, Outcomes)
  BY <1>1, <1>2, <1>3 DEF RowsGood, SealsGood, UnderwayGood, UnderwayIn
<1>5. BeforeGood(outside, Futures) /\ EnvelopeGood(outside, Futures)
  BY <1>1, <1>2, <1>3, KeysAssumption, WritersAreTwo DEF BeforeGood, EnvelopeGood
<1>6. SentGood(outside) /\ SavedGood(outside, Futures) /\ CachedGood(outside) /\ OpeningGood(outside)
  BY <1>3 DEF SentGood, SavedGood, CachedGood, OpeningGood
<1> QED BY <1>4, <1>5, <1>6, KeysInParts DEF KeysGood

LEMMA ElsewhereKept ==
  /\ (topic # "room" => PersonsKept) /\ (topic # "records" => KindsKept) /\ (topic # "minutes" => MinutesKept)
  /\ (topic # "attendance" => AttendanceKept) /\ (topic # "files" => FilesKept) /\ (topic # "vip" => PaidKept)
  /\ (topic # "plan" => PriceKept) /\ (topic # "signup" => InviteKept) /\ (topic # "login" => RateKept)
  /\ (topic # "chat" => ThreadsKept) /\ (topic # "compliance" => RequestsKept)
  /\ (topic # "location" => PingsKept) /\ (topic # "keys" => KeysKept)
BY DEF PersonsKept, KindsKept, MinutesKept, AttendanceKept, FilesKept, PaidKept, PriceKept, InviteKept,
       RateKept, ThreadsKept, RequestsKept, PingsKept, KeysKept

LEMMA ElsewhereKeptNext ==
  /\ (topic' # "room" => PersonsKept') /\ (topic' # "records" => KindsKept') /\ (topic' # "minutes" => MinutesKept')
  /\ (topic' # "attendance" => AttendanceKept') /\ (topic' # "files" => FilesKept') /\ (topic' # "vip" => PaidKept')
  /\ (topic' # "plan" => PriceKept') /\ (topic' # "signup" => InviteKept') /\ (topic' # "login" => RateKept')
  /\ (topic' # "chat" => ThreadsKept') /\ (topic' # "compliance" => RequestsKept')
  /\ (topic' # "location" => PingsKept') /\ (topic' # "keys" => KeysKept')
BY DEF PersonsKept, KindsKept, MinutesKept, AttendanceKept, FilesKept, PaidKept, PriceKept, InviteKept,
       RateKept, ThreadsKept, RequestsKept, PingsKept, KeysKept

LEMMA RecordsStart ==
  ASSUME Init
  PROVE  RecordsInv
<1>1. \A name, rows, world : Start(name, rows, world) => topic = name
  BY DEF Start
<1>2. CASE MeetingsInit
  <2>1. topic = "room"
    BY <1>1, <1>2 DEF MeetingsInit
  <2> QED BY <1>2, <2>1, PersonsStart, ElsewhereKept DEF RecordsInv
<1>3. CASE RecordsInit
  <2>1. topic = "records"
    BY <1>1, <1>3 DEF RecordsInit
  <2> QED BY <1>3, <2>1, KindsStart, ElsewhereKept DEF RecordsInv
<1>4. CASE StageInit
  <2>1. topic = "stage"
    BY <1>1, <1>4 DEF StageInit
  <2> QED BY <2>1, ElsewhereKept DEF RecordsInv
<1>5. CASE MinutesInit
  <2>1. topic = "minutes"
    BY <1>1, <1>5 DEF MinutesInit
  <2> QED BY <1>5, <2>1, MinutesStart, ElsewhereKept DEF RecordsInv
<1>6. CASE AttendanceInit
  <2>1. topic = "attendance"
    BY <1>1, <1>6 DEF AttendanceInit
  <2> QED BY <1>6, <2>1, AttendanceStarts, ElsewhereKept DEF RecordsInv
<1>7. CASE FilesInit
  <2>1. topic = "files"
    BY <1>1, <1>7 DEF FilesInit
  <2> QED BY <1>7, <2>1, FilesBegin, ElsewhereKept DEF RecordsInv
<1>8. CASE VipInit
  <2>1. topic = "vip"
    BY <1>1, <1>8 DEF VipInit
  <2> QED BY <1>8, <2>1, PaidStarts, ElsewhereKept DEF RecordsInv
<1>9. CASE PlansInit
  <2>1. topic = "plan"
    BY <1>1, <1>9 DEF PlansInit
  <2> QED BY <1>9, <2>1, PriceStarts, ElsewhereKept DEF RecordsInv
<1>10. CASE SignupInit
  <2>1. topic = "signup"
    BY <1>1, <1>10 DEF SignupInit
  <2> QED BY <1>10, <2>1, InviteStarts, ElsewhereKept DEF RecordsInv
<1>11. CASE AccountInit
  <2>1. topic = "account"
    BY <1>1, <1>11 DEF AccountInit
  <2> QED BY <2>1, ElsewhereKept DEF RecordsInv
<1>12. CASE RecoveryInit
  <2>1. topic = "recovery"
    BY <1>1, <1>12 DEF RecoveryInit
  <2> QED BY <2>1, ElsewhereKept DEF RecordsInv
<1>13. CASE LoginInit
  <2>1. topic = "login"
    BY <1>1, <1>13 DEF LoginInit
  <2> QED BY <1>13, <2>1, RateStarts, ElsewhereKept DEF RecordsInv
<1>14. CASE KeysInit
  <2>1. topic = "keys"
    BY <1>1, <1>14 DEF KeysInit
  <2> QED BY <1>14, <2>1, KeysStart, ElsewhereKept DEF RecordsInv
<1>15. CASE ChatInit
  <2>1. topic = "chat"
    BY <1>1, <1>15 DEF ChatInit
  <2> QED BY <1>15, <2>1, ThreadsStart, ElsewhereKept DEF RecordsInv
<1>16. CASE OfficeInit
  <2>1. topic = "office"
    BY <1>1, <1>16 DEF OfficeInit
  <2> QED BY <2>1, ElsewhereKept DEF RecordsInv
<1>17. CASE ComplianceInit
  <2>1. topic = "compliance"
    BY <1>1, <1>17 DEF ComplianceInit
  <2> QED BY <1>17, <2>1, RequestsStart, ElsewhereKept DEF RecordsInv
<1>18. CASE LocationInit
  <2>1. topic = "location"
    BY <1>1, <1>18 DEF LocationInit
  <2> QED BY <1>18, <2>1, PingsStart, ElsewhereKept DEF RecordsInv
<1> QED BY <1>2, <1>3, <1>4, <1>5, <1>6, <1>7, <1>8, <1>9, <1>10, <1>11, <1>12, <1>13, <1>14,
           <1>15, <1>16, <1>17, <1>18 DEF Init

(* A step that changes nothing.                                            *)
LEMMA RecordsRest ==
  ASSUME RecordsInv, UNCHANGED vars
  PROVE  RecordsInv'
<1>1. /\ topic' = topic /\ db' = db /\ open' = open /\ overlapped' = overlapped /\ outside' = outside
      /\ Futures' = Futures /\ Outcomes' = Outcomes
  BY StillFutures DEF vars, tables
<1>2. PersonsKept' /\ PriceKept' /\ InviteKept' /\ PingsKept' /\ RequestsKept'
  BY <1>1 DEF RecordsInv, PersonsKept, OnePersonIn, PriceKept, OnePriceIn, InviteKept, OneGuestIn, PingsKept, PingsIn,
              RequestsKept, HonouredIn, IsIn, now
<1>3. KindsKept'
  <2> SUFFICES ASSUME topic = "records" PROVE RecordsOpen' /\ UniqueRecords' /\ RecordsAlone'
    BY <1>1, KindsInParts
  <2>1. RecordsOpen /\ UniqueRecords /\ RecordsAlone
    BY KindsInParts DEF RecordsInv
  <2>2. RecordsOpen'
    BY <1>1, <2>1 DEF RecordsOpen, Only
  <2>3. UniqueRecords' /\ RecordsAlone'
    BY <1>1, <2>1 DEF UniqueRecords, RecordsAlone, Here, UpvotesIn
  <2> QED BY <2>2, <2>3
<1>4. MinutesKept' /\ AttendanceKept'
  <2>1. MinutesKept'
    BY <1>1 DEF RecordsInv, MinutesKept, WithinPlan, minutes
  <2>2. AttendanceKept'
    BY <1>1, AttendanceInParts DEF RecordsInv
  <2> QED BY <2>1, <2>2
<1>5. FilesKept'
  BY <1>1 DEF RecordsInv, FilesKept, Only, Here, Writes, egress, objects
<1>6. PaidKept' /\ RateKept'
  BY <1>1 DEF RecordsInv, PaidKept, ActiveIn, Decided, says, IsIn, RateKept, now
<1>7. ThreadsKept'
  BY <1>1 DEF RecordsInv, ThreadsKept, Only, Here, SendsMessage, MakesAttempt, OneThreadIn, UsageIn, DoneIn, IsIn
<1>8. KeysKept'
  BY <1>1, KeysInParts DEF RecordsInv
<1> QED BY <1>2, <1>3, <1>4, <1>5, <1>6, <1>7, <1>8 DEF RecordsInv

LEMMA RecordsStay ==
  ASSUME TypesInv, TypesInv', BackendInv, RecordsInv, [Next]_vars
  PROVE  RecordsInv'
<1>1. CASE Next
  <2>0. topic' = topic /\ DOMAIN open = Slot \cup Job /\ OpenAlone
    BY <1>1, NextIsTableStep, TopicStays DEF BackendInv
  <2> USE DEF RecordsInv
  <2>1. topic = "room" => PersonsKept'
    BY <1>1, <2>0, NextByTopic, PersonsStay DEF TypesInv
  <2>2. topic = "records" => KindsKept'
    BY <1>1, <2>0, NextByTopic, KindsStay DEF TypesInv
  <2>3. topic = "minutes" => MinutesKept'
    BY <1>1, <2>0, NextByTopic, MinutesStay DEF TypesInv
  <2>4. topic = "attendance" => AttendanceKept'
    BY <1>1, <2>0, NextByTopic, AttendanceStays DEF TypesInv
  <2>5. topic = "files" => FilesKept'
    BY <1>1, <2>0, NextByTopic, FilesStay DEF TypesInv
  <2>6. topic = "vip" => PaidKept'
    BY <1>1, <2>0, NextByTopic, PaidStays DEF BackendInv
  <2>7. topic = "plan" => PriceKept'
    BY <1>1, <2>0, NextByTopic, PriceStays DEF TypesInv
  <2>8. topic = "signup" => InviteKept'
    BY <1>1, <2>0, NextByTopic, InviteStays DEF TypesInv
  <2>9. topic = "login" => RateKept'
    BY <1>1, <2>0, NextByTopic, RateStays DEF TypesInv
  <2>10. topic = "keys" => KeysKept'
    BY <1>1, <2>0, NextByTopic, KeysStay DEF TypesInv
  <2>11. topic = "chat" => ThreadsKept'
    BY <1>1, <2>0, NextByTopic, ThreadsStay DEF TypesInv
  <2>12. topic = "compliance" => RequestsKept'
    BY <1>1, <2>0, NextByTopic, RequestsStay DEF TypesInv
  <2>13. topic = "location" => PingsKept'
    BY <1>1, <2>0, NextByTopic, PingsStay DEF TypesInv
  <2> QED BY <2>0, <2>1, <2>2, <2>3, <2>4, <2>5, <2>6, <2>7, <2>8, <2>9, <2>10, <2>11, <2>12, <2>13, ElsewhereKeptNext
<1>2. CASE UNCHANGED vars
  BY <1>2, RecordsRest
<1> QED BY <1>1, <1>2

(* The rows keep their types, everything done was due, and what is         *)
(* recorded of the topics stays true, by one inductive invariant.          *)
THEOREM TypesAndJustification == Spec => []TypedBackendInv
<1> DEFINE Inv == TypesInv /\ BackendInv /\ RecordsInv
<1>1. Init => Inv
  BY TypesStart, BackendStarts, RecordsStart
<1>2. Inv /\ [Next]_vars => Inv'
  <2> SUFFICES ASSUME Inv, [Next]_vars PROVE Inv'
    OBVIOUS
  <2>1. TypesInv' /\ BackendInv'
    BY TypesStay, BackendSteps
  <2>2. RecordsInv'
    BY <2>1, RecordsStay
  <2> QED BY <2>1, <2>2
<1>3. Inv => TypedBackendInv
  BY TypesGiveTypeOK DEF TypedBackendInv
<1> QED BY <1>1, <1>2, <1>3, PTL DEF Spec

(* OneOfEach (Backend.tla): one person of a meeting has one row of it,     *)
(* one vote, one conversation with whoever it is, one price is active and  *)
(* an invitation is used once, as long as no two requests overlap; and,    *)
(* however they do, what the table itself forbids is there only once.      *)
THEOREM ThereIsOneOfEach == Spec => []OneOfEach
<1>1. TypedBackendInv => OneOfEach
  BY OnePerson, OneOfEachKind, OneThread, OnePrice, OneInvitation DEF TypedBackendInv, RecordsInv, OneOfEach
<1> QED BY <1>1, TypesAndJustification, PTL

(* RecordsAreTrue (Backend.tla), each of its nine statements within the    *)
(* limits it names. However requests overlap: a meeting of a planned       *)
(* length is within the plan and what administrators granted, a translated *)
(* message has its attempt, the tries to log in are within the limit, and  *)
(* the peak reported is never above the true one, and is that one if no    *)
(* stay was lost. The files are those of the rows until a request failed   *)
(* or the meeting was deleted. The others are about requests that did not  *)
(* overlap: upvotes, usage, positions, payments, settled requests.         *)
THEOREM WhatIsRecordedIsTrue == Spec => []RecordsAreTrue
<1>1. TypedBackendInv => RecordsAreTrue
  <2> SUFFICES ASSUME TypedBackendInv PROVE RecordsAreTrue
    OBVIOUS
  <2>1. LoginTyped /\ AttendanceTyped
    BY DEF TypedBackendInv, TypesInv
  <2>2. UpvotesCounted /\ WithinPlan /\ PeakIsTrue
    BY <2>1, OneOfEachKind, MinutesAreWithinPlan, PeakIsReported DEF TypedBackendInv, RecordsInv
  <2>3. UsageIsWork /\ FilesMatchRows /\ PingsWithinShare
    BY OneThread, FilesAreMatched, PositionsAreTrue DEF TypedBackendInv, RecordsInv
  <2>4. ActiveWasPaid /\ WithinRateLimit /\ RequestsAreHonoured
    BY <2>1, ActivePaid, TriesAreWithinLimit, AllAreHonoured DEF TypedBackendInv, RecordsInv
  <2> QED BY <2>2, <2>3, <2>4 DEF RecordsAreTrue
<1> QED BY <1>1, TypesAndJustification, PTL

(* SentIsReadable (Keys.tla): as long as no requests overlapped and        *)
(* nothing happened after which a key may be lost, whatever was sent under *)
(* a sender key can be opened, now or by fetching its envelope, by a       *)
(* reader who was not left out when that key was given away.               *)
THEOREM SentStaysReadable == Spec => []SentIsReadable
<1>1. TypedBackendInv => SentIsReadable
  BY SentCanBeRead DEF TypedBackendInv, RecordsInv
<1> QED BY <1>1, TypesAndJustification, PTL
=============================================================================

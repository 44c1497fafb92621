------------------------------ MODULE Requests ------------------------------
(***************************************************************************)
(* Transactions of the backend (backend/app/core/db.py), for the modules   *)
(* of its services. A request, or a job of the scheduler, reads what is    *)
(* committed, decides, calls the providers it needs, is answered, and what *)
(* it changed is written when its transaction commits; one that raises     *)
(* writes nothing. Nothing is locked between the reading and the commit.   *)
(*                                                                         *)
(* db holds the rows by name, a row is a record of its columns; the column *)
(* "is" says whether it is there. What a transaction has changed is a set  *)
(* of <<row, column, value>> with the columns only whose value is not the  *)
(* one that was read: an UPDATE of SQLAlchemy names no others. outside     *)
(* holds what is not in the database: providers, pages, clocks, history.   *)
(*                                                                         *)
(* Parts of the service that have no row in common are looked at one at a  *)
(* time: a behaviour is about one topic, and has the rows of that topic.   *)
(***************************************************************************)
EXTENDS Naturals, FiniteSets

CONSTANTS
  Slot,         \* requests that may be open at the same time
  Job,          \* jobs of the scheduler, one transaction each
  Row,          \* primary keys
  User,         \* users of the service
  None,
  MaxRequests   \* bound: requests of one behaviour, by topic

ASSUME RequestsAssumption ==
  /\ Slot # {} /\ Slot \cap Job = {} /\ IsFiniteSet(Row)
  /\ \A t \in DOMAIN MaxRequests : MaxRequests[t] \in Nat

VARIABLES
  topic,       \* what the behaviour is about
  db,          \* the tables
  open,        \* what the open transactions will write
  asked,       \* requests so far
  overlapped,  \* history: two transactions were open at once
  outside      \* what is not in the database

tables == <<topic, db, open, asked, overlapped>>
vars == <<tables, outside>>

Start(name, rows, world) ==
  /\ topic = name
  /\ db = rows
  /\ outside = world
  /\ open = [t \in Slot \cup Job |-> {}]
  /\ asked = 0
  /\ overlapped = FALSE

TransactionsOK ==
  /\ DOMAIN open = Slot \cup Job
  /\ asked \in 0..MaxRequests[topic]
  /\ overlapped \in BOOLEAN

(* Until two transactions have been open at once, one is open at most.     *)
OpenAlone ==
  ~overlapped => \A s, t \in DOMAIN open : open[s] # {} /\ open[t] # {} => s = t

-----------------------------------------------------------------------------
(* Rows. A row of a topic's own is named by a string, the rows of a table  *)
(* by Row.                                                                 *)
Is == {"none", "here", "gone"}
Here(row) == db[row].is = "here"
Table == {row \in Row : Here(row)}

Change(row, column, value) ==
  IF db[row][column] = value THEN {} ELSE {<<row, column, value>>}
Pending(row) == \E t \in DOMAIN open : \E c \in open[t] : c[1] = row
Writes(w, row, column) == \E c \in w : c[1] = row /\ c[2] = column

(* The key of a new row is random; which one it is makes no difference.    *)
Unused == {row \in Row : db[row].is = "none" /\ ~Pending(row)}
New(row) == Unused # {} /\ row = CHOOSE r \in Unused : TRUE
Update(row, columns) == UNION {Change(row, c, columns[c]) : c \in DOMAIN columns}
Insert(row, columns) == {<<row, "is", "here">>} \cup Update(row, columns)
Delete(row) == Change(row, "is", "gone")

(* Rows of a table that are numbered in the order of their creation: the  *)
(* next one to be made, and the latest there is.                           *)
NextOf(table, max, k) ==
  /\ \E n \in 1..max :
       /\ k = <<table, n>>
       /\ \A m \in 1..max : db[<<table, m>>].is = "none" <=> m >= n
  /\ ~Pending(k)
LatestOf(table, max, k) ==
  /\ Here(k)
  /\ \E n \in 1..max : k = <<table, n>> /\ \A m \in n + 1..max : ~Here(<<table, m>>)

-----------------------------------------------------------------------------
(* Transactions.                                                           *)
Quiet == \A t \in DOMAIN open : open[t] = {}

Begin(t, w) ==
  /\ open[t] = {}
  /\ open' = [open EXCEPT ![t] = w]
  /\ overlapped' = (overlapped \/ (w # {} /\ ~Quiet))
  /\ UNCHANGED <<topic, db>>

(* Free slots are alike: a request takes any one of them.                  *)
FreeSlot == CHOOSE s \in Slot : open[s] = {}
Call(w) ==
  /\ asked < MaxRequests[topic]
  /\ asked' = asked + 1
  /\ \E s \in Slot : open[s] = {}
  /\ Begin(FreeSlot, w)

(* A request that has no effect but what it writes.                        *)
Request(w) == w # {} /\ Call(w) /\ UNCHANGED outside
(* Look for rows, change the one that is found, insert one if there is     *)
(* none, raise if there are several (scalar_one_or_none).                  *)
Upsert(found, row, key, columns) ==
  \/ found = {row} /\ Request(Update(row, columns))
  \/ found = {} /\ New(row) /\ Request(Insert(row, key) \cup Update(row, columns))
(* Something that happens outside the database.                            *)
Outside(world) == outside' = world /\ UNCHANGED tables

(* A provider decides once what the outcome of a job or a payment is; its  *)
(* webhook may be called several times, and as late as it likes.           *)
says == outside.says
now == outside.now
Decide(k, outcomes) ==
  /\ says[k] = None /\ (Here(k) \/ Pending(k))
  /\ \E outcome \in outcomes : Outside([outside EXCEPT !.says[k] = outcome])

Value(w, row, column) == (CHOOSE c \in w : c[1] = row /\ c[2] = column)[3]
Written(w) ==
  [row \in DOMAIN db |->
    LET columns == {c[2] : c \in {d \in w : d[1] = row}} IN
    [column \in DOMAIN db[row] |->
      IF column \in columns THEN Value(w, row, column) ELSE db[row][column]]]

(* An UPDATE that finds its row deleted raises.                            *)
Lawful(w) == \A c \in w : Here(c[1]) \/ Writes(w, c[1], "is")
Commit(t) ==
  /\ open[t] # {} /\ Lawful(open[t])
  /\ db' = Written(open[t])
  /\ open' = [open EXCEPT ![t] = {}]
  /\ UNCHANGED <<topic, asked, overlapped, outside>>

RollBack(t) ==
  /\ open[t] # {}
  /\ open' = [open EXCEPT ![t] = {}]
  /\ UNCHANGED <<topic, db, asked, overlapped>>
=============================================================================

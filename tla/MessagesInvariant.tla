------------------------- MODULE MessagesInvariant -------------------------
(* The invariant from which the properties of Messages are proved: what an *)
(* open request names, how many rows it may still make, and what it has    *)
(* read when nothing else is open.                                         *)
EXTENDS Messages

(* An open request names what it is about.                                 *)
WorkNames ==
  \A t \in Slot : LET w == open[t] IN
    /\ w.op = "send" => w.draft \in Draft /\ drafts[w.draft].user \in User
    /\ w.op \in {"edit", "delete"} => w.message \in Message
    /\ w.op \in {"add", "remove", "role"} => w.user \in User

(* Every copy of a request was made by a try of the draft's user.          *)
CopiesWereTried ==
  \A c \in Draft : /\ drafts[c].copies <= drafts[c].tries
                   /\ drafts[c].tries > 0 => drafts[c].user \in User

(* A removal or a change of role that has not lost its row can count on    *)
(* one.                                                                    *)
FlagMeansRow ==
  \A t \in Slot : open[t].op \in {"remove", "role"} /\ open[t].flag =>
    members[open[t].user].rows > 0

(* A user is added by no more requests at once than there may be, and not  *)
(* any more once there is a row.                                           *)
Adds(u) == {t \in Slot : open[t].op = "add" /\ open[t].user = u}
RowsCounted == \A u \in User : members[u].rows + Cardinality(Adds(u)) <= Cardinality(Slot)

(* SentOnce without counting.                                              *)
ClientIsUnique ==
  \A m, n \in Message : Stored(m) /\ messages[m].client = messages[n].client => m = n

(* Nothing runs beside a request, or beside the sweep.                     *)
Alone ==
  /\ \A s, t \in Slot : open[s] # Idle /\ open[t] # Idle => s = t
  /\ sweep # None => \A t \in Slot : open[t] = Idle

(* What a request has read holds until it ends.                            *)
ReadStillHolds ==
  \A t \in Slot :
    /\ open[t].op = "send" => UnusedMedia(open[t].draft)
    /\ open[t].op = "add" => members[open[t].user].rows = 0

(* The inductive invariant of the proofs.                                  *)
IInv ==
  /\ TypeOK
  /\ WorkNames
  /\ CopiesWereTried
  /\ FlagMeansRow
  /\ RowsCounted
  /\ ClientIsUnique
  /\ ~overlapped => Alone /\ ReadStillHolds
  /\ MediaLinksAgree
  /\ OneRowPerMember
=============================================================================

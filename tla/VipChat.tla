------------------------------ MODULE VipChat -------------------------------
(***************************************************************************)
(* Conversations of two and the translated messages in them: finding or    *)
(* starting a conversation (backend/app/domain/vip_chat/service.py, and    *)
(* start_direct_conversation of domain/messaging/service.py, which asks    *)
(* the same questions), and sending, translating and counting              *)
(* (domain/translation/service.py, repositories/translation.py).           *)
(*                                                                         *)
(* Both users have VIP, which nothing takes back. Who is a contact and who *)
(* is blocked is decided elsewhere (module Circle). A message and its one  *)
(* translation are written together, and are one row here.                 *)
(***************************************************************************)
EXTENDS Requests

ConversationTypes == {"direct", "vip_multilingual"}
Conversation(n) == <<"conversation", n>>
Conversations == {Conversation(n) : n \in 1..3}
Attempt(n) == <<"attempt", n>>
Attempts == {Attempt(n) : n \in 1..3}     \* translation_requests
Usage == <<"usage", 1>>                   \* of the one who sends, for a day
Preferences == <<"preferences", 1>>       \* of the one who reads
ClientIds == 1..2                         \* client_message_id

ASSUME ChatAssumption ==
  Row \cap (Conversations \cup Attempts \cup {Usage, Preferences}) = {} /\ None \notin Row

ConversationRow == [is : Is, type : ConversationTypes]
AttemptRow == [is : Is, status : {"completed", "failed"}, of : Row \cup {None}]
UsageRow == [is : Is, requests : Nat]
VipMessageRow == [is : Is, client : 0..2, status : {"completed", "failed"}]

ChatInit ==
  Start("chat",
    [k \in Row \cup Conversations \cup Attempts \cup {Usage, Preferences} |->
      CASE k \in Row -> [is |-> "none", client |-> 0, status |-> "failed"]
        [] k \in Conversations -> [is |-> "none", type |-> "direct"]
        [] k \in Attempts -> [is |-> "none", status |-> "failed", of |-> None]
        [] k = Usage -> [is |-> "none", requests |-> 0]
        [] OTHER -> [is |-> "none"]],
    [accepted |-> FALSE, blocked |-> FALSE])

-----------------------------------------------------------------------------
(* Conversations. What the two are to each other changes at any time.      *)
CircleChanges ==
  \E a, b \in BOOLEAN :
    /\ ~(a /\ b) /\ <<a, b>> # <<outside.accepted, outside.blocked>>
    /\ Outside([outside EXCEPT !.accepted = a, !.blocked = b])

Fresh(rows, k) ==
  LET free == {r \in rows : db[r].is = "none" /\ ~Pending(r)} IN
  free # {} /\ k = CHOOSE r \in free : TRUE
FindConversationId(type) == {c \in Conversations : Here(c) /\ db[c].type = type}

(* One that is found is returned, to contacts and to others.               *)
StartConversation(type, c) ==
  /\ ~outside.blocked
  /\ FindConversationId(type) = {}
  /\ outside.accepted
  /\ Fresh(Conversations, c) /\ Request(Insert(c, [type |-> type]))

SetLanguagePreferences ==
  /\ db[Preferences].is = "none" /\ ~Pending(Preferences)
  /\ Request(Insert(Preferences, <<>>))

-----------------------------------------------------------------------------
(* Translation. The provider completes it or fails; neither is an error.   *)

(* Faulty variant: an attempt that failed is counted as well.              *)
CountAttempt(outcome) ==
  IF Here(Usage) THEN Change(Usage, "requests", db[Usage].requests + 1)
  ELSE Insert(Usage, [requests |-> 1])

Increment(outcome) ==
  IF outcome # "completed" THEN {}
  ELSE IF Here(Usage) THEN Change(Usage, "requests", db[Usage].requests + 1)
  ELSE Insert(Usage, [requests |-> 1])
TranslateAndRecord(k, outcome, message) ==
  Insert(k, [status |-> outcome, of |-> message]) \cup Increment(outcome)

InterpreterTranslate(k, outcome) ==
  /\ Fresh(Attempts, k)
  /\ Request(TranslateAndRecord(k, outcome, None))

(* A message that was sent before is returned with its translation.        *)
SendVipMessage(r, client, k, outcome) ==
  /\ FindConversationId("vip_multilingual") # {}
  /\ \A m \in Table : db[m].client # client
  /\ Here(Preferences)
  /\ New(r) /\ Fresh(Attempts, k)
  /\ Request(Insert(r, [client |-> client, status |-> outcome])
             \cup TranslateAndRecord(k, outcome, r))

(* Also of a translation that succeeded: what comes back replaces it.      *)
RetryTranslation(r, k, outcome) ==
  /\ Here(r) /\ Fresh(Attempts, k)
  /\ Request(Change(r, "status", outcome) \cup TranslateAndRecord(k, outcome, r))

(* The client's id of a message and the day of a usage row are unique.     *)
ChatClash(w) ==
  \/ \E r \in Row, m \in Table : <<r, "client", db[m].client>> \in w
  \/ \E k \in {Usage, Preferences} : <<k, "is", "here">> \in w /\ Here(k)

VipMessages ==
  \E k \in Attempts, outcome \in {"completed", "failed"} :
    \/ InterpreterTranslate(k, outcome)
    \/ \E r \in Row : \/ \E client \in ClientIds : SendVipMessage(r, client, k, outcome)
                      \/ RetryTranslation(r, k, outcome)

ChatNext ==
  topic = "chat" /\
    \/ \E type \in ConversationTypes, c \in Conversations : StartConversation(type, c)
    \/ CircleChanges \/ SetLanguagePreferences \/ VipMessages
    \/ \E t \in Slot : \/ ~ChatClash(open[t]) /\ Commit(t)
                       \/ RollBack(t) /\ UNCHANGED outside
-----------------------------------------------------------------------------
ChatTypeOK ==
  topic = "chat" =>
    /\ TransactionsOK
    /\ \A c \in Conversations : db[c] \in ConversationRow
    /\ \A k \in Attempts : db[k] \in AttemptRow
    /\ db[Usage] \in UsageRow
    /\ \A r \in Row : db[r] \in VipMessageRow

(* Two people have one conversation of a type, whoever opens it first,     *)
(* whatever becomes of their contact in between, as long as they do not    *)
(* open it at the same time ("idempotent rather than creating a fresh      *)
(* conversation", backend/app/repositories/conversations.py). A message    *)
(* sent twice, even at the same time, is there once.                       *)
OneThreadEach ==
  topic = "chat" =>
    /\ ~overlapped => \A type \in ConversationTypes : Cardinality(FindConversationId(type)) <= 1
    /\ \A r, m \in Table : db[r].client = db[m].client => r = m

(* A day's usage is what was translated that day, for messages, retries    *)
(* and the interpreter together, as long as requests do not overlap; and a *)
(* message with a translation has an attempt that made it, always.         *)
UsageIsWork ==
  topic = "chat" =>
    LET done == {k \in Attempts : Here(k) /\ db[k].status = "completed"} IN
    /\ ~overlapped => db[Usage].requests = Cardinality(done)
    /\ \A r \in Table : db[r].status = "completed" => \E k \in done : db[k].of = r
=============================================================================

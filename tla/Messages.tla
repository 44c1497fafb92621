------------------------------ MODULE Messages ------------------------------
(***************************************************************************)
(* The messages and members of one group conversation: MessagingService    *)
(* (backend/app/domain/messaging/service.py) over conversation_members,    *)
(* messages and media_objects, the sweep that empties expired messages,    *)
(* and the chat screen, which sends a draft again under the same           *)
(* client_message_id when it read no answer.                               *)
(*                                                                         *)
(* A request is a read step, Begin..., and a Commit... of what it decided. *)
(* The answer is sent before the commit, so a draft may be marked sent and *)
(* its row still be lost.  Whether a user is an accepted contact is        *)
(* Circle's part: here anyone may be.                                      *)
(***************************************************************************)
EXTENDS Naturals, FiniteSets

CONSTANTS
  User,       \* users.id; each has one device
  Creator,    \* the user who creates the group
  Draft,      \* messages.client_message_id
  Message,    \* messages.id
  Media,      \* media_objects.id
  Slot,       \* requests being processed at the same time
  MayRetry,   \* bound: drafts that may be sent again
  MaxTries,   \* bound on the times such a draft is sent
  MaxFull,    \* bound on the drafts there are when anything but sending happens
  MaxNotices, \* bound on the membership changes, each of which posts a notice
  None

ASSUME MessagesAssumption ==
  /\ None \notin User \cup Draft \cup Message \cup Media
  /\ Creator \in User
  /\ MayRetry \subseteq Draft
  /\ IsFiniteSet(Slot) /\ Slot # {}
  /\ MaxTries \in Nat \ {0} /\ MaxFull \in Nat /\ MaxNotices \in Nat

VARIABLES
  members,    \* the rows of conversation_members: how many a user has, and the role
  messages,   \* the rows of messages, without the notices
  notices,    \* how many system messages there are
  media,      \* the rows of media_objects
  timer,      \* whether disappearing_timer_seconds is set
  drafts,     \* what the users' screens are sending
  open,       \* the open transactions
  sweep,      \* the rows the running sweep has read, None between sweeps
  overlapped  \* whether two transactions were ever open at once, for the properties only

vars == <<members, messages, notices, media, timer, drafts, open, sweep, overlapped>>

Role == {"member", "admin"}

NoMember == [rows |-> 0, role |-> "member"]
Members == [rows : 0..Cardinality(Slot), role : Role]

NoMessage == [client |-> None, sender |-> None, content |-> "empty", deleted |-> FALSE,
              expires |-> "never", media |-> None]
Messages == [client : Draft \cup {None}, sender : User \cup {None},
             content : {"empty", "first", "edited"}, deleted : BOOLEAN,
             expires : {"never", "later", "past"}, media : Media \cup {None}]

NoMedia == [owner |-> None, message |-> None]
NoDraft == [user |-> None, media |-> None, copies |-> 0, tries |-> 0, sent |-> FALSE]

(* What a request is about to write: a message for a draft, a new content  *)
(* or none for a message, or a user's membership.  The flag says whether a *)
(* sent message will expire, whether a deletion clears the content, and    *)
(* whether the membership row that was read is still there.                *)
Idle == [op |-> "idle", draft |-> None, message |-> None, flag |-> FALSE,
         user |-> None, role |-> "member"]
Work == [op : {"idle", "send", "edit", "delete", "add", "remove", "role"},
         draft : Draft \cup {None}, message : Message \cup {None}, flag : BOOLEAN,
         user : User \cup {None}, role : Role]

TypeOK ==
  /\ members \in [User -> Members]
  /\ messages \in [Message -> Messages]
  /\ notices \in 0..MaxNotices
  /\ media \in [Media -> [owner : User \cup {None}, message : Message \cup {None}]]
  /\ timer \in BOOLEAN
  /\ drafts \in [Draft -> [user : User \cup {None}, media : Media \cup {None},
                           copies : 0..MaxTries, tries : 0..MaxTries, sent : BOOLEAN]]
  /\ open \in [Slot -> Work]
  /\ sweep \in {None} \cup (SUBSET Message)
  /\ overlapped \in BOOLEAN

Init ==
  /\ members = [u \in User |-> NoMember]
  /\ messages = [m \in Message |-> NoMessage]
  /\ notices = 0
  /\ media = [d \in Media |-> NoMedia]
  /\ timer = FALSE
  /\ drafts = [c \in Draft |-> NoDraft]
  /\ open = [t \in Slot |-> Idle]
  /\ sweep = None
  /\ overlapped = FALSE

-----------------------------------------------------------------------------
(* get_membership raises when there are two rows, and the request fails.   *)
IsMember(u) == members[u].rows = 1
IsAdmin(u) == IsMember(u) /\ members[u].role = "admin"

Stored(m) == messages[m].client # None
Owns(u, m) == Stored(m) /\ messages[m].sender = u

Busy == sweep # None \/ \E t \in Slot : open[t] # Idle

(* Bound: changes of the members overlap with each other, and requests     *)
(* about messages with each other and the sweep; neither reads what the    *)
(* other writes after its first step.  The sweep itself waits for nobody.  *)
Apart(work) ==
  /\ \A s \in Slot : open[s].op = "idle" \/ (open[s].user = None) = (work.user = None)
  /\ sweep # None => work.user = None

(* Idle slots are alike: a request takes any one of them.                  *)
Begin(t, work) ==
  /\ open[t] = Idle
  /\ t = CHOOSE s \in Slot : open[s] = Idle
  /\ Apart(work)
  /\ open' = [open EXCEPT ![t] = work]
  /\ overlapped' = (overlapped \/ Busy)
End(t) == open' = [open EXCEPT ![t] = Idle]

(* Bound: once something is written the members change no more than once;  *)
(* uploads are asked for and further drafts written only while nothing but *)
(* sending has happened to the group, and nothing else happens afterwards. *)
Written == {c \in Draft : drafts[c] # NoDraft}
Full ==
  /\ Cardinality(Written) <= MaxFull
  /\ \A d \in Media : media[d] = NoMedia
OnlySent ==
  /\ notices = 0 /\ ~timer
  /\ \A m \in Message : messages[m].content # "edited" /\ ~messages[m].deleted
  /\ \A t \in Slot : open[t].op \in {"idle", "send"}

(* The group is created with some of the creator's contacts, as the only   *)
(* request there is; the screen collects them in a set, nobody twice.      *)
CreateGroup(others) ==
  /\ \A v \in User : members[v] = NoMember
  /\ notices = 0 /\ ~Busy
  /\ members' = [v \in User |->
                   IF v = Creator THEN [rows |-> 1, role |-> "admin"]
                   ELSE IF v \in others THEN [rows |-> 1, role |-> "member"]
                   ELSE NoMember]
  /\ UNCHANGED <<messages, notices, media, timer, drafts, open, sweep, overlapped>>

(* Single writes that nothing else is read for.                            *)
SetTimer(u, on) ==
  /\ Full
  /\ IsMember(u)
  /\ timer' = on
  /\ UNCHANGED <<members, messages, notices, media, drafts, open, sweep, overlapped>>

RequestUpload(u, d) ==
  /\ media[d] = NoMedia
  /\ OnlySent
  /\ media' = [media EXCEPT ![d].owner = u]
  /\ UNCHANGED <<members, messages, notices, timer, drafts, open, sweep, overlapped>>

-----------------------------------------------------------------------------
(* The screen: a draft is sent, and sent again by the transport or by the  *)
(* user while no answer was read.  It may name any upload of its user,     *)
(* used before or not: that is for send_message to find out.               *)
Compose(u, c, d) ==
  /\ drafts[c] = NoDraft
  /\ IsMember(u)
  /\ notices <= 1
  /\ Cardinality(Written) >= MaxFull => OnlySent
  /\ d # None => media[d].owner = u
  /\ drafts' = [drafts EXCEPT ![c] = [NoDraft EXCEPT !.user = u, !.media = d,
                                                     !.copies = 1, !.tries = 1]]
  /\ UNCHANGED <<members, messages, notices, media, timer, open, sweep, overlapped>>

SendAgain(c) ==
  /\ c \in MayRetry
  /\ drafts[c].tries \in 1..(MaxTries - 1)
  /\ ~drafts[c].sent
  /\ drafts' = [drafts EXCEPT ![c].copies = @ + 1, ![c].tries = @ + 1]
  /\ UNCHANGED <<members, messages, notices, media, timer, open, sweep, overlapped>>

Taken(c) == \E m \in Message : messages[m].client = c

(* Faulty variant: an upload may be sent twice.                            *)
UnusedMediaOfAnyMessage(c) == drafts[c].media # None => media[drafts[c].media].owner = drafts[c].user

UnusedMedia(c) ==
  drafts[c].media # None =>
    media[drafts[c].media] = [owner |-> drafts[c].user, message |-> None]

Arrives(c) == drafts[c].copies > 0 /\ IsMember(drafts[c].user)

BeginSend(t, c) ==
  /\ Arrives(c)
  /\ ~Taken(c)
  /\ UnusedMedia(c)
  /\ Begin(t, [Idle EXCEPT !.op = "send", !.draft = c, !.flag = timer])
  /\ drafts' = [drafts EXCEPT ![c].copies = @ - 1]
  /\ UNCHANGED <<members, messages, notices, media, timer, sweep>>

(* An idempotent resend changes nothing but what the screen knows.         *)
AnswerResend(c, heard) ==
  /\ Arrives(c)
  /\ Taken(c)
  /\ drafts' = [drafts EXCEPT ![c].copies = @ - 1, ![c].sent = @ \/ heard]
  /\ UNCHANGED <<members, messages, notices, media, timer, open, sweep, overlapped>>

(* The request is lost on the way or refused.                              *)
LoseRequest(c) ==
  /\ drafts[c].copies > 0
  /\ drafts' = [drafts EXCEPT ![c].copies = @ - 1]
  /\ UNCHANGED <<members, messages, notices, media, timer, open, sweep, overlapped>>

(* The id of a new row is random; which one it is makes no difference.     *)
Unused == {m \in Message : messages[m] = NoMessage}

(* Faulty variant: client_message_id is not unique.                        *)
DuplicateNever(w) == w.op = "send" /\ FALSE

(* client_message_id is unique: inserting one that exists by now fails.    *)
Duplicate(w) == w.op = "send" /\ Taken(w.draft)

CommitSend(t, heard) ==
  LET c == open[t].draft
      d == drafts[c].media
      m == CHOOSE n \in Unused : TRUE IN
  /\ open[t].op = "send"
  /\ ~Duplicate(open[t])
  /\ Unused # {}
  /\ messages' = [messages EXCEPT ![m] =
       [client |-> c, sender |-> drafts[c].user, content |-> "first", deleted |-> FALSE,
        expires |-> IF open[t].flag THEN "later" ELSE "never", media |-> d]]
  /\ media' = [e \in Media |-> IF e = d THEN [media[e] EXCEPT !.message = m] ELSE media[e]]
  /\ drafts' = [drafts EXCEPT ![c].sent = @ \/ heard]
  /\ End(t)
  /\ UNCHANGED <<members, notices, timer, sweep, overlapped>>

-----------------------------------------------------------------------------
(* Editing and deleting, by the sender, and deleting by an administrator.  *)
BeginEdit(t, u, m) ==
  /\ Full
  /\ IsMember(u) /\ Owns(u, m)
  /\ Begin(t, [Idle EXCEPT !.op = "edit", !.message = m])
  /\ UNCHANGED <<members, messages, notices, media, timer, drafts, sweep>>

CommitEdit(t) ==
  /\ open[t].op = "edit"
  /\ messages' = [messages EXCEPT ![open[t].message].content = "edited"]
  /\ End(t)
  /\ UNCHANGED <<members, notices, media, timer, drafts, sweep, overlapped>>

(* Emptying a content that was read empty writes nothing.                  *)
Delete(t, m) ==
  /\ Full
  /\ Begin(t, [Idle EXCEPT !.op = "delete", !.message = m,
                           !.flag = messages[m].content # "empty"])
  /\ UNCHANGED <<members, messages, notices, media, timer, drafts, sweep>>

BeginDelete(t, u, m) == IsMember(u) /\ Owns(u, m) /\ Delete(t, m)
BeginAdminDelete(t, m) == Stored(m) /\ Delete(t, m)

CommitDelete(t) ==
  LET w == open[t] IN
  /\ w.op = "delete"
  /\ messages' = [messages EXCEPT ![w.message].deleted = TRUE,
                                  ![w.message].content = IF w.flag THEN "empty" ELSE @]
  /\ End(t)
  /\ UNCHANGED <<members, notices, media, timer, drafts, sweep, overlapped>>

-----------------------------------------------------------------------------
(* Time passes for one message; the scheduler's sweep empties those whose  *)
(* time is up and that are not deleted.                                    *)
Expire(m) ==
  /\ messages[m].expires = "later"
  /\ messages' = [messages EXCEPT ![m].expires = "past"]
  /\ UNCHANGED <<members, notices, media, timer, drafts, open, sweep, overlapped>>

(* Faulty variant: an edited message is not found.                         *)
ExpiredUnedited == {m \in Message : /\ messages[m].expires = "past"
                                    /\ ~messages[m].deleted
                                    /\ messages[m].content # "edited"}

Expired == {m \in Message : messages[m].expires = "past" /\ ~messages[m].deleted}

BeginSweep ==
  /\ sweep = None
  /\ Expired # {}
  /\ sweep' = Expired
  /\ overlapped' = (overlapped \/ Busy)
  /\ UNCHANGED <<members, messages, notices, media, timer, drafts, open>>

CommitSweep ==
  /\ sweep # None
  /\ messages' = [m \in Message |->
                    IF m \in sweep THEN [messages[m] EXCEPT !.deleted = TRUE, !.content = "empty"]
                    ELSE messages[m]]
  /\ sweep' = None
  /\ UNCHANGED <<members, notices, media, timer, drafts, open, overlapped>>

FailSweep ==
  /\ sweep # None
  /\ sweep' = None
  /\ UNCHANGED <<members, messages, notices, media, timer, drafts, open, overlapped>>

-----------------------------------------------------------------------------
(* Membership.  Adding is for the admins of the group, removing for them   *)
(* and the member, and for a platform administrator, who needs no row.     *)
BeginMembership(t, op, v, role) ==
  /\ Full
  /\ Written # {} => notices = 0
  /\ notices < MaxNotices
  /\ Begin(t, [Idle EXCEPT !.op = op, !.user = v, !.role = role, !.flag = TRUE])
  /\ UNCHANGED <<members, messages, notices, media, timer, drafts, sweep>>

(* Faulty variant: whether the user is a member already is not looked up.  *)
BeginAddAgain(t, u, v) == IsAdmin(u) /\ BeginMembership(t, "add", v, "member")

BeginAdd(t, u, v) == IsAdmin(u) /\ members[v].rows = 0 /\ BeginMembership(t, "add", v, "member")

BeginRemove(t, u, v) ==
  /\ IsMember(u) /\ IsMember(v)
  /\ u = v \/ IsAdmin(u)
  /\ BeginMembership(t, "remove", v, "member")

BeginAdminRemove(t, v) == IsMember(v) /\ BeginMembership(t, "remove", v, "member")

BeginSetRole(t, u, v, role) ==
  /\ IsAdmin(u) /\ IsMember(v)
  /\ members[v].role # role
  /\ BeginMembership(t, "role", v, role)

PostNotice == notices < MaxNotices /\ notices' = notices + 1

CommitAdd(t) ==
  LET v == open[t].user IN
  /\ open[t].op = "add"
  /\ members' = [members EXCEPT ![v] = [rows |-> @.rows + 1, role |-> "member"]]
  /\ PostNotice
  /\ End(t)
  /\ UNCHANGED <<messages, media, timer, drafts, sweep, overlapped>>

(* Deleting a row that is gone does nothing; the requests that have read   *)
(* the row it deletes now hold one that is gone.                           *)
CommitRemove(t) ==
  LET v == open[t].user IN
  /\ open[t].op = "remove"
  /\ members' = IF open[t].flag
                THEN [members EXCEPT ![v] = [rows |-> @.rows - 1, role |-> "member"]]
                ELSE members
  /\ PostNotice
  /\ open' = [s \in Slot |->
                CASE s = t -> Idle
                  [] s # t /\ open[s].user = v /\ open[s].op \in {"remove", "role"} ->
                       [open[s] EXCEPT !.flag = FALSE]
                  [] OTHER -> open[s]]
  /\ UNCHANGED <<messages, media, timer, drafts, sweep, overlapped>>

(* Faulty variant: a role the table does not know.                         *)
CommitSetRoleMisspelt(t) ==
  LET v == open[t].user IN
  /\ open[t].op = "role" /\ open[t].flag
  /\ members' = [members EXCEPT ![v].role = "owner"]
  /\ PostNotice
  /\ End(t)
  /\ UNCHANGED <<messages, media, timer, drafts, sweep, overlapped>>

(* Updating a row that is gone fails.                                      *)
CommitSetRole(t) ==
  LET v == open[t].user IN
  /\ open[t].op = "role"
  /\ open[t].flag
  /\ members' = [members EXCEPT ![v].role = open[t].role]
  /\ PostNotice
  /\ End(t)
  /\ UNCHANGED <<messages, media, timer, drafts, sweep, overlapped>>

-----------------------------------------------------------------------------
(* A transaction fails, before its answer or, for a send, after it.        *)
RollBack(t, heard) ==
  LET w == open[t] IN
  /\ w # Idle
  /\ heard => w.op = "send" /\ ~Duplicate(w)
  /\ drafts' = IF heard THEN [drafts EXCEPT ![w.draft].sent = TRUE] ELSE drafts
  /\ End(t)
  /\ UNCHANGED <<members, messages, notices, media, timer, sweep, overlapped>>

Phones ==
  \/ \E others \in SUBSET (User \ {Creator}) \ {{}} : CreateGroup(others)
  \/ \E u \in User, on \in BOOLEAN : SetTimer(u, on)
  \/ \E u \in User, d \in Media : RequestUpload(u, d)
  \/ \E u \in User, c \in Draft, d \in Media \cup {None} : Compose(u, c, d)
  \/ \E c \in Draft : SendAgain(c) \/ LoseRequest(c)
  \/ \E c \in Draft, heard \in BOOLEAN : AnswerResend(c, heard)

Content ==
  \/ \E t \in Slot, c \in Draft : BeginSend(t, c)
  \/ \E t \in Slot, heard \in BOOLEAN : CommitSend(t, heard)
  \/ \E t \in Slot, u \in User, m \in Message : BeginEdit(t, u, m) \/ BeginDelete(t, u, m)
  \/ \E t \in Slot, m \in Message : BeginAdminDelete(t, m)
  \/ \E t \in Slot : CommitEdit(t) \/ CommitDelete(t)
  \/ \E m \in Message : Expire(m)
  \/ BeginSweep \/ CommitSweep \/ FailSweep

Membership ==
  \/ \E t \in Slot, u, v \in User : BeginAdd(t, u, v) \/ BeginRemove(t, u, v)
  \/ \E t \in Slot, v \in User : BeginAdminRemove(t, v)
  \/ \E t \in Slot, u, v \in User, role \in Role : BeginSetRole(t, u, v, role)
  \/ \E t \in Slot : CommitAdd(t) \/ CommitRemove(t) \/ CommitSetRole(t)

Next ==
  \/ Phones \/ Content \/ Membership
  \/ \E t \in Slot, heard \in BOOLEAN : RollBack(t, heard)

(* The sweep runs again and again, and does not fail for ever.             *)
Fairness == WF_vars(BeginSweep) /\ SF_vars(CommitSweep)

Spec == Init /\ [][Next]_vars /\ Fairness
-----------------------------------------------------------------------------
(* However often a draft is sent and however its requests interleave, its  *)
(* message is in the table once: "Idempotency keys required on             *)
(* message-send" (docs/DITSALA_MASTER_SPEC.md, section 8).                 *)
SentOnce == \A c \in Draft : Cardinality({m \in Message : messages[m].client = c}) <= 1

(* A message whose time is up and that nobody deleted is emptied, whatever *)
(* edits, deletions and failed sweeps come between.                        *)
ExpiredVanishes ==
  \A m \in Message :
    messages[m].expires = "past" /\ ~messages[m].deleted ~> messages[m].content = "empty"

(* As long as no two transactions were open at once, an upload belongs to  *)
(* the one message that refers to it; who may download it is decided by    *)
(* that message's conversation (get_media_download_url).                   *)
MediaLinksAgree ==
  ~overlapped => \A m \in Message, d \in Media : messages[m].media = d <=> media[d].message = m

(* As long as no two transactions were open at once, a user has at most    *)
(* one row in the group; with two, every request of theirs fails.          *)
OneRowPerMember == ~overlapped => \A u \in User : members[u].rows <= 1

(* A deleted message stays empty: "edit/delete (tombstone rows,            *)
(* edited_at/deleted_at, ciphertext replaced/cleared)"                     *)
(* (docs/DITSALA_MASTER_SPEC.md, section 21).                              *)
TombstonesStayEmpty ==
  \A m \in Message : messages[m].deleted => messages[m].content = "empty"
=============================================================================

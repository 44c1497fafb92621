------------------------------ MODULE Meetings ------------------------------
(***************************************************************************)
(* One conference room: who may enter it and when                          *)
(* (backend/app/domain/meetings/service.py behind routers/meetings.py),    *)
(* the page its guests open (apps/meet/app/[meetingId]/page.tsx), the room *)
(* at the SFU, and the job that starts a scheduled meeting                 *)
(* (tasks/scheduler.py).                                                   *)
(*                                                                         *)
(* Titles, passwords and the host's PIN are left out: a wrong one is an    *)
(* error and changes nothing. The minutes of a meeting and what its        *)
(* participants do inside are in MeetingTools.                             *)
(***************************************************************************)
EXTENDS Requests

CONSTANTS
  Host, Guest,  \* the host; whoever has no account
  Cap           \* max_participants

Meeting == "meeting"

ASSUME MeetingsAssumption ==
  /\ Cap \in Nat /\ Row # {} /\ Meeting \notin Row
  /\ {Host, Guest, None} \cap User = {} /\ Host # Guest /\ None \notin {Host, Guest}

(* outside: what the pages show, which requests to leave are on their way, *)
(* and how near the scheduled start is ("prep" is the join window).        *)
page == outside.page
leaves == outside.leaves
clock == outside.clock

Participant == Row
MeetingRow == [is : Is, status : {"scheduled", "live", "ended"},
               locked : BOOLEAN, waiting_room : BOOLEAN, scheduled : BOOLEAN]
ParticipantRow ==
  [is : Is, user : User \cup {Host, Guest, None}, role : {"host", "co_host", "participant"},
   admission : {"waiting", "admitted", "removed"}, joined : BOOLEAN, left : BOOLEAN]
NoRow == [is |-> "none", user |-> None, role |-> "participant", admission |-> "admitted",
          joined |-> FALSE, left |-> FALSE]

MeetingsTypeOK ==
  topic = "room" =>
    /\ TransactionsOK
    /\ db[Meeting] \in MeetingRow
    /\ \A p \in Participant : db[p] \in ParticipantRow
    /\ outside \in [clock : {"early", "prep", "due"}, leaves : SUBSET Participant,
                    page : [Participant -> {"form", "waiting", "token", "room"}]]

(* create_meeting has made the meeting and the host's row.                 *)
HostRow == CHOOSE p \in Participant : TRUE
MeetingsInit ==
  \E room, scheduled \in BOOLEAN :
    Start("room",
      [k \in Participant \cup {Meeting} |->
        IF k = Meeting
        THEN [is |-> "here", status |-> "scheduled", locked |-> FALSE,
              waiting_room |-> room, scheduled |-> scheduled]
        ELSE IF k = HostRow
        THEN [NoRow EXCEPT !.is = "here", !.user = Host, !.role = "host"]
        ELSE NoRow],
      [clock |-> IF scheduled THEN "early" ELSE "due", leaves |-> {},
       page |-> [p \in Participant |-> "form"]])

-----------------------------------------------------------------------------
(* What the handlers read.                                                 *)
meeting == db[Meeting]
Exists == Here(Meeting)
In(p) == Exists /\ Here(p)

(* get_by_meeting_and_user raises when there are two rows.                 *)
RowsOf(u) == {p \in Participant : In(p) /\ db[p].user = u}
OnlyRow(u, p) == RowsOf(u) = {p}

HostRoles == {"host", "co_host"}
RequireHostOrCohost ==
  \E u \in User \cup {Host}, p \in Participant : OnlyRow(u, p) /\ db[p].role \in HostRoles

WithinJoinWindow == meeting.status = "scheduled" => clock # "early"
Joinable(isHost) ==
  /\ Exists /\ meeting.status \in {"scheduled", "live"}
  /\ ~meeting.locked
  /\ isHost \/ WithinJoinWindow

ActiveParticipants ==
  {p \in Table :
     /\ ~db[p].left
     /\ \/ db[p].admission = "waiting"
        \/ db[p].admission = "admitted" /\ db[p].joined}
GuestCapacity == Cardinality(ActiveParticipants) < Cap

MarkLive == IF meeting.status = "scheduled" THEN Change(Meeting, "status", "live") ELSE {}

(* A row that was rolled back after the answer does not come back.         *)
Newcomer(p) ==
  LET fresh == {q \in Unused : page[q] = "form"} IN
  fresh # {} /\ p = CHOOSE q \in fresh : TRUE
Arrival(p, u, role, admission) ==
  Insert(p, [user |-> u, role |-> role, admission |-> admission])
Present(p) == Change(p, "joined", TRUE) \cup Change(p, "left", FALSE)

Shows(p, what) == [outside EXCEPT !.page[p] = what]
Show(p, what) == outside' = Shows(p, what)

-----------------------------------------------------------------------------
(* Entering. Someone who has a row is not counted again, and waits if it   *)
(* says so.                                                                *)
JoinAgain(u, p) ==
  /\ Joinable(u = Host)
  /\ OnlyRow(u, p)
  /\ page[p] = "form"
  /\ \/ /\ db[p].admission = "waiting"
        /\ Call({})
        /\ Show(p, "waiting")
     \/ /\ db[p].admission = "admitted"
        /\ Call(Present(p) \cup MarkLive)
        /\ Show(p, "token")

(* With the PIN, or the host's link, whoever it is enters as the host.     *)
HostPinJoin(p) == JoinAgain(Host, p)

Enter(p, u) ==
  /\ Joinable(FALSE) /\ GuestCapacity /\ Newcomer(p)
  /\ IF meeting.waiting_room
     THEN /\ Call(Arrival(p, u, "participant", "waiting"))
          /\ Show(p, "waiting")
     ELSE /\ Call(Arrival(p, u, "participant", "admitted") \cup Present(p) \cup MarkLive)
          /\ Show(p, "token")

Join(u, p) == RowsOf(u) = {} /\ Enter(p, u)
GuestJoin(p) == Enter(p, Guest)

(* The waiting page asks for its own row until there is a token.           *)
GetParticipantStatus(p) ==
  /\ page[p] = "waiting"
  /\ In(p) /\ db[p].admission = "admitted"
  /\ Outside(Shows(p, "token"))

(* The SFU lets in whoever holds a token, and makes the room if need be.   *)
Connect(p) ==
  /\ page[p] = "token"
  /\ Outside(Shows(p, "room"))

(* The page tells the backend that it was disconnected, "best-effort", and *)
(* shows the form again; a closed page tells nobody.                       *)
Disconnect(p, told) ==
  /\ page[p] = "room"
  /\ Outside([outside EXCEPT !.page[p] = "form",
                           !.leaves = IF told THEN @ \cup {p} ELSE @])

Leave(p) ==
  /\ p \in leaves
  /\ outside' = [outside EXCEPT !.leaves = @ \ {p}]
  /\ IF In(p) /\ ~db[p].left THEN Call(Change(p, "left", TRUE)) ELSE UNCHANGED tables

-----------------------------------------------------------------------------
(* Host and co-host. Whoever the SFU throws out is told so by it, and the  *)
(* page reports that as any other disconnection.                           *)
ThrowOut(ps) ==
  LET out == {p \in ps : page[p] = "room"} IN
  outside' = [outside EXCEPT
                !.page = [p \in Participant |-> IF p \in out THEN "form" ELSE @[p]],
                !.leaves = @ \cup out]

End ==
  /\ Exists /\ meeting.status \in {"scheduled", "live"}
  /\ Call(Change(Meeting, "status", "ended"))
  /\ ThrowOut(Participant)

(* The rows of the participants go with the meeting's.                     *)
DeleteMeeting == Exists /\ Request(Delete(Meeting))

Admit(p) ==
  /\ RequireHostOrCohost /\ In(p)
  /\ Request(Change(p, "admission", "admitted"))

Remove(p) ==
  /\ RequireHostOrCohost /\ In(p)
  /\ db[p].role # "host"
  /\ Call(Change(p, "admission", "removed") \cup Change(p, "left", TRUE))
  /\ ThrowOut({p})

Promote(p) == In(p) /\ Request(Change(p, "role", "co_host"))

InviteCoHost(u, p) ==
  /\ Exists
  /\ \/ OnlyRow(u, p) /\ Request(Change(p, "role", "co_host"))
     \/ /\ RowsOf(u) = {} /\ Newcomer(p)
        /\ Request(Arrival(p, u, "co_host", "admitted"))

SetLocked(on) == Exists /\ Request(Change(Meeting, "locked", on))
SetWaitingRoom(on) == Exists /\ Request(Change(Meeting, "waiting_room", on))

-----------------------------------------------------------------------------
(* The scheduled start comes nearer.                                       *)
Tick ==
  /\ clock \in {"early", "prep"}
  /\ Outside([outside EXCEPT !.clock = IF clock = "early" THEN "prep" ELSE "due"])

DueToStart ==
  Exists /\ meeting.status \in {"scheduled", "live"} /\ meeting.scheduled /\ clock = "due"

(* Faulty variants: the start of the meeting lets nobody in; or everybody  *)
(* who is not admitted.                                                    *)
StartOnly == MarkLive
LetAnyoneIn ==
  MarkLive \cup UNION {Change(p, "admission", "admitted") : p \in {q \in Participant : In(q)}}

LetEveryoneIn ==
  MarkLive \cup UNION {Change(p, "admission", "admitted") :
                         p \in {q \in Participant : In(q) /\ db[q].admission = "waiting"}}

AutoPromote(j) ==
  /\ DueToStart
  /\ LetEveryoneIn # {}
  /\ Begin(j, LetEveryoneIn)
  /\ UNCHANGED <<asked, outside>>

(* A meeting that is deleted by then has no row to update or to refer to.  *)
CommitMeeting(t) == Exists /\ Commit(t)
FailMeeting(t) ==
  /\ ~Exists \/ t \in Job \/ \E p \in Participant : Writes(open[t], p, "is")
  /\ RollBack(t)
  /\ UNCHANGED outside

Entrances ==
  \/ \E p \in Participant : HostPinJoin(p) \/ \E u \in User : JoinAgain(u, p)
  \/ \E u \in User, p \in Participant : Join(u, p)
  \/ \E p \in Participant : GuestJoin(p) \/ GetParticipantStatus(p)

Exits ==
  \/ \E p \in Participant : Leave(p)
  \/ End \/ DeleteMeeting
  \/ \E u \in User, p \in Participant : InviteCoHost(u, p)

Moderation ==
  \/ \E p \in Participant : Admit(p) \/ Remove(p) \/ Promote(p)
  \/ \E on \in BOOLEAN : SetLocked(on) \/ SetWaitingRoom(on)

Pages == \E p \in Participant : Connect(p) \/ \E told \in BOOLEAN : Disconnect(p, told)

MeetingsNext ==
  topic = "room" /\
    \/ Entrances \/ Exits \/ Moderation \/ Pages
    \/ Tick
    \/ \E j \in Job : AutoPromote(j)
    \/ \E t \in Slot \cup Job : CommitMeeting(t) \/ FailMeeting(t)

(* The job runs again and again and does not fail for ever, the page goes  *)
(* on asking, and the clock runs.                                          *)
MeetingsFairness ==
  /\ WF_vars(topic = "room" /\ Tick)
  /\ \A j \in Job : WF_vars(topic = "room" /\ AutoPromote(j))
                  /\ SF_vars(topic = "room" /\ CommitMeeting(j))
  /\ \A p \in Participant : WF_vars(topic = "room" /\ GetParticipantStatus(p))
-----------------------------------------------------------------------------
(* Nobody whose row says waiting holds a token or is in the room: "so a    *)
(* waiting participant never receives real room-join credentials"          *)
(* (backend/app/domain/meetings/service.py, JoinResult), however joins,    *)
(* admissions and the job cross.                                           *)
WaitingHasNoToken ==
  topic = "room" =>
  \A p \in Participant : In(p) /\ db[p].admission = "waiting" => page[p] \notin {"token", "room"}

(* As long as no two transactions were open at once, what is over is over: *)
(* neither a join nor the job that starts meetings takes an ended meeting  *)
(* back to live, and nobody who was removed is let in again but by a       *)
(* request of the host (admit_participant), the job included.              *)
OverIsOver ==
  [][topic = "room" /\ ~overlapped =>
       /\ meeting.status = "ended" => meeting'.status = "ended"
       /\ \A p \in Participant :
            In(p) /\ db[p].admission = "removed" /\ db'[p].admission # "removed" =>
              \E s \in Slot : Writes(open[s], p, "admission")]_vars

(* As long as no two transactions were open at once, a user has one row in *)
(* the meeting; with two, every request of theirs raises.                  *)
OneRowPerUser ==
  topic = "room" /\ ~overlapped => \A u \in User \cup {Host} : Cardinality(RowsOf(u)) <= 1

(* Who waits when the scheduled start comes is let in by the job, without  *)
(* the host, and the page finds out, unless the meeting is over or they    *)
(* were removed ("all participants still in `waiting` auto-transition to   *)
(* `live` with no host action required", backend/app/tasks/scheduler.py).  *)
(* After the start there is again and again a moment when nobody waits.    *)
Expected ==
  /\ topic = "room" /\ Exists /\ meeting.scheduled /\ clock = "due"
  /\ meeting.status # "ended"
  /\ \E p \in Participant : page[p] = "waiting" /\ In(p) /\ db[p].admission # "removed"
WaitingGetsIn == Expected ~> ~Expected
=============================================================================

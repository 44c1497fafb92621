---------------------------- MODULE MeetingTools ----------------------------
(***************************************************************************)
(* What goes on inside a meeting (backend/app/domain/meetings/service.py): *)
(* polls, questions, chat, breakout rooms, registrations and languages;    *)
(* who may speak on the stage; its minutes; and the attendance report      *)
(* (domain/meetings/analytics.py).                                         *)
(*                                                                         *)
(* The checks of host and plan in front of most of these are the same read *)
(* each time and change nothing; Meetings and Plans have them.             *)
(***************************************************************************)
EXTENDS Requests

CONSTANTS
  Minutes  \* conference.max_duration_minutes of the host's plan, in steps

-----------------------------------------------------------------------------
(* Polls, breakout rooms and the rows people have in them. Rows of one     *)
(* kind belong to whoever they are about; registrations and languages are  *)
(* unique in the database, votes and assignments are not.                  *)
Poll == "poll"
Breakout == "breakout"

Unique == {"registration", "language"}
Kinds == Unique \cup {"vote", "assignment", "question", "message"}

ASSUME ToolsAssumption ==
  /\ Minutes \in Nat \ {0} /\ {Poll, Breakout} \cap Row = {}
  /\ None \notin Nat \cup Kinds

OpenRow == [is : Is, closed : BOOLEAN]
RecordRow == [is : Is, kind : Kinds \cup {None}, who : User \cup {None}, value : Nat,
              status : {"open", "answered", "dismissed"}]

RecordsInit ==
  Start("records",
    [k \in Row \cup {Poll, Breakout} |->
      IF k \in Row
      THEN [is |-> "none", kind |-> None, who |-> None, value |-> 0, status |-> "open"]
      ELSE [is |-> "none", closed |-> FALSE]],
    [upvotes |-> [r \in Row |-> 0], inBreakout |-> {}])

Of(kind, u) == {r \in Table : db[r].kind = kind /\ db[r].who = u}
Owned(kind, u) == [kind |-> kind, who |-> u]
InMeeting(r, kind) == Here(r) /\ db[r].kind = kind

CreatePoll == ~Here(Poll) /\ ~Pending(Poll) /\ Request(Insert(Poll, [closed |-> FALSE]))
ClosePoll == Here(Poll) /\ Request(Change(Poll, "closed", TRUE))

(* Faulty variant: every vote is a new row.                                *)
VotePollAgain(u, o, r) ==
  /\ Here(Poll) /\ ~db[Poll].closed
  /\ New(r) /\ Request(Insert(r, Owned("vote", u)) \cup Change(r, "value", o))

VotePoll(u, o, r) ==
  /\ Here(Poll) /\ ~db[Poll].closed
  /\ Upsert(Of("vote", u), r, Owned("vote", u), [value |-> o])

AskQuestion(u, r) == New(r) /\ Request(Insert(r, Owned("question", u)))

UpvoteQuestion(r) ==
  /\ InMeeting(r, "question")
  /\ Call(Change(r, "value", db[r].value + 1))
  /\ outside' = [outside EXCEPT !.upvotes[r] = @ + 1]
AnswerQuestion(r) == InMeeting(r, "question") /\ Request(Change(r, "status", "answered"))
DismissQuestion(r) == InMeeting(r, "question") /\ Request(Change(r, "status", "dismissed"))

SendMessage(u, r) == New(r) /\ Request(Insert(r, Owned("message", u)))

CreateBreakoutRooms ==
  ~Here(Breakout) /\ ~Pending(Breakout) /\ Request(Insert(Breakout, [closed |-> FALSE]))
AssignToBreakoutRoom(u, r) ==
  /\ Here(Breakout)
  /\ Of("assignment", u) = {}
  /\ New(r) /\ Request(Insert(r, Owned("assignment", u)))
(* The token is for a room of its own at the SFU, which nobody deletes.    *)
JoinBreakoutRoom(u) ==
  /\ Here(Breakout) /\ ~db[Breakout].closed
  /\ Cardinality(Of("assignment", u)) = 1
  /\ Outside([outside EXCEPT !.inBreakout = @ \cup {u}])
CloseBreakoutRooms == Here(Breakout) /\ Request(Change(Breakout, "closed", TRUE))

RegisterForMeeting(u, name, r) ==
  Upsert(Of("registration", u), r, Owned("registration", u), [value |-> name])
SetParticipantLanguage(u, language, r) ==
  Upsert(Of("language", u), r, Owned("language", u), [value |-> language])

(* The unique constraints are checked when the row is flushed.             *)
Taken(w) ==
  \E r \in Row : \E kind \in Unique :
    /\ Writes(w, r, "is") /\ <<r, "kind", kind>> \in w
    /\ \E u \in User : <<r, "who", u>> \in w /\ Of(kind, u) # {}
CommitRecords(t) == ~Taken(open[t]) /\ Commit(t)
FailRecords(t) == Taken(open[t]) /\ RollBack(t) /\ UNCHANGED outside

PollsAndQuestions ==
  \/ CreatePoll \/ ClosePoll
  \/ \E u \in User, r \in Row :
       \/ \E o \in 1..2 : VotePoll(u, o, r)
       \/ AskQuestion(u, r)
  \/ \E r \in Row : UpvoteQuestion(r) \/ AnswerQuestion(r) \/ DismissQuestion(r)
Breakouts ==
  \/ CreateBreakoutRooms \/ CloseBreakoutRooms
  \/ \E u \in User : JoinBreakoutRoom(u) \/ \E r \in Row : AssignToBreakoutRoom(u, r)
Speech ==
  \E u \in User, r \in Row :
    SendMessage(u, r) \/ \E l \in 1..2 : SetParticipantLanguage(u, l, r)
Registrations ==
  \E u \in User, r \in Row, name \in 1..2 : RegisterForMeeting(u, name, r)

RecordsNext ==
  topic = "records" /\
    \/ PollsAndQuestions \/ Breakouts \/ Speech \/ Registrations
    \/ \E t \in Slot : CommitRecords(t) \/ FailRecords(t)

-----------------------------------------------------------------------------
(* The stage of a large meeting. What a participant may send is what the   *)
(* last token or the last call to the SFU said. outside: who is connected, *)
(* who may send, the tokens everybody was given (TRUE: one to publish),    *)
(* and history: who was unmuted since they came; raced: the SFU was told   *)
(* something of a row that another request was changing, or the stage by a *)
(* request that failed, or by a token older than the row.                  *)
StageRow == [is : Is, role : {"host", "participant"}, stage : {"audience", "on_stage"}]
StageInit ==
  \E host \in Row :
    Start("stage",
      [p \in Row |-> [is |-> "here", role |-> IF p = host THEN "host" ELSE "participant",
                      stage |-> IF p = host THEN "on_stage" ELSE "audience"]],
      [connected |-> {}, publishes |-> {}, tokens |-> [p \in Row |-> {}], unmuted |-> {},
       raced |-> FALSE])

connected == outside.connected
Publishing(p, on) == IF on THEN outside.publishes \cup {p} ELSE outside.publishes \ {p}
(* The SFU knows nobody who is not connected: the call raises.             *)
CanPublish(p, on, unmuted) ==
  /\ p \in connected
  /\ outside' = [outside EXCEPT !.publishes = Publishing(p, on), !.unmuted = unmuted,
                                !.raced = @ \/ ~Quiet]

(* A token says what the row says when it is made, and is good for some    *)
(* time: whoever lost the connection comes back with any they were given.  *)
TakeToken(p) ==
  LET on == db[p].stage = "on_stage" IN
  /\ Here(p) /\ on \notin outside.tokens[p]
  /\ Outside([outside EXCEPT !.tokens[p] = @ \cup {on}])
EnterStage(p) ==
  \E on \in outside.tokens[p] :
    Outside([outside EXCEPT !.connected = @ \cup {p}, !.unmuted = @ \ {p},
                            !.raced = @ \/ ~Quiet \/ (on /\ db[p].stage # "on_stage"),
                            !.publishes = Publishing(p, on)])
Drop(p) == p \in connected /\ Outside([outside EXCEPT !.connected = @ \ {p}])

InviteToStage(p) ==
  /\ Here(p) /\ Call(Change(p, "stage", "on_stage"))
  /\ CanPublish(p, TRUE, outside.unmuted)

MoveToAudience(p) ==
  /\ Here(p) /\ db[p].role # "host"
  /\ Call(Change(p, "stage", "audience"))
  /\ CanPublish(p, FALSE, outside.unmuted \ {p})

SetParticipantMuted(p, muted) ==
  /\ Here(p) /\ Call({})
  /\ CanPublish(p, ~muted, IF muted THEN outside.unmuted \ {p} ELSE outside.unmuted \cup {p})

(* The SFU was told before the transaction ends, and is not told again.    *)
FailStage(t) ==
  /\ RollBack(t)
  /\ outside' = [outside EXCEPT !.raced = @ \/ \E c \in open[t] : c[3] = "on_stage"]

StageNext ==
  topic = "stage" /\
    \/ \E p \in Row :
         \/ TakeToken(p) \/ EnterStage(p) \/ Drop(p)
         \/ InviteToStage(p) \/ MoveToAudience(p)
         \/ \E muted \in BOOLEAN : SetParticipantMuted(p, muted)
    \/ \E t \in Slot : Commit(t) \/ FailStage(t)

-----------------------------------------------------------------------------
(* The minutes of a meeting: planned ones, cut to the plan when it is      *)
(* created, and added ones. A meeting without a planned end has no limit.  *)
(* granted is what an administrator has added.                             *)
(* Faulty variant: the plan does not bound what was planned.               *)
Unclamped(n) == n

ClampDuration(n) == IF n # None /\ n > Minutes THEN Minutes ELSE n
MinutesRow == [is : Is, status : {"scheduled", "live", "ended"},
               planned : (0..Minutes) \cup {None}, added : Nat]
MinutesInit ==
  \E n \in (1..Minutes + 1) \cup {None} :
    Start("minutes",
      [k \in {"minutes"} |-> [is |-> "here", status |-> "scheduled",
                              planned |-> ClampDuration(n), added |-> 0]],
      [granted |-> 0])
minutes == db["minutes"]

GoLive == minutes.status = "scheduled" /\ Request(Change("minutes", "status", "live"))

TotalExceedsCap(n) == minutes.planned + minutes.added + n > Minutes
Extend(n) ==
  /\ minutes.status = "live"
  /\ minutes.planned # None => ~TotalExceedsCap(n)
  /\ Request(Change("minutes", "added", minutes.added + n))
AdminExtend(n) ==
  /\ minutes.status = "live"
  /\ Call(Change("minutes", "added", minutes.added + n))
  /\ outside' = [outside EXCEPT !.granted = @ + n]
AdminEnd == minutes.status # "ended" /\ Request(Change("minutes", "status", "ended"))

MinutesNext ==
  topic = "minutes" /\
    \/ GoLive \/ AdminEnd
    \/ \E n \in 1..2 : Extend(n) \/ AdminExtend(n)
    \/ \E t \in Slot : Commit(t)

-----------------------------------------------------------------------------
(* Attendance. now moves at every request; there is who has come and not   *)
(* gone as far as the backend was told, busiest how many they were at most.*)
(* History: lost, a stay that is not in the rows any more (somebody came   *)
(* again, or was removed) or never was (somebody who had to wait came in); *)
(* blurred, a row that does not tell its last stay.                        *)
AttendanceRow == [is : Is, joined : Nat \cup {None}, left : Nat \cup {None}, removed : BOOLEAN]
AttendanceInit ==
  Start("attendance",
    [p \in Row |-> [is |-> "here", joined |-> None, left |-> None, removed |-> FALSE]],
    [now |-> 0, there |-> {}, busiest |-> 0, lost |-> FALSE, blurred |-> FALSE])

there == outside.there
Busiest(group) ==
  IF Cardinality(group) > outside.busiest THEN Cardinality(group) ELSE outside.busiest

(* Whoever joins again, even from a second window, starts a new stay.      *)
Arrive(p) ==
  /\ ~db[p].removed
  /\ Call(Change(p, "joined", now + 1) \cup Change(p, "left", None))
  /\ outside' = [now |-> now + 1, there |-> there \cup {p}, busiest |-> Busiest(there \cup {p}),
                 lost |-> outside.lost \/ db[p].joined # None,
                 blurred |-> outside.blurred \/ Pending(p)]
(* Whoever had to wait is given the token by get_participant_status, which *)
(* writes nothing.                                                         *)
ArriveAdmitted(p) ==
  /\ ~db[p].removed /\ p \notin there
  /\ Outside([outside EXCEPT !.there = @ \cup {p}, !.busiest = Busiest(there \cup {p}),
                             !.lost = TRUE])
(* Blurred where it moves the end of a stay that is over already.          *)
GoAway(p) ==
  /\ Call(Change(p, "left", now + 1))
  /\ outside' = [outside EXCEPT
       !.now = @ + 1, !.there = @ \ {p},
       !.blurred = @ \/ Pending(p)
                     \/ (~db[p].removed /\ db[p].joined # None /\ db[p].left # None)]
(* Not the host; the SFU is told, and disconnects them.                    *)
Hosting == CHOOSE p \in Row : TRUE
SendAway(p) ==
  /\ p # Hosting
  /\ Call(Change(p, "removed", TRUE) \cup Change(p, "left", now + 1))
  /\ outside' = [outside EXCEPT !.now = @ + 1, !.there = @ \ {p}, !.lost = TRUE,
                                !.blurred = @ \/ Pending(p)]
(* An admission gives somebody who was removed their row back.             *)
AdmitAgain(p) ==
  /\ db[p].removed
  /\ Call(Change(p, "removed", FALSE))
  /\ outside' = [outside EXCEPT !.blurred = TRUE]
FailAttendance(t) == RollBack(t) /\ outside' = [outside EXCEPT !.blurred = TRUE]

(* The sweep line: +1 at each join, -1 at each leave, leaves first. Who    *)
(* was removed is left out.                                                *)
Reported == {p \in Row : db[p].joined # None /\ ~db[p].removed}
Departure(p, asOf) == IF db[p].left = None THEN asOf ELSE db[p].left
Leaves(asOf) ==
  {<<Departure(p, asOf), 0 - 1, p>> :
     p \in {q \in Reported : Departure(q, asOf) > db[q].joined}}
Events(asOf) == {<<db[p].joined, 1, p>> : p \in Reported} \cup Leaves(asOf)
Before(e, f) == e[1] < f[1] \/ (e[1] = f[1] /\ e[2] <= f[2])
Running(events, e) ==
  LET sofar == {f \in events : Before(f, e)} IN
  Cardinality({f \in sofar : f[2] = 1}) - Cardinality({f \in sofar : f[2] # 1})
PeakConcurrent(asOf) ==
  LET counts == {0} \cup {Running(Events(asOf), e) : e \in Events(asOf)} IN
  CHOOSE n \in counts : \A m \in counts : m <= n

AttendanceNext ==
  topic = "attendance" /\
    \/ \E p \in Row :
         \/ Arrive(p) \/ ArriveAdmitted(p)
         \/ GoAway(p) \/ SendAway(p) \/ AdmitAgain(p)
    \/ \E t \in Slot : Commit(t) \/ FailAttendance(t)
-----------------------------------------------------------------------------
ToolsTypeOK ==
  /\ topic \in {"records", "stage", "minutes", "attendance"} => TransactionsOK
  /\ topic = "records" =>
       /\ {db[Poll], db[Breakout]} \subseteq OpenRow /\ \A r \in Row : db[r] \in RecordRow
  /\ topic = "stage" => \A p \in Row : db[p] \in StageRow
  /\ topic = "minutes" => minutes \in MinutesRow
  /\ topic = "attendance" => \A p \in Row : db[p] \in AttendanceRow

(* Nobody has two votes in a poll ("re-voting changes the existing vote,   *)
(* no double-counting", docs/DITSALA_MEET_SPEC.md) or two assignments, as  *)
(* long as no two transactions were open at once; nobody ever has two      *)
(* registrations or languages, whatever overlaps. A second row would make  *)
(* every later request of theirs raise.                                    *)
OneOfAKind ==
  topic = "records" =>
    \A u \in User :
      /\ \A kind \in Unique : Cardinality(Of(kind, u)) <= 1
      /\ ~overlapped =>
           \A kind \in {"vote", "assignment"} : Cardinality(Of(kind, u)) <= 1

(* As long as no two transactions were open at once, a question has as     *)
(* many upvotes as people gave it, whatever else happened to it.           *)
UpvotesCounted ==
  topic = "records" /\ ~overlapped /\ Quiet =>
    \A r \in Row : InMeeting(r, "question") => db[r].value = outside.upvotes[r]

(* Who is in the audience speaks only if a host unmuted them since they    *)
(* came: a move to the audience takes the microphone away, and coming back *)
(* does not give it ("a view-only LiveKit grant, no `can_publish`",        *)
(* backend/app/models/meetings.py). Not so once a request or a connection  *)
(* overlapped another request - the row that says "audience" is written    *)
(* after the SFU was told - an invitation failed, or somebody came back    *)
(* with a token from their time on the stage.                              *)
AudienceIsSilent ==
  topic = "stage" /\ ~outside.raced /\ Quiet =>
    \A p \in connected \cap outside.publishes :
      db[p].stage = "on_stage" \/ p \in outside.unmuted

(* Whatever hosts and administrators add, and however their requests       *)
(* overlap, a meeting that has a planned length is never longer than the   *)
(* plan allows but by what an administrator granted ("would exceed the     *)
(* host's Conference plan's maximum meeting duration", service.py).        *)
WithinPlan ==
  topic = "minutes" /\ minutes.planned # None =>
    minutes.planned + minutes.added <= Minutes + outside.granted

(* However requests about different people overlap, the report never       *)
(* claims more people at once than there were, and says how many there     *)
(* were if no stay was lost. Not so once two requests about one person     *)
(* crossed, one of them failed, somebody left twice, or was admitted again *)
(* after having been removed.                                              *)
PeakIsTrue ==
  topic = "attendance" /\ Quiet /\ ~outside.blurred =>
    /\ PeakConcurrent(now + 1) <= outside.busiest
    /\ ~outside.lost => PeakConcurrent(now + 1) = outside.busiest
=============================================================================

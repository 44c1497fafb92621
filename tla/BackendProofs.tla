---------------------------- MODULE BackendProofs ---------------------------
(* Proofs about Backend. Every handler begins, commits or rolls back one   *)
(* transaction, or happens outside the tables (the ...TableStep lemmas).   *)
(* Then, topic by topic: its handlers keep its part of BackendInv          *)
(* (OfficeStep to LoginStep), and write rows of the types of its tables    *)
(* (the ...Fits and ...TypesStay lemmas); neither says anything of other   *)
(* topics. The last part begins what RecordsProofs goes on with: what is   *)
(* recorded of prices, invitations, positions, data requests, minutes,     *)
(* participants and payments holds of every table there may be next        *)
(* (Futures), so each handler is shown to write a table of which it holds. *)
EXTENDS BackendInvariant, FiniteSetTheorems, WellFoundedInduction, TLAPS

-----------------------------------------------------------------------------
(* Transactions.                                                           *)

(* A transaction ends, and w is written: what it has decided to, or what   *)
(* the database makes of that.                                             *)
Ends(t, w) ==
  /\ open[t] # {} /\ db' = Written(w)
  /\ open' = [open EXCEPT ![t] = {}]
  /\ UNCHANGED <<topic, asked, overlapped, outside>>

(* What a step may do to the tables. A job is not a request.               *)
TableStep ==
  \/ \E w : Call(w)
  \/ \E t \in Slot \cup Job :
       (\E w : Begin(t, w) /\ UNCHANGED asked) \/ Commit(t) \/ RollBack(t)
  \/ UNCHANGED tables
(* The deletion of a meeting takes its files along.                        *)
Cascade == \E t \in Slot : \E w : Ends(t, w)

-----------------------------------------------------------------------------
(* Each of the forms in which the modules write their requests is one.     *)
LEMMA CallStep ==
  ASSUME NEW w, Call(w)
  PROVE  TableStep
  BY DEF TableStep

LEMMA RequestStep ==
  ASSUME NEW w, Request(w)
  PROVE  TableStep
  BY CallStep DEF Request

LEMMA UpsertStep ==
  ASSUME NEW found, NEW row, NEW key, NEW columns, Upsert(found, row, key, columns)
  PROVE  TableStep
  BY RequestStep DEF Upsert

LEMMA OutsideStep ==
  ASSUME NEW world, Outside(world)
  PROVE  TableStep
  BY DEF Outside, TableStep

-----------------------------------------------------------------------------
(* What a commit writes.                                                   *)
LEMMA WrittenShape ==
  ASSUME NEW w
  PROVE  /\ DOMAIN Written(w) = DOMAIN db
         /\ \A row \in DOMAIN db :
              /\ DOMAIN Written(w)[row] = DOMAIN db[row]
              /\ Written(w)[row] = [column \in DOMAIN db[row] |-> Written(w)[row][column]]
  BY DEF Written

LEMMA WrittenKeeps ==
  ASSUME NEW w, NEW row \in DOMAIN db, NEW column \in DOMAIN db[row], ~Writes(w, row, column)
  PROVE  Written(w)[row][column] = db[row][column]
  BY DEF Written, Writes

LEMMA WrittenTakes ==
  ASSUME NEW w, NEW row \in DOMAIN db, NEW column \in DOMAIN db[row], Writes(w, row, column)
  PROVE  \E c \in w : c[1] = row /\ c[2] = column /\ Written(w)[row][column] = c[3]
<1> DEFINE columns == {c[2] : c \in {d \in w : d[1] = row}}
<1>1. column \in columns
  BY DEF Writes
<1>2. Written(w)[row][column] = Value(w, row, column)
  BY <1>1 DEF Written
<1>3. \E c \in w : c[1] = row /\ c[2] = column
  BY DEF Writes
<1>4. Value(w, row, column) = (CHOOSE c \in w : c[1] = row /\ c[2] = column)[3]
  BY DEF Value
<1> QED BY <1>2, <1>3, <1>4

LEMMA CommitColumn ==
  ASSUME NEW w, db' = Written(w), NEW row \in DOMAIN db, NEW column \in DOMAIN db[row]
  PROVE  \/ ~Writes(w, row, column) /\ db'[row][column] = db[row][column]
         \/ \E c \in w : c[1] = row /\ c[2] = column /\ db'[row][column] = c[3]
BY WrittenKeeps, WrittenTakes

(* What a request decides to write.                                        *)
LEMMA ChangeShape ==
  ASSUME NEW row, NEW column, NEW value
  PROVE  /\ \A c \in Change(row, column, value) : c[1] = row /\ c[2] = column /\ c[3] = value
         /\ db[row][column] = value \/ Writes(Change(row, column, value), row, column)
<1>1. \A c \in Change(row, column, value) : c = <<row, column, value>>
  BY DEF Change
<1>2. ASSUME NEW c, c = <<row, column, value>> PROVE c[1] = row /\ c[2] = column /\ c[3] = value
  BY <1>2
<1>3. CASE db[row][column] # value
  <2>1. <<row, column, value>> \in Change(row, column, value)
    BY <1>3 DEF Change
  <2> QED BY <1>1, <1>2, <2>1 DEF Writes
<1> QED BY <1>1, <1>2, <1>3

LEMMA ChangeNames ==
  ASSUME NEW row, NEW column, NEW value
  PROVE  \A c \in Change(row, column, value) : c[1] = row /\ c[2] = column
BY ChangeShape

LEMMA ChangeTriple ==
  ASSUME NEW row, NEW column, NEW value
  PROVE  \A c \in Change(row, column, value) : c = <<row, column, value>>
BY DEF Change

LEMMA UpdateShape ==
  ASSUME NEW row, NEW columns
  PROVE  /\ \A c \in Update(row, columns) :
              c[1] = row /\ c[2] \in DOMAIN columns /\ c[3] = columns[c[2]]
         /\ \A column \in DOMAIN columns :
              db[row][column] = columns[column] \/ Writes(Update(row, columns), row, column)
<1>1. ASSUME NEW c \in Update(row, columns)
      PROVE  \E column \in DOMAIN columns : c \in Change(row, column, columns[column])
  BY DEF Update
<1>2. ASSUME NEW column \in DOMAIN columns
      PROVE  Change(row, column, columns[column]) \subseteq Update(row, columns)
  BY DEF Update
<1> QED BY <1>1, <1>2, ChangeShape DEF Writes

LEMMA UpdateChanges ==
  ASSUME NEW row, NEW columns
  PROVE  \A c \in Update(row, columns) : db[row][c[2]] # c[3]
<1>1. ASSUME NEW c \in Update(row, columns) PROVE db[row][c[2]] # c[3]
  <2>1. PICK column \in DOMAIN columns : c \in Change(row, column, columns[column])
    BY <1>1 DEF Update
  <2>2. db[row][column] # columns[column]
    BY <2>1 DEF Change
  <2> QED BY <2>1, <2>2, ChangeShape
<1> QED BY <1>1

LEMMA InsertShape ==
  ASSUME NEW row, NEW columns
  PROVE  /\ \A c \in Insert(row, columns) :
              /\ c[1] = row
              /\ \/ c[2] = "is" /\ c[3] = "here" /\ c = <<row, "is", "here">>
                 \/ c \in Update(row, columns)
         /\ Writes(Insert(row, columns), row, "is")
         /\ Update(row, columns) \subseteq Insert(row, columns)
<1>1. ASSUME NEW c, c = <<row, "is", "here">> PROVE c[1] = row /\ c[2] = "is" /\ c[3] = "here"
  BY <1>1
<1>2. <<row, "is", "here">> \in Insert(row, columns)
  BY DEF Insert
<1>3. \A c \in Insert(row, columns) : c = <<row, "is", "here">> \/ c \in Update(row, columns)
  BY DEF Insert
<1>4. Writes(Insert(row, columns), row, "is")
  BY <1>1, <1>2 DEF Writes
<1>5. Update(row, columns) \subseteq Insert(row, columns)
  BY DEF Insert
<1> QED BY <1>1, <1>3, <1>4, <1>5, UpdateShape

LEMMA InsertNames ==
  ASSUME NEW row, NEW columns
  PROVE  \A c \in Insert(row, columns) :
           c[1] = row /\ ((c[2] = "is" /\ c[3] = "here") \/ c[2] \in DOMAIN columns)
<1>1. ASSUME NEW c \in Insert(row, columns)
      PROVE  c[1] = row /\ ((c[2] = "is" /\ c[3] = "here") \/ c[2] \in DOMAIN columns)
  BY InsertShape, UpdateShape
<1> QED BY <1>1

LEMMA NextIsFree ==
  ASSUME NEW table, NEW max \in Nat, NEW k, NextOf(table, max, k)
  PROVE  k[1] = table /\ db[k].is = "none" /\ ~Pending(k) /\ \E n \in 1..max : k = <<table, n>>
<1>1. PICK n \in 1..max :
        k = <<table, n>> /\ \A m \in 1..max : db[<<table, m>>].is = "none" <=> m >= n
  BY DEF NextOf
<1>2. db[<<table, n>>].is = "none"
  BY <1>1
<1> QED BY <1>1, <1>2 DEF NextOf

LEMMA InsertStatus ==
  ASSUME NEW row, NEW status
  PROVE  \A c \in Insert(row, [status |-> status]) :
           c[1] = row /\ ((c[2] = "is" /\ c[3] = "here") \/ (c[2] = "status" /\ c[3] = status))
<1> DEFINE columns == [status |-> status]
<1>1. DOMAIN columns = {"status"} /\ columns["status"] = status
  OBVIOUS
<1> HIDE DEF columns
<1>2. ASSUME NEW c \in Insert(row, columns)
      PROVE  c[1] = row /\ ((c[2] = "is" /\ c[3] = "here") \/ (c[2] = "status" /\ c[3] = status))
  <2>1. c[1] = row /\ ((c[2] = "is" /\ c[3] = "here") \/ c \in Update(row, columns))
    BY InsertShape
  <2>2. c \in Update(row, columns) => c[2] \in DOMAIN columns /\ c[3] = columns[c[2]]
    BY UpdateShape
  <2>3. c[2] \in DOMAIN columns => c[2] = "status"
    BY <1>1
  <2>4. c \in Update(row, columns) => c[2] = "status" /\ c[3] = status
    BY <1>1, <2>2, <2>3
  <2> QED BY <2>1, <2>4
<1> QED BY <1>2 DEF columns

LEMMA WriterIsPending ==
  ASSUME NEW t \in DOMAIN open, NEW w, w \in open[t]
  PROVE  Pending(w[1])
BY DEF Pending

(* What is open after a transaction begins, and after one ends.            *)
Opens(t, w) ==
  /\ open[t] = {} /\ open'[t] = w
  /\ DOMAIN open' = DOMAIN open
  /\ \A s \in DOMAIN open \ {t} : open'[s] = open[s]
  /\ UNCHANGED <<db, topic>>
  /\ overlapped => overlapped'
  /\ w # {} /\ ~overlapped' => Quiet

Closes(t) ==
  /\ open[t] # {} /\ open'[t] = {}
  /\ DOMAIN open' = DOMAIN open
  /\ \A s \in DOMAIN open \ {t} : open'[s] = open[s]
  /\ UNCHANGED <<topic, overlapped>>

LEMMA BeginOpens ==
  ASSUME DOMAIN open = Slot \cup Job, NEW t \in Slot \cup Job, NEW w, Begin(t, w)
  PROVE  Opens(t, w)
BY DEF Begin, Opens

LEMMA CallOpens ==
  ASSUME DOMAIN open = Slot \cup Job, NEW w, Call(w)
  PROVE  \E t \in Slot : Opens(t, w)
<1>1. FreeSlot \in Slot
  BY DEF Call, FreeSlot
<1>2. Begin(FreeSlot, w)
  BY DEF Call
<1> QED BY <1>1, <1>2, BeginOpens

LEMMA CommitCloses ==
  ASSUME DOMAIN open = Slot \cup Job, NEW t \in Slot \cup Job, Commit(t)
  PROVE  Closes(t) /\ Lawful(open[t]) /\ db' = Written(open[t]) /\ outside' = outside
BY DEF Commit, Closes

LEMMA RollBackCloses ==
  ASSUME DOMAIN open = Slot \cup Job, NEW t \in Slot \cup Job, RollBack(t)
  PROVE  Closes(t) /\ db' = db
BY DEF RollBack, Closes

(* A transaction that is open alone leaves none behind.                    *)
LEMMA NoneIsLeft ==
  ASSUME DOMAIN open = Slot \cup Job, OpenAlone, ~overlapped,
         NEW t \in Slot \cup Job, Closes(t)
  PROVE  \A s \in DOMAIN open' : open'[s] = {}
BY DEF OpenAlone, Closes

(* A request that runs alone leaves the tables as they were read.          *)
LEMMA StepKeepsAlone ==
  ASSUME DOMAIN open = Slot \cup Job, OpenAlone, TableStep \/ Cascade
  PROVE  DOMAIN open' = Slot \cup Job /\ OpenAlone'
<1>1. CASE UNCHANGED tables
  BY <1>1 DEF tables, OpenAlone
<1>2. ASSUME NEW t \in Slot \cup Job, NEW w, Commit(t) \/ Ends(t, w) \/ RollBack(t)
      PROVE  DOMAIN open' = Slot \cup Job /\ OpenAlone'
  BY <1>2 DEF Commit, Ends, RollBack, OpenAlone
<1>3. ASSUME NEW t \in Slot \cup Job, NEW w, Begin(t, w) PROVE DOMAIN open' = Slot \cup Job /\ OpenAlone'
  BY <1>3 DEF Begin, OpenAlone, Quiet
<1>4. ASSUME NEW w, Call(w) PROVE \E t \in Slot : Begin(t, w)
  BY <1>4 DEF Call, FreeSlot
<1> QED BY <1>1, <1>2, <1>3, <1>4 DEF TableStep, Cascade

(* No more requests are made than the bound allows.                        *)
LEMMA TransactionsStayOK ==
  ASSUME TransactionsOK, TableStep \/ Cascade, topic \in DOMAIN MaxRequests
  PROVE  TransactionsOK'
<1>0. MaxRequests[topic] \in Nat
  BY RequestsAssumption
<1>1. CASE UNCHANGED tables
  BY <1>1 DEF tables, TransactionsOK
<1>2. ASSUME NEW t \in Slot \cup Job, NEW w, Commit(t) \/ Ends(t, w) \/ RollBack(t) PROVE TransactionsOK'
  BY <1>2 DEF Commit, Ends, RollBack, TransactionsOK
<1>3. ASSUME NEW t \in Slot \cup Job, NEW w, Begin(t, w)
      PROVE  topic' = topic /\ DOMAIN open' = Slot \cup Job /\ overlapped' \in BOOLEAN
  BY <1>3 DEF Begin, TransactionsOK
<1>4. ASSUME NEW w, Call(w) PROVE TransactionsOK'
  <2>1. \E t \in Slot : Begin(t, w)
    BY <1>4 DEF Call, FreeSlot
  <2>2. asked < MaxRequests[topic] /\ asked' = asked + 1
    BY <1>4 DEF Call
  <2> QED BY <1>0, <1>3, <2>1, <2>2 DEF TransactionsOK
<1>5. ASSUME NEW t \in Slot \cup Job, NEW w, Begin(t, w), UNCHANGED asked PROVE TransactionsOK'
  BY <1>3, <1>5 DEF TransactionsOK
<1> QED BY <1>1, <1>2, <1>4, <1>5 DEF TableStep, Cascade

-----------------------------------------------------------------------------
(* What a handler of any topic does to the tables.                         *)
LEMMA MeetingsTableStep ==
  ASSUME MeetingsNext
  PROVE  TableStep
<1> USE CallStep, RequestStep, UpsertStep, OutsideStep
<1>0. ASSUME NEW p, NEW u, Enter(p, u) PROVE TableStep
  BY <1>0 DEF Enter
<1>00. ASSUME NEW p, NEW u, JoinAgain(u, p) PROVE TableStep
  BY <1>00 DEF JoinAgain
<1>1. Entrances => TableStep
  BY <1>0, <1>00 DEF Entrances, HostPinJoin, Join, GuestJoin, GetParticipantStatus
<1>2. Exits => TableStep
  BY DEF Exits, Leave, End, DeleteMeeting, InviteCoHost, TableStep
<1>3. Moderation => TableStep
  BY DEF Moderation, Admit, Remove, Promote, SetLocked, SetWaitingRoom
<1>4. Pages => TableStep
  BY DEF Pages, Connect, Disconnect
<1>5. Tick => TableStep
  BY DEF Tick
<1>6. (\E j \in Job : AutoPromote(j)) => TableStep
  BY DEF AutoPromote, TableStep
<1>7. (\E t \in Slot \cup Job : CommitMeeting(t) \/ FailMeeting(t)) => TableStep
  BY DEF CommitMeeting, FailMeeting, TableStep
<1> QED BY <1>1, <1>2, <1>3, <1>4, <1>5, <1>6, <1>7 DEF MeetingsNext

LEMMA RecordsTableStep ==
  ASSUME RecordsNext
  PROVE  TableStep
<1> USE CallStep, RequestStep, UpsertStep, OutsideStep
<1>1. PollsAndQuestions => TableStep
  BY DEF PollsAndQuestions, CreatePoll, ClosePoll, VotePoll, AskQuestion, UpvoteQuestion,
     AnswerQuestion, DismissQuestion
<1>2. Breakouts => TableStep
  BY DEF Breakouts, CreateBreakoutRooms, CloseBreakoutRooms, JoinBreakoutRoom, AssignToBreakoutRoom
<1>3. Speech \/ Registrations => TableStep
  BY DEF Speech, Registrations, SendMessage, SetParticipantLanguage, RegisterForMeeting
<1>4. (\E t \in Slot : CommitRecords(t) \/ FailRecords(t)) => TableStep
  BY DEF CommitRecords, FailRecords, TableStep
<1> QED BY <1>1, <1>2, <1>3, <1>4 DEF RecordsNext

LEMMA StageTableStep ==
  ASSUME StageNext
  PROVE  TableStep
<1> USE CallStep, RequestStep, UpsertStep, OutsideStep
<1> QED BY DEF StageNext, TakeToken, EnterStage, Drop, InviteToStage, MoveToAudience,
           SetParticipantMuted, FailStage, TableStep

(* What a deletion of the meeting writes.                                  *)
Gone == {<<k, "is", "gone">> : k \in {r \in DOMAIN db : Here(r)}}
LEMMA DeletionEnds ==
  ASSUME NEW t, CommitDeletion(t)
  PROVE  Ends(t, Gone)
<1>1. open[t] # {}
  BY DEF CommitDeletion, Deletes
<1> QED BY <1>1 DEF CommitDeletion, Ends, Gone

LEMMA OtherMeetingSteps ==
  /\ MinutesNext \/ AttendanceNext => TableStep
  /\ FilesNext => TableStep \/ Cascade
<1> USE CallStep, RequestStep, UpsertStep, OutsideStep
<1>1. MinutesNext => TableStep
  BY DEF MinutesNext, GoLive, Extend, AdminExtend, AdminEnd, TableStep
<1>2. AttendanceNext => TableStep
  BY DEF AttendanceNext, Arrive, ArriveAdmitted, GoAway, SendAway, AdmitAgain, FailAttendance, TableStep
<1>3. FilesNext => TableStep \/ Cascade
  <2>1. ASSUME NEW t \in Slot, CommitDeletion(t) PROVE Cascade
    BY <2>1, DeletionEnds DEF Cascade
  <2> QED BY <2>1 DEF FilesNext, Recordings, StartRecording, DeleteRecording, StopRecording, Documents,
     RequestDocumentUpload, DeleteDocument, Assistant, GenerateNotes, TranscribeRecording,
     DeleteOccasion, EgressEnds, Upload, CommitFiles, FailFiles, TableStep
<1> QED BY <1>1, <1>2, <1>3

LEMMA BillingTableStep ==
  ASSUME VipNext \/ PlansNext
  PROVE  TableStep
<1> USE CallStep, RequestStep, UpsertStep, OutsideStep
<1>1. VipNext => TableStep
  BY DEF VipNext, VipUpgrade, KycWebhooks, StartVipUpgrade, InitiatePayment, HandleVipPayment,
     StartKycDocument, StartKycLiveness, HandleKycDocumentResult, HandleKycLivenessResult,
     Decide, TableStep
<1>2. PlansNext => TableStep
  BY DEF PlansNext, Catalogue, ConferenceUpgrade, StitchWebhook, CreatePlan, SetPlanStatus, SetPrice,
     SetUserConferencePlan, StartConferenceUpgrade, InitiatePayment, HandleConferencePayment,
     Decide, TableStep
<1> QED BY <1>1, <1>2

LEMMA AccountsTableStep ==
  ASSUME SignupNext \/ AccountNext
  PROVE  TableStep
<1> USE CallStep, RequestStep, UpsertStep, OutsideStep
<1>1. SignupNext => TableStep
  BY DEF SignupNext, Signups, InviteOnly, Signup, CreateInvitation, SetInviteOnlyMode, Expire, TableStep
<1>2. ASSUME NEW w, Moves(w) PROVE TableStep
  BY <1>2 DEF Moves
<1>3. Onboarding \/ LogIn => TableStep
  BY DEF Onboarding, LogIn, ConfirmEmail, ConfirmPhone, AddNextOfKin, Step, SetDitsalaCode, CompleteOnboarding, StartKyc
<1>4. Reviews \/ Staff => TableStep
  BY <1>2 DEF Reviews, Staff, Approve, Reject, RequestRecapture, ForceAccountState, ActionReport
<1>5. Lifecycle => TableStep
  BY DEF Lifecycle, RequestDeactivation, CancelDeactivation, Elapse
<1>6. ASSUME NEW k, HandleKycResult(k) \/ Decide(k, {"passed", "failed", "manual_review"}) PROVE TableStep
  BY <1>2, <1>6 DEF HandleKycResult, Decide
<1>7. ASSUME NEW j \in Job, ProcessScheduledDeletions(j) PROVE TableStep
  BY <1>7 DEF ProcessScheduledDeletions, TableStep
<1>8. AccountNext => TableStep
  BY <1>3, <1>4, <1>5, <1>6, <1>7 DEF AccountNext, TableStep
<1> QED BY <1>1, <1>8

LEMMA RecoveryTableStep ==
  ASSUME RecoveryNext \/ LoginNext
  PROVE  TableStep
<1> USE CallStep, RequestStep, UpsertStep, OutsideStep
<1>1. RecoveryNext => TableStep
  BY DEF RecoveryNext, RecoverySteps, StartRecovery, StartPhoneRecovery, ConfirmRecoveryEmail,
     ConfirmRecoveryPhone, ConfirmPhoneRecovery, StartLiveness, FlagByToken, Complete, Upgrade,
     ProviderDecides, HandleLiveness, TableStep
<1>2. LoginNext => TableStep
  BY DEF LoginNext, LoginSteps, TryWrongCode, StartLogin, CompleteLogin, RecordLoginLiveness,
     ClockTicks, Restart, Decide, TableStep
<1> QED BY <1>1, <1>2

LEMMA KeysTableStep ==
  ASSUME KeysNext \/ ChatNext
  PROVE  TableStep
<1> USE CallStep, RequestStep, UpsertStep, OutsideStep
<1>1. PhoneReads => TableStep
  BY DEF PhoneReads, RegisterWithBackend, ListPrekeys, CloseApp, ListSenderKeys, FindLocalPrekeySecret, CacheSenderKey
<1>2. ASSUME NEW d \in Drafts, SkipDevice(d) PROVE TableStep
  BY <1>2 DEF SkipDevice, Claim
<1>2a. PhoneWrites => TableStep
  BY <1>2 DEF PhoneWrites, GetPrekeyBundle, Claim, UploadSenderKey, SendSealed, SendWithSaved, SendFails
<1>3. KeysNext => TableStep
  BY <1>1, <1>2a DEF KeysNext, TableStep
<1>4. ChatNext => TableStep
  BY DEF ChatNext, StartConversation, CircleChanges, SetLanguagePreferences, VipMessages, InterpreterTranslate,
     SendVipMessage, RetryTranslation, TableStep
<1> QED BY <1>3, <1>4

LEMMA OfficeTableStep ==
  ASSUME OfficeNext \/ ComplianceNext \/ LocationNext
  PROVE  TableStep
<1> USE CallStep, RequestStep, UpsertStep, OutsideStep
<1>1. OfficeNext => TableStep
  BY DEF OfficeNext, AdminSteps, StartAdminLogin, EnrollMfa, CompleteAdminLogin, LoginExpires, TokenExpires,
     ByAdmin, CreateAdmin, ChangeAdminRole, SetAdminActive, TableStep
<1>2. ComplianceNext => TableStep
  BY DEF ComplianceNext, FileRequest, MarkInProgress, RejectRequest, CompleteRequest, AccountChanges,
     GraceEnds, DeleteSubject, TableStep
<1>3. LocationNext => TableStep
  BY DEF LocationNext, Clock, TrustEnds, CreateShare, RevokeShare, RecordPing, PurgeExpired, TableStep
<1> QED BY <1>1, <1>2, <1>3

-----------------------------------------------------------------------------
(* The office.                                                             *)
(* A request that writes of a only, and what it does outside.              *)
OfficeRequest(w, a) ==
  /\ \A c \in w : c[1] = a /\ (c[2] = "enrolled" => c[3] = TRUE)
  /\ \A c \in w : c[2] = "enrolled" \/ outside'.ghost \/ \E b \in Row \ {a} : InCharge(b)
  /\ DOMAIN outside' = DOMAIN outside /\ DOMAIN outside'.login = Row
  /\ outside.ghost => outside'.ghost
  /\ outside'.undone = outside.undone /\ outside'.token \subseteq outside.token \cup {a}
  /\ \A b \in Row : b \in outside'.token =>
       b \in outside.token \/ db[b].enrolled \/ Writes(w, b, "enrolled")

LEMMA OfficeBegins ==
  ASSUME DOMAIN open = Slot \cup Job, OfficeInv, topic = "office", NEW w, Call(w),
         NEW a \in Row, OfficeRequest(w, a)
  PROVE  OfficeInv'
<1> USE DEF OfficeRequest
<1>1. PICK t \in Slot : Opens(t, w)
  BY CallOpens
<1> USE DEF OfficeInv
<1>2. (\A s \in DOMAIN open : \A c \in open[s] : c[1] \in Row /\ (c[2] = "enrolled" => c[3] = TRUE))'
  BY <1>1 DEF Opens
<1>3. ASSUME ~overlapped', ~outside'.ghost
      PROVE  (/\ \E b \in Row : InCharge(b)
              /\ \A s \in Opened : \E b \in Row :
                   InCharge(b) /\ \A c \in open[s] : c[1] = b => c[2] = "enrolled")'
  <2>1. ~overlapped /\ ~outside.ghost
    BY <1>1, <1>3 DEF Opens
  <2>2. \A b \in Row : InCharge(b)' <=> InCharge(b)
    BY <1>1 DEF Opens, InCharge, Here
  <2>3. PICK b \in Row : InCharge(b) /\ \A c \in w : c[1] = b => c[2] = "enrolled"
    BY <1>3, <2>1
  <2>4. ASSUME NEW s \in Opened' PROVE \E d \in Row : InCharge(d) /\ \A c \in open'[s] : c[1] = d => c[2] = "enrolled"
    <3>1. CASE s = t
      BY <2>3, <1>1, <3>1 DEF Opens
    <3>2. CASE s # t
      <4>1. s \in Opened /\ open'[s] = open[s]
        BY <1>1, <3>2 DEF Opened, Opens
      <4> QED BY <4>1, <2>1
    <3> QED BY <3>1, <3>2
  <2> QED BY <2>2, <2>3, <2>4
<1>4. ASSUME NEW b \in Row
      PROVE  b \in outside'.token /\ ~outside'.undone =>
               db'[b].enrolled \/ \E s \in DOMAIN open' : Writes(open'[s], b, "enrolled")
  BY <1>1 DEF Opens, Writes
<1>5. Columns(Row, {"is", "role", "active", "enrolled"})'
  BY <1>1 DEF Opens, Columns
<1> QED BY <1>1, <1>2, <1>3, <1>4, <1>5 DEF Opens

LEMMA OfficeStep ==
  ASSUME DOMAIN open = Slot \cup Job, OpenAlone, OfficeInv, OfficeNext
  PROVE  OfficeInv'
<1>0. /\ topic = "office"
      /\ DOMAIN outside = {"login", "token", "ghost", "undone"} /\ DOMAIN outside.login = Row
  BY DEF OfficeNext, OfficeInv
<1>1. ASSUME NEW a \in Row, StartAdminLogin(a) PROVE OfficeInv'
  <2>1. PICK step : Call({}) /\ outside' = [outside EXCEPT !.login[a] = @ \cup {step}]
    BY <1>1 DEF StartAdminLogin
  <2>2. /\ DOMAIN outside' = DOMAIN outside /\ DOMAIN outside'.login = Row
        /\ outside'.ghost = outside.ghost /\ outside'.undone = outside.undone
        /\ outside'.token = outside.token
    BY <1>0, <2>1
  <2>3. OfficeRequest({}, a)
    BY <2>1, <2>2 DEF OfficeRequest
  <2> QED BY <1>0, <2>1, <2>3, OfficeBegins
<1>2. ASSUME NEW a \in Row, EnrollMfa(a) PROVE OfficeInv'
  <2> DEFINE on == TRUE
             w == Change(a, "enrolled", on)
  <2>1. Call(w) /\ outside' = [outside EXCEPT !.token = @ \cup {a}]
    BY <1>2 DEF EnrollMfa
  <2>2. /\ DOMAIN outside' = DOMAIN outside /\ outside'.login = outside.login
        /\ outside'.ghost = outside.ghost /\ outside'.undone = outside.undone
        /\ outside'.token = outside.token \cup {a}
    BY <1>0, <2>1
  <2>3. /\ \A c \in w : c[1] = a /\ c[2] = "enrolled" /\ c[3] = TRUE
        /\ db[a].enrolled \/ Writes(w, a, "enrolled")
    <3>1. on = TRUE
      OBVIOUS
    <3> HIDE DEF on
    <3>2. /\ \A c \in w : c[1] = a /\ c[2] = "enrolled" /\ c[3] = on
          /\ db[a].enrolled = on \/ Writes(w, a, "enrolled")
      BY ChangeShape
    <3> QED BY <3>1, <3>2
  <2> HIDE DEF w
  <2>4. OfficeRequest(w, a)
    BY <1>0, <2>2, <2>3 DEF OfficeRequest
  <2> QED BY <1>0, <2>1, <2>4, OfficeBegins
<1>3. ASSUME NEW a \in Row, CompleteAdminLogin(a) PROVE OfficeInv'
  <2>1. /\ Call({}) /\ db[a].enrolled
        /\ outside' = [outside EXCEPT !.token = @ \cup {a}]
    BY <1>3 DEF CompleteAdminLogin
  <2>2. /\ DOMAIN outside' = DOMAIN outside /\ outside'.login = outside.login
        /\ outside'.ghost = outside.ghost /\ outside'.undone = outside.undone
        /\ outside'.token = outside.token \cup {a}
    BY <1>0, <2>1
  <2>3. \A b \in Row : b \in outside'.token => b \in outside.token \/ db[b].enrolled
    BY <2>1, <2>2
  <2>4. OfficeRequest({}, a)
    BY <1>0, <2>2, <2>3 DEF OfficeRequest
  <2> QED BY <1>0, <2>1, <2>4, OfficeBegins
<1>4. ASSUME NEW a \in Row, TokenExpires(a) PROVE OfficeInv'
  <2>1. UNCHANGED tables /\ outside' = [outside EXCEPT !.token = @ \ {a}]
    BY <1>4 DEF TokenExpires, Outside
  <2>2. /\ DOMAIN outside' = DOMAIN outside /\ outside'.login = outside.login
        /\ outside'.ghost = outside.ghost /\ outside'.undone = outside.undone
        /\ outside'.token \subseteq outside.token
    BY <1>0, <2>1
  <2> QED BY <2>1, <2>2 DEF OfficeInv, tables, Columns, InCharge, Here, Opened, Writes
<1>41. ASSUME NEW a \in Row, LoginExpires(a) PROVE OfficeInv'
  <2>1. UNCHANGED tables /\ outside' = [outside EXCEPT !.login[a] = {}]
    BY <1>41 DEF LoginExpires, Outside
  <2>2. /\ DOMAIN outside' = DOMAIN outside /\ DOMAIN outside'.login = Row
        /\ outside'.ghost = outside.ghost /\ outside'.undone = outside.undone
        /\ outside'.token = outside.token
    BY <1>0, <2>1
  <2> QED BY <2>1, <2>2 DEF OfficeInv, tables, Columns, InCharge, Here, Opened, Writes
<1>5. ASSUME NEW actor \in Row, NEW a \in Row, NEW w, a # actor, ByAdmin(actor, w),
             \A c \in w : c[1] = a /\ c[2] # "enrolled"
      PROVE  OfficeInv'
  <2>1. /\ Call(w) /\ Here(actor) /\ db[actor].role = "super_admin"
        /\ outside' = [outside EXCEPT !.ghost = @ \/ ~db[actor].active]
    BY <1>5 DEF ByAdmin
  <2>2. /\ DOMAIN outside' = DOMAIN outside /\ outside'.login = outside.login
        /\ outside'.ghost = (outside.ghost \/ ~db[actor].active)
        /\ outside'.undone = outside.undone /\ outside'.token = outside.token
    BY <1>0, <2>1
  <2>3. outside'.ghost \/ InCharge(actor)
    BY <2>1, <2>2 DEF InCharge
  <2>4. OfficeRequest(w, a)
    BY <1>0, <1>5, <2>2, <2>3 DEF OfficeRequest
  <2> QED BY <1>0, <2>1, <2>4, OfficeBegins
<1>6. ASSUME NEW actor \in Row, NEW a \in Row, NEW role \in Roles, CreateAdmin(actor, a, role)
      PROVE  OfficeInv'
  <2>1. \A c \in Insert(a, [role |-> role]) : c[1] = a /\ c[2] # "enrolled"
    BY DEF Insert, Update, Change
  <2>2. a # actor /\ ByAdmin(actor, Insert(a, [role |-> role]))
    BY <1>6 DEF CreateAdmin, New, Unused, ByAdmin, Here
  <2> QED BY <1>5, <2>1, <2>2
<1>7. ASSUME NEW actor \in Row, NEW a \in Row, NEW role, ChangeAdminRole(actor, a, role)
      PROVE  OfficeInv'
  <2>1. \A c \in Change(a, "role", role) : c[1] = a /\ c[2] # "enrolled"
    BY DEF Change
  <2> QED BY <1>5, <1>7, <2>1 DEF ChangeAdminRole
<1>8. ASSUME NEW actor \in Row, NEW a \in Row, NEW on, SetAdminActive(actor, a, on)
      PROVE  OfficeInv'
  <2>1. \A c \in Change(a, "active", on) : c[1] = a /\ c[2] # "enrolled"
    BY DEF Change
  <2> QED BY <1>5, <1>8, <2>1 DEF SetAdminActive
<1>9. ASSUME NEW t \in Slot, Commit(t) PROVE OfficeInv'
  <2>1. Closes(t) /\ db' = Written(open[t]) /\ outside' = outside
    BY <1>9, CommitCloses
  <2>2. Columns(Row, {"is", "role", "active", "enrolled"})
    BY <1>0 DEF OfficeInv
  <2>3. ASSUME NEW a \in Row, NEW column \in {"is", "role", "active", "enrolled"},
               ~Writes(open[t], a, column)
        PROVE  db'[a][column] = db[a][column]
    BY <2>1, <2>2, <2>3, WrittenKeeps DEF Columns
  <2>4. Columns(Row, {"is", "role", "active", "enrolled"})'
    BY <2>1, <2>2, WrittenShape DEF Columns
  <2>5. ASSUME NEW a \in Row, Writes(open[t], a, "enrolled") PROVE db'[a].enrolled
    <3>1. PICK c \in open[t] : c[1] = a /\ c[2] = "enrolled" /\ db'[a].enrolled = c[3]
      BY <2>1, <2>2, <2>5, WrittenTakes DEF Columns
    <3> QED BY <1>0, <2>1, <3>1 DEF OfficeInv
  <2>6. \A a \in Row : db[a].enrolled => db'[a].enrolled
    BY <2>3, <2>5
  <2>7. ASSUME ~overlapped, ~outside.ghost PROVE \E a \in Row : InCharge(a)'
    <3>1. PICK a \in Row : InCharge(a) /\ \A c \in open[t] : c[1] = a => c[2] = "enrolled"
      BY <1>0, <2>1, <2>7 DEF OfficeInv, Opened, Closes
    <3>2. /\ ~Writes(open[t], a, "is") /\ ~Writes(open[t], a, "role")
          /\ ~Writes(open[t], a, "active")
      BY <3>1 DEF Writes
    <3> QED BY <2>3, <3>1, <3>2 DEF InCharge, Here
  <2>8. ~overlapped => Opened' = {}
    BY <2>1, NoneIsLeft DEF Opened
  <2>9. \A s \in DOMAIN open' : open'[s] \subseteq open[s]
    BY <2>1 DEF Closes
  <2>10. ASSUME NEW a \in Row
         PROVE  a \in outside.token /\ ~outside.undone =>
                  db'[a].enrolled \/ \E s \in DOMAIN open' : Writes(open'[s], a, "enrolled")
    <3>1. ASSUME NEW s \in DOMAIN open, Writes(open[s], a, "enrolled")
          PROVE  db'[a].enrolled \/ Writes(open'[s], a, "enrolled")
      BY <2>1, <2>5, <3>1 DEF Closes
    <3> QED BY <1>0, <2>1, <2>6, <3>1 DEF OfficeInv, Closes
  <2>11. \A s \in DOMAIN open' : \A c \in open'[s] : c[1] \in Row /\ (c[2] = "enrolled" => c[3] = TRUE)
    BY <1>0, <2>1, <2>9 DEF OfficeInv, Closes
  <2> QED BY <1>0, <2>1, <2>4, <2>7, <2>8, <2>10, <2>11 DEF OfficeInv, Closes
<1>10. ASSUME NEW t \in Slot, RollBack(t), outside' = [outside EXCEPT !.undone = TRUE] PROVE OfficeInv'
  <2>1. Closes(t) /\ db' = db
    BY <1>10, RollBackCloses
  <2>2. /\ DOMAIN outside' = DOMAIN outside /\ outside'.login = outside.login
        /\ outside'.ghost = outside.ghost /\ outside'.undone
        /\ outside'.token = outside.token
    BY <1>0, <1>10
  <2>3. Opened' \subseteq Opened /\ \A s \in Opened' : open'[s] = open[s]
    BY <2>1 DEF Closes, Opened
  <2>4. \A s \in DOMAIN open' : open'[s] \subseteq open[s]
    BY <2>1 DEF Closes
  <2>5. Columns(Row, {"is", "role", "active", "enrolled"})' /\ \A a \in Row : InCharge(a)' = InCharge(a)
    BY <1>0, <2>1 DEF OfficeInv, Columns, InCharge, Here
  <2> QED BY <1>0, <2>1, <2>2, <2>3, <2>4, <2>5 DEF OfficeInv, Closes
<1> QED BY <1>1, <1>2, <1>3, <1>4, <1>41, <1>6, <1>7, <1>8, <1>9, <1>10 DEF OfficeNext, AdminSteps

-----------------------------------------------------------------------------
(* The room.                                                               *)
(* What a request in the room writes, and what it shows on the pages.      *)
RoomWrites(w) ==
  /\ \A c \in w : c[1] \in Row /\ c[2] = "is" => c[3] = "here"
  /\ \A c \in w : c[1] \in Row => Here(c[1]) \/ (db[c[1]].is = "none" /\ ~Pending(c[1]))
  /\ \A c \in w : c[1] \in Row /\ Waits(c) => db[c[1]].is = "none" /\ page'[c[1]] = "waiting"
  /\ \A c \in w : c[1] = Meeting /\ c[2] = "status" => c[3] = "ended" \/ meeting.status = "scheduled"

(* Who holds a token from now on may.                                      *)
MayHold(p) ==
  \/ Here(p) /\ db[p].admission # "waiting"
  \/ db[p].is = "none" /\ ~Pending(p)
RoomPages ==
  /\ DOMAIN outside' = DOMAIN outside /\ DOMAIN page' = DOMAIN page
  /\ \A p \in Row : Holds(p)' => Holds(p) \/ MayHold(p)

LEMMA PagesChange ==
  ASSUME RoomInv, topic = "room", RoomPages, UNCHANGED tables
  PROVE  RoomInv'
<1>1. \A p \in Row : Here(p) /\ db[p].admission = "waiting" => ~Holds(p)'
  BY DEF RoomInv, RoomPages, MayHold, Here
<1>2. ASSUME NEW t \in DOMAIN open, NEW c \in open[t], c[1] \in Row, Waits(c)
      PROVE  ~Holds(c[1])'
  <2>1. db[c[1]].is = "none" /\ ~Holds(c[1])
    BY <1>2 DEF RoomInv
  <2>2. Pending(c[1])
    BY WriterIsPending
  <2> QED BY <1>2, <2>1, <2>2 DEF RoomPages, MayHold, Here
<1> QED BY <1>1, <1>2 DEF RoomInv, RoomPages, tables, Columns, Here, meeting

LEMMA RoomBegins ==
  ASSUME RoomInv, topic = "room", RoomPages, NEW t \in DOMAIN open, NEW w, Opens(t, w), RoomWrites(w),
         t \in Job => \A c \in w : c[2] = "admission" => db[c[1]].admission = "waiting"
  PROVE  RoomInv'
<1>1. \A p \in Row : Here(p) /\ db[p].admission = "waiting" => ~Holds(p)'
  BY DEF RoomInv, RoomPages, MayHold, Here
<1>2. ASSUME NEW s \in DOMAIN open, NEW c \in open'[s], c[1] \in Row, Waits(c)
      PROVE  /\ db[c[1]].is = "none" /\ ~Holds(c[1])'
             /\ \A r \in DOMAIN open \ {s} : \A d \in open'[r] : d[1] # c[1]
  <2>1. CASE s = t
    <3>1. c \in w
      BY <2>1 DEF Opens
    <3>2. db[c[1]].is = "none" /\ page'[c[1]] = "waiting" /\ ~Pending(c[1])
      BY <1>2, <3>1 DEF RoomWrites, Here
    <3> QED BY <1>2, <2>1, <3>2 DEF Opens, Pending, Holds
  <2>2. CASE s # t
    <3>1. c \in open[s]
      BY <1>2, <2>2 DEF Opens
    <3>2. db[c[1]].is = "none" /\ ~Holds(c[1]) /\ Pending(c[1])
          /\ \A r \in DOMAIN open \ {s} : \A d \in open[r] : d[1] # c[1]
      BY <1>2, <3>1 DEF RoomInv, Pending
    <3>3. ~Holds(c[1])'
      BY <1>2, <3>2 DEF RoomPages, MayHold, Here
    <3>4. \A d \in w : d[1] # c[1]
      BY <1>2, <3>2 DEF RoomWrites, Here
    <3> QED BY <3>2, <3>3, <3>4 DEF Opens
  <2> QED BY <2>1, <2>2
<1>3. ASSUME NEW s \in DOMAIN open, NEW c \in open'[s]
      PROVE  c[1] \in Row /\ c[2] = "is" => c[3] = "here"
  BY <1>3 DEF Opens, RoomInv, RoomWrites
<1>4. ASSUME ~overlapped', NEW s \in DOMAIN open, NEW c \in open'[s]
      PROVE  /\ c[1] = Meeting /\ c[2] = "status" => c[3] = "ended" \/ meeting.status = "scheduled"
             /\ s \in Job /\ c[2] = "admission" => db[c[1]].admission = "waiting"
  BY <1>4 DEF Opens, RoomInv, RoomWrites
<1> QED BY <1>1, <1>2, <1>3, <1>4 DEF RoomInv, RoomPages, Opens, Columns, Here, meeting

LEMMA RoomEnds ==
  ASSUME RoomInv, topic = "room", OpenAlone, DOMAIN open = Slot \cup Job, NEW t \in Slot \cup Job,
         outside' = outside, Closes(t), db' = db \/ (db' = Written(open[t]) /\ Lawful(open[t]))
  PROVE  RoomInv'
<1>0. \A s \in DOMAIN open' : open'[s] \subseteq open[s]
  BY DEF Closes
<1>1. CASE db' = db
  BY <1>0, <1>1 DEF RoomInv, Closes, Columns, Here, Holds, page, meeting
<1>2. CASE db' = Written(open[t]) /\ Lawful(open[t])
  <2>1. /\ Columns({Meeting}, {"is", "status", "locked", "waiting_room", "scheduled"})
        /\ Columns(Row, {"is", "user", "role", "admission", "joined", "left"})
    BY DEF RoomInv
  <2>2. (/\ Columns({Meeting}, {"is", "status", "locked", "waiting_room", "scheduled"})
         /\ Columns(Row, {"is", "user", "role", "admission", "joined", "left"}))'
    BY <1>2, <2>1, WrittenShape DEF Columns
  <2>3. ASSUME NEW p \in Row, NEW column \in {"is", "admission"}
        PROVE  \/ ~Writes(open[t], p, column) /\ db'[p][column] = db[p][column]
               \/ \E c \in open[t] : c[1] = p /\ c[2] = column /\ db'[p][column] = c[3]
    BY <1>2, <2>1, WrittenKeeps, WrittenTakes DEF Columns
  <2>4. ASSUME NEW p \in Row
        PROVE  /\ db'[p].is \in {"none", "here"}
               /\ db'[p].is = "none" => db[p].is = "none" /\ ~Writes(open[t], p, "is")
               /\ Writes(open[t], p, "is") => db'[p].is = "here"
    <3>1. Writes(open[t], p, "is") => db'[p].is = "here"
      BY <2>3 DEF RoomInv, Closes
    <3>2. ~Writes(open[t], p, "is") => db'[p].is = db[p].is
      BY <2>3 DEF Writes
    <3> QED BY <3>1, <3>2 DEF RoomInv
  <2>5. ASSUME NEW p \in Row, db'[p].is = "none"
        PROVE  db'[p].admission = "admitted"
    <3>1. ~Writes(open[t], p, "admission")
      BY <1>2, <2>4, <2>5 DEF Lawful, Writes, Here
    <3>2. db'[p].admission = db[p].admission
      BY <2>3, <3>1 DEF Writes
    <3> QED BY <2>4, <2>5, <3>2 DEF RoomInv
  <2>6. ASSUME NEW p \in Row, db'[p].admission = "waiting"
        PROVE  ~Holds(p)
    <3>1. CASE \E c \in open[t] : c[1] = p /\ c[2] = "admission" /\ db'[p].admission = c[3]
      BY <2>6, <3>1 DEF RoomInv, Closes, Waits
    <3>2. CASE db'[p].admission = db[p].admission
      BY <2>6, <3>2 DEF RoomInv, Here
    <3> QED BY <2>3, <3>1, <3>2
  <2>7. ASSUME NEW s \in DOMAIN open, NEW c \in open'[s], c[1] \in Row, Waits(c)
        PROVE  /\ db'[c[1]].is = "none"
               /\ ~Holds(c[1])
               /\ \A r \in DOMAIN open \ {s} : \A d \in open'[r] : d[1] # c[1]
    <3>1. s # t /\ c \in open[s]
      BY <2>7, <1>0 DEF Closes
    <3>2. /\ db[c[1]].is = "none" /\ ~Holds(c[1])
          /\ \A r \in DOMAIN open \ {s} : \A d \in open[r] : d[1] # c[1]
      BY <2>7, <3>1 DEF RoomInv
    <3>3. ~Writes(open[t], c[1], "is")
      BY <3>1, <3>2 DEF Writes, Closes
    <3>4. db'[c[1]].is = "none"
      BY <2>3, <2>7, <3>2, <3>3 DEF Writes
    <3> QED BY <1>0, <3>2, <3>4 DEF Closes
  <2>8. ASSUME NEW s \in DOMAIN open', NEW c \in open'[s]
        PROVE  /\ c[1] \in Row /\ c[2] = "is" => c[3] = "here"
               /\ overlapped
    BY <1>0, <2>8, NoneIsLeft DEF RoomInv, Closes
  <2>9. page' = page /\ \A p \in Row : Holds(p)' = Holds(p)
    BY DEF page, Holds
  <2> QED BY <1>2, <2>2, <2>4, <2>5, <2>6, <2>7, <2>8, <2>9 DEF RoomInv, Closes, Here
<1> QED BY <1>1, <1>2

(* What the handlers write.                                                *)
LEMMA RoomChanges ==
  ASSUME NEW p, NEW u, NEW role, NEW admission, NEW value
  PROVE  /\ \A c \in Present(p) : c[1] = p /\ c[2] \in {"joined", "left"}
         /\ \A c \in MarkLive : c[1] = Meeting /\ c[2] = "status" /\ meeting.status = "scheduled"
         /\ \A c \in Arrival(p, u, role, admission) :
              /\ c[1] = p
              /\ \/ c[2] = "is" /\ c[3] = "here"
                 \/ c[2] \in {"user", "role"}
                 \/ c[2] = "admission" /\ c[3] = admission
<1>1. \A c \in Present(p) : c[1] = p /\ c[2] \in {"joined", "left"}
  BY ChangeNames DEF Present
<1>2. \A c \in MarkLive : c[1] = Meeting /\ c[2] = "status" /\ meeting.status = "scheduled"
  BY ChangeNames DEF MarkLive
<1>3. ASSUME NEW c \in Arrival(p, u, role, admission)
      PROVE  /\ c[1] = p
             /\ \/ c[2] = "is" /\ c[3] = "here"
                \/ c[2] \in {"user", "role"}
                \/ c[2] = "admission" /\ c[3] = admission
  <2> DEFINE columns == [user |-> u, role |-> role, admission |-> admission]
  <2>1. c[1] = p /\ ((c[2] = "is" /\ c[3] = "here") \/ c \in Update(p, columns))
    BY InsertShape DEF Arrival
  <2>2. c \in Update(p, columns) => c[2] \in DOMAIN columns /\ c[3] = columns[c[2]]
    BY UpdateShape
  <2>3. DOMAIN columns = {"user", "role", "admission"} /\ columns["admission"] = admission
    OBVIOUS
  <2> HIDE DEF columns
  <2> QED BY <2>1, <2>2, <2>3
<1> QED BY <1>1, <1>2, <1>3

LEMMA RoomCall ==
  ASSUME DOMAIN open = Slot \cup Job, RoomInv, topic = "room", NEW w, Call(w), RoomWrites(w), RoomPages
  PROVE  RoomInv'
BY CallOpens, RoomBegins, RequestsAssumption

LEMMA RoomRequest ==
  ASSUME DOMAIN open = Slot \cup Job, RoomInv, topic = "room", NEW w, Request(w), RoomWrites(w)
  PROVE  RoomInv'
<1>1. RoomPages
  BY DEF Request, RoomPages, page, Holds
<1> QED BY <1>1, RoomCall DEF Request

LEMMA PageShows ==
  ASSUME RoomInv, topic = "room", NEW p \in Row, NEW what, Show(p, what),
         what \in {"token", "room"} => Holds(p) \/ MayHold(p)
  PROVE  RoomPages /\ page'[p] = what
<1>1. /\ DOMAIN outside' = DOMAIN outside /\ DOMAIN page' = Row
      /\ page'[p] = what /\ \A q \in Row \ {p} : page'[q] = page[q]
  BY DEF RoomInv, Show, Shows, page
<1> QED BY <1>1 DEF RoomInv, RoomPages, Holds

LEMMA RoomStep ==
  ASSUME DOMAIN open = Slot \cup Job, OpenAlone, RoomInv, MeetingsNext
  PROVE  RoomInv'
<1>0. topic = "room" /\ Meeting \notin Row
  BY MeetingsAssumption DEF MeetingsNext
<1>1. ASSUME NEW u, NEW p \in Row, JoinAgain(u, p) PROVE RoomInv'
  <2>1. Here(p)
    BY <1>1 DEF JoinAgain, OnlyRow, RowsOf, In
  <2>2. CASE db[p].admission = "waiting" /\ Call({}) /\ Show(p, "waiting")
    <3>1. RoomWrites({})
      BY DEF RoomWrites
    <3> QED BY <1>0, <2>2, <3>1, PageShows, RoomCall
  <2>3. CASE db[p].admission = "admitted" /\ Call(Present(p) \cup MarkLive) /\ Show(p, "token")
    <3>1. RoomWrites(Present(p) \cup MarkLive)
      BY <1>0, <2>1, RoomChanges DEF RoomWrites, Waits
    <3>2. MayHold(p)
      BY <2>1, <2>3 DEF MayHold
    <3> QED BY <1>0, <2>3, <3>1, <3>2, PageShows, RoomCall
  <2> QED BY <1>1, <2>2, <2>3 DEF JoinAgain
<1>2. ASSUME NEW u, NEW p \in Row, Enter(p, u) PROVE RoomInv'
  <2>1. db[p].is = "none" /\ ~Pending(p)
    BY <1>2 DEF Enter, Newcomer, Unused
  <2>2. ASSUME NEW w, w = Arrival(p, u, "participant", "waiting"), Call(w), Show(p, "waiting")
        PROVE  RoomInv'
    <3>1. RoomPages /\ page'[p] = "waiting"
      BY <1>0, <2>2, PageShows
    <3>2. RoomWrites(w)
      BY <1>0, <2>1, <2>2, <3>1, RoomChanges DEF RoomWrites, Waits
    <3> QED BY <1>0, <2>2, <3>1, <3>2, RoomCall
  <2>3. ASSUME NEW w, w = Arrival(p, u, "participant", "admitted") \cup Present(p) \cup MarkLive,
               Call(w), Show(p, "token")
        PROVE  RoomInv'
    <3>1. RoomPages
      BY <1>0, <2>1, <2>3, PageShows DEF MayHold
    <3>2. RoomWrites(w)
      BY <1>0, <2>1, <2>3, <3>1, RoomChanges DEF RoomWrites, Waits
    <3> QED BY <1>0, <2>3, <3>1, <3>2, RoomCall
  <2> QED BY <1>2, <2>2, <2>3 DEF Enter
<1>3. ASSUME NEW p \in Row, GetParticipantStatus(p) \/ Connect(p) PROVE RoomInv'
  <2>1. UNCHANGED tables /\ \E what : Show(p, what)
    BY <1>3 DEF GetParticipantStatus, Connect, Outside, Show
  <2>2. Holds(p) \/ MayHold(p)
    BY <1>3 DEF GetParticipantStatus, Connect, In, Holds, MayHold
  <2> QED BY <1>0, <2>1, <2>2, PageShows, PagesChange
<1>4. ASSUME NEW p \in Row, NEW told, Disconnect(p, told) PROVE RoomInv'
  <2>1. UNCHANGED tables /\ RoomPages
    BY <1>0, <1>4 DEF Disconnect, Outside, RoomInv, RoomPages, Holds, page
  <2> QED BY <1>0, <2>1, PagesChange
<1>5. ASSUME NEW p \in Row, Leave(p) PROVE RoomInv'
  <2>0. outside' = [outside EXCEPT !.leaves = @ \ {p}] /\ DOMAIN outside = {"clock", "leaves", "page"}
    <3>1. DOMAIN outside = {"clock", "leaves", "page"}
      BY <1>0 DEF RoomInv
    <3>2. outside' = [outside EXCEPT !.leaves = @ \ {p}]
      BY <1>5 DEF Leave
    <3> QED BY <3>1, <3>2
  <2>1. RoomPages
    <3>1. DOMAIN outside' = DOMAIN outside /\ page' = page
      BY <2>0 DEF page
    <3> QED BY <3>1 DEF RoomPages, Holds
  <2>2. CASE UNCHANGED tables
    BY <1>0, <2>1, <2>2, PagesChange
  <2>3. CASE Here(p) /\ Call(Change(p, "left", TRUE))
    <3>1. \A c \in Change(p, "left", TRUE) : c[1] = p /\ c[2] = "left"
      BY ChangeNames
    <3>2. RoomWrites(Change(p, "left", TRUE))
      BY <1>0, <2>3, <3>1 DEF RoomWrites, Waits
    <3> QED BY <1>0, <2>1, <2>3, <3>2, RoomCall
  <2> QED BY <1>5, <2>2, <2>3 DEF Leave, In
<1>6. ASSUME NEW ps, ThrowOut(ps) PROVE RoomPages
  BY <1>0, <1>6 DEF ThrowOut, RoomInv, RoomPages, Holds, page, Participant
<1>7. ASSUME End PROVE RoomInv'
  <2>1. RoomWrites(Change(Meeting, "status", "ended"))
    BY <1>0, ChangeShape DEF RoomWrites
  <2> QED BY <1>0, <1>6, <1>7, <2>1, RoomCall DEF End
<1>8. ASSUME DeleteMeeting PROVE RoomInv'
  <2>1. RoomWrites(Delete(Meeting))
    BY <1>0, ChangeNames DEF RoomWrites, Delete
  <2> QED BY <1>0, <1>8, <2>1, RoomRequest DEF DeleteMeeting
<1>9. ASSUME NEW p \in Row, NEW u, InviteCoHost(u, p) PROVE RoomInv'
  <2>1. CASE OnlyRow(u, p) /\ Request(Change(p, "role", "co_host"))
    <3>1. RoomWrites(Change(p, "role", "co_host"))
      BY <1>0, <2>1, ChangeNames DEF RoomWrites, Waits, OnlyRow, RowsOf, In
    <3> QED BY <1>0, <2>1, <3>1, RoomRequest
  <2>2. CASE Newcomer(p) /\ Request(Arrival(p, u, "co_host", "admitted"))
    <3>1. RoomWrites(Arrival(p, u, "co_host", "admitted"))
      BY <1>0, <2>2, RoomChanges DEF RoomWrites, Waits, Newcomer, Unused
    <3> QED BY <1>0, <2>2, <3>1, RoomRequest
  <2> QED BY <1>9, <2>1, <2>2 DEF InviteCoHost
<1>10. ASSUME NEW p \in Row, Admit(p) PROVE RoomInv'
  <2>1. RoomWrites(Change(p, "admission", "admitted"))
    BY <1>0, <1>10, ChangeShape DEF RoomWrites, Waits, Admit, In
  <2> QED BY <1>0, <1>10, <2>1, RoomRequest DEF Admit
<1>11. ASSUME NEW p \in Row, Remove(p) PROVE RoomInv'
  <2>1. RoomWrites(Change(p, "admission", "removed") \cup Change(p, "left", TRUE))
    <3>1. \A c \in Change(p, "admission", "removed") : c[1] = p /\ c[2] = "admission" /\ c[3] = "removed"
      BY ChangeShape
    <3>2. \A c \in Change(p, "left", TRUE) : c[1] = p /\ c[2] = "left"
      BY ChangeNames
    <3> QED BY <1>0, <1>11, <3>1, <3>2 DEF RoomWrites, Waits, Remove, In
  <2> QED BY <1>0, <1>6, <1>11, <2>1, RoomCall DEF Remove
<1>12. ASSUME NEW p \in Row, Promote(p) PROVE RoomInv'
  <2>1. RoomWrites(Change(p, "role", "co_host"))
    BY <1>0, <1>12, ChangeNames DEF RoomWrites, Waits, Promote, In
  <2> QED BY <1>0, <1>12, <2>1, RoomRequest DEF Promote
<1>13. ASSUME NEW on, SetLocked(on) \/ SetWaitingRoom(on) PROVE RoomInv'
  <2>1. RoomWrites(Change(Meeting, "locked", on)) /\ RoomWrites(Change(Meeting, "waiting_room", on))
    BY <1>0, ChangeNames DEF RoomWrites
  <2> QED BY <1>0, <1>13, <2>1, RoomRequest DEF SetLocked, SetWaitingRoom
<1>14. ASSUME Tick PROVE RoomInv'
  <2>1. UNCHANGED tables /\ RoomPages
    BY <1>0, <1>14 DEF Tick, Outside, RoomInv, RoomPages, Holds, page
  <2> QED BY <1>0, <2>1, PagesChange
<1>15. ASSUME NEW j \in Job, AutoPromote(j) PROVE RoomInv'
  <2>1. ASSUME NEW c \in LetEveryoneIn
        PROVE  \/ c[1] = Meeting /\ c[2] = "status" /\ meeting.status = "scheduled"
               \/ /\ c[1] \in Row /\ Here(c[1]) /\ db[c[1]].admission = "waiting"
                  /\ c[2] = "admission" /\ c[3] = "admitted"
    <3>1. CASE c \in MarkLive
      BY <3>1, RoomChanges
    <3>2. CASE \E p \in Row : In(p) /\ db[p].admission = "waiting" /\ c \in Change(p, "admission", "admitted")
      BY <3>2, ChangeShape DEF In
    <3> QED BY <3>1, <3>2 DEF LetEveryoneIn, Participant
  <2>2. RoomWrites(LetEveryoneIn)
    BY <1>0, <2>1 DEF RoomWrites, Waits
  <2>3. \A c \in LetEveryoneIn : c[2] = "admission" => db[c[1]].admission = "waiting"
    BY <2>1
  <2>4. Opens(j, LetEveryoneIn) /\ RoomPages
    BY <1>15, BeginOpens DEF AutoPromote, RoomPages, page, Holds
  <2> QED BY <1>0, <2>2, <2>3, <2>4, RoomBegins
<1>16. ASSUME NEW t \in Slot \cup Job, CommitMeeting(t) \/ FailMeeting(t) PROVE RoomInv'
  <2>1. Closes(t) /\ outside' = outside /\ (db' = db \/ (db' = Written(open[t]) /\ Lawful(open[t])))
    BY <1>16, CommitCloses, RollBackCloses DEF CommitMeeting, FailMeeting
  <2> QED BY <1>0, <2>1, RoomEnds
<1> QED BY <1>1, <1>2, <1>3, <1>4, <1>5, <1>7, <1>8, <1>9, <1>10, <1>11, <1>12, <1>13, <1>14,
           <1>15, <1>16 DEF MeetingsNext, Entrances, Exits, Moderation, Pages, HostPinJoin, Join,
           GuestJoin, Participant

-----------------------------------------------------------------------------
(* The stage.                                                              *)
(* A request about p, and what the SFU is told of them.                    *)
StageRequest(w, p) ==
  /\ \A c \in w : c[1] = p
  /\ DOMAIN outside' = DOMAIN outside /\ outside'.connected = outside.connected
  /\ outside'.raced <=> (outside.raced \/ ~Quiet)
  /\ outside'.publishes \subseteq outside.publishes \cup {p}
  /\ outside.unmuted \subseteq outside'.unmuted \cup {p}
  /\ p \in outside'.publishes =>
       \/ p \in outside'.unmuted
       \/ /\ \A c \in w : c[2] = "stage" => c[3] = "on_stage"
          /\ db[p].stage = "on_stage" \/ Writes(w, p, "stage")

LEMMA StageCall ==
  ASSUME DOMAIN open = Slot \cup Job, StageInv, topic = "stage", NEW p \in Row, NEW w, Call(w),
         StageRequest(w, p)
  PROVE  StageInv'
<1>1. PICK t \in Slot : Opens(t, w)
  BY CallOpens
<1>2. overlapped' <=> (overlapped \/ (w # {} /\ ~Quiet))
  BY DEF Call, Begin
<1>3. ASSUME ~outside'.raced, NEW q \in connected' \cap outside'.publishes
      PROVE  q \in outside'.unmuted \/ OnStageAfter(q)'
  <2>1. ~outside.raced /\ Quiet
    BY <1>3 DEF StageRequest
  <2>2. \A s \in DOMAIN open' : open'[s] = IF s = t THEN w ELSE {}
    BY <1>1, <2>1 DEF Opens, Quiet
  <2>3. CASE q = p
    <3>1. CASE p \in outside'.unmuted
      BY <2>3, <3>1
    <3>2. CASE /\ \A c \in w : c[2] = "stage" => c[3] = "on_stage"
               /\ db[p].stage = "on_stage" \/ Writes(w, p, "stage")
      <4>1. t \in DOMAIN open'
        BY <1>1 DEF Opens
      <4>2. \A s \in DOMAIN open' : \A c \in open'[s] : c[2] = "stage" => c[3] = "on_stage"
        BY <2>2, <3>2
      <4>3. db'[p].stage = "on_stage" \/ Writes(open'[t], p, "stage")
        BY <1>1, <3>2 DEF Opens
      <4> QED BY <2>3, <4>1, <4>2, <4>3 DEF OnStageAfter
    <3> QED BY <1>3, <2>3, <3>1, <3>2 DEF StageRequest
  <2>4. CASE q # p
    <3>1. q \in connected \cap outside.publishes
      BY <1>3, <2>4 DEF StageRequest, connected
    <3>2. q \in outside.unmuted \/ db[q].stage = "on_stage"
      BY <2>1, <3>1 DEF StageInv, OnStageAfter, Quiet, Writes
    <3>3. \A s \in DOMAIN open' : \A c \in open'[s] : c[1] # q
      BY <2>2, <2>4 DEF StageRequest
    <3>4. db' = db
      BY <1>1 DEF Opens
    <3> QED BY <2>4, <3>2, <3>3, <3>4 DEF StageRequest, OnStageAfter
  <2> QED BY <2>3, <2>4
<1>4. overlapped' => outside'.raced
  BY <1>2 DEF StageInv, StageRequest
<1>5. Columns(Row, {"is", "role", "stage"})' /\ topic' = topic
  BY <1>1 DEF StageInv, Columns, Opens
<1> QED BY <1>3, <1>4, <1>5 DEF StageInv, StageRequest, connected

LEMMA StageStep ==
  ASSUME DOMAIN open = Slot \cup Job, OpenAlone, StageInv, StageNext
  PROVE  StageInv'
<1>0. topic = "stage" /\ DOMAIN outside = {"connected", "publishes", "tokens", "unmuted", "raced"}
  BY DEF StageNext, StageInv
<1>1. ASSUME NEW p \in Row, EnterStage(p) PROVE StageInv'
  <2>1. PICK on :
          /\ UNCHANGED tables
          /\ outside' = [outside EXCEPT !.connected = @ \cup {p}, !.unmuted = @ \ {p},
                               !.raced = @ \/ ~Quiet \/ (on /\ db[p].stage # "on_stage"),
                               !.publishes = Publishing(p, on)]
    BY <1>1 DEF EnterStage, Outside
  <2>2. /\ DOMAIN outside' = DOMAIN outside
        /\ outside'.connected = outside.connected \cup {p}
        /\ outside'.unmuted = outside.unmuted \ {p}
        /\ outside'.raced <=> (outside.raced \/ ~Quiet \/ (on /\ db[p].stage # "on_stage"))
        /\ outside'.publishes = Publishing(p, on)
    BY <1>0, <2>1
  <2>3. ASSUME ~outside'.raced, NEW q \in connected' \cap outside'.publishes
        PROVE  q \in outside'.unmuted \/ OnStageAfter(q)
    <3>1. Quiet /\ ~outside.raced
      BY <2>2, <2>3
    <3>2. CASE q = p
      BY <2>2, <2>3, <3>1, <3>2 DEF Publishing, OnStageAfter, Quiet
    <3>3. CASE q # p
      <4>1. q \in connected \cap outside.publishes
        BY <2>2, <2>3, <3>3 DEF Publishing, connected
      <4> QED BY <1>0, <2>2, <3>1, <3>3, <4>1 DEF StageInv
    <3> QED BY <3>2, <3>3
  <2>4. \A q : OnStageAfter(q)' = OnStageAfter(q)
    BY <2>1 DEF OnStageAfter, tables, Writes
  <2> QED BY <1>0, <2>1, <2>2, <2>3, <2>4 DEF StageInv, tables, Columns, connected
<1>11. ASSUME NEW p \in Row, TakeToken(p) PROVE StageInv'
  <2>1. PICK on : UNCHANGED tables /\ outside' = [outside EXCEPT !.tokens[p] = @ \cup {on}]
    BY <1>11 DEF TakeToken, Outside
  <2>2. /\ DOMAIN outside' = DOMAIN outside
        /\ outside'.connected = outside.connected /\ outside'.publishes = outside.publishes
        /\ outside'.unmuted = outside.unmuted /\ outside'.raced = outside.raced
    BY <1>0, <2>1
  <2>3. \A q : OnStageAfter(q)' = OnStageAfter(q)
    BY <2>1 DEF OnStageAfter, tables, Writes
  <2> QED BY <1>0, <2>1, <2>2, <2>3 DEF StageInv, tables, Columns, connected
<1>2. ASSUME NEW p \in Row, Drop(p) PROVE StageInv'
  <2>1. UNCHANGED tables /\ outside' = [outside EXCEPT !.connected = @ \ {p}]
    BY <1>2 DEF Drop, Outside
  <2>2. /\ DOMAIN outside' = DOMAIN outside
        /\ outside'.connected \subseteq outside.connected
        /\ outside'.unmuted = outside.unmuted /\ outside'.publishes = outside.publishes
        /\ outside'.raced = outside.raced
    BY <1>0, <2>1
  <2>3. \A q : OnStageAfter(q)' = OnStageAfter(q)
    BY <2>1 DEF OnStageAfter, tables, Writes
  <2> QED BY <1>0, <2>1, <2>2, <2>3 DEF StageInv, tables, Columns, connected
<1>3. ASSUME NEW p \in Row, NEW on, NEW unmuted, CanPublish(p, on, unmuted)
      PROVE  /\ DOMAIN outside' = DOMAIN outside /\ outside'.connected = outside.connected
             /\ outside'.raced <=> (outside.raced \/ ~Quiet)
             /\ outside'.publishes = Publishing(p, on) /\ outside'.unmuted = unmuted
  BY <1>0, <1>3 DEF CanPublish
<1>4. ASSUME NEW p \in Row, InviteToStage(p) PROVE StageInv'
  <2> DEFINE w == Change(p, "stage", "on_stage")
             on == TRUE
  <2>1. /\ \A c \in w : c[1] = p /\ c[2] = "stage" /\ c[3] = "on_stage"
        /\ db[p]["stage"] = "on_stage" \/ Writes(w, p, "stage")
    BY ChangeShape
  <2>2. Call(w) /\ CanPublish(p, on, outside.unmuted) /\ on
    <3>1. on
      OBVIOUS
    <3>2. Call(w)
      BY <1>4 DEF InviteToStage
    <3>3. CanPublish(p, on, outside.unmuted)
      BY <1>4 DEF InviteToStage, CanPublish
    <3> HIDE DEF on, w
    <3> QED BY <3>1, <3>2, <3>3
  <2> HIDE DEF w, on
  <2>3. StageRequest(w, p)
    BY <1>3, <2>1, <2>2 DEF StageRequest, Publishing
  <2> QED BY <1>0, <2>2, <2>3, StageCall
<1>5. ASSUME NEW p \in Row, MoveToAudience(p) PROVE StageInv'
  <2> DEFINE w == Change(p, "stage", "audience")
             on == FALSE
  <2>1. \A c \in w : c[1] = p
    BY ChangeNames
  <2>2. Call(w) /\ CanPublish(p, on, outside.unmuted \ {p}) /\ ~on
    <3>1. ~on
      OBVIOUS
    <3>2. Call(w)
      BY <1>5 DEF MoveToAudience
    <3>3. CanPublish(p, on, outside.unmuted \ {p})
      BY <1>5 DEF MoveToAudience, CanPublish
    <3> HIDE DEF on, w
    <3> QED BY <3>1, <3>2, <3>3
  <2> HIDE DEF w, on
  <2>3. /\ DOMAIN outside' = DOMAIN outside /\ outside'.connected = outside.connected
        /\ outside'.raced <=> (outside.raced \/ ~Quiet)
        /\ outside'.publishes = Publishing(p, on) /\ outside'.unmuted = outside.unmuted \ {p}
    BY <1>3, <2>2
  <2>4. StageRequest(w, p)
    BY <2>1, <2>2, <2>3 DEF StageRequest, Publishing
  <2> QED BY <1>0, <2>2, <2>4, StageCall
<1>6. ASSUME NEW p \in Row, NEW muted, SetParticipantMuted(p, muted) PROVE StageInv'
  <2>1. Call({})
    BY <1>6 DEF SetParticipantMuted
  <2>2. CASE muted
    <3> DEFINE on == FALSE
    <3>0. ~on
      OBVIOUS
    <3>1. CanPublish(p, on, outside.unmuted \ {p})
      BY <1>6, <2>2 DEF SetParticipantMuted, CanPublish
    <3> HIDE DEF on
    <3>2. /\ DOMAIN outside' = DOMAIN outside /\ outside'.connected = outside.connected
          /\ outside'.raced <=> (outside.raced \/ ~Quiet)
          /\ outside'.publishes = Publishing(p, on) /\ outside'.unmuted = outside.unmuted \ {p}
      BY <1>3, <3>1
    <3>3. StageRequest({}, p)
      BY <3>0, <3>2 DEF StageRequest, Publishing
    <3> QED BY <1>0, <2>1, <3>3, StageCall
  <2>3. CASE ~muted
    <3> DEFINE on == TRUE
    <3>0. on
      OBVIOUS
    <3>1. CanPublish(p, on, outside.unmuted \cup {p})
      BY <1>6, <2>3 DEF SetParticipantMuted, CanPublish
    <3> HIDE DEF on
    <3>2. /\ DOMAIN outside' = DOMAIN outside /\ outside'.connected = outside.connected
          /\ outside'.raced <=> (outside.raced \/ ~Quiet)
          /\ outside'.publishes = Publishing(p, on) /\ outside'.unmuted = outside.unmuted \cup {p}
      BY <1>3, <3>1
    <3>3. StageRequest({}, p)
      BY <3>0, <3>2 DEF StageRequest, Publishing
    <3> QED BY <1>0, <2>1, <3>3, StageCall
  <2> QED BY <2>2, <2>3
<1>7. ASSUME NEW t \in Slot, Commit(t) PROVE StageInv'
  <2>1. Closes(t) /\ db' = Written(open[t]) /\ outside' = outside
    BY <1>7, CommitCloses
  <2>2. Columns(Row, {"is", "role", "stage"})
    BY <1>0 DEF StageInv
  <2>3. Columns(Row, {"is", "role", "stage"})'
    BY <2>1, <2>2, WrittenShape DEF Columns
  <2>4. ASSUME ~outside.raced, NEW p \in connected \cap outside.publishes, p \notin outside.unmuted
        PROVE  OnStageAfter(p)'
    <3>1. ~overlapped /\ OnStageAfter(p) /\ p \in Row
      BY <1>0, <2>4 DEF StageInv
    <3>2. \A s \in DOMAIN open' : open'[s] = {}
      BY <2>1, <3>1, NoneIsLeft
    <3>3. \A s \in DOMAIN open : open[s] # {} => s = t
      BY <2>1, <3>1 DEF OpenAlone, Closes
    <3>4. \/ ~Writes(open[t], p, "stage") /\ db'[p]["stage"] = db[p]["stage"]
          \/ \E c \in open[t] : c[1] = p /\ c[2] = "stage" /\ db'[p]["stage"] = c[3]
      BY <2>1, <2>2, <3>1, CommitColumn DEF Columns
    <3>5. ~Writes(open[t], p, "stage") => db[p].stage = "on_stage"
      BY <3>1, <3>3 DEF OnStageAfter, Writes
    <3>6. db'[p].stage = "on_stage"
      BY <2>1, <3>1, <3>4, <3>5 DEF OnStageAfter, Closes
    <3> QED BY <3>2, <3>6 DEF OnStageAfter
  <2> QED BY <1>0, <2>1, <2>3, <2>4 DEF StageInv, Closes, connected
<1>8. ASSUME NEW t \in Slot, FailStage(t) PROVE StageInv'
  <2>1. Closes(t) /\ db' = db
    BY <1>8, RollBackCloses DEF FailStage
  <2>2. /\ DOMAIN outside' = DOMAIN outside
        /\ outside'.connected = outside.connected /\ outside'.publishes = outside.publishes
        /\ outside'.unmuted = outside.unmuted
        /\ outside'.raced <=> (outside.raced \/ \E c \in open[t] : c[3] = "on_stage")
    BY <1>0, <1>8 DEF FailStage
  <2>3. Columns(Row, {"is", "role", "stage"})'
    BY <1>0, <2>1 DEF StageInv, Columns
  <2>4. ASSUME ~outside'.raced, NEW p \in connected \cap outside.publishes, p \notin outside.unmuted
        PROVE  OnStageAfter(p)'
    <3>1. ~overlapped /\ OnStageAfter(p) /\ \A c \in open[t] : c[3] # "on_stage"
      BY <1>0, <2>2, <2>4 DEF StageInv
    <3>2. \A s \in DOMAIN open' : open'[s] = {}
      BY <2>1, <3>1, NoneIsLeft
    <3>3. \A s \in DOMAIN open : open[s] # {} => s = t
      BY <2>1, <3>1 DEF OpenAlone, Closes
    <3>4. ~Writes(open[t], p, "stage")
      BY <3>1 DEF OnStageAfter, Writes
    <3>5. db[p].stage = "on_stage"
      BY <3>1, <3>3, <3>4 DEF OnStageAfter, Writes
    <3> QED BY <2>1, <3>2, <3>5 DEF OnStageAfter
  <2> QED BY <1>0, <2>1, <2>2, <2>3, <2>4 DEF StageInv, Closes, connected
<1> QED BY <1>1, <1>11, <1>2, <1>4, <1>5, <1>6, <1>7, <1>8 DEF StageNext

-----------------------------------------------------------------------------
(* The upgrade to VIP.                                                     *)
VipWrites(w) ==
  \A c \in w :
    /\ c[2] = "is" => c[3] = "here"
    /\ c[2] = "paid" => c[3] = TRUE
    /\ c[1] \in Subscriptions /\ c[2] = "status" /\ c[3] = "awaiting_kyc" =>
         db[c[1]].paid \/ Writes(w, c[1], "paid")
    /\ c[1] \in KycDocuments /\ c[2] = "status" /\ c[3] = "passed" => outside'.passed
    /\ c[1] = Face(1) => Paid /\ outside'.passed
    /\ c[1] = Face(1) /\ c[2] = "status" => Decided(Face(1), c[3])
    /\ c[1] = Subscriber /\ c[2] = "tier" =>
         /\ Here(Face(1)) /\ Decided(Face(1), "passed")
         /\ db[Face(1)].status = "passed" \/ Writes(w, Face(1), "status")
VipWorld ==
  /\ DOMAIN outside' = DOMAIN outside /\ DOMAIN says' = DOMAIN says
  /\ outside.passed => outside'.passed
  /\ \A outcome : Decided(Face(1), outcome) => Decided(Face(1), outcome)'
  /\ says'[Face(1)] = says[Face(1)] \/ says'[Face(1)] \in {"passed", "failed"}

LEMMA VipNames ==
  /\ Face(1) \notin Subscriptions /\ Face(1) \notin KycDocuments /\ Face(1) # Subscriber
  /\ Subscriber \notin Subscriptions /\ Subscriber \notin KycDocuments
  /\ Subscriptions \cap KycDocuments = {}
  /\ \A s \in Subscriptions : s[1] = "subscription"
  /\ \A d \in KycDocuments : d[1] = "document"
  /\ Face(1)[1] = "face" /\ Subscriber[1] = "user"
<1>1. \A s \in Subscriptions : s[1] = "subscription"
  BY DEF Subscriptions, Sub
<1>2. \A d \in KycDocuments : d[1] = "document"
  BY DEF KycDocuments, Doc
<1>3. Face(1)[1] = "face" /\ Subscriber[1] = "user"
  BY DEF Face, Subscriber
<1> QED BY <1>1, <1>2, <1>3

LEMMA VipKept ==
  ASSUME VipInv, topic = "vip", VipWorld, UNCHANGED <<db, topic>>, DOMAIN open' = DOMAIN open,
         \A t \in DOMAIN open : open'[t] = open[t] \/ open'[t] = {} \/ VipWrites(open'[t])
  PROVE  VipInv'
<1>1. ASSUME NEW t \in DOMAIN open', NEW c \in open'[t]
      PROVE  /\ c[2] = "is" => c[3] = "here"
             /\ c[2] = "paid" => c[3] = TRUE
             /\ c[1] \in Subscriptions /\ c[2] = "status" /\ c[3] = "awaiting_kyc" =>
                  db[c[1]].paid \/ Writes(open'[t], c[1], "paid")
             /\ c[1] \in KycDocuments /\ c[2] = "status" /\ c[3] = "passed" => outside'.passed
             /\ c[1] = Face(1) => Paid /\ outside'.passed
             /\ c[1] = Face(1) /\ c[2] = "status" => Decided(Face(1), c[3])'
             /\ c[1] = Subscriber /\ c[2] = "tier" =>
                  /\ Here(Face(1)) /\ Decided(Face(1), "passed")'
                  /\ db[Face(1)].status = "passed" \/ Writes(open'[t], Face(1), "status")
  <2>1. CASE open'[t] = open[t]
    BY <1>1, <2>1 DEF VipInv, VipWorld
  <2>2. CASE VipWrites(open'[t])
    BY <1>1, <2>2 DEF VipWrites, VipWorld
  <2> QED BY <1>1, <2>1, <2>2
<1>2. Paid' = Paid /\ Here(Face(1))' = Here(Face(1))
  BY DEF Paid, Here
<1>3. \A t, k, column : Writes(open'[t], k, column) = Writes(open[t], k, column)'
  BY DEF Writes
<1>4. /\ Columns(Subscriptions, {"is", "status", "paid"})'
      /\ Columns(KycDocuments \cup {Face(1)}, {"is", "status"})'
      /\ Columns({Subscriber}, {"is", "tier"})'
  BY DEF VipInv, Columns
<1> QED BY <1>1, <1>2, <1>3, <1>4 DEF VipInv, VipWorld

LEMMA VipCall ==
  ASSUME DOMAIN open = Slot \cup Job, VipInv, topic = "vip", NEW w, Call(w), VipWrites(w), VipWorld
  PROVE  VipInv'
<1>1. PICK t \in Slot : Opens(t, w)
  BY CallOpens
<1> QED BY <1>1, VipKept DEF Opens

LEMMA VipRequest ==
  ASSUME DOMAIN open = Slot \cup Job, VipInv, topic = "vip", NEW w, Request(w), VipWrites(w)
  PROVE  VipInv'
BY VipCall DEF Request, VipWorld, says, Decided

LEMMA VipEnds ==
  ASSUME VipInv, topic = "vip", DOMAIN open = Slot \cup Job, NEW t \in Slot \cup Job,
         outside' = outside, Closes(t), db' = Written(open[t]), Lawful(open[t])
  PROVE  VipInv'
<1>0. \A s \in DOMAIN open' : open'[s] \subseteq open[s] /\ (s # t => open'[s] = open[s])
  BY DEF Closes
<1>1. /\ Columns(Subscriptions, {"is", "status", "paid"})
      /\ Columns(KycDocuments \cup {Face(1)}, {"is", "status"})
      /\ Columns({Subscriber}, {"is", "tier"})
  BY DEF VipInv
<1>2. (/\ Columns(Subscriptions, {"is", "status", "paid"})
       /\ Columns(KycDocuments \cup {Face(1)}, {"is", "status"})
       /\ Columns({Subscriber}, {"is", "tier"}))'
  <2>1. DOMAIN db' = DOMAIN db /\ \A row \in DOMAIN db : DOMAIN db'[row] = DOMAIN db[row]
    BY WrittenShape
  <2> QED BY <1>1, <2>1 DEF Columns
<1>3. ASSUME NEW s \in Subscriptions, NEW column \in {"is", "status", "paid"}
      PROVE  \/ ~Writes(open[t], s, column) /\ db'[s][column] = db[s][column]
             \/ \E c \in open[t] : c[1] = s /\ c[2] = column /\ db'[s][column] = c[3]
  BY <1>1, CommitColumn DEF Columns
<1>4. ASSUME NEW d \in KycDocuments \cup {Face(1)}, NEW column \in {"is", "status"}
      PROVE  \/ ~Writes(open[t], d, column) /\ db'[d][column] = db[d][column]
             \/ \E c \in open[t] : c[1] = d /\ c[2] = column /\ db'[d][column] = c[3]
  BY <1>1, CommitColumn DEF Columns
<1>5. \/ ~Writes(open[t], Subscriber, "tier") /\ db'[Subscriber]["tier"] = db[Subscriber]["tier"]
      \/ \E c \in open[t] : c[1] = Subscriber /\ c[2] = "tier" /\ db'[Subscriber]["tier"] = c[3]
  <2>1. Subscriber \in DOMAIN db /\ "tier" \in DOMAIN db[Subscriber]
    BY <1>1 DEF Columns
  <2> QED BY <2>1, CommitColumn
<1>6. ASSUME NEW s \in Subscriptions
      PROVE  /\ db[s].paid => db'[s].paid
             /\ Writes(open[t], s, "paid") => db'[s].paid
             /\ db'[s].status = "awaiting_kyc" => db'[s].paid
  <2>1. \/ ~Writes(open[t], s, "paid") /\ db'[s]["paid"] = db[s]["paid"]
        \/ \E c \in open[t] : c[1] = s /\ c[2] = "paid" /\ db'[s]["paid"] = c[3]
    BY <1>3
  <2>2. \A c \in open[t] : c[2] = "paid" => c[3] = TRUE
    BY DEF VipInv
  <2>3. (db[s].paid => db'[s].paid) /\ (Writes(open[t], s, "paid") => db'[s].paid)
    BY <2>1, <2>2
  <2>4. \/ db'[s].status = db[s].status
        \/ \E c \in open[t] : c[1] = s /\ c[2] = "status" /\ db'[s].status = c[3]
    BY <1>3
  <2> QED BY <2>3, <2>4 DEF VipInv
<1>7. Paid => Paid'
  BY <1>6 DEF Paid
<1>8. ASSUME NEW d \in KycDocuments, db'[d].status = "passed" PROVE outside.passed
  BY <1>4, <1>8 DEF VipInv
<1>9. /\ db'[Face(1)].is = "none" \/ Here(Face(1))'
      /\ Here(Face(1)) => Here(Face(1))'
      /\ Here(Face(1))' => Here(Face(1)) \/ Writes(open[t], Face(1), "is")
      /\ db'[Face(1)].is = "none" => db[Face(1)].is = "none" /\ ~Writes(open[t], Face(1), "is")
  <2>1. \/ ~Writes(open[t], Face(1), "is") /\ db'[Face(1)]["is"] = db[Face(1)]["is"]
        \/ Writes(open[t], Face(1), "is") /\ db'[Face(1)]["is"] = "here"
    BY <1>4 DEF VipInv, Writes
  <2> QED BY <2>1 DEF VipInv, Here
<1>10. db'[Face(1)].is = "none" => db'[Face(1)].status = "pending"
  <2>1. ASSUME db'[Face(1)].is = "none" PROVE ~Writes(open[t], Face(1), "status")
    BY <1>9, <2>1 DEF Lawful, Writes, Here
  <2> QED BY <1>4, <1>9, <2>1 DEF VipInv, Writes
<1>11. Here(Face(1))' => Paid' /\ outside.passed
  BY <1>7, <1>9 DEF VipInv, Writes
<1>12. \/ ~Writes(open[t], Face(1), "status") /\ db'[Face(1)].status = db[Face(1)].status
       \/ Decided(Face(1), db'[Face(1)].status)
  BY <1>4 DEF VipInv
<1>13. db'[Face(1)].status = "pending" \/ Decided(Face(1), db'[Face(1)].status)
  BY <1>12 DEF VipInv
<1>14. ASSUME Decided(Face(1), "passed")
       PROVE  /\ db[Face(1)].status = "passed" => db'[Face(1)].status = "passed"
              /\ Writes(open[t], Face(1), "status") => db'[Face(1)].status = "passed"
  BY <1>12, <1>14 DEF Decided
<1>15. db'[Subscriber].tier = "vip" => Here(Face(1))' /\ db'[Face(1)].status = "passed"
  <2>1. CASE \E c \in open[t] : c[1] = Subscriber /\ c[2] = "tier"
    BY <1>9, <1>14, <2>1 DEF VipInv
  <2>2. CASE db'[Subscriber].tier = db[Subscriber].tier
    <3>1. db[Subscriber].tier = "vip" => Decided(Face(1), "passed")
      BY DEF VipInv
    <3> QED BY <1>9, <1>14, <2>2, <3>1 DEF VipInv
  <2> QED BY <1>5, <2>1, <2>2
<1>16. says' = says /\ (\A outcome : Decided(Face(1), outcome)' = Decided(Face(1), outcome))
       /\ (\A s, k, column : Writes(open'[s], k, column) = Writes(open[s], k, column)')
  BY DEF says, Decided, Writes
<1>17. ASSUME NEW s \in DOMAIN open', NEW c \in open'[s]
       PROVE  /\ c[2] = "is" => c[3] = "here"
              /\ c[2] = "paid" => c[3] = TRUE
              /\ c[1] \in Subscriptions /\ c[2] = "status" /\ c[3] = "awaiting_kyc" =>
                   db'[c[1]].paid \/ Writes(open'[s], c[1], "paid")
              /\ c[1] \in KycDocuments /\ c[2] = "status" /\ c[3] = "passed" => outside.passed
              /\ c[1] = Face(1) => Paid' /\ outside.passed
              /\ c[1] = Face(1) /\ c[2] = "status" => Decided(Face(1), c[3])
              /\ c[1] = Subscriber /\ c[2] = "tier" =>
                   /\ Here(Face(1))' /\ Decided(Face(1), "passed")
                   /\ db'[Face(1)].status = "passed" \/ Writes(open'[s], Face(1), "status")
  <2>1. s # t /\ s \in DOMAIN open /\ open'[s] = open[s]
    BY <1>0, <1>17 DEF Closes
  <2>2. c \in open[s]
    BY <1>17, <2>1
  <2> QED BY <1>6, <1>7, <1>9, <1>14, <2>1, <2>2 DEF VipInv
<1>18. DOMAIN outside' = {"says", "passed"} /\ DOMAIN says' = VipRows
       /\ says'[Face(1)] \in {None, "passed", "failed"} /\ outside'.passed = outside.passed
  BY <1>16 DEF VipInv
<1>19. (\A u \in DOMAIN open : \A c \in open[u] :
         /\ c[2] = "is" => c[3] = "here"
         /\ c[2] = "paid" => c[3] = TRUE
         /\ c[1] \in Subscriptions /\ c[2] = "status" /\ c[3] = "awaiting_kyc" =>
              db[c[1]].paid \/ Writes(open[u], c[1], "paid")
         /\ c[1] \in KycDocuments /\ c[2] = "status" /\ c[3] = "passed" => outside.passed
         /\ c[1] = Face(1) => Paid /\ outside.passed
         /\ c[1] = Face(1) /\ c[2] = "status" => Decided(Face(1), c[3])
         /\ c[1] = Subscriber /\ c[2] = "tier" =>
              /\ Here(Face(1)) /\ Decided(Face(1), "passed")
              /\ db[Face(1)].status = "passed" \/ Writes(open[u], Face(1), "status"))'
  BY <1>16, <1>17, <1>18
<1>20. (/\ \A s \in Subscriptions : db[s].status = "awaiting_kyc" => db[s].paid
        /\ \A d \in KycDocuments : db[d].status = "passed" => outside.passed
        /\ db[Face(1)].is = "none" \/ Here(Face(1))
        /\ db[Face(1)].is = "none" => db[Face(1)].status = "pending"
        /\ Here(Face(1)) => Paid /\ outside.passed
        /\ db[Face(1)].status = "pending" \/ Decided(Face(1), db[Face(1)].status)
        /\ db[Subscriber].tier = "vip" => Here(Face(1)) /\ db[Face(1)].status = "passed")'
  BY <1>6, <1>8, <1>9, <1>10, <1>11, <1>13, <1>15, <1>16, <1>18
<1> QED BY <1>2, <1>18, <1>19, <1>20 DEF VipInv

LEMMA UpgradeStep ==
  ASSUME DOMAIN open = Slot \cup Job, VipInv, topic = "vip", VipUpgrade
  PROVE  VipInv'
<1>1. ASSUME NEW k, StartVipUpgrade(k) PROVE VipInv'
  <2>1. Request(Insert(k, [status |-> "pending_payment"])) /\ k[1] = "subscription"
    BY <1>1, NextIsFree DEF StartVipUpgrade, InitiatePayment
  <2>2. \A c \in Insert(k, [status |-> "pending_payment"]) :
          c[1] = k /\ ((c[2] = "is" /\ c[3] = "here") \/ (c[2] = "status" /\ c[3] = "pending_payment"))
    BY InsertStatus
  <2>3. VipWrites(Insert(k, [status |-> "pending_payment"]))
    BY <2>1, <2>2, VipNames DEF VipWrites
  <2> QED BY <2>1, <2>3, VipRequest
<1>2. ASSUME NEW k, StartKycDocument(k) PROVE VipInv'
  <2>1. Request(Insert(k, [status |-> "pending"])) /\ k[1] = "document"
    BY <1>2, NextIsFree DEF StartKycDocument
  <2>2. \A c \in Insert(k, [status |-> "pending"]) :
          c[1] = k /\ ((c[2] = "is" /\ c[3] = "here") \/ (c[2] = "status" /\ c[3] = "pending"))
    BY InsertStatus
  <2>3. VipWrites(Insert(k, [status |-> "pending"]))
    BY <2>1, <2>2, VipNames DEF VipWrites
  <2> QED BY <2>1, <2>3, VipRequest
<1>3. ASSUME NEW k, StartKycLiveness(k) PROVE VipInv'
  <2> DEFINE columns == [status |-> "pending"]
             w == Insert(k, columns)
  <2>1. Request(w) /\ db[k].is = "none" /\ k = Face(1)
    <3>1. \E n \in 1..1 : k = <<"face", n>>
      BY <1>3, NextIsFree DEF StartKycLiveness
    <3> QED BY <1>3, <3>1, NextIsFree DEF StartKycLiveness, Face
  <2>2. Paid
    BY <1>3 DEF StartKycLiveness, RequireAwaitingKyc, VipInv, Paid
  <2>3. outside.passed
    BY <1>3 DEF StartKycLiveness, VipInv, KycDocuments
  <2>4. \A c \in w : c[1] = k /\ ((c[2] = "is" /\ c[3] = "here") \/ (c[2] = "status" /\ c[3] = "pending"))
    BY InsertStatus
  <2>5. \A c \in w : (c[2] = "is" /\ c[3] = "here") \/ c \in Update(k, columns)
    BY InsertShape
  <2> HIDE DEF columns, w
  <2>6. \A c \in w : c[1] = Face(1) /\ c[2] = "is" /\ c[3] = "here"
    <3>1. db[k]["status"] = "pending"
      BY <2>1 DEF VipInv
    <3>2. ASSUME NEW c \in w, c[2] = "status", c[3] = "pending", c \in Update(k, columns) PROVE FALSE
      BY <3>1, <3>2, UpdateChanges
    <3> QED BY <2>1, <2>4, <2>5, <3>2
  <2>7. outside' = outside
    BY <2>1 DEF Request
  <2>8. VipWrites(w)
    BY <2>2, <2>3, <2>6, <2>7, VipNames DEF VipWrites
  <2> QED BY <2>1, <2>8, VipRequest
<1> QED BY <1>1, <1>2, <1>3 DEF VipUpgrade

LEMMA WebhookStep ==
  ASSUME DOMAIN open = Slot \cup Job, VipInv, topic = "vip",
         KycWebhooks \/ \E k \in Subscriptions : HandleVipPayment(k)
  PROVE  VipInv'
<1>0. DOMAIN outside = {"says", "passed"}
  BY DEF VipInv
<1>1. ASSUME NEW k \in Subscriptions, HandleVipPayment(k) PROVE VipInv'
  <2>1. CASE says[k] = "paid"
    <3> DEFINE on == TRUE
               v == Change(k, "paid", on)
               w == Change(k, "status", "awaiting_kyc") \cup v
    <3>1. on = TRUE
      OBVIOUS
    <3>2. Request(w)
      BY <1>1, <2>1 DEF HandleVipPayment
    <3> HIDE DEF on
    <3>3. \A c \in Change(k, "status", "awaiting_kyc") : c[1] = k /\ c[2] = "status"
      BY ChangeNames
    <3>4. /\ \A c \in v : c[1] = k /\ c[2] = "paid" /\ c[3] = on
          /\ db[k]["paid"] = on \/ Writes(v, k, "paid")
      BY ChangeShape
    <3>5. \A c \in w : c[1] = k /\ (c[2] = "status" \/ (c[2] = "paid" /\ c[3] = TRUE))
      BY <3>1, <3>3, <3>4
    <3>6. db[k].paid \/ Writes(w, k, "paid")
      BY <3>1, <3>4 DEF Writes
    <3> HIDE DEF v, w
    <3>7. VipWrites(w)
      BY <3>5, <3>6, VipNames DEF VipWrites
    <3> QED BY <3>2, <3>7, VipRequest
  <2>2. CASE says[k] # "paid"
    <3>1. Request(Change(k, "status", "failed"))
      BY <1>1, <2>2 DEF HandleVipPayment
    <3>2. \A c \in Change(k, "status", "failed") : c[1] = k /\ c[2] = "status" /\ c[3] = "failed"
      BY ChangeShape
    <3>3. VipWrites(Change(k, "status", "failed"))
      BY <3>2, VipNames DEF VipWrites
    <3> QED BY <3>1, <3>3, VipRequest
  <2> QED BY <2>1, <2>2
<1>2. ASSUME NEW k \in KycDocuments, HandleKycDocumentResult(k) PROVE VipInv'
  <2>1. /\ Call(Change(k, "status", says[k]))
        /\ outside' = [outside EXCEPT !.passed = @ \/ says[k] = "passed"]
    BY <1>2 DEF HandleKycDocumentResult
  <2>2. /\ DOMAIN outside' = DOMAIN outside /\ says' = says
        /\ outside'.passed <=> (outside.passed \/ says[k] = "passed")
    BY <1>0, <2>1 DEF says
  <2>3. \A c \in Change(k, "status", says[k]) : c[1] = k /\ c[2] = "status" /\ c[3] = says[k]
    BY ChangeShape
  <2>4. VipWrites(Change(k, "status", says[k])) /\ VipWorld
    BY <2>2, <2>3, VipNames DEF VipWrites, VipWorld, Decided
  <2> QED BY <2>1, <2>4, VipCall
<1>3. ASSUME HandleKycLivenessResult(Face(1)) PROVE VipInv'
  <2>1. Paid /\ outside.passed /\ Here(Face(1))
    BY <1>3 DEF HandleKycLivenessResult, VipInv
  <2>2. CASE says[Face(1)] = "failed"
    <3>1. Request(Change(Face(1), "status", "failed")) /\ Decided(Face(1), "failed") /\ outside' = outside
      BY <1>3, <2>2 DEF HandleKycLivenessResult, Decided, Request
    <3>2. \A c \in Change(Face(1), "status", "failed") : c[1] = Face(1) /\ c[2] = "status" /\ c[3] = "failed"
      BY ChangeShape
    <3>3. VipWrites(Change(Face(1), "status", "failed"))
      BY <2>1, <3>1, <3>2, VipNames DEF VipWrites
    <3> QED BY <3>1, <3>3, VipRequest
  <2>3. CASE says[Face(1)] # "failed"
    <3>1. Decided(Face(1), "passed")
      BY <1>3, <2>3 DEF HandleKycLivenessResult, Decided, VipInv
    <3>2. PICK s \in Subscriptions :
            Request(Change(Face(1), "status", "passed") \cup Change(Subscriber, "tier", "vip")
                    \cup Change(s, "status", "active"))
      BY <1>3, <2>3 DEF HandleKycLivenessResult
    <3> DEFINE v == Change(Face(1), "status", "passed")
               w == v \cup Change(Subscriber, "tier", "vip") \cup Change(s, "status", "active")
    <3>3. /\ \A c \in v : c[1] = Face(1) /\ c[2] = "status" /\ c[3] = "passed"
          /\ db[Face(1)]["status"] = "passed" \/ Writes(v, Face(1), "status")
      BY ChangeShape
    <3>4. \A c \in Change(Subscriber, "tier", "vip") : c[1] = Subscriber /\ c[2] = "tier"
      BY ChangeNames
    <3>5. \A c \in Change(s, "status", "active") : c[1] = s /\ c[2] = "status" /\ c[3] = "active"
      BY ChangeShape
    <3>6. Request(w) /\ outside' = outside
      BY <3>2 DEF Request
    <3>7. db[Face(1)].status = "passed" \/ Writes(w, Face(1), "status")
      BY <3>3 DEF Writes
    <3>8. \A c \in w : \/ c[1] = Face(1) /\ c[2] = "status" /\ c[3] = "passed"
                       \/ c[1] = Subscriber /\ c[2] = "tier"
                       \/ c[1] = s /\ c[2] = "status" /\ c[3] = "active"
      BY <3>3, <3>4, <3>5
    <3> HIDE DEF v, w
    <3>9. VipWrites(w)
      <4> SUFFICES ASSUME NEW c \in w
                   PROVE  /\ c[2] \notin {"is", "paid"}
                          /\ ~(c[1] \in Subscriptions /\ c[2] = "status" /\ c[3] = "awaiting_kyc")
                          /\ c[1] \notin KycDocuments
                          /\ c[1] = Face(1) /\ c[2] = "status" => c[3] = "passed"
        BY <2>1, <3>1, <3>6, <3>7 DEF VipWrites
      <4> QED BY <3>8, VipNames
    <3> QED BY <3>6, <3>9, VipRequest
  <2> QED BY <2>2, <2>3
<1> QED BY <1>1, <1>2, <1>3 DEF KycWebhooks, KycDocuments

LEMMA VipStep ==
  ASSUME DOMAIN open = Slot \cup Job, VipInv, VipNext
  PROVE  VipInv'
<1>0. topic = "vip" /\ DOMAIN outside = {"says", "passed"} /\ DOMAIN says = VipRows
  BY DEF VipNext, VipInv
<1>1. ASSUME NEW k, NEW outcomes, Decide(k, outcomes), k = Face(1) => outcomes = {"passed", "failed"}
      PROVE  VipInv'
  <2>1. PICK outcome \in outcomes :
          UNCHANGED tables /\ outside' = [outside EXCEPT !.says[k] = outcome] /\ says[k] = None
    BY <1>1 DEF Decide, Outside
  <2>2. /\ DOMAIN outside' = DOMAIN outside /\ DOMAIN says' = DOMAIN says
        /\ outside'.passed = outside.passed
        /\ k # Face(1) => says'[Face(1)] = says[Face(1)]
        /\ k = Face(1) => says'[Face(1)] = outcome
    <3>1. Face(1) \in VipRows
      BY DEF VipRows
    <3> QED BY <1>0, <2>1, <3>1 DEF says
  <2>3. VipWorld
    BY <1>1, <2>1, <2>2 DEF VipWorld, Decided
  <2> QED BY <1>0, <2>1, <2>3, VipKept DEF tables
<1>2. ASSUME NEW k \in Subscriptions, Decide(k, {"paid", "refused"}) PROVE VipInv'
  BY <1>1, <1>2, VipNames
<1>3. ASSUME NEW k \in VipRows \ Subscriptions, Decide(k, {"passed", "failed"}) PROVE VipInv'
  BY <1>1, <1>3
<1>4. ASSUME NEW t \in Slot, RollBack(t), UNCHANGED outside PROVE VipInv'
  <2>1. Closes(t) /\ db' = db
    BY <1>4, RollBackCloses
  <2>2. VipWorld
    BY <1>4 DEF VipWorld, says, Decided
  <2> QED BY <1>0, <2>1, <2>2, VipKept DEF Closes
<1>5. ASSUME NEW t \in Slot, Commit(t) PROVE VipInv'
  BY <1>0, <1>5, CommitCloses, VipEnds
<1> QED BY <1>0, <1>2, <1>3, <1>4, <1>5, UpgradeStep, WebhookStep DEF VipNext

-----------------------------------------------------------------------------
(* The conference plan.                                                    *)
PlanWrites(w) ==
  /\ \A c \in w : c[2] = "is" => c[3] = "here"
  /\ \A c \in w : c[1] \in Purchases => Here(c[1]) \/ (db[c[1]].is = "none" /\ ~Pending(c[1]))
  /\ \A c \in w : c[1] \in Purchases /\ c[2] = "plan" => db[c[1]].is = "none"
  /\ \A c \in w : c[1] \in Purchases /\ c[2] = "status" =>
       says[c[1]] # None /\ (c[3] = "paid" <=> says[c[1]] = "paid")
  /\ \A c \in w : c[1] = Account /\ c[2] = "plan" =>
       \/ c[3] \in outside'.given
       \/ \E k \in Purchases :
            Bought(c[3], k) /\ (db[k].status = "paid" \/ Writes(w, k, "status"))
PlanWorld ==
  /\ DOMAIN outside' = DOMAIN outside /\ DOMAIN says' = DOMAIN says
  /\ outside.given \subseteq outside'.given
  /\ \A k \in Purchases : says[k] # None => says'[k] = says[k]

LEMMA PlanRows ==
  /\ Account \notin Purchases /\ Account \notin Plans /\ Account \notin Prices
  /\ Plans \cap Purchases = {} /\ Prices \cap Purchases = {}
<1>1. \A k \in Purchases : k[1] = "purchase"
  BY DEF Purchases
<1>2. \A k \in Prices : k[1] = "price"
  BY DEF Prices
<1>3. \A k \in Plans : k[1] = "plan"
  BY DEF Plans, Plan
<1>4. Account[1] = "account"
  BY DEF Account
<1> QED BY <1>1, <1>2, <1>3, <1>4

LEMMA PlanOutside ==
  ASSUME PlanInv, topic = "plan", PlanWorld, UNCHANGED tables
  PROVE  PlanInv'
<1>1. \A c, k : k \in Purchases /\ Bought(c, k) => Bought(c, k)'
  BY DEF PlanWorld, Bought, Decided, tables, Here
<1>2. \A k \in Purchases : \A v :
        says[k] # None /\ (v = "paid" <=> says[k] = "paid") => says'[k] # None /\ (v = "paid" <=> says'[k] = "paid")
  BY DEF PlanWorld
<1>3. \A w, k : Writes(w, k, "status")' = Writes(w, k, "status")
  BY DEF Writes
<1> QED BY <1>1, <1>2, <1>3 DEF PlanInv, PlanWorld, tables, Columns, Writes

LEMMA PlanCall ==
  ASSUME DOMAIN open = Slot \cup Job, PlanInv, topic = "plan", NEW w, Call(w), PlanWrites(w), PlanWorld
  PROVE  PlanInv'
<1>1. PICK t \in Slot : Opens(t, w)
  BY CallOpens
<1>2. \A c, k : k \in Purchases /\ Bought(c, k) => Bought(c, k)'
  BY <1>1 DEF PlanWorld, Bought, Decided, Opens, Here
<1>3. ASSUME NEW s \in DOMAIN open', NEW c \in open'[s]
      PROVE  /\ c[2] = "is" => c[3] = "here"
             /\ c[1] \in Purchases /\ c[2] = "status" =>
                  says'[c[1]] # None /\ (c[3] = "paid" <=> says'[c[1]] = "paid")
             /\ c[1] = Account /\ c[2] = "plan" =>
                  \/ c[3] \in outside'.given
                  \/ \E k \in Purchases :
                       Bought(c[3], k)' /\ (db'[k].status = "paid" \/ Writes(open'[s], k, "status"))
  <2>1. CASE s = t
    BY <1>1, <1>2, <1>3, <2>1 DEF Opens, PlanWrites, PlanWorld
  <2>2. CASE s # t
    BY <1>1, <1>2, <1>3, <2>2 DEF Opens, PlanInv, PlanWorld
  <2> QED BY <2>1, <2>2
<1>4. ASSUME NEW s \in DOMAIN open', NEW c \in open'[s], c[1] \in Purchases, c[2] = "plan"
      PROVE  /\ db'[c[1]].is = "none"
             /\ \A r \in DOMAIN open' \ {s} : \A d \in open'[r] : d[1] # c[1]
  <2>1. CASE s = t
    BY <1>1, <1>4, <2>1 DEF Opens, PlanWrites, Pending, Here
  <2>2. CASE s # t
    <3>1. /\ c \in open[s] /\ db[c[1]].is = "none"
          /\ \A r \in DOMAIN open \ {s} : \A d \in open[r] : d[1] # c[1]
      BY <1>1, <1>4, <2>2 DEF Opens, PlanInv
    <3>2. \A d \in w : d[1] # c[1]
      BY <1>1, <1>4, <2>2, <3>1 DEF Opens, PlanWrites, Pending, Here
    <3> QED BY <1>1, <3>1, <3>2 DEF Opens
  <2> QED BY <2>1, <2>2
<1>5. \/ db'[Account].plan \in outside'.given
      \/ \E k \in Purchases : Bought(db[Account].plan, k)' /\ db'[k].status = "paid"
  BY <1>1, <1>2 DEF PlanInv, PlanWorld, Opens
<1>6. /\ Columns(Purchases, {"is", "plan", "status"})' /\ Columns({Account}, {"is", "plan"})'
      /\ DOMAIN outside' = {"says", "given"} /\ DOMAIN says' = Purchases
  BY <1>1 DEF PlanInv, PlanWorld, Opens, Columns
<1>7. \A s, k : Writes(open'[s], k, "status") = Writes(open[s], k, "status")'
  BY DEF Writes
<1> QED BY <1>3, <1>4, <1>5, <1>6, <1>7 DEF PlanInv

LEMMA PlanRequest ==
  ASSUME DOMAIN open = Slot \cup Job, PlanInv, topic = "plan", NEW w, Request(w), PlanWrites(w)
  PROVE  PlanInv'
BY PlanCall DEF Request, PlanWorld, says

LEMMA PlanEnds ==
  ASSUME PlanInv, topic = "plan", DOMAIN open = Slot \cup Job, NEW t \in Slot \cup Job,
         outside' = outside, Closes(t), db' = db \/ (db' = Written(open[t]) /\ Lawful(open[t]))
  PROVE  PlanInv'
<1>0. \A s \in DOMAIN open' : open'[s] \subseteq open[s] /\ (s # t => open'[s] = open[s])
  BY DEF Closes
<1>1. CASE db' = db
  BY <1>0, <1>1 DEF PlanInv, Closes, Columns, Here, Bought, Decided, says, Writes
<1>2. CASE db' = Written(open[t]) /\ Lawful(open[t])
  <2>1. Columns(Purchases, {"is", "plan", "status"}) /\ Columns({Account}, {"is", "plan"})
    BY DEF PlanInv
  <2>2. (Columns(Purchases, {"is", "plan", "status"}) /\ Columns({Account}, {"is", "plan"}))'
    BY <1>2, <2>1, WrittenShape DEF Columns
  <2>3. ASSUME NEW k \in Purchases, NEW column \in {"is", "plan", "status"}
        PROVE  \/ ~Writes(open[t], k, column) /\ db'[k][column] = db[k][column]
               \/ \E c \in open[t] : c[1] = k /\ c[2] = column /\ db'[k][column] = c[3]
    BY <1>2, <2>1, CommitColumn DEF Columns
  <2>4. \/ ~Writes(open[t], Account, "plan") /\ db'[Account]["plan"] = db[Account]["plan"]
        \/ \E c \in open[t] : c[1] = Account /\ c[2] = "plan" /\ db'[Account]["plan"] = c[3]
    <3>1. Account \in DOMAIN db /\ "plan" \in DOMAIN db[Account]
      BY <2>1 DEF Columns
    <3> QED BY <1>2, <3>1, CommitColumn
  <2>5. ASSUME NEW k \in Purchases, NEW p, Bought(p, k)
        PROVE  /\ Bought(p, k)'
               /\ db[k].status = "paid" => db'[k].status = "paid"
               /\ Writes(open[t], k, "status") => db'[k].status = "paid"
    <3>1. Here(k)'
      BY <2>3, <2>5 DEF PlanInv, Closes, Bought, Here
    <3>2. db'[k].plan = p
      BY <2>3, <2>5 DEF PlanInv, Closes, Bought, Here
    <3>3. \A c \in open[t] : c[1] = k /\ c[2] = "status" => c[3] = "paid"
      BY <2>5 DEF PlanInv, Closes, Bought, Decided
    <3>4. \/ ~Writes(open[t], k, "status") /\ db'[k].status = db[k].status
          \/ db'[k].status = "paid"
      BY <2>3, <3>3
    <3>5. says' = says
      BY DEF says
    <3> QED BY <2>5, <3>1, <3>2, <3>4, <3>5 DEF Bought, Decided
  <2>6. ASSUME NEW s \in DOMAIN open', NEW c \in open'[s], c[1] = Account, c[2] = "plan"
        PROVE  \/ c[3] \in outside.given
               \/ \E k \in Purchases :
                    Bought(c[3], k)' /\ (db'[k].status = "paid" \/ Writes(open'[s], k, "status"))
    <3>1. s # t /\ open'[s] = open[s]
      BY <1>0, <2>6 DEF Closes
    <3>2. \/ c[3] \in outside.given
          \/ \E k \in Purchases :
               Bought(c[3], k) /\ (db[k].status = "paid" \/ Writes(open[s], k, "status"))
      BY <2>6, <3>1 DEF PlanInv, Closes
    <3> QED BY <2>5, <3>1, <3>2
  <2>7. ASSUME NEW s \in DOMAIN open', NEW c \in open'[s], c[1] \in Purchases, c[2] = "plan"
        PROVE  /\ db'[c[1]].is = "none"
               /\ \A r \in DOMAIN open' \ {s} : \A d \in open'[r] : d[1] # c[1]
    <3>1. s # t /\ c \in open[s]
      BY <1>0, <2>7 DEF Closes
    <3>2. /\ db[c[1]].is = "none"
          /\ \A r \in DOMAIN open \ {s} : \A d \in open[r] : d[1] # c[1]
      BY <2>7, <3>1 DEF PlanInv, Closes
    <3>3. ~Writes(open[t], c[1], "is")
      BY <3>1, <3>2 DEF Writes, Closes
    <3>4. db'[c[1]].is = "none"
      BY <2>3, <2>7, <3>2, <3>3 DEF Writes
    <3> QED BY <1>0, <3>2, <3>4 DEF Closes
  <2>8. ASSUME NEW s \in DOMAIN open', NEW c \in open'[s]
        PROVE  /\ c[2] = "is" => c[3] = "here"
               /\ c[1] \in Purchases /\ c[2] = "status" =>
                    says[c[1]] # None /\ (c[3] = "paid" <=> says[c[1]] = "paid")
    BY <1>0, <2>8 DEF PlanInv, Closes
  <2>9. \/ db'[Account].plan \in outside.given
        \/ \E k \in Purchases : Bought(db[Account].plan, k)' /\ db'[k].status = "paid"
    <3>1. CASE \E c \in open[t] : c[1] = Account /\ c[2] = "plan" /\ db'[Account]["plan"] = c[3]
      <4>1. PICK c \in open[t] : c[1] = Account /\ c[2] = "plan" /\ db'[Account].plan = c[3]
        BY <3>1
      <4>2. \/ c[3] \in outside.given
            \/ \E k \in Purchases :
                 Bought(c[3], k) /\ (db[k].status = "paid" \/ Writes(open[t], k, "status"))
        BY <4>1 DEF PlanInv
      <4>3. CASE \E k \in Purchases :
                   Bought(c[3], k) /\ (db[k].status = "paid" \/ Writes(open[t], k, "status"))
        <5>1. PICK k \in Purchases :
                Bought(c[3], k) /\ (db[k].status = "paid" \/ Writes(open[t], k, "status"))
          BY <4>3
        <5>2. Bought(c[3], k)' /\ db'[k].status = "paid"
          BY <2>5, <5>1
        <5> QED BY <4>1, <5>2 DEF Bought
      <4> QED BY <4>1, <4>2, <4>3
    <3>2. CASE db'[Account]["plan"] = db[Account]["plan"]
      <4>1. CASE \E k \in Purchases : Bought(db[Account].plan, k) /\ db[k].status = "paid"
        <5>1. PICK k \in Purchases : Bought(db[Account].plan, k) /\ db[k].status = "paid"
          BY <4>1
        <5>2. db'[k].plan = db[Account].plan /\ Here(k)' /\ Decided(k, "paid")' /\ db'[k].status = "paid"
          <6>1. Bought(db[Account].plan, k) => Here(k)' /\ Decided(k, "paid")'
            BY <2>5 DEF Bought
          <6>2. db'[k].plan = db[k].plan
            BY <2>3, <5>1 DEF PlanInv, Bought, Here
          <6> QED BY <2>5, <5>1, <6>1, <6>2 DEF Bought
        <5> QED BY <3>2, <5>2 DEF Bought
      <4> QED BY <3>2, <4>1 DEF PlanInv
    <3> QED BY <2>4, <3>1, <3>2
  <2>10. says' = says /\ topic' = topic
    BY DEF says, Closes
  <2>11. \A s, k : Writes(open'[s], k, "status") = Writes(open[s], k, "status")'
    BY DEF Writes
  <2> QED BY <1>2, <2>2, <2>6, <2>7, <2>8, <2>9, <2>10, <2>11 DEF PlanInv
<1> QED BY <1>1, <1>2

LEMMA CatalogueStep ==
  ASSUME DOMAIN open = Slot \cup Job, PlanInv, topic = "plan", Catalogue
  PROVE  PlanInv'
<1>0. DOMAIN outside = {"says", "given"}
  BY DEF PlanInv
(* Rows that are neither a purchase nor the account.                       *)
<1>1. ASSUME NEW w, \A c \in w : c[1] \notin Purchases /\ c[1] # Account,
             \A c \in w : c[2] = "is" => c[3] = "here", Request(w)
      PROVE  PlanInv'
  <2>1. PlanWrites(w)
    BY <1>1 DEF PlanWrites
  <2> QED BY <1>1, <2>1, PlanRequest
<1>2. ASSUME NEW c \in Plans, CreatePlan(c) PROVE PlanInv'
  <2>1. \A d \in Insert(c, [status |-> "active"]) : d[1] = c /\ (d[2] = "is" => d[3] = "here")
    BY InsertStatus
  <2> QED BY <1>1, <1>2, <2>1, PlanRows DEF CreatePlan
<1>3. ASSUME NEW c \in Plans, NEW status, SetPlanStatus(c, status) PROVE PlanInv'
  <2>1. \A d \in Change(c, "status", status) : d[1] = c /\ d[2] = "status"
    BY ChangeNames
  <2> QED BY <1>1, <1>3, <2>1, PlanRows DEF SetPlanStatus
<1>4. ASSUME NEW k \in Prices, NEW amount, SetPrice(k, amount) PROVE PlanInv'
  <2> DEFINE v == UNION {Change(p, "status", "archived") : p \in {q \in Prices : LatestPrice(q)}}
             columns == [amount |-> amount]
             w == Insert(k, columns) \cup v
  <2>1. Request(w)
    BY <1>4 DEF SetPrice
  <2>2. DOMAIN columns = {"amount"}
    OBVIOUS
  <2>3. ASSUME NEW d \in v PROVE d[1] \in Prices /\ d[2] = "status"
    <3>1. PICK p \in Prices : d \in Change(p, "status", "archived")
      BY <2>3
    <3> QED BY <3>1, ChangeNames
  <2> HIDE DEF columns
  <2>4. \A d \in Insert(k, columns) : d[1] \in Prices /\ (d[2] = "is" => d[3] = "here")
    BY <2>2, InsertNames
  <2>5. \A d \in w : d[1] \in Prices /\ (d[2] = "is" => d[3] = "here")
    BY <2>3, <2>4
  <2> HIDE DEF w
  <2> QED BY <1>1, <2>1, <2>5, PlanRows
<1>5. ASSUME NEW c \in Plans, Call(Change(Account, "plan", c)),
             outside' = [outside EXCEPT !.given = @ \cup {c}]
      PROVE  PlanInv'
  <2>1. /\ DOMAIN outside' = DOMAIN outside /\ says' = says
        /\ outside'.given = outside.given \cup {c}
    BY <1>0, <1>5 DEF says
  <2>2. \A d \in Change(Account, "plan", c) : d[1] = Account /\ d[2] = "plan" /\ d[3] = c
    BY ChangeShape
  <2>3. PlanWrites(Change(Account, "plan", c)) /\ PlanWorld
    BY <2>1, <2>2, PlanRows DEF PlanWrites, PlanWorld
  <2> QED BY <1>5, <2>3, PlanCall
<1>6. ASSUME NEW c \in Plans, SetUserConferencePlan(c) PROVE PlanInv'
  BY <1>5, <1>6 DEF SetUserConferencePlan
<1> QED BY <1>2, <1>3, <1>4, <1>6 DEF Catalogue

LEMMA PurchaseStep ==
  ASSUME DOMAIN open = Slot \cup Job, PlanInv, topic = "plan", ConferenceUpgrade \/ StitchWebhook
  PROVE  PlanInv'
<1>0. DOMAIN outside = {"says", "given"}
  BY DEF PlanInv
<1>1. ASSUME NEW c \in Plans, NEW k \in Purchases, StartConferenceUpgrade(c, k) PROVE PlanInv'
  <2>1. CASE /\ Call(ApplyPaidConferencePlan(c))
             /\ outside' = [outside EXCEPT !.given = @ \cup {c}]
    <3>1. /\ DOMAIN outside' = DOMAIN outside /\ says' = says
          /\ outside'.given = outside.given \cup {c}
      BY <1>0, <2>1 DEF says
    <3>2. \A d \in ApplyPaidConferencePlan(c) : d[1] = Account /\ d[2] = "plan" /\ d[3] = c
      BY ChangeShape DEF ApplyPaidConferencePlan
    <3>3. PlanWrites(ApplyPaidConferencePlan(c)) /\ PlanWorld
      BY <3>1, <3>2, PlanRows DEF PlanWrites, PlanWorld
    <3> QED BY <2>1, <3>3, PlanCall
  <2>2. CASE InitiatePayment("purchase", k, [plan |-> c])
    <3> DEFINE columns == [plan |-> c]
    <3>1. DOMAIN columns = {"plan"}
      OBVIOUS
    <3>2. Request(Insert(k, columns)) /\ db[k].is = "none" /\ ~Pending(k)
      BY <2>2, NextIsFree DEF InitiatePayment
    <3> HIDE DEF columns
    <3>3. \A d \in Insert(k, columns) :
            d[1] = k /\ ((d[2] = "is" /\ d[3] = "here") \/ d[2] = "plan")
      BY <3>1, InsertNames
    <3>4. PlanWrites(Insert(k, columns))
      BY <3>2, <3>3, PlanRows DEF PlanWrites
    <3> QED BY <3>2, <3>4, PlanRequest
  <2> QED BY <1>1, <2>1, <2>2 DEF StartConferenceUpgrade
<1>2. ASSUME NEW k \in Purchases, HandleConferencePayment(k) PROVE PlanInv'
  <2>1. says[k] # None /\ Here(k)
    BY <1>2 DEF HandleConferencePayment
  <2>2. CASE says[k] = "paid"
    <3> DEFINE v == Change(k, "status", "paid")
               w == v \cup ApplyPaidConferencePlan(db[k].plan)
    <3>1. Request(w)
      BY <1>2, <2>2 DEF HandleConferencePayment
    <3>2. /\ \A d \in v : d[1] = k /\ d[2] = "status" /\ d[3] = "paid"
          /\ db[k]["status"] = "paid" \/ Writes(v, k, "status")
      BY ChangeShape
    <3>3. \A d \in ApplyPaidConferencePlan(db[k].plan) :
            d[1] = Account /\ d[2] = "plan" /\ d[3] = db[k].plan
      BY ChangeShape DEF ApplyPaidConferencePlan
    <3>4. Bought(db[k].plan, k)
      BY <2>1, <2>2 DEF Bought, Decided
    <3>5. db[k].status = "paid" \/ Writes(w, k, "status")
      BY <3>2 DEF Writes
    <3>6. \A d \in w : \/ d[1] = k /\ d[2] = "status" /\ d[3] = "paid"
                       \/ d[1] = Account /\ d[2] = "plan" /\ d[3] = db[k].plan
      BY <3>2, <3>3
    <3> HIDE DEF v, w
    <3>7. PlanWrites(w)
      <4>1. \A d \in w : d[1] = Account => d[2] = "plan" /\ d[3] = db[k].plan
        BY <3>6, PlanRows
      <4>2. \A d \in w : d[1] \in Purchases => d[1] = k /\ d[2] = "status" /\ d[3] = "paid"
        BY <3>6, PlanRows
      <4>3. \A d \in w : d[2] # "is"
        BY <3>6
      <4> QED BY <2>1, <2>2, <3>4, <3>5, <4>1, <4>2, <4>3 DEF PlanWrites
    <3> QED BY <3>1, <3>7, PlanRequest
  <2>3. CASE says[k] # "paid"
    <3>1. Request(Change(k, "status", "failed"))
      BY <1>2, <2>3 DEF HandleConferencePayment
    <3>2. \A d \in Change(k, "status", "failed") : d[1] = k /\ d[2] = "status" /\ d[3] = "failed"
      BY ChangeShape
    <3>3. PlanWrites(Change(k, "status", "failed"))
      BY <2>1, <2>3, <3>2, PlanRows DEF PlanWrites
    <3> QED BY <3>1, <3>3, PlanRequest
  <2> QED BY <2>2, <2>3
<1> QED BY <1>1, <1>2 DEF ConferenceUpgrade, StitchWebhook

LEMMA PlanStep ==
  ASSUME DOMAIN open = Slot \cup Job, PlanInv, PlansNext
  PROVE  PlanInv'
<1>0. topic = "plan" /\ DOMAIN outside = {"says", "given"} /\ DOMAIN says = Purchases
  BY DEF PlansNext, PlanInv
<1>1. ASSUME NEW k \in Purchases, Decide(k, {"paid", "refused"}) PROVE PlanInv'
  <2>1. PICK outcome \in {"paid", "refused"} :
          UNCHANGED tables /\ outside' = [outside EXCEPT !.says[k] = outcome] /\ says[k] = None
    BY <1>1 DEF Decide, Outside
  <2>2. /\ DOMAIN outside' = DOMAIN outside /\ DOMAIN says' = DOMAIN says
        /\ outside'.given = outside.given
        /\ \A c \in Purchases \ {k} : says'[c] = says[c]
    BY <1>0, <2>1 DEF says
  <2>3. PlanWorld
    BY <2>1, <2>2 DEF PlanWorld
  <2> QED BY <1>0, <2>1, <2>3, PlanOutside
<1>2. ASSUME NEW t \in Slot, Commit(t) \/ (RollBack(t) /\ UNCHANGED outside) PROVE PlanInv'
  <2>1. /\ Closes(t) /\ outside' = outside
        /\ db' = db \/ (db' = Written(open[t]) /\ Lawful(open[t]))
    BY <1>2, CommitCloses, RollBackCloses
  <2> QED BY <1>0, <2>1, PlanEnds
<1> QED BY <1>0, <1>1, <1>2, CatalogueStep, PurchaseStep DEF PlansNext

-----------------------------------------------------------------------------
(* The account.                                                            *)
(* What a request writes of the account, and what it leaves outside.       *)
AccountWrites(w) ==
  /\ \A c \in w : c[1] = Me =>
       /\ c[2] = "code" => c[3] = TRUE
       /\ c[2] = "state" /\ c[3] = "active" => me.code \/ outside'.forced
  /\ ~overlapped /\ ~outside'.moved =>
       /\ EndsOut(w) \/ EndsNotDue(w)
       /\ Writes(w, Me, "is") => me.due # "never"
AccountWorld ==
  /\ DOMAIN outside' = DOMAIN outside
  /\ outside'.session => outside.session \/ me.code
  /\ outside.forced => outside'.forced
  /\ outside.moved => outside'.moved

LEMMA AccountKept ==
  ASSUME AccountInv, topic = "account", AccountWorld, UNCHANGED <<db, topic>>, overlapped => overlapped',
         DOMAIN open' = DOMAIN open,
         \A t \in DOMAIN open : open'[t] = open[t] \/ open'[t] = {} \/ AccountWrites(open'[t])
  PROVE  AccountInv'
<1>1. \A t \in DOMAIN open' : \A c \in open'[t] : c[1] = Me =>
        /\ c[2] = "code" => c[3] = TRUE
        /\ c[2] = "state" /\ c[3] = "active" => me.code \/ outside'.forced
  BY DEF AccountInv, AccountWorld, AccountWrites
<1>2. ASSUME ~overlapped', ~outside'.moved
      PROVE  /\ me.state \in OnTheWayOut \/ me.due = "never"
             /\ \A t \in DOMAIN open' :
                  /\ EndsOut(open'[t]) \/ EndsNotDue(open'[t])
                  /\ Writes(open'[t], Me, "is") => me.due # "never"
  <2>1. ~overlapped /\ ~outside.moved
    BY <1>2 DEF AccountWorld
  <2>2. me.state \in OnTheWayOut \/ me.due = "never"
    BY <2>1 DEF AccountInv
  <2>3. EndsOut({}) \/ EndsNotDue({})
    BY <2>2 DEF EndsOut, EndsNotDue
  <2>4. ~Writes({}, Me, "is")
    BY DEF Writes
  <2> QED BY <1>2, <2>1, <2>2, <2>3, <2>4 DEF AccountInv, AccountWrites
<1>3. me' = me
  BY DEF me
<1>4. \A t \in DOMAIN open' :
        /\ EndsOut(open'[t]) \/ EndsNotDue(open'[t]) => (EndsOut(open[t]) \/ EndsNotDue(open[t]))'
        /\ Writes(open'[t], Me, "is") = Writes(open[t], Me, "is")'
  BY <1>3 DEF EndsOut, EndsNotDue, Writes
<1> QED BY <1>1, <1>2, <1>3, <1>4 DEF AccountInv, AccountWorld, Columns

LEMMA AccountCall ==
  ASSUME DOMAIN open = Slot \cup Job, AccountInv, topic = "account", NEW w, Call(w),
         AccountWrites(w), AccountWorld
  PROVE  AccountInv'
<1>1. PICK t \in Slot : Opens(t, w)
  BY CallOpens
<1> QED BY <1>1, AccountKept DEF Opens

LEMMA AccountRequest ==
  ASSUME DOMAIN open = Slot \cup Job, AccountInv, topic = "account", NEW w, Request(w), AccountWrites(w)
  PROVE  AccountInv'
BY AccountCall DEF Request, AccountWorld

(* A webhook or a member of the staff: the clock of the deletion does not  *)
(* run, or the move is on record.                                          *)
LEMMA MoveWrites ==
  ASSUME AccountInv, topic = "account", NEW w, Moves(w),
         \A c \in w : c = <<c[1], c[2], c[3]>>,
         \A c \in w : c[2] \in {"status", "state", "due"},
         EndsOut(w) \/ \A c \in w : c[2] # "due"
  PROVE  AccountWrites(w) /\ AccountWorld
<1>1. /\ DOMAIN outside = {"says", "session", "elapsed", "forced", "moved"}
      /\ outside' = [outside EXCEPT !.moved = @ \/ me.due # "never",
                                    !.forced = @ \/ <<Me, "state", "active">> \in w]
  BY DEF AccountInv, Moves
<1>2. /\ DOMAIN outside' = DOMAIN outside /\ outside'.session = outside.session
      /\ outside'.moved <=> (outside.moved \/ me.due # "never")
      /\ outside'.forced <=> (outside.forced \/ <<Me, "state", "active">> \in w)
  BY <1>1
<1>3. AccountWorld
  BY <1>2 DEF AccountWorld
<1>4. \A c \in w : c[1] = Me /\ c[2] = "state" /\ c[3] = "active" => outside'.forced
  BY <1>2
<1>5. ~outside'.moved => EndsOut(w) \/ EndsNotDue(w)
  BY <1>2 DEF EndsNotDue
<1>6. ~Writes(w, Me, "is")
  BY DEF Writes
<1> QED BY <1>3, <1>4, <1>5, <1>6 DEF AccountWrites

LEMMA AccountMoves ==
  ASSUME DOMAIN open = Slot \cup Job, AccountInv, topic = "account", NEW w, Moves(w),
         \A c \in w : c = <<c[1], c[2], c[3]>>,
         \A c \in w : c[2] \in {"status", "state", "due"},
         EndsOut(w) \/ \A c \in w : c[2] # "due"
  PROVE  AccountInv'
BY MoveWrites, AccountCall DEF Moves

LEMMA StateMoves ==
  ASSUME DOMAIN open = Slot \cup Job, AccountInv, topic = "account",
         NEW k, NEW status, NEW s, NEW w, Moves(w),
         w \subseteq Change(k, "status", status) \cup Change(Me, "state", s)
  PROVE  AccountInv'
<1>1. \A c \in w : c = <<k, "status", status>> \/ c = <<Me, "state", s>>
  BY ChangeTriple
<1>2. \A c \in w : c = <<c[1], c[2], c[3]>> /\ c[2] \in {"status", "state"}
  BY <1>1
<1> QED BY <1>2, AccountMoves

LEMMA OutMoves ==
  ASSUME DOMAIN open = Slot \cup Job, AccountInv, topic = "account",
         NEW s \in OnTheWayOut, NEW due, Moves(Change(Me, "state", s) \cup Change(Me, "due", due))
  PROVE  AccountInv'
<1> DEFINE v == Change(Me, "state", s)
           w == v \cup Change(Me, "due", due)
<1>1. \A c \in w : c = <<Me, "state", s>> \/ c = <<Me, "due", due>>
  BY ChangeTriple
<1>2. db[Me]["state"] = s \/ Writes(v, Me, "state")
  BY ChangeShape
<1>3. v \subseteq w
  OBVIOUS
<1>4. Moves(w)
  OBVIOUS
<1> HIDE DEF v, w
<1>5. \A c \in w : c = <<c[1], c[2], c[3]>> /\ c[2] \in {"state", "due"}
  BY <1>1
<1>6. EndsOut(w)
  <2>1. \A c \in w : c[2] = "state" => c[3] = s
    BY <1>1
  <2>2. me.state \in OnTheWayOut \/ Writes(w, Me, "state")
    BY <1>2, <1>3 DEF me, Writes
  <2> QED BY <2>1, <2>2 DEF EndsOut
<1> QED BY <1>4, <1>5, <1>6, AccountMoves

(* Whoever is at a step of the onboarding is not due for deletion.         *)
LEMMA StepWrites ==
  ASSUME AccountInv, topic = "account", me.state \notin OnTheWayOut, outside.moved => outside'.moved,
         NEW w, \A c \in w : c[2] \notin {"is", "due"},
         \A c \in w : c[1] = Me /\ c[2] = "code" => c[3] = TRUE,
         \A c \in w : c[1] = Me /\ c[2] = "state" /\ c[3] = "active" => me.code
  PROVE  AccountWrites(w)
<1>1. ~overlapped /\ ~outside'.moved => EndsNotDue(w)
  BY DEF AccountInv, EndsNotDue
<1>2. ~Writes(w, Me, "is")
  BY DEF Writes
<1> QED BY <1>1, <1>2 DEF AccountWrites

LEMMA OnboardingStep ==
  ASSUME DOMAIN open = Slot \cup Job, AccountInv, topic = "account", Onboarding \/ LogIn
  PROVE  AccountInv'
<1>0. DOMAIN outside = {"says", "session", "elapsed", "forced", "moved"}
  BY DEF AccountInv
<1>1. ASSUME NEW from, NEW to, Step(from, to), from \notin OnTheWayOut, to # "active" PROVE AccountInv'
  <2>1. Request(Change(Me, "state", to)) /\ me.state \notin OnTheWayOut /\ outside' = outside
    BY <1>1 DEF Step, State, Request
  <2>2. \A c \in Change(Me, "state", to) : c[2] = "state" /\ c[3] = to
    BY ChangeShape
  <2>3. AccountWrites(Change(Me, "state", to))
    BY <1>1, <2>1, <2>2, StepWrites
  <2> QED BY <2>1, <2>3, AccountRequest
<1>2. ASSUME ConfirmEmail \/ ConfirmPhone \/ AddNextOfKin PROVE AccountInv'
  <2>1. {"pending_email", "pending_phone", "pending_next_of_kin"} \cap OnTheWayOut = {}
    BY DEF OnTheWayOut
  <2> QED BY <1>1, <1>2, <2>1 DEF ConfirmEmail, ConfirmPhone, AddNextOfKin
<1>3. ASSUME SetDitsalaCode PROVE AccountInv'
  <2> DEFINE on == TRUE
             w == Change(Me, "code", on)
  <2>1. on = TRUE
    OBVIOUS
  <2>2. Request(w)
    BY <1>3 DEF SetDitsalaCode
  <2> HIDE DEF on
  <2>0. \A c \in w : c[2] = "code" /\ c[3] = on
    BY ChangeShape
  <2> HIDE DEF w
  <2>3. me.state \notin OnTheWayOut /\ outside' = outside
    BY <1>3 DEF SetDitsalaCode, State, OnTheWayOut, Request
  <2>4. AccountWrites(w)
    BY <2>0, <2>1, <2>3, StepWrites
  <2> QED BY <2>2, <2>4, AccountRequest
<1>4. ASSUME CompleteOnboarding PROVE AccountInv'
  <2>1. /\ Call(Change(Me, "state", "active"))
        /\ outside' = [outside EXCEPT !.session = TRUE]
        /\ me.code /\ me.state \notin OnTheWayOut
    BY <1>4 DEF CompleteOnboarding, State, OnTheWayOut
  <2>2. /\ DOMAIN outside' = DOMAIN outside
        /\ outside'.forced = outside.forced /\ outside'.moved = outside.moved
    BY <1>0, <2>1
  <2>3. \A c \in Change(Me, "state", "active") : c[2] = "state"
    BY ChangeNames
  <2>4. AccountWrites(Change(Me, "state", "active"))
    BY <2>1, <2>2, <2>3, StepWrites
  <2>5. AccountWorld
    BY <2>1, <2>2 DEF AccountWorld
  <2> QED BY <2>1, <2>4, <2>5, AccountCall
<1>5. ASSUME NEW k \in Jobs, StartKyc(k) PROVE AccountInv'
  <2>1. Request(Insert(k, [status |-> "pending"])) /\ me.state \notin OnTheWayOut /\ outside' = outside /\ k # Me
    BY <1>5 DEF StartKyc, State, OnTheWayOut, Request, Jobs, Documents2, Document, Selfie, Me
  <2>2. \A c \in Insert(k, [status |-> "pending"]) : c[1] = k
    BY InsertStatus
  <2>3. AccountWrites(Insert(k, [status |-> "pending"]))
    <3>1. ~overlapped /\ ~outside'.moved => EndsNotDue(Insert(k, [status |-> "pending"]))
      BY <2>1, <2>2 DEF AccountInv, EndsNotDue
    <3> QED BY <2>1, <2>2, <3>1 DEF AccountWrites, Writes
  <2> QED BY <2>1, <2>3, AccountRequest
<1>6. ASSUME LogIn PROVE AccountInv'
  <2>1. UNCHANGED tables /\ outside' = [outside EXCEPT !.session = TRUE] /\ me.code
    BY <1>6 DEF LogIn, Outside
  <2>2. AccountWorld
    <3>1. /\ DOMAIN outside' = DOMAIN outside
          /\ outside'.forced = outside.forced /\ outside'.moved = outside.moved
      BY <1>0, <2>1
    <3> QED BY <2>1, <3>1 DEF AccountWorld
  <2> QED BY <2>1, <2>2, AccountKept DEF tables
<1> QED BY <1>2, <1>3, <1>4, <1>5, <1>6 DEF Onboarding

LEMMA StaffStep ==
  ASSUME DOMAIN open = Slot \cup Job, AccountInv, topic = "account",
         Reviews \/ Staff \/ \E k \in Jobs : HandleKycResult(k)
  PROVE  AccountInv'
<1>1. ASSUME NEW s, Moves(Change(Me, "state", s)) PROVE AccountInv'
  BY <1>1, StateMoves
<1>2. Approve \/ RequestRecapture => AccountInv'
  BY <1>1 DEF Approve, RequestRecapture
<1>3. ASSUME NEW s, ForceAccountState(s) PROVE AccountInv'
  BY <1>1, <1>3 DEF ForceAccountState
<1>4. Reject => AccountInv'
  BY OutMoves DEF Reject, OnTheWayOut
<1>5. ASSUME NEW s \in {"suspended", "banned"}, ActionReport(s) PROVE AccountInv'
  <2>1. CASE s = "banned"
    BY <1>5, <2>1, OutMoves DEF ActionReport, OnTheWayOut
  <2>2. CASE s # "banned"
    <3>1. Moves(Change(Me, "state", s) \cup {})
      BY <1>5, <2>2 DEF ActionReport
    <3>2. Change(Me, "state", s) \cup {} = Change(Me, "state", s)
      OBVIOUS
    <3> QED BY <1>1, <3>1, <3>2
  <2> QED BY <2>1, <2>2
<1>6. ASSUME NEW k \in Jobs, HandleKycResult(k) PROVE AccountInv'
  <2>1. PICK w, status, s :
          Moves(w) /\ w \subseteq Change(k, "status", status) \cup Change(Me, "state", s)
    <3>1. CASE says[k] = "passed"
      <4>1. PICK s : Moves(Change(k, "status", "passed") \cup Change(Me, "state", s))
        BY <1>6, <3>1 DEF HandleKycResult
      <4> QED BY <4>1
    <3>2. CASE says[k] = "manual_review"
      <4>1. PICK v : /\ Moves(v \cup Change(Me, "state", "manual_review"))
                     /\ v \subseteq Change(k, "status", "manual_review")
        BY <1>6, <3>2 DEF HandleKycResult
      <4> QED BY <4>1
    <3>3. CASE says[k] = "failed"
      <4>1. PICK v : /\ Moves(Change(k, "status", "failed") \cup v)
                     /\ v \subseteq Change(Me, "state", "manual_review")
        BY <1>6, <3>3 DEF HandleKycResult
      <4> QED BY <4>1
    <3> QED BY <1>6, <3>1, <3>2, <3>3 DEF HandleKycResult
  <2> QED BY <2>1, StateMoves
<1> QED BY <1>2, <1>3, <1>4, <1>5, <1>6 DEF Reviews, Staff

LEMMA LifecycleStep ==
  ASSUME DOMAIN open = Slot \cup Job, AccountInv, topic = "account",
         Lifecycle \/ \E j \in Job : ProcessScheduledDeletions(j)
  PROVE  AccountInv'
<1>0. DOMAIN outside = {"says", "session", "elapsed", "forced", "moved"}
  BY DEF AccountInv
<1>1. ASSUME outside' = [outside EXCEPT !.elapsed = outside'.elapsed] PROVE AccountWorld
  <2>1. /\ DOMAIN outside' = DOMAIN outside /\ outside'.session = outside.session
        /\ outside'.forced = outside.forced /\ outside'.moved = outside.moved
    BY <1>0, <1>1
  <2> QED BY <2>1 DEF AccountWorld
<1>2. ASSUME RequestDeactivation PROVE AccountInv'
  <2> DEFINE v == Change(Me, "state", "deactivated")
             w == v \cup Change(Me, "due", "grace")
  <2>1. Call(w) /\ outside' = [outside EXCEPT !.elapsed = outside'.elapsed]
    <3>1. outside' = [outside EXCEPT !.elapsed = FALSE]
      BY <1>2 DEF RequestDeactivation
    <3>2. Call(w)
      BY <1>2 DEF RequestDeactivation
    <3> QED BY <1>0, <3>1, <3>2
  <2>2. /\ \A c \in w : \/ c[2] = "state" /\ c[3] = "deactivated"
                        \/ c[2] = "due" /\ c[3] = "grace"
        /\ db[Me]["state"] = "deactivated" \/ Writes(v, Me, "state")
    BY ChangeShape
  <2>3. v \subseteq w
    OBVIOUS
  <2> HIDE DEF v, w
  <2>4. EndsOut(w)
    BY <2>2, <2>3 DEF EndsOut, me, Writes, OnTheWayOut
  <2>5. AccountWrites(w)
    BY <2>2, <2>4 DEF AccountWrites, Writes
  <2> QED BY <1>1, <2>1, <2>5, AccountCall
<1>3. ASSUME CancelDeactivation PROVE AccountInv'
  <2> DEFINE v == Change(Me, "due", "never")
             w == Change(Me, "state", "active") \cup v
  <2>1. Request(w) /\ outside.session /\ outside' = outside
    BY <1>3 DEF CancelDeactivation, Request
  <2>2. /\ \A c \in w : \/ c[2] = "state"
                        \/ c[2] = "due" /\ c[3] = "never"
        /\ db[Me]["due"] = "never" \/ Writes(v, Me, "due")
    BY ChangeShape
  <2>3. v \subseteq w
    OBVIOUS
  <2> HIDE DEF v, w
  <2>4. EndsNotDue(w) /\ me.code
    BY <2>1, <2>2, <2>3 DEF EndsNotDue, me, Writes, AccountInv
  <2>5. AccountWrites(w)
    BY <2>2, <2>4 DEF AccountWrites, Writes
  <2> QED BY <2>1, <2>5, AccountRequest
<1>4. ASSUME Elapse PROVE AccountInv'
  <2>1. UNCHANGED tables /\ outside' = [outside EXCEPT !.elapsed = TRUE]
    BY <1>4 DEF Elapse, Outside
  <2>2. outside' = [outside EXCEPT !.elapsed = outside'.elapsed]
    BY <1>0, <2>1
  <2> QED BY <1>1, <2>1, <2>2, AccountKept DEF tables
<1>5. ASSUME NEW j \in Job, ProcessScheduledDeletions(j) PROVE AccountInv'
  <2>1. Opens(j, Delete(Me)) /\ outside' = outside /\ me.due # "never"
    BY <1>5, BeginOpens DEF ProcessScheduledDeletions, ListPendingHardDelete
  <2>2. \A c \in Delete(Me) : c[2] = "is"
    BY ChangeNames DEF Delete
  <2>3. ~overlapped /\ ~outside'.moved => EndsOut(Delete(Me))
    BY <2>1, <2>2 DEF EndsOut, AccountInv
  <2>4. AccountWrites(Delete(Me))
    BY <2>1, <2>2, <2>3 DEF AccountWrites
  <2>5. AccountWorld
    BY <2>1 DEF AccountWorld
  <2> QED BY <2>1, <2>4, <2>5, AccountKept DEF Opens
<1> QED BY <1>2, <1>3, <1>4, <1>5 DEF Lifecycle

LEMMA AccountStep ==
  ASSUME DOMAIN open = Slot \cup Job, OpenAlone, AccountInv, AccountNext
  PROVE  AccountInv'
<1>0. topic = "account" /\ DOMAIN outside = {"says", "session", "elapsed", "forced", "moved"}
  BY DEF AccountNext, AccountInv
<1>1. ASSUME NEW k \in Jobs, Decide(k, {"passed", "failed", "manual_review"}) PROVE AccountInv'
  <2>1. UNCHANGED tables /\ \E outcome : outside' = [outside EXCEPT !.says[k] = outcome]
    BY <1>1 DEF Decide, Outside
  <2>2. /\ DOMAIN outside' = DOMAIN outside /\ outside'.session = outside.session
        /\ outside'.forced = outside.forced /\ outside'.moved = outside.moved
    BY <1>0, <2>1
  <2>3. AccountWorld
    BY <2>2 DEF AccountWorld
  <2> QED BY <1>0, <2>1, <2>3, AccountKept DEF tables
<1>2. ASSUME NEW t \in Slot \cup Job, RollBack(t), UNCHANGED outside PROVE AccountInv'
  <2>1. Closes(t) /\ db' = db
    BY <1>2, RollBackCloses
  <2>2. AccountWorld /\ \A s \in DOMAIN open : open'[s] = open[s] \/ open'[s] = {}
    BY <1>2, <2>1 DEF AccountWorld, Closes
  <2> QED BY <1>0, <2>1, <2>2, AccountKept DEF Closes
<1>3. ASSUME NEW t \in Slot \cup Job, Commit(t) PROVE AccountInv'
  <2>1. Closes(t) /\ db' = Written(open[t]) /\ outside' = outside
    BY <1>3, CommitCloses
  <2>2. Columns({Me}, {"is", "state", "code", "due"})
    BY <1>0 DEF AccountInv
  <2>3. Columns({Me}, {"is", "state", "code", "due"})'
    BY <2>1, <2>2, WrittenShape DEF Columns
  <2>4. ASSUME NEW column \in {"is", "state", "code", "due"}
        PROVE  \/ ~Writes(open[t], Me, column) /\ me'[column] = me[column]
               \/ \E c \in open[t] : c[1] = Me /\ c[2] = column /\ me'[column] = c[3]
    BY <2>1, <2>2, CommitColumn DEF Columns, me
  <2>5. me.code => me'.code
    BY <1>0, <2>1, <2>4 DEF AccountInv, Closes
  <2>6. me'.state = "active" => me'.code \/ outside.forced
    <3>1. \/ me'.state = me.state
          \/ \E c \in open[t] : c[1] = Me /\ c[2] = "state" /\ me'.state = c[3]
      BY <2>4
    <3> QED BY <1>0, <2>1, <2>5, <3>1 DEF AccountInv, Closes
  <2>7. ASSUME ~overlapped, ~outside.moved PROVE me'.state \in OnTheWayOut \/ me'.due = "never"
    <3>1. EndsOut(open[t]) \/ EndsNotDue(open[t])
      BY <1>0, <2>1, <2>7 DEF AccountInv, Closes
    <3>2. CASE EndsOut(open[t])
      <4>1. \/ ~Writes(open[t], Me, "state") /\ me'.state = me.state
            \/ \E c \in open[t] : c[1] = Me /\ c[2] = "state" /\ me'.state = c[3]
        BY <2>4
      <4> QED BY <3>2, <4>1 DEF EndsOut
    <3>3. CASE EndsNotDue(open[t])
      <4>1. \/ ~Writes(open[t], Me, "due") /\ me'.due = me.due
            \/ \E c \in open[t] : c[1] = Me /\ c[2] = "due" /\ me'.due = c[3]
        BY <2>4
      <4> QED BY <3>3, <4>1 DEF EndsNotDue
    <3> QED BY <3>1, <3>2, <3>3
  <2>8. ASSUME ~overlapped, ~outside.moved, NEW s \in DOMAIN open'
        PROVE  (EndsOut(open[s]) \/ EndsNotDue(open[s]))' /\ ~Writes(open[s], Me, "is")'
    <3>1. open'[s] = {}
      BY <2>1, <2>8, NoneIsLeft
    <3> QED BY <2>7, <2>8, <3>1 DEF EndsOut, EndsNotDue, Writes
  <2>9. \A s \in DOMAIN open' : open'[s] \subseteq open[s]
    BY <2>1 DEF Closes
  <2> QED BY <1>0, <2>1, <2>3, <2>5, <2>6, <2>7, <2>8, <2>9 DEF AccountInv, Closes
<1> QED BY <1>0, <1>1, <1>2, <1>3, OnboardingStep, StaffStep, LifecycleStep DEF AccountNext

(* What is deleted was due, and what is due is deactivated or banned.      *)
LEMMA DeletionStep ==
  ASSUME DOMAIN open = Slot \cup Job, AccountInv, topic = "account", NEW t \in Slot \cup Job, Commit(t),
         Here(Me), ~Here(Me)', ~overlapped, ~outside.moved
  PROVE  State({"deactivated", "banned"})
<1>1. Closes(t) /\ db' = Written(open[t]) /\ Columns({Me}, {"is", "state", "code", "due"})
  BY CommitCloses DEF AccountInv
<1>2. ~Writes(open[t], Me, "is") => db'[Me]["is"] = db[Me]["is"]
  <2>1. Me \in DOMAIN db /\ "is" \in DOMAIN db[Me]
    BY <1>1 DEF Columns
  <2> QED BY <1>1, <2>1, WrittenKeeps
<1>3. Writes(open[t], Me, "is")
  BY <1>2 DEF Here
<1>4. me.due # "never"
  <2>1. \A s \in DOMAIN open : Writes(open[s], Me, "is") => me.due # "never"
    BY DEF AccountInv
  <2> QED BY <1>3, <2>1
<1>5. me.state \in OnTheWayOut
  BY <1>4 DEF AccountInv
<1> QED BY <1>5 DEF State, OnTheWayOut

-----------------------------------------------------------------------------
(* The recovery.                                                           *)
(* Requests of a recovery say nothing the next of kin have not been told.  *)
RecoveryWrites(w) == \A c \in w : c[2] = "status" /\ c[3] \in Announced => c[1] \in outside'.told
RecoveryWorld == DOMAIN outside' = DOMAIN outside /\ outside.told \subseteq outside'.told

LEMMA RecoveryChanges ==
  ASSUME RecoveryInv, topic = "recovery", RecoveryWorld, UNCHANGED <<db, topic>>,
         DOMAIN open' = DOMAIN open,
         \A t \in DOMAIN open : open'[t] \subseteq open[t] \/ RecoveryWrites(open'[t])
  PROVE  RecoveryInv'
BY DEF RecoveryInv, RecoveryWorld, RecoveryWrites, Columns

LEMMA RecoveryCall ==
  ASSUME DOMAIN open = Slot \cup Job, RecoveryInv, topic = "recovery", NEW w, Call(w),
         RecoveryWrites(w), RecoveryWorld
  PROVE  RecoveryInv'
<1>1. PICK t \in Slot : Opens(t, w)
  BY CallOpens
<1> QED BY <1>1, RecoveryChanges DEF Opens

LEMMA RecoveryRequest ==
  ASSUME DOMAIN open = Slot \cup Job, RecoveryInv, topic = "recovery", NEW w, Request(w),
         \A c \in w : c[2] = "status" /\ c[3] \in Announced => c[1] \in outside.told
  PROVE  RecoveryInv'
BY RecoveryCall DEF Request, RecoveryWrites, RecoveryWorld

LEMMA RecoveryStep ==
  ASSUME DOMAIN open = Slot \cup Job, RecoveryInv, RecoveryNext
  PROVE  RecoveryInv'
<1>0. topic = "recovery" /\ DOMAIN outside = {"started", "says", "told"}
  BY DEF RecoveryNext, RecoveryInv
<1>1. ASSUME NEW r \in Asks, StartRecovery(r) PROVE RecoveryInv'
  <2>1. PICK c \in Codes : Request(Insert(r, [status |-> "initiated"]) \cup Insert(c, [status |-> "pending"]))
    BY <1>1 DEF StartRecovery
  <2>2. \A d \in Insert(r, [status |-> "initiated"]) \cup Insert(c, [status |-> "pending"]) :
          d[2] = "status" => d[3] \notin Announced
    BY InsertStatus DEF Announced
  <2> QED BY <1>0, <2>1, <2>2, RecoveryRequest
<1>2. ASSUME NEW r \in Asks, StartPhoneRecovery(r) PROVE RecoveryInv'
  <2>1. \A d \in Insert(r, [status |-> "initiated"]) : d[2] = "status" => d[3] \notin Announced
    BY InsertStatus DEF Announced
  <2> QED BY <1>0, <1>2, <2>1, RecoveryRequest DEF StartPhoneRecovery
<1>3. ASSUME NEW r \in Asks, ConfirmRecoveryEmail(r) PROVE RecoveryInv'
  <2>1. PICK c \in Codes : Request(Change(c, "status", "verified") \cup Change(r, "email", TRUE))
    BY <1>3 DEF ConfirmRecoveryEmail
  <2>2. \A d \in Change(c, "status", "verified") : d[3] \notin Announced
    BY ChangeShape DEF Announced
  <2>3. \A d \in Change(r, "email", TRUE) : d[2] = "email"
    BY ChangeNames
  <2>4. \A d \in Change(c, "status", "verified") \cup Change(r, "email", TRUE) :
          d[2] = "status" => d[3] \notin Announced
    BY <2>2, <2>3
  <2> QED BY <1>0, <2>1, <2>4, RecoveryRequest
<1>4. ASSUME NEW r \in Asks, ConfirmRecoveryPhone(r) PROVE RecoveryInv'
  <2>1. \A d \in Change(r, "phone", TRUE) : d[2] = "phone"
    BY ChangeNames
  <2> QED BY <1>0, <1>4, <2>1, RecoveryRequest DEF ConfirmRecoveryPhone
<1>5. ASSUME NEW r \in Asks, NEW w, Call(w), NotifyNextOfKin(r), \A c \in w : c[1] = r
      PROVE  RecoveryInv'
  <2>1. DOMAIN outside' = DOMAIN outside /\ outside'.told = outside.told \cup {r}
    BY <1>0, <1>5 DEF NotifyNextOfKin
  <2>2. RecoveryWrites(w) /\ RecoveryWorld
    BY <1>5, <2>1 DEF RecoveryWrites, RecoveryWorld
  <2> QED BY <1>0, <1>5, <2>2, RecoveryCall
<1>6. ASSUME NEW r \in Asks, ConfirmPhoneRecovery(r) PROVE RecoveryInv'
  <2>1. \A d \in Change(r, "phone", TRUE) : d[1] = r
    BY ChangeNames
  <2>2. \A d \in Change(r, "status", "phone_verified") : d[1] = r
    BY ChangeNames
  <2> QED BY <1>5, <1>6, <2>1, <2>2 DEF ConfirmPhoneRecovery
<1>7. ASSUME NEW r \in Asks, StartLiveness(r) PROVE RecoveryInv'
  <2>1. /\ Call(Change(r, "job", outside.started + 1))
        /\ outside' = [outside EXCEPT !.started = @ + 1]
    BY <1>7 DEF StartLiveness
  <2>2. RecoveryWorld
    BY <1>0, <2>1 DEF RecoveryWorld
  <2>3. RecoveryWrites(Change(r, "job", outside.started + 1))
    BY ChangeNames DEF RecoveryWrites
  <2> QED BY <1>0, <2>1, <2>2, <2>3, RecoveryCall
<1>8. ASSUME NEW r \in Asks, FlagByToken(r) PROVE RecoveryInv'
  <2>1. \A d \in Change(r, "status", "next_of_kin_flagged") : d[1] = r
    BY ChangeNames
  <2> QED BY <1>0, <1>8, <2>1, RecoveryRequest DEF FlagByToken
<1>9. ASSUME NEW r \in Asks, Complete(r) PROVE RecoveryInv'
  <2>1. r \in outside.told
    BY <1>0, <1>9 DEF Complete, RecoveryInv, Announced
  <2>2. \A d \in Change(r, "status", "completed") : d[1] = r
    BY ChangeNames
  <2> QED BY <1>0, <1>9, <2>1, <2>2, RecoveryRequest DEF Complete
<1>10. ASSUME Upgrade PROVE RecoveryInv'
  <2>1. \A d \in Change(Owner, "tier", "vip") : d[2] = "tier"
    BY ChangeNames
  <2>2. \A d \in Change(Owner, "email", TRUE) : d[2] = "email"
    BY ChangeNames
  <2>3. \A d \in (IF db[Owner].email THEN Change(Owner, "tier", "vip") ELSE Change(Owner, "email", TRUE)) :
          d[2] # "status"
    BY <2>1, <2>2
  <2> QED BY <1>0, <1>10, <2>3, RecoveryRequest DEF Upgrade
<1>11. ASSUME NEW n \in Lives, ProviderDecides(n) PROVE RecoveryInv'
  <2>1. UNCHANGED tables /\ \E outcome : outside' = [outside EXCEPT !.says[n] = outcome]
    BY <1>11 DEF ProviderDecides, Outside
  <2>2. RecoveryWorld
    BY <1>0, <2>1 DEF RecoveryWorld
  <2> QED BY <1>0, <2>1, <2>2, RecoveryChanges DEF tables
<1>12. ASSUME NEW n \in Lives, NEW r \in Asks, HandleLiveness(n, r) PROVE RecoveryInv'
  <2>1. CASE Call(Change(r, "status", "liveness_passed")) /\ NotifyNextOfKin(r)
    <3>1. \A d \in Change(r, "status", "liveness_passed") : d[1] = r
      BY ChangeNames
    <3> QED BY <1>5, <2>1, <3>1
  <2>2. CASE Request(Change(r, "status", "liveness_failed"))
    <3>1. \A d \in Change(r, "status", "liveness_failed") : d[3] \notin Announced
      BY ChangeShape DEF Announced
    <3> QED BY <1>0, <2>2, <3>1, RecoveryRequest
  <2> QED BY <1>12, <2>1, <2>2 DEF HandleLiveness
<1>13. ASSUME NEW t \in Slot, RollBack(t), UNCHANGED outside PROVE RecoveryInv'
  <2>1. Closes(t) /\ db' = db
    BY <1>13, RollBackCloses
  <2>2. \A s \in DOMAIN open : open'[s] \subseteq open[s]
    BY <2>1 DEF Closes
  <2> QED BY <1>0, <1>13, <2>1, <2>2, RecoveryChanges DEF Closes, RecoveryWorld
<1>14. ASSUME NEW t \in Slot, Commit(t) PROVE RecoveryInv'
  <2>1. Closes(t) /\ db' = Written(open[t]) /\ outside' = outside
    BY <1>14, CommitCloses
  <2>2. Columns(Asks, {"is", "status", "email", "phone", "job"})
    BY <1>0 DEF RecoveryInv
  <2>3. Columns(Asks, {"is", "status", "email", "phone", "job"})'
    BY <2>1, <2>2, WrittenShape DEF Columns
  <2>4. ASSUME NEW r \in Asks, db'[r].status \in Announced PROVE r \in outside.told
    <3>1. \/ db'[r]["status"] = db[r]["status"]
          \/ \E c \in open[t] : c[1] = r /\ c[2] = "status" /\ db'[r]["status"] = c[3]
      BY <2>1, <2>2, CommitColumn DEF Columns
    <3> QED BY <1>0, <2>1, <2>4, <3>1 DEF RecoveryInv, Closes
  <2>5. \A s \in DOMAIN open : open'[s] \subseteq open[s]
    BY <2>1 DEF Closes
  <2> QED BY <1>0, <2>1, <2>3, <2>4, <2>5 DEF RecoveryInv, Closes
<1> QED BY <1>1, <1>2, <1>3, <1>4, <1>6, <1>7, <1>8, <1>9, <1>10, <1>11, <1>12, <1>13, <1>14
        DEF RecoveryNext, RecoverySteps

-----------------------------------------------------------------------------
(* The login.                                                              *)
(* Requests of a login say that a check passed only if the provider did.   *)
LoginWrites(w) == \A c \in w : c[2] = "status" /\ c[3] = "passed" => c[1] \in Checks /\ Decided(c[1], "passed")
LoginWorld ==
  /\ DOMAIN outside' = DOMAIN outside /\ DOMAIN says' = DOMAIN says
  /\ \A k \in Checks : says'[k] = says[k] \/ says'[k] \in {"passed", "failed"}
  /\ \A k \in Checks : Decided(k, "passed") => Decided(k, "passed")'
  /\ \A k \in outside'.in : k \in outside.in \/ (k \in Checks /\ Decided(k, "passed"))

LEMMA LoginChanges ==
  ASSUME LoginInv, topic = "login", LoginWorld, UNCHANGED <<db, topic>>,
         DOMAIN open' = DOMAIN open,
         \A t \in DOMAIN open : open'[t] \subseteq open[t] \/ LoginWrites(open'[t])
  PROVE  LoginInv'
<1>1. ASSUME NEW t \in DOMAIN open', NEW c \in open'[t], c[2] = "status", c[3] = "passed"
      PROVE  c[1] \in Checks /\ Decided(c[1], "passed")
  BY <1>1 DEF LoginInv, LoginWrites
<1>2. \A t \in DOMAIN open' : \A c \in open'[t] :
        c[2] = "status" /\ c[3] = "passed" => c[1] \in Checks /\ Decided(c[1], "passed")'
  BY <1>1 DEF LoginWorld
<1> QED BY <1>2 DEF LoginInv, LoginWorld, Columns

LEMMA LoginCall ==
  ASSUME DOMAIN open = Slot \cup Job, LoginInv, topic = "login", NEW w, Call(w),
         LoginWrites(w), LoginWorld
  PROVE  LoginInv'
<1>1. PICK t \in Slot : Opens(t, w)
  BY CallOpens
<1> QED BY <1>1, LoginChanges DEF Opens

LEMMA LoginStep ==
  ASSUME DOMAIN open = Slot \cup Job, LoginInv, LoginNext
  PROVE  LoginInv'
<1>0. topic = "login" /\ DOMAIN outside = {"says", "now", "hits", "log", "in"} /\ DOMAIN says = Checks
  BY DEF LoginNext, LoginInv
<1>1. ASSUME Hit PROVE LoginWorld
  <2>1. PICK hits, log : outside' = [outside EXCEPT !.hits = hits, !.log = log]
    BY <1>1, Zenon DEF Hit
  <2>2. DOMAIN outside' = DOMAIN outside /\ says' = says /\ outside'.in = outside.in
    BY <1>0, <2>1 DEF says
  <2> QED BY <2>2 DEF LoginWorld, Decided
<1>2. ASSUME TryWrongCode PROVE LoginInv'
  <2>1. LoginWrites({})
    BY DEF LoginWrites
  <2> QED BY <1>0, <1>1, <1>2, <2>1, LoginCall DEF TryWrongCode
<1>3. ASSUME NEW k \in Checks, StartLogin(k) PROVE LoginInv'
  <2>1. LoginWrites(Insert(k, [status |-> "pending"]))
    BY InsertStatus DEF LoginWrites
  <2> QED BY <1>0, <1>1, <1>3, <2>1, LoginCall DEF StartLogin
<1>4. ASSUME NEW k \in Checks, CompleteLogin(k) PROVE LoginInv'
  <2>1. /\ Call({}) /\ outside' = [outside EXCEPT !.in = @ \cup {k}]
        /\ Decided(k, "passed")
    BY <1>0, <1>4 DEF CompleteLogin, LoginInv
  <2>2. DOMAIN outside' = DOMAIN outside /\ says' = says /\ outside'.in = outside.in \cup {k}
    BY <1>0, <2>1 DEF says
  <2>3. LoginWorld /\ LoginWrites({})
    BY <2>1, <2>2 DEF LoginWorld, LoginWrites, Decided
  <2> QED BY <1>0, <2>1, <2>3, LoginCall
<1>5. ASSUME NEW k \in Checks, RecordLoginLiveness(k) PROVE LoginInv'
  <2>1. LoginWorld
    BY <1>5 DEF RecordLoginLiveness, Request, LoginWorld, Decided, says
  <2>2. CASE says[k] = "failed" /\ Call(Change(k, "status", "failed"))
    <3>1. LoginWrites(Change(k, "status", "failed"))
      BY ChangeShape DEF LoginWrites
    <3> QED BY <1>0, <2>1, <2>2, <3>1, LoginCall
  <2>3. CASE Decided(k, "passed") /\ Call(Change(k, "status", "passed") \cup Change(k, "verified", now))
    <3>1. \A c \in Change(k, "status", "passed") : c[1] = k
      BY ChangeNames
    <3>2. \A c \in Change(k, "verified", now) : c[1] = k
      BY ChangeNames
    <3>3. LoginWrites(Change(k, "status", "passed") \cup Change(k, "verified", now))
      BY <2>3, <3>1, <3>2 DEF LoginWrites
    <3> QED BY <1>0, <2>1, <2>3, <3>3, LoginCall
  <2> QED BY <1>0, <1>5, <2>2, <2>3 DEF RecordLoginLiveness, Request, Decided, LoginInv
<1>6. ASSUME UNCHANGED tables, LoginWorld PROVE LoginInv'
  BY <1>0, <1>6, LoginChanges DEF tables
<1>7. ASSUME NEW k \in Checks, Decide(k, {"passed", "failed"}) PROVE LoginInv'
  <2>1. PICK outcome \in {"passed", "failed"} :
          UNCHANGED tables /\ outside' = [outside EXCEPT !.says[k] = outcome] /\ says[k] = None
    BY <1>7 DEF Decide, Outside
  <2>2. /\ DOMAIN outside' = DOMAIN outside /\ DOMAIN says' = DOMAIN says
        /\ outside'.in = outside.in /\ says'[k] = outcome
        /\ \A c \in Checks \ {k} : says'[c] = says[c]
    BY <1>0, <2>1 DEF says
  <2>3. LoginWorld
    BY <2>1, <2>2 DEF LoginWorld, Decided
  <2> QED BY <1>6, <2>1, <2>3
<1>8. ASSUME ClockTicks \/ Restart PROVE LoginInv'
  <2>1. /\ UNCHANGED tables
        /\ \/ outside' = [outside EXCEPT !.now = @ + 1]
           \/ outside' = [outside EXCEPT !.hits = <<>>, !.log = <<>>]
    BY <1>8 DEF ClockTicks, Restart, Outside
  <2>2. DOMAIN outside' = DOMAIN outside /\ says' = says /\ outside'.in = outside.in
    BY <1>0, <2>1 DEF says
  <2>3. LoginWorld
    BY <2>2 DEF LoginWorld, Decided
  <2> QED BY <1>6, <2>1, <2>3
<1>9. ASSUME NEW t \in Slot, RollBack(t), UNCHANGED outside PROVE LoginInv'
  <2>1. Closes(t) /\ db' = db
    BY <1>9, RollBackCloses
  <2>2. \A s \in DOMAIN open : open'[s] \subseteq open[s]
    BY <2>1 DEF Closes
  <2>3. LoginWorld
    BY <1>9 DEF LoginWorld, Decided, says
  <2> QED BY <1>0, <2>1, <2>2, <2>3, LoginChanges DEF Closes
<1>10. ASSUME NEW t \in Slot, Commit(t) PROVE LoginInv'
  <2>1. Closes(t) /\ db' = Written(open[t]) /\ outside' = outside
    BY <1>10, CommitCloses
  <2>2. Columns(Checks, {"is", "status", "verified"})
    BY <1>0 DEF LoginInv
  <2>3. Columns(Checks, {"is", "status", "verified"})'
    BY <2>1, <2>2, WrittenShape DEF Columns
  <2>4. ASSUME NEW k \in Checks, db'[k].status = "passed" PROVE Decided(k, "passed")
    <3>1. \/ db'[k]["status"] = db[k]["status"]
          \/ \E c \in open[t] : c[1] = k /\ c[2] = "status" /\ db'[k]["status"] = c[3]
      BY <2>1, <2>2, CommitColumn DEF Columns
    <3> QED BY <1>0, <2>1, <2>4, <3>1 DEF LoginInv, Closes
  <2>5. \A s \in DOMAIN open : open'[s] \subseteq open[s]
    BY <2>1 DEF Closes
  <2>6. says' = says /\ \A k : Decided(k, "passed")' = Decided(k, "passed")
    BY <2>1 DEF says, Decided
  <2> QED BY <1>0, <2>1, <2>3, <2>4, <2>5, <2>6 DEF LoginInv, Closes
<1> QED BY <1>2, <1>3, <1>4, <1>5, <1>7, <1>8, <1>9, <1>10 DEF LoginNext, LoginSteps

-----------------------------------------------------------------------------
(* The rows each topic starts with.                                        *)
LEMMA StartOpens ==
  ASSUME NEW name, NEW rows, NEW world, Start(name, rows, world)
  PROVE  /\ topic = name /\ db = rows /\ outside = world /\ ~overlapped
         /\ DOMAIN open = Slot \cup Job /\ \A t \in DOMAIN open : open[t] = {}
BY DEF Start

LEMMA RoomStarts ==
  ASSUME MeetingsInit
  PROVE  RoomInv
<1>0. Meeting \notin Row
  BY MeetingsAssumption
<1> DEFINE host == [NoRow EXCEPT !.is = "here", !.user = Host, !.role = "host"]
<1>1. \A p \in Row : /\ db[p] = NoRow \/ db[p] = host
                     /\ outside.page[p] = "form"
  BY <1>0 DEF MeetingsInit, Start, Participant
<1>2. Columns({Meeting}, {"is", "status", "locked", "waiting_room", "scheduled"})
  BY <1>0 DEF MeetingsInit, Start, Participant, Columns
<1>3. DOMAIN outside = {"clock", "leaves", "page"} /\ DOMAIN page = Row /\ Row \subseteq DOMAIN db
  BY <1>0 DEF MeetingsInit, Start, Participant, page
<1> DEFINE shape(r) == /\ DOMAIN r = {"is", "user", "role", "admission", "joined", "left"}
                       /\ r.is \in {"none", "here"} /\ r.admission = "admitted"
<1>4. shape(NoRow) /\ shape(host)
  <2> DEFINE one == [NoRow EXCEPT !.is = "here"]
             two == [one EXCEPT !.user = Host]
  <2>1. shape(NoRow)
    BY DEF NoRow
  <2>2. shape(one)
    BY <2>1
  <2>3. host = [two EXCEPT !.role = "host"]
    BY Zenon
  <2> HIDE DEF one
  <2>4. shape(two)
    BY <2>2
  <2> HIDE DEF two, host
  <2> QED BY <2>1, <2>3, <2>4
<1> HIDE DEF host
<1>5. \A p \in Row : /\ DOMAIN db[p] = {"is", "user", "role", "admission", "joined", "left"}
                     /\ db[p].is \in {"none", "here"} /\ db[p].admission = "admitted"
  <2> HIDE DEF shape
  <2>1. \A p \in Row : shape(db[p])
    BY <1>1, <1>4
  <2> QED BY <2>1 DEF shape
<1>6. \A t \in DOMAIN open : open[t] = {}
  BY DEF MeetingsInit, Start
<1>7. Columns(Row, {"is", "user", "role", "admission", "joined", "left"})
  BY <1>3, <1>5 DEF Columns
<1>8. \A p \in Row :
         /\ db[p].is \in {"none", "here"}
         /\ db[p].is = "none" => db[p].admission = "admitted"
         /\ Here(p) /\ db[p].admission = "waiting" => ~Holds(p)
  BY <1>5
<1>9. \A t \in DOMAIN open : \A c : c \notin open[t]
  BY <1>6
<1> QED BY <1>2, <1>3, <1>7, <1>8, <1>9 DEF RoomInv

LEMMA OfficeStarts ==
  ASSUME OfficeInit
  PROVE  OfficeInv
<1>1. PICK founder \in Row :
        Start("office",
         [r \in Row |-> [is |-> IF r = founder THEN "here" ELSE "none", role |-> "super_admin",
                         active |-> TRUE, enrolled |-> FALSE]],
         [login |-> [r \in Row |-> {}], token |-> {}, ghost |-> FALSE, undone |-> FALSE])
  BY DEF OfficeInit
<1>2. InCharge(founder)
  BY <1>1 DEF Start, InCharge, Here
<1>3. \A t \in DOMAIN open : open[t] = {}
  BY <1>1 DEF Start
<1>4. Columns(Row, {"is", "role", "active", "enrolled"})
  BY <1>1 DEF Start, Columns
<1>5. /\ DOMAIN outside = {"login", "token", "ghost", "undone"} /\ DOMAIN outside.login = Row
      /\ outside.token = {}
  BY <1>1 DEF Start
<1> QED BY <1>2, <1>3, <1>4, <1>5 DEF OfficeInv, Opened

LEMMA StageStarts ==
  ASSUME StageInit
  PROVE  StageInv
BY DEF StageInit, Start, StageInv, Columns, connected

LEMMA VipStarts ==
  ASSUME VipInit
  PROVE  VipInv
<1> DEFINE row(k) ==
             CASE k = Subscriber -> [is |-> "here", tier |-> "normal"]
               [] k \in Subscriptions -> [is |-> "none", status |-> "pending_payment", paid |-> FALSE]
               [] OTHER -> [is |-> "none", status |-> "pending"]
           rows == Subscriptions \cup KycDocuments \cup {Face(1)}
<1>0. VipRows = rows
  BY DEF VipRows, KycDocuments
<1>1. row(Subscriber) = [is |-> "here", tier |-> "normal"]
  BY VipNames
<1>2. ASSUME NEW s \in Subscriptions
      PROVE  row(s) = [is |-> "none", status |-> "pending_payment", paid |-> FALSE]
  BY VipNames
<1>3. ASSUME NEW k \in KycDocuments \cup {Face(1)} PROVE row(k) = [is |-> "none", status |-> "pending"]
  <2>1. k # Subscriber /\ k \notin Subscriptions
    BY VipNames
  <2> QED BY <2>1
<1>4. /\ topic = "vip" /\ db = [k \in VipRows \cup {Subscriber} |-> row(k)]
      /\ outside = [says |-> [k \in VipRows |-> None], passed |-> FALSE]
      /\ \A t \in DOMAIN open : open[t] = {}
  BY DEF VipInit, Start
<1> HIDE DEF row
<1>5. \A k \in VipRows \cup {Subscriber} : k \in DOMAIN db /\ db[k] = row(k)
  BY <1>4
<1>6. DOMAIN outside = {"says", "passed"} /\ DOMAIN says = VipRows /\ \A k \in VipRows : says[k] = None
  BY <1>4 DEF says
<1>7. \A s \in Subscriptions : s \in DOMAIN db /\ db[s] = [is |-> "none", status |-> "pending_payment", paid |-> FALSE]
  BY <1>0, <1>2, <1>5
<1>8. \A k \in KycDocuments \cup {Face(1)} : k \in DOMAIN db /\ db[k] = [is |-> "none", status |-> "pending"]
  BY <1>0, <1>3, <1>5
<1>9. Subscriber \in DOMAIN db /\ db[Subscriber] = [is |-> "here", tier |-> "normal"]
  BY <1>1, <1>5
<1>10. Columns(Subscriptions, {"is", "status", "paid"}) /\ Columns({Subscriber}, {"is", "tier"})
  BY <1>7, <1>9 DEF Columns
<1>11. Columns(KycDocuments \cup {Face(1)}, {"is", "status"})
  BY <1>8 DEF Columns
<1>12. /\ \A s \in Subscriptions : db[s].status = "pending_payment"
       /\ \A k \in KycDocuments \cup {Face(1)} : db[k].status = "pending" /\ ~Here(k)
       /\ db[Face(1)].is = "none" /\ db[Subscriber].tier = "normal" /\ says[Face(1)] = None
  BY <1>0, <1>6, <1>7, <1>8, <1>9 DEF Here
<1> HIDE DEF rows
<1> QED BY <1>4, <1>6, <1>10, <1>11, <1>12 DEF VipInv

LEMMA PlanStarts ==
  ASSUME PlansInit
  PROVE  PlanInv
<1> DEFINE row(k) ==
             CASE k = Account -> [is |-> "here", plan |-> None]
               [] k \in Plans -> [is |-> IF k = Plan(1) THEN "here" ELSE "none", status |-> "active"]
               [] k \in Purchases -> [is |-> "none", plan |-> None, status |-> "pending_payment"]
               [] OTHER -> [is |-> "none", status |-> "active", amount |-> 0]
<1>1. row(Account) = [is |-> "here", plan |-> None]
  BY PlanRows
<1>2. ASSUME NEW k \in Purchases PROVE row(k) = [is |-> "none", plan |-> None, status |-> "pending_payment"]
  <2>1. k # Account /\ k \notin Plans
    BY PlanRows
  <2> QED BY <2>1
<1>3. /\ topic = "plan" /\ db = [k \in {Account} \cup Plans \cup Purchases \cup Prices |-> row(k)]
      /\ outside = [says |-> [k \in Purchases |-> None], given |-> {None}]
      /\ \A t \in DOMAIN open : open[t] = {}
  BY DEF PlansInit, Start
<1> HIDE DEF row
<1>4. \A k \in {Account} \cup Purchases : k \in DOMAIN db /\ db[k] = row(k)
  BY <1>3
<1>5. Columns(Purchases, {"is", "plan", "status"}) /\ Columns({Account}, {"is", "plan"})
  BY <1>1, <1>2, <1>4 DEF Columns
<1>6. DOMAIN outside = {"says", "given"} /\ DOMAIN says = Purchases /\ None \in outside.given
  BY <1>3 DEF says
<1>7. db[Account].plan = None
  BY <1>1, <1>4
<1> QED BY <1>3, <1>5, <1>6, <1>7 DEF PlanInv

LEMMA AccountStarts ==
  ASSUME AccountInit
  PROVE  AccountInv
<1>1. PICK s \in {"pending_email", "pending_phone", "active", "manual_review"} :
        Start("account",
         [k \in Jobs \cup {Me} |->
           IF k = Me THEN [is |-> "here", state |-> s, code |-> s \in {"active", "manual_review"}, due |-> "never"]
           ELSE [is |-> "none", status |-> "pending"]],
         [says |-> [k \in Jobs |-> None], session |-> FALSE, elapsed |-> FALSE,
          forced |-> FALSE, moved |-> FALSE])
  BY DEF AccountInit
<1>2. /\ Me \in DOMAIN db
      /\ me = [is |-> "here", state |-> s, code |-> s \in {"active", "manual_review"}, due |-> "never"]
  BY <1>1 DEF Start, me
<1>3. /\ DOMAIN outside = {"says", "session", "elapsed", "forced", "moved"} /\ outside.session = FALSE
      /\ \A t \in DOMAIN open : open[t] = {}
  BY <1>1 DEF Start
<1>4. Columns({Me}, {"is", "state", "code", "due"}) /\ me.due = "never" /\ me.state = s
      /\ me.code = (s \in {"active", "manual_review"})
  BY <1>2 DEF Columns, me
<1>5. \A t \in DOMAIN open : EndsNotDue(open[t]) /\ ~Writes(open[t], Me, "is")
  BY <1>3, <1>4 DEF EndsNotDue, Writes
<1> QED BY <1>3, <1>4, <1>5 DEF AccountInv

LEMMA RecoveryStarts ==
  ASSUME RecoveryInit
  PROVE  RecoveryInv
<1> DEFINE row(k) == [is |-> "none", status |-> "initiated", email |-> FALSE, phone |-> FALSE, job |-> None]
<1>0. \A r \in Asks : r # Owner /\ r \notin Codes
  BY DEF Asks, Ask, Owner, Codes, Code
<1>1. /\ \A r \in Asks : r \in DOMAIN db /\ db[r] = row(r)
      /\ DOMAIN outside = {"started", "says", "told"} /\ \A t \in DOMAIN open : open[t] = {}
  BY <1>0 DEF RecoveryInit, Start
<1>2. \A r \in Asks : DOMAIN db[r] = {"is", "status", "email", "phone", "job"} /\ db[r].status = "initiated"
  BY <1>1
<1> QED BY <1>1, <1>2 DEF RecoveryInv, Columns, Announced

LEMMA LoginStarts ==
  ASSUME LoginInit
  PROVE  LoginInv
BY DEF LoginInit, Start, LoginInv, Columns, says

-----------------------------------------------------------------------------
(* A topic's part of the invariant says nothing of the other topics.       *)
LEMMA ElsewhereHolds ==
  /\ (topic # "office" => OfficeInv) /\ (topic # "room" => RoomInv) /\ (topic # "stage" => StageInv)
  /\ (topic # "vip" => VipInv) /\ (topic # "plan" => PlanInv) /\ (topic # "account" => AccountInv)
  /\ (topic # "login" => LoginInv) /\ (topic # "recovery" => RecoveryInv)
BY DEF OfficeInv, RoomInv, StageInv, VipInv, PlanInv, AccountInv, LoginInv, RecoveryInv

LEMMA ElsewhereStays ==
  /\ (topic' # "office" => OfficeInv') /\ (topic' # "room" => RoomInv') /\ (topic' # "stage" => StageInv')
  /\ (topic' # "vip" => VipInv') /\ (topic' # "plan" => PlanInv') /\ (topic' # "account" => AccountInv')
  /\ (topic' # "login" => LoginInv') /\ (topic' # "recovery" => RecoveryInv')
BY DEF OfficeInv, RoomInv, StageInv, VipInv, PlanInv, AccountInv, LoginInv, RecoveryInv

(* A behaviour begins with no request under way.                           *)
Begun(name) ==
  topic = name /\ DOMAIN open = Slot \cup Job /\ ~overlapped /\ \A t \in DOMAIN open : open[t] = {}

LEMMA BackendStarts ==
  ASSUME Init
  PROVE  BackendInv
<1>1. ASSUME NEW name, NEW rows, NEW world, Start(name, rows, world) PROVE Begun(name)
  BY <1>1 DEF Start, Begun
<1>2. ASSUME NEW name, Begun(name), name = "office" => OfficeInv, name = "room" => RoomInv,
             name = "stage" => StageInv, name = "vip" => VipInv, name = "plan" => PlanInv,
             name = "account" => AccountInv, name = "login" => LoginInv, name = "recovery" => RecoveryInv
      PROVE  BackendInv
  <2>1. topic = name /\ DOMAIN open = Slot \cup Job /\ OpenAlone
    BY <1>2 DEF Begun, OpenAlone
  <2> QED BY <2>1, <1>2, ElsewhereHolds DEF BackendInv
<1>3. CASE MeetingsInit
  <2>1. Begun("room")
    BY <1>1, <1>3 DEF MeetingsInit
  <2> QED BY <1>2, <1>3, <2>1, RoomStarts
<1>4. CASE StageInit
  <2>1. Begun("stage")
    BY <1>1, <1>4 DEF StageInit
  <2> QED BY <1>2, <1>4, <2>1, StageStarts
<1>5. CASE VipInit
  <2>1. Begun("vip")
    BY <1>1, <1>5, Zenon DEF VipInit
  <2> QED BY <1>2, <1>5, <2>1, VipStarts
<1>6. CASE PlansInit
  <2>1. Begun("plan")
    BY <1>1, <1>6, Zenon DEF PlansInit
  <2> QED BY <1>2, <1>6, <2>1, PlanStarts
<1>7. CASE AccountInit
  <2>1. Begun("account")
    BY <1>1, <1>7, Zenon DEF AccountInit
  <2> QED BY <1>2, <1>7, <2>1, AccountStarts
<1>8. CASE RecoveryInit
  <2>1. Begun("recovery")
    BY <1>1, <1>8, Zenon DEF RecoveryInit
  <2> QED BY <1>2, <1>8, <2>1, RecoveryStarts
<1>9. CASE LoginInit
  <2>1. Begun("login")
    BY <1>1, <1>9 DEF LoginInit
  <2> QED BY <1>2, <1>9, <2>1, LoginStarts
<1>10. CASE OfficeInit
  <2>1. Begun("office")
    BY <1>1, <1>10 DEF OfficeInit
  <2> QED BY <1>2, <1>10, <2>1, OfficeStarts
(* Topics that the invariant says nothing of.                              *)
<1>11. CASE RecordsInit \/ MinutesInit \/ AttendanceInit \/ FilesInit
  <2>1. Begun("records") \/ Begun("minutes") \/ Begun("attendance") \/ Begun("files")
    BY <1>1, <1>11, Zenon DEF RecordsInit, MinutesInit, AttendanceInit, FilesInit
  <2> QED BY <1>2, <2>1
<1>12. CASE SignupInit \/ KeysInit \/ ChatInit \/ ComplianceInit \/ LocationInit
  <2>1. Begun("signup") \/ Begun("keys") \/ Begun("chat") \/ Begun("compliance") \/ Begun("location")
    BY <1>1, <1>12, Zenon DEF SignupInit, KeysInit, ChatInit, ComplianceInit, LocationInit
  <2> QED BY <1>2, <2>1
<1> QED BY <1>3, <1>4, <1>5, <1>6, <1>7, <1>8, <1>9, <1>10, <1>11, <1>12 DEF Init

LEMMA NextIsTableStep ==
  ASSUME Next
  PROVE  TableStep \/ (topic = "files" /\ Cascade)
<1>1. FilesNext => topic = "files"
  BY DEF FilesNext
<1> QED BY <1>1, MeetingsTableStep, RecordsTableStep, StageTableStep, OtherMeetingSteps, BillingTableStep,
           AccountsTableStep, RecoveryTableStep, KeysTableStep, OfficeTableStep DEF Next

LEMMA TopicStays ==
  ASSUME TableStep \/ Cascade
  PROVE  topic' = topic
BY DEF TableStep, Cascade, tables, Call, Begin, Commit, Ends, RollBack

(* Which handlers run is settled by what the behaviour is about.           *)
LEMMA NextByTopic ==
  ASSUME Next
  PROVE  /\ topic = "room" => MeetingsNext
         /\ topic = "stage" => StageNext
         /\ topic = "vip" => VipNext
         /\ topic = "plan" => PlansNext
         /\ topic = "account" => AccountNext
         /\ topic = "recovery" => RecoveryNext
         /\ topic = "login" => LoginNext
         /\ topic = "office" => OfficeNext
         /\ topic = "records" => RecordsNext
         /\ topic = "minutes" => MinutesNext
         /\ topic = "attendance" => AttendanceNext
         /\ topic = "files" => FilesNext
         /\ topic = "signup" => SignupNext
         /\ topic = "keys" => KeysNext
         /\ topic = "chat" => ChatNext
         /\ topic = "compliance" => ComplianceNext
         /\ topic = "location" => LocationNext
BY DEF Next, MeetingsNext, RecordsNext, StageNext, MinutesNext, AttendanceNext, FilesNext,
   VipNext, PlansNext, SignupNext, AccountNext, RecoveryNext, LoginNext, KeysNext, ChatNext,
   OfficeNext, ComplianceNext, LocationNext

(* The invariant of Backend is inductive.                                  *)
LEMMA BackendSteps ==
  ASSUME BackendInv, [Next]_vars
  PROVE  BackendInv'
<1>1. CASE Next
  <2>0. /\ DOMAIN open = Slot \cup Job /\ OpenAlone
        /\ OfficeInv /\ RoomInv /\ StageInv /\ VipInv /\ PlanInv /\ AccountInv /\ LoginInv /\ RecoveryInv
    BY DEF BackendInv
  <2>1. (TableStep \/ Cascade) /\ topic' = topic
    BY <1>1, NextIsTableStep, TopicStays
  <2>2. DOMAIN open' = Slot \cup Job /\ OpenAlone'
    BY <2>0, <2>1, StepKeepsAlone
  <2>3. OfficeInv'
    BY <1>1, <2>0, <2>1, NextByTopic, OfficeStep, ElsewhereStays
  <2>4. RoomInv'
    BY <1>1, <2>0, <2>1, NextByTopic, RoomStep, ElsewhereStays
  <2>5. StageInv'
    BY <1>1, <2>0, <2>1, NextByTopic, StageStep, ElsewhereStays
  <2>6. VipInv'
    BY <1>1, <2>0, <2>1, NextByTopic, VipStep, ElsewhereStays
  <2>7. PlanInv'
    BY <1>1, <2>0, <2>1, NextByTopic, PlanStep, ElsewhereStays
  <2>8. AccountInv'
    BY <1>1, <2>0, <2>1, NextByTopic, AccountStep, ElsewhereStays
  <2>9. LoginInv'
    BY <1>1, <2>0, <2>1, NextByTopic, LoginStep, ElsewhereStays
  <2>10. RecoveryInv'
    BY <1>1, <2>0, <2>1, NextByTopic, RecoveryStep, ElsewhereStays
  <2> QED BY <2>2, <2>3, <2>4, <2>5, <2>6, <2>7, <2>8, <2>9, <2>10 DEF BackendInv
<1>2. CASE UNCHANGED vars
  <2>1. topic' = topic /\ db' = db /\ open' = open /\ overlapped' = overlapped /\ outside' = outside
    BY <1>2 DEF vars, tables
  <2>2. DOMAIN open' = Slot \cup Job /\ OpenAlone'
    BY <2>1 DEF BackendInv, OpenAlone
  <2>3. OfficeInv'
    BY <2>1 DEF BackendInv, OfficeInv, Columns, InCharge, Here, Writes, Opened
  <2>4. RoomInv'
    BY <2>1 DEF BackendInv, RoomInv, Columns, Here, Holds, Waits, page, meeting
  <2>5. StageInv'
    BY <2>1 DEF BackendInv, StageInv, Columns, OnStageAfter, Writes, connected
  <2>6. VipInv'
    BY <2>1 DEF BackendInv, VipInv, Columns, Here, Writes, Decided, Paid, says
  <2>7. PlanInv'
    BY <2>1 DEF BackendInv, PlanInv, Columns, Here, Writes, Decided, Bought, says
  <2>8. AccountInv'
    BY <2>1 DEF BackendInv, AccountInv, Columns, Writes, EndsOut, EndsNotDue, me
  <2>9. LoginInv'
    BY <2>1 DEF BackendInv, LoginInv, Columns, Decided, says
  <2>10. RecoveryInv'
    BY <2>1 DEF BackendInv, RecoveryInv, Columns
  <2> QED BY <2>2, <2>3, <2>4, <2>5, <2>6, <2>7, <2>8, <2>9, <2>10 DEF BackendInv
<1> QED BY <1>1, <1>2

-----------------------------------------------------------------------------
(* What the parts of the invariant say once they are put together.         *)
LEMMA InvariantGivesEarned ==
  ASSUME BackendInv
  PROVE  NothingUnearned
<1> USE DEF BackendInv
<1>1. WaitingHasNoToken
  BY DEF WaitingHasNoToken, RoomInv, Participant, In, Holds
<1>2. AudienceIsSilent
  <2>1. ASSUME topic = "stage", ~outside.raced, Quiet, NEW p \in connected \cap outside.publishes
        PROVE  db[p].stage = "on_stage" \/ p \in outside.unmuted
    BY <2>1 DEF StageInv, OnStageAfter, Quiet, Writes
  <2> QED BY <2>1 DEF AudienceIsSilent
<1>3. VipIsPaidAndVerified
  BY DEF VipIsPaidAndVerified, VipInv, Paid
<1>4. NoUnpaidPlan
  BY DEF NoUnpaidPlan, PlanInv, Bought
<1>5. ActiveHasCode
  BY DEF ActiveHasCode, AccountInv, State
<1>6. LoginNeedsFace
  BY DEF LoginNeedsFace, LoginInv, Decided
<1>7. RecoveryIsAnnounced
  BY DEF RecoveryIsAnnounced, RecoveryInv, Announced
<1>8. MfaBeforeUse
  <2>1. ASSUME topic = "office", Quiet, ~outside.undone, NEW a \in outside.token PROVE db[a].enrolled
    <3>1. a \in Row
      BY <2>1 DEF OfficeInv
    <3> QED BY <2>1, <3>1 DEF OfficeInv, Quiet, Writes
  <2> QED BY <2>1 DEF MfaBeforeUse
<1> QED BY <1>1, <1>2, <1>3, <1>4, <1>5, <1>6, <1>7, <1>8 DEF NothingUnearned

(* What is removed from an account, or from a meeting, is removed when a   *)
(* transaction commits.                                                    *)
LEMMA OnlyCommitsWrite ==
  ASSUME TableStep, db' # db
  PROVE  \E t \in Slot \cup Job : Commit(t)
BY DEF TableStep, tables, Call, Begin, RollBack

LEMMA MeetingStaysOver ==
  ASSUME BackendInv, TableStep, topic = "room", ~overlapped
  PROVE  /\ meeting.status = "ended" => meeting'.status = "ended"
         /\ \A p \in Participant :
              In(p) /\ db[p].admission = "removed" /\ db'[p].admission # "removed" =>
                \E s \in Slot : Writes(open[s], p, "admission")
<1>0. DOMAIN open = Slot \cup Job /\ RoomInv /\ topic = "room"
  BY DEF BackendInv
<1>1. CASE db' = db
  BY <1>1 DEF meeting
<1>2. ASSUME NEW t \in Slot \cup Job, Commit(t)
      PROVE  /\ meeting.status = "ended" => meeting'.status = "ended"
             /\ \A p \in Participant :
                  In(p) /\ db[p].admission = "removed" /\ db'[p].admission # "removed" =>
                    \E s \in Slot : Writes(open[s], p, "admission")
  <2>1. db' = Written(open[t]) /\ t \in DOMAIN open
    BY <1>0, <1>2, CommitCloses
  <2>2. Meeting \in DOMAIN db /\ "status" \in DOMAIN db[Meeting]
    BY <1>0 DEF RoomInv, Columns
  <2>3. ASSUME meeting.status = "ended" PROVE meeting'.status = "ended"
    <3>1. \A c \in open[t] : c[1] = Meeting /\ c[2] = "status" => c[3] = "ended"
      BY <1>0, <2>1, <2>3 DEF RoomInv
    <3> QED BY <2>1, <2>2, <2>3, <3>1, CommitColumn DEF meeting
  <2>4. ASSUME NEW p \in Row, db[p].admission = "removed", db'[p].admission # "removed"
        PROVE  \E s \in Slot : Writes(open[s], p, "admission")
    <3>1. p \in DOMAIN db /\ "admission" \in DOMAIN db[p]
      BY <1>0 DEF RoomInv, Columns
    <3>2. Writes(open[t], p, "admission")
      BY <2>1, <2>4, <3>1, WrittenKeeps
    <3>3. PICK c \in open[t] : c[1] = p /\ c[2] = "admission"
      BY <3>2 DEF Writes
    <3>4. t \notin Job
      BY <1>0, <2>1, <2>4, <3>3 DEF RoomInv
    <3> QED BY <3>2, <3>4
  <2> QED BY <2>3, <2>4 DEF Participant
<1> QED BY <1>1, <1>2, OnlyCommitsWrite

LEMMA AccountStaysUnlessOut ==
  ASSUME BackendInv, TableStep, topic = "account", Here(Me), ~Here(Me)', ~overlapped, ~outside.moved
  PROVE  State({"deactivated", "banned"})
<1>1. db' # db
  BY DEF Here
<1>2. PICK t \in Slot \cup Job : Commit(t)
  BY <1>1, OnlyCommitsWrite
<1> QED BY <1>2, DeletionStep DEF BackendInv

-----------------------------------------------------------------------------
(* The inductive invariant holds in every state of every behaviour: what   *)
(* the open transactions of a topic will write is justified by the tables  *)
(* and by what happened outside.                                           *)
THEOREM BackendInvariantHolds == Spec => []BackendInv
<1>1. Init => BackendInv
  BY BackendStarts
<1>2. BackendInv /\ [Next]_vars => BackendInv'
  BY BackendSteps
<1> QED BY <1>1, <1>2, PTL DEF Spec

(* NothingUnearned (Backend.tla), each of its eight statements within the  *)
(* limits it names. However requests overlap: no token for who waits, no   *)
(* VIP tier and no plan that was not paid and verified, no session without *)
(* a face, no recovery the next of kin were not told of, and no account in *)
(* use without a code but by the choice of staff. As long as no request to *)
(* the SFU crossed another one, no invitation failed and nobody came back  *)
(* with an older token: no sound from the audience. As long as no login    *)
(* was rolled back: no use of the office without a second factor.          *)
THEOREM NothingIsUnearned == Spec => []NothingUnearned
<1>1. BackendInv => NothingUnearned
  BY InvariantGivesEarned
<1> QED BY <1>1, BackendInvariantHolds, PTL

(* As long as requests do not overlap and nobody acts with the token of an *)
(* administrator who was deactivated, the office has an active             *)
(* super_admin (admin/service.py).                                         *)
THEOREM OfficeIsManned == Spec => []SomeoneInCharge
<1>1. BackendInv => SomeoneInCharge
  BY DEF BackendInv, OfficeInv, InCharge, SomeoneInCharge, Table
<1> QED BY <1>1, BackendInvariantHolds, PTL

(* As long as no two transactions were open at once, an ended meeting is   *)
(* not live again, and the job lets in nobody who was removed.             *)
THEOREM WhatIsOverStaysOver == Spec => OverIsOver
<1>1. BackendInv /\ [Next]_vars =>
        [topic = "room" /\ ~overlapped =>
           /\ meeting.status = "ended" => meeting'.status = "ended"
           /\ \A p \in Participant :
                In(p) /\ db[p].admission = "removed" /\ db'[p].admission # "removed" =>
                  \E s \in Slot : Writes(open[s], p, "admission")]_vars
  BY MeetingStaysOver, NextIsTableStep
<1> QED BY <1>1, BackendInvariantHolds, PTL DEF Spec, OverIsOver

(* As long as no two transactions were open at once and nobody else moved  *)
(* the account, only one that is deactivated or banned is deleted.         *)
THEOREM DeletionIsDeserved == Spec => NoActiveDeleted
<1>1. BackendInv /\ [Next]_vars =>
        [topic = "account" /\ Here(Me) /\ ~Here(Me)' /\ ~overlapped /\ ~outside.moved
           => State({"deactivated", "banned"})]_vars
  BY AccountStaysUnlessOut, NextIsTableStep
<1> QED BY <1>1, BackendInvariantHolds, PTL DEF Spec, NoActiveDeleted

-----------------------------------------------------------------------------
(* A set of records that has every function whose values some of its       *)
(* members have.                                                           *)
Product(type) ==
  \A r \in type : \A f :
    /\ f = [x \in DOMAIN r |-> f[x]]
    /\ \A x \in DOMAIN r : \E s \in type : s[x] = f[x]
    => f \in type

FittingStep(schema) ==
  \/ \E t \in Slot \cup Job :
       (\E w : (Begin(t, w) \/ Ends(t, w)) /\ Fit(schema, w)) \/ Commit(t) \/ RollBack(t)
  \/ UNCHANGED tables

LEMMA FitsInProduct ==
  ASSUME NEW type, Product(type), NEW r \in type, NEW column \in DOMAIN r, NEW value,
         NEW s \in type, s[column] = value, r = [x \in DOMAIN r |-> r[x]]
  PROVE  [r EXCEPT ![column] = value] \in type
<1> DEFINE f == [r EXCEPT ![column] = value]
<1>1. f = [x \in DOMAIN r |-> f[x]]
  OBVIOUS
<1>2. \A x \in DOMAIN r : \E q \in type : q[x] = f[x]
  OBVIOUS
<1> QED BY <1>1, <1>2 DEF Product

LEMMA WrittenFits ==
  ASSUME NEW type, Product(type), NEW w, NEW row \in DOMAIN db, db[row] \in type,
         \A c \in w : c[1] = row => /\ c[2] \in DOMAIN db[row]
                                    /\ [db[row] EXCEPT ![c[2]] = c[3]] \in type
  PROVE  Written(w)[row] \in type
<1> DEFINE r == db[row]
           f == Written(w)[row]
<1>1. f = [x \in DOMAIN r |-> f[x]]
  BY WrittenShape
<1>2. ASSUME NEW x \in DOMAIN r PROVE \E s \in type : s[x] = f[x]
  <2>1. CASE ~Writes(w, row, x)
    BY <2>1, WrittenKeeps
  <2>2. CASE Writes(w, row, x)
    <3>1. PICK c \in w : c[1] = row /\ c[2] = x /\ f[x] = c[3]
      BY <2>2, WrittenTakes
    <3>2. [r EXCEPT ![x] = c[3]] \in type
      BY <3>1
    <3> QED BY <3>1, <3>2
  <2> QED BY <2>1, <2>2
<1> QED BY <1>1, <1>2 DEF Product

LEMMA TypedStays ==
  ASSUME NEW schema, \A row \in DOMAIN schema : Product(schema[row]),
         DOMAIN open = Slot \cup Job, Typed(schema), FittingStep(schema)
  PROVE  Typed(schema)'
<1>1. CASE UNCHANGED tables
  BY <1>1 DEF tables, Typed, Fit, FitsAt
<1>2. ASSUME NEW t \in Slot \cup Job, NEW w, Begin(t, w), Fit(schema, w)
      PROVE  Typed(schema)'
  <2>1. Opens(t, w)
    BY <1>2, BeginOpens
  <2> QED BY <1>2, <2>1 DEF Opens, Typed, Fit, FitsAt
<1>3. ASSUME NEW t \in Slot \cup Job, RollBack(t)
      PROVE  Typed(schema)'
  <2>1. Closes(t) /\ db' = db
    BY <1>3, RollBackCloses
  <2> QED BY <2>1 DEF Closes, Typed, Fit, FitsAt
<1>4. ASSUME NEW t \in Slot \cup Job, NEW w, Closes(t), db' = Written(w), Fit(schema, w)
      PROVE  Typed(schema)'
  <2>1. Closes(t) /\ db' = Written(w)
    BY <1>4
  <2>2. DOMAIN db' = DOMAIN schema
    BY <2>1, WrittenShape DEF Typed
  <2>3. ASSUME NEW row \in DOMAIN db
        PROVE  /\ db'[row] \in schema[row]
               /\ DOMAIN db'[row] = DOMAIN db[row]
               /\ db'[row] = [x \in DOMAIN db'[row] |-> db'[row][x]]
    <3>1. DOMAIN db'[row] = DOMAIN db[row] /\ db'[row] = [x \in DOMAIN db'[row] |-> db'[row][x]]
      BY <2>1, WrittenShape
    <3>2. Product(schema[row])
      BY DEF Typed
    <3>3. db[row] \in schema[row]
      BY DEF Typed
    <3>4. \A c \in w : c[1] = row => /\ c[2] \in DOMAIN db[row]
                                     /\ [db[row] EXCEPT ![c[2]] = c[3]] \in schema[row]
      BY <1>4 DEF Typed, Fit, FitsAt
    <3>5. Written(w)[row] \in schema[row]
      BY <3>2, <3>3, <3>4, WrittenFits
    <3> QED BY <2>1, <3>1, <3>5
  <2>4. ASSUME NEW s \in DOMAIN open', NEW c \in open'[s]
        PROVE  FitsAt(schema, c[1], c[2], c[3])'
    <3>1. s \in DOMAIN open /\ c \in open[s]
      BY <2>1 DEF Closes
    <3>2. FitsAt(schema, c[1], c[2], c[3])
      BY <3>1 DEF Typed, Fit
    <3> DEFINE row == c[1]
               q == [db[row] EXCEPT ![c[2]] = c[3]]
    <3>3. row \in DOMAIN schema /\ row \in DOMAIN db /\ c[2] \in DOMAIN db[row] /\ q \in schema[row]
      BY <3>2 DEF FitsAt, Typed
    <3>4. q[c[2]] = c[3]
      BY <3>3
    <3>5. Product(schema[row])
      BY <3>3
    <3>6. [db'[row] EXCEPT ![c[2]] = c[3]] \in schema[row]
      <4> HIDE DEF q, row
      <4> QED BY <2>3, <3>3, <3>4, <3>5, FitsInProduct
    <3> QED BY <2>3, <3>3, <3>6 DEF FitsAt
  <2> QED BY <2>2, <2>3, <2>4 DEF Typed, Fit
<1>5. ASSUME NEW t \in Slot \cup Job, Commit(t)
      PROVE  Typed(schema)'
  <2>1. Fit(schema, open[t])
    BY DEF Typed
  <2> QED BY <1>4, <1>5, <2>1, CommitCloses
<1>6. ASSUME NEW t \in Slot \cup Job, NEW w, Ends(t, w), Fit(schema, w)
      PROVE  Typed(schema)'
  <2>1. Closes(t) /\ db' = Written(w)
    BY <1>6 DEF Ends, Closes
  <2> QED BY <1>4, <1>6, <2>1
<1> QED BY <1>1, <1>2, <1>3, <1>5, <1>6 DEF FittingStep

-----------------------------------------------------------------------------
LEMMA ChangeFits ==
  ASSUME NEW schema
  PROVE  \A row, column, value :
           FitsAt(schema, row, column, value) => Fit(schema, Change(row, column, value))
BY ChangeShape DEF Fit

LEMMA UnionFits ==
  ASSUME NEW schema
  PROVE  /\ Fit(schema, {})
         /\ \A v, w : Fit(schema, v) /\ Fit(schema, w) => Fit(schema, v \cup w)
BY DEF Fit

LEMMA UpdateFits ==
  ASSUME NEW schema, NEW row, NEW columns,
         \A column \in DOMAIN columns : FitsAt(schema, row, column, columns[column])
  PROVE  Fit(schema, Update(row, columns))
BY UpdateShape DEF Fit

LEMMA InsertFits ==
  ASSUME NEW schema, NEW row, NEW columns,
         FitsAt(schema, row, "is", "here"),
         \A column \in DOMAIN columns : FitsAt(schema, row, column, columns[column])
  PROVE  Fit(schema, Insert(row, columns))
<1> QED BY InsertShape, UpdateFits DEF Fit

LEMMA CallFits ==
  ASSUME NEW schema, NEW w, Fit(schema, w), Call(w)
  PROVE  FittingStep(schema)
BY Zenon DEF Call, FittingStep, FreeSlot

LEMMA RequestFits ==
  ASSUME NEW schema, NEW w, Fit(schema, w), Request(w)
  PROVE  FittingStep(schema)
BY CallFits DEF Request

LEMMA OutsideFits ==
  ASSUME NEW schema, NEW world, Outside(world)
  PROVE  FittingStep(schema)
BY DEF Outside, FittingStep

LEMMA DeleteFits ==
  ASSUME NEW schema, NEW row, FitsAt(schema, row, "is", "gone")
  PROVE  Fit(schema, Delete(row))
BY ChangeFits DEF Delete

(* The room.                                                               *)
LEMMA RoomProducts == \A row \in DOMAIN RoomSchema : Product(RoomSchema[row])
<1>1. Product(MeetingRow)
  BY DEF Product, MeetingRow
<1>2. Product(ParticipantRow)
  BY DEF Product, ParticipantRow
<1> QED BY <1>1, <1>2 DEF RoomSchema

LEMMA RoomRows ==
  ASSUME RoomTyped, topic = "room"
  PROVE  /\ \A p \in Row : p \in DOMAIN RoomSchema /\ RoomSchema[p] = ParticipantRow /\ db[p] \in ParticipantRow
         /\ Meeting \in DOMAIN RoomSchema /\ RoomSchema[Meeting] = MeetingRow /\ db[Meeting] \in MeetingRow
BY MeetingsAssumption DEF RoomTyped, Typed, RoomSchema

LEMMA ParticipantFits ==
  ASSUME RoomTyped, topic = "room", NEW p \in Row
  PROVE
              /\ \A v \in Is : FitsAt(RoomSchema, p, "is", v)
              /\ \A v \in User \cup {Host, Guest} : FitsAt(RoomSchema, p, "user", v)
              /\ \A v \in {"host", "co_host", "participant"} : FitsAt(RoomSchema, p, "role", v)
              /\ \A v \in {"waiting", "admitted", "removed"} : FitsAt(RoomSchema, p, "admission", v)
              /\ \A v \in BOOLEAN : FitsAt(RoomSchema, p, "joined", v) /\ FitsAt(RoomSchema, p, "left", v)
<1>1. p \in DOMAIN RoomSchema /\ RoomSchema[p] = ParticipantRow /\ db[p] \in ParticipantRow
  BY RoomRows
<1> QED BY <1>1 DEF FitsAt, ParticipantRow

LEMMA MeetingFits ==
  ASSUME RoomTyped, topic = "room"
  PROVE  /\ FitsAt(RoomSchema, Meeting, "is", "gone")
         /\ \A v \in {"live", "ended"} : FitsAt(RoomSchema, Meeting, "status", v)
         /\ \A v \in BOOLEAN : FitsAt(RoomSchema, Meeting, "locked", v)
                               /\ FitsAt(RoomSchema, Meeting, "waiting_room", v)
BY RoomRows DEF FitsAt, MeetingRow, Is

LEMMA RoomWorldStays ==
  ASSUME RoomTyped, topic = "room", MeetingsNext
  PROVE  outside' \in [clock : {"early", "prep", "due"}, leaves : SUBSET Row,
                       page : [Row -> {"form", "waiting", "token", "room"}]]
<1> DEFINE Pages4 == {"form", "waiting", "token", "room"}
           World == [clock : {"early", "prep", "due"}, leaves : SUBSET Row, page : [Row -> Pages4]]
<1>0. outside \in World
  BY DEF RoomTyped
<1>1. \A p \in Row, what \in Pages4 : Shows(p, what) \in World
  BY <1>0 DEF Shows
<1> USE <1>0, <1>1 
<1> HIDE DEF World
<1>2. Entrances => outside' \in World
  <2>1. ASSUME NEW p \in Row, NEW u, Enter(p, u) \/ JoinAgain(u, p) PROVE outside' \in World
    <3>1. \/ Show(p, "waiting") \/ Show(p, "token")
      BY <2>1 DEF Enter, JoinAgain
    <3> QED BY <3>1 DEF Show
  <2> QED BY <2>1 DEF Entrances, HostPinJoin, Join, GuestJoin, GetParticipantStatus, Outside, Participant
<1>3. ASSUME NEW ps \in SUBSET Participant, ThrowOut(ps) PROVE outside' \in World
  <2> DEFINE out == {p \in ps : page[p] = "room"}
             pages == [p \in Participant |-> IF p \in out THEN "form" ELSE page[p]]
  <2>1. outside' = [outside EXCEPT !.page = pages, !.leaves = @ \cup out]
    BY <1>3 DEF ThrowOut, page
  <2>2. pages \in [Row -> Pages4] /\ out \subseteq Row
    BY DEF Participant, page, World
  <2> HIDE DEF pages, out
  <2> QED BY <2>1, <2>2 DEF World
<1>4. ASSUME NEW p \in Participant, Leave(p) PROVE outside' \in World
  BY <1>4 DEF Leave, World, tables
<1>5. Exits => outside' \in World
  BY <1>3, <1>4 DEF Exits, End, DeleteMeeting, InviteCoHost, Request
<1>6. Moderation => outside' \in World
  BY <1>3 DEF Moderation, Admit, Remove, Promote, SetLocked, SetWaitingRoom, Request
<1>7. ASSUME NEW p \in Participant, NEW told \in BOOLEAN, Connect(p) \/ Disconnect(p, told)
      PROVE  outside' \in World
  <2>1. CASE Connect(p)
    BY <2>1 DEF Connect, Outside, Participant
  <2>2. CASE Disconnect(p, told)
    BY <2>2 DEF Disconnect, Outside, World, Participant
  <2> QED BY <1>7, <2>1, <2>2
<1>8. Pages => outside' \in World
  BY <1>7 DEF Pages
<1>9. Tick => outside' \in World
  BY DEF Tick, Outside, World
<1>10. ASSUME NEW t \in Slot \cup Job, AutoPromote(t) \/ CommitMeeting(t) \/ FailMeeting(t)
       PROVE  outside' \in World
  BY <1>10 DEF AutoPromote, CommitMeeting, Commit, FailMeeting
<1>11. outside' \in World
  BY <1>2, <1>5, <1>6, <1>8, <1>9, <1>10 DEF MeetingsNext
<1> QED BY <1>11 DEF World

LEMMA RoomTypesStay ==
  ASSUME RoomTyped, topic = "room", DOMAIN open = Slot \cup Job, MeetingsNext
  PROVE  RoomTyped'
<1> DEFINE S == RoomSchema
<1> USE ChangeFits, UnionFits, ParticipantFits, MeetingFits
<1>1. ASSUME NEW p \in Row, NEW u \in User \cup {Host, Guest},
             NEW role \in {"host", "co_host", "participant"}, NEW admission \in {"waiting", "admitted"}
      PROVE  Fit(S, Arrival(p, u, role, admission)) /\ Fit(S, Present(p))
  <2> DEFINE columns == [user |-> u, role |-> role, admission |-> admission]
  <2>1. \A column \in DOMAIN columns : FitsAt(S, p, column, columns[column])
    OBVIOUS
  <2>2. FitsAt(S, p, "is", "here")
    BY DEF Is
  <2>3. Fit(S, Insert(p, columns))
    BY <2>1, <2>2, InsertFits
  <2> QED BY <2>3 DEF Arrival, Present
<1>2. Fit(S, MarkLive)
  BY DEF MarkLive
<1>3. ASSUME NEW p \in Row, NEW u \in User \cup {Host, Guest}, Enter(p, u) \/ JoinAgain(u, p)
      PROVE  FittingStep(S)
  BY <1>1, <1>2, <1>3, CallFits DEF Enter, JoinAgain
<1>4. Entrances => FittingStep(S)
  BY <1>3, OutsideFits DEF Entrances, HostPinJoin, Join, GuestJoin, GetParticipantStatus, Participant
<1>5. Exits => FittingStep(S)
  <2>1. ASSUME NEW p \in Row, NEW u, Leave(p) \/ (u \in User /\ InviteCoHost(u, p))
        PROVE  FittingStep(S)
    BY <1>1, <2>1, CallFits, RequestFits DEF Leave, InviteCoHost, FittingStep
  <2>2. End \/ DeleteMeeting => FittingStep(S)
    BY CallFits, RequestFits, DeleteFits DEF End, DeleteMeeting
  <2> QED BY <2>1, <2>2 DEF Exits, Participant
<1>6. Moderation => FittingStep(S)
  BY CallFits, RequestFits DEF Moderation, Admit, Remove, Promote, SetLocked, SetWaitingRoom, Participant
<1>7. Pages \/ Tick => FittingStep(S)
  BY OutsideFits DEF Pages, Connect, Disconnect, Tick
<1>8. Fit(S, LetEveryoneIn)
  BY <1>2 DEF LetEveryoneIn, Fit, Participant
<1>9. ASSUME NEW t \in Slot \cup Job, AutoPromote(t) \/ CommitMeeting(t) \/ FailMeeting(t)
      PROVE  FittingStep(S)
  BY <1>8, <1>9 DEF AutoPromote, CommitMeeting, FailMeeting, FittingStep
<1>10. FittingStep(S)
  BY <1>4, <1>5, <1>6, <1>7, <1>9 DEF MeetingsNext
<1>11. Typed(S)'
  BY <1>10, RoomProducts, TypedStays DEF RoomTyped
<1> QED BY <1>11, RoomWorldStays DEF RoomTyped

LEMMA UpsertFits ==
  ASSUME NEW schema, NEW found, NEW row, NEW key, NEW columns,
         Fit(schema, Update(row, columns)), Fit(schema, Insert(row, key)),
         Upsert(found, row, key, columns)
  PROVE  FittingStep(schema)
BY RequestFits, UnionFits DEF Upsert

LEMMA EndFits ==
  ASSUME NEW schema, NEW t \in Slot \cup Job, Commit(t) \/ RollBack(t)
  PROVE  FittingStep(schema)
BY DEF FittingStep

(* Records of a meeting.                                                   *)
LEMMA RecordProducts == \A row \in DOMAIN RecordSchema : Product(RecordSchema[row])
<1>1. Product(RecordRow)
  BY DEF Product, RecordRow
<1>2. Product(OpenRow)
  BY DEF Product, OpenRow
<1> QED BY <1>1, <1>2 DEF RecordSchema

LEMMA RecordRows ==
  ASSUME RecordsTyped, topic = "records"
  PROVE  /\ \A r \in Row : r \in DOMAIN RecordSchema /\ RecordSchema[r] = RecordRow /\ db[r] \in RecordRow
         /\ \A k \in {Poll, Breakout} : k \in DOMAIN RecordSchema /\ RecordSchema[k] = OpenRow /\ db[k] \in OpenRow
BY ToolsAssumption DEF RecordsTyped, Typed, RecordSchema

LEMMA RecordFits ==
  ASSUME RecordsTyped, topic = "records", NEW r \in Row
  PROVE  /\ FitsAt(RecordSchema, r, "is", "here")
         /\ \A v \in Kinds : FitsAt(RecordSchema, r, "kind", v)
         /\ \A v \in User : FitsAt(RecordSchema, r, "who", v)
         /\ \A v \in Nat : FitsAt(RecordSchema, r, "value", v)
         /\ \A v \in {"open", "answered", "dismissed"} : FitsAt(RecordSchema, r, "status", v)
         /\ db[r].value \in Nat
<1>1. r \in DOMAIN RecordSchema /\ RecordSchema[r] = RecordRow /\ db[r] \in RecordRow
  BY RecordRows
<1> QED BY <1>1 DEF FitsAt, RecordRow, Is

LEMMA OpenFits ==
  ASSUME RecordsTyped, topic = "records", NEW k \in {Poll, Breakout}
  PROVE  /\ FitsAt(RecordSchema, k, "is", "here")
         /\ \A v \in BOOLEAN : FitsAt(RecordSchema, k, "closed", v)
<1>1. k \in DOMAIN RecordSchema /\ RecordSchema[k] = OpenRow /\ db[k] \in OpenRow
  BY RecordRows
<1> QED BY <1>1 DEF FitsAt, OpenRow, Is

LEMMA RecordTypesStay ==
  ASSUME RecordsTyped, topic = "records", DOMAIN open = Slot \cup Job, RecordsNext
  PROVE  RecordsTyped'
<1> DEFINE S == RecordSchema
<1> USE ChangeFits, UnionFits, RecordFits
<1>1. ASSUME NEW r \in Row, NEW u \in User, NEW kind \in Kinds
      PROVE  Fit(S, Insert(r, Owned(kind, u)))
  <2> DEFINE columns == [kind |-> kind, who |-> u]
  <2>1. \A column \in DOMAIN columns : FitsAt(S, r, column, columns[column])
    OBVIOUS
  <2>2. Fit(S, Insert(r, columns))
    BY <2>1, InsertFits
  <2> QED BY <2>2 DEF Owned
<1>2. ASSUME NEW r \in Row, NEW n \in Nat
      PROVE  Fit(S, Update(r, [value |-> n]))
  <2> DEFINE columns == [value |-> n]
  <2>1. \A column \in DOMAIN columns : FitsAt(S, r, column, columns[column])
    OBVIOUS
  <2> QED BY <2>1, UpdateFits
<1>3. ASSUME NEW k \in {Poll, Breakout}
      PROVE  Fit(S, Insert(k, [closed |-> FALSE])) /\ Fit(S, Change(k, "closed", TRUE))
  <2> DEFINE columns == [closed |-> FALSE]
  <2>0. DOMAIN columns = {"closed"} /\ columns["closed"] \in BOOLEAN
    OBVIOUS
  <2>1. \A column \in DOMAIN columns : FitsAt(S, k, column, columns[column])
    <3> HIDE DEF columns
    <3> QED BY <2>0, OpenFits
  <2>2. Fit(S, Insert(k, columns))
    BY <2>1, OpenFits, InsertFits
  <2>3. FitsAt(S, k, "closed", TRUE)
    BY OpenFits
  <2> QED BY <2>2, <2>3
<1>4. ASSUME NEW r \in Row, NEW u \in User, NEW kind \in Kinds, NEW n \in Nat,
             Upsert(Of(kind, u), r, Owned(kind, u), [value |-> n])
      PROVE  FittingStep(S)
  <2>1. Fit(S, Update(r, [value |-> n])) /\ Fit(S, Insert(r, Owned(kind, u)))
    BY <1>1, <1>2
  <2> QED BY ONLY <1>4, <2>1, UpsertFits
<1>5. PollsAndQuestions => FittingStep(S)
  <2>1. CreatePoll \/ ClosePoll => FittingStep(S)
    BY <1>3, RequestFits DEF CreatePoll, ClosePoll
  <2>2. ASSUME NEW u \in User, NEW r \in Row, NEW o \in 1..2, VotePoll(u, o, r)
        PROVE  FittingStep(S)
    BY <1>4, <2>2 DEF VotePoll, Kinds
  <2>3. ASSUME NEW u \in User, NEW r \in Row, AskQuestion(u, r)
        PROVE  FittingStep(S)
    BY <1>1, <2>3, RequestFits DEF AskQuestion, Kinds
  <2>4. ASSUME NEW r \in Row, UpvoteQuestion(r) \/ AnswerQuestion(r) \/ DismissQuestion(r)
        PROVE  FittingStep(S)
    <3>1. db[r].value + 1 \in Nat
      OBVIOUS
    <3>2. Fit(S, Change(r, "value", db[r].value + 1))
      BY <3>1
    <3> QED BY <2>4, <3>2, CallFits, RequestFits DEF UpvoteQuestion, AnswerQuestion, DismissQuestion
  <2> QED BY <2>1, <2>2, <2>3, <2>4 DEF PollsAndQuestions
<1>6. Breakouts => FittingStep(S)
  <2>1. CreateBreakoutRooms \/ CloseBreakoutRooms => FittingStep(S)
    BY <1>3, RequestFits DEF CreateBreakoutRooms, CloseBreakoutRooms
  <2>2. ASSUME NEW u \in User, NEW r \in Row, AssignToBreakoutRoom(u, r)
        PROVE  FittingStep(S)
    BY <1>1, <2>2, RequestFits DEF AssignToBreakoutRoom, Kinds
  <2>3. ASSUME NEW u \in User, JoinBreakoutRoom(u)
        PROVE  FittingStep(S)
    BY <2>3, OutsideFits DEF JoinBreakoutRoom
  <2> QED BY <2>1, <2>2, <2>3 DEF Breakouts
<1>7. Speech \/ Registrations => FittingStep(S)
  <2>1. ASSUME NEW u \in User, NEW r \in Row, SendMessage(u, r)
        PROVE  FittingStep(S)
    BY <1>1, <2>1, RequestFits DEF SendMessage, Kinds
  <2>2. ASSUME NEW u \in User, NEW r \in Row, NEW n \in 1..2,
               SetParticipantLanguage(u, n, r) \/ RegisterForMeeting(u, n, r)
        PROVE  FittingStep(S)
    BY <1>4, <2>2 DEF SetParticipantLanguage, RegisterForMeeting, Kinds, Unique
  <2> QED BY <2>1, <2>2 DEF Speech, Registrations
<1>8. ASSUME NEW t \in Slot, CommitRecords(t) \/ FailRecords(t)
      PROVE  FittingStep(S)
  BY <1>8, EndFits DEF CommitRecords, FailRecords
<1>9. Typed(S)'
  <2>1. FittingStep(S)
    BY <1>5, <1>6, <1>7, <1>8 DEF RecordsNext
  <2> QED BY <2>1, RecordProducts, TypedStays DEF RecordsTyped
<1>10. outside' \in [upvotes : [Row -> Nat], inBreakout : SUBSET User]
  <2> DEFINE World == [upvotes : [Row -> Nat], inBreakout : SUBSET User]
  <2>0. outside \in World
    BY DEF RecordsTyped
  <2>1. ASSUME NEW r \in Row, UpvoteQuestion(r) PROVE outside' \in World
    BY <2>0, <2>1 DEF UpvoteQuestion
  <2>2. ASSUME NEW u \in User, JoinBreakoutRoom(u) PROVE outside' \in World
    BY <2>0, <2>2 DEF JoinBreakoutRoom, Outside
  <2> HIDE DEF World
  <2>3. PollsAndQuestions => outside' \in World
    BY <2>0, <2>1 DEF PollsAndQuestions, CreatePoll, ClosePoll, VotePoll, AskQuestion,
       AnswerQuestion, DismissQuestion, Request, Upsert
  <2>4. Breakouts => outside' \in World
    BY <2>0, <2>2 DEF Breakouts, CreateBreakoutRooms, CloseBreakoutRooms, AssignToBreakoutRoom, Request
  <2>5. Speech \/ Registrations => outside' \in World
    BY <2>0 DEF Speech, Registrations, SendMessage, SetParticipantLanguage, RegisterForMeeting, Request, Upsert
  <2>6. ASSUME NEW t \in Slot, CommitRecords(t) \/ FailRecords(t) PROVE outside' \in World
    BY <2>0, <2>6 DEF CommitRecords, FailRecords, Commit
  <2>7. outside' \in World
    BY <2>3, <2>4, <2>5, <2>6 DEF RecordsNext
  <2> QED BY <2>7 DEF World
<1> QED BY <1>9, <1>10 DEF RecordsTyped

(* The stage, the minutes and the attendance.                              *)
LEMMA StageFits ==
  ASSUME StageTyped, topic = "stage", NEW p \in Row
  PROVE  \A v \in {"audience", "on_stage"} : FitsAt(StageSchema, p, "stage", v)
<1>1. p \in DOMAIN StageSchema /\ StageSchema[p] = StageRow /\ db[p] \in StageRow
  BY DEF StageTyped, Typed, StageSchema
<1> QED BY <1>1 DEF FitsAt, StageRow

LEMMA StageTypesStay ==
  ASSUME StageTyped, topic = "stage", DOMAIN open = Slot \cup Job, StageNext
  PROVE  StageTyped'
<1> DEFINE S == StageSchema
<1>1. Product(StageRow)
  BY DEF Product, StageRow
<1>2. \A row \in DOMAIN S : Product(S[row])
  BY <1>1 DEF StageSchema
<1>3. ASSUME NEW p \in Row, InviteToStage(p) \/ MoveToAudience(p) PROVE FittingStep(S)
  BY <1>3, StageFits, ChangeFits, CallFits DEF InviteToStage, MoveToAudience
<1>4. ASSUME NEW p \in Row, NEW muted \in BOOLEAN, SetParticipantMuted(p, muted) PROVE FittingStep(S)
  BY <1>4, UnionFits, CallFits DEF SetParticipantMuted
<1>5. ASSUME NEW p \in Row, TakeToken(p) \/ EnterStage(p) \/ Drop(p) PROVE FittingStep(S)
  BY <1>5, OutsideFits DEF TakeToken, EnterStage, Drop
<1>6. ASSUME NEW t \in Slot, Commit(t) \/ FailStage(t) PROVE FittingStep(S)
  BY <1>6, EndFits DEF FailStage
<1>7. FittingStep(S)
  BY <1>3, <1>4, <1>5, <1>6 DEF StageNext
<1> QED BY <1>2, <1>7, TypedStays DEF StageTyped

LEMMA MinutesFits ==
  ASSUME MinutesTyped, topic = "minutes"
  PROVE  /\ \A v \in {"live", "ended"} : FitsAt(MinutesSchema, "minutes", "status", v)
         /\ \A v \in Nat : FitsAt(MinutesSchema, "minutes", "added", v)
         /\ minutes.added \in Nat /\ minutes.planned \in (0..Minutes) \cup {None}
         /\ outside = [granted |-> outside.granted] /\ outside.granted \in Nat
<1>1. "minutes" \in DOMAIN MinutesSchema /\ MinutesSchema["minutes"] = MinutesRow /\ minutes \in MinutesRow
  BY DEF MinutesTyped, Typed, MinutesSchema, minutes
<1>2. outside \in [granted : Nat]
  BY DEF MinutesTyped
<1> QED BY <1>1, <1>2 DEF FitsAt, MinutesRow, minutes

LEMMA MinutesTypesStay ==
  ASSUME MinutesTyped, topic = "minutes", DOMAIN open = Slot \cup Job, MinutesNext
  PROVE  MinutesTyped'
<1> DEFINE S == MinutesSchema
<1> USE ChangeFits, UnionFits, MinutesFits
<1>1. Product(MinutesRow)
  BY DEF Product, MinutesRow
<1>2. \A row \in DOMAIN S : Product(S[row])
  BY <1>1 DEF MinutesSchema
<1>3. ASSUME NEW n \in 1..2 PROVE Fit(S, Change("minutes", "added", minutes.added + n))
  <2>1. minutes.added + n \in Nat
    OBVIOUS
  <2> QED BY <2>1
<1>4. ASSUME NEW n \in 1..2, Extend(n) \/ AdminExtend(n) PROVE FittingStep(S) /\ outside' \in [granted : Nat]
  BY <1>3, <1>4, CallFits, RequestFits DEF Extend, AdminExtend, Request
<1>5. GoLive \/ AdminEnd => FittingStep(S) /\ outside' \in [granted : Nat]
  BY RequestFits DEF GoLive, AdminEnd, Request
<1>6. ASSUME NEW t \in Slot, Commit(t) PROVE FittingStep(S) /\ outside' \in [granted : Nat]
  BY <1>6, EndFits DEF Commit
<1>7. FittingStep(S) /\ outside' \in [granted : Nat]
  BY <1>4, <1>5, <1>6 DEF MinutesNext
<1> QED BY <1>2, <1>7, TypedStays DEF MinutesTyped

LEMMA AttendanceRows ==
  ASSUME AttendanceTyped, topic = "attendance", NEW p \in Row
  PROVE  p \in DOMAIN AttendanceSchema /\ AttendanceSchema[p] = AttendanceRow /\ db[p] \in AttendanceRow
BY DEF AttendanceTyped, Typed, AttendanceSchema

LEMMA AttendanceFits ==
  ASSUME AttendanceTyped, topic = "attendance", NEW p \in Row
  PROVE  /\ \A v \in Nat \cup {None} :
              FitsAt(AttendanceSchema, p, "joined", v) /\ FitsAt(AttendanceSchema, p, "left", v)
         /\ \A v \in BOOLEAN : FitsAt(AttendanceSchema, p, "removed", v)
<1>1. p \in DOMAIN AttendanceSchema /\ AttendanceSchema[p] = AttendanceRow /\ db[p] \in AttendanceRow
  BY AttendanceRows
<1> QED BY <1>1 DEF FitsAt, AttendanceRow

LEMMA AttendanceTypesStay ==
  ASSUME AttendanceTyped, topic = "attendance", DOMAIN open = Slot \cup Job, AttendanceNext
  PROVE  AttendanceTyped'
<1> DEFINE S == AttendanceSchema
           World == [now : Nat, there : SUBSET Row, busiest : Nat, lost : BOOLEAN, blurred : BOOLEAN]
           on == TRUE
           off == FALSE
<1> USE ChangeFits, UnionFits, AttendanceFits
<1>1. Product(AttendanceRow)
  BY DEF Product, AttendanceRow
<1>2. \A row \in DOMAIN S : Product(S[row])
  BY <1>1 DEF AttendanceSchema
<1>3. outside \in World /\ now \in Nat /\ now + 1 \in Nat /\ there \subseteq Row
  BY DEF AttendanceTyped, now, there
<1>4. ASSUME NEW group \in SUBSET Row PROVE Busiest(group) \in Nat
  <2>1. Cardinality(group) \in Nat
    BY RequestsAssumption, FS_Subset, FS_CardinalityType
  <2> QED BY <1>3, <2>1 DEF Busiest
<1>5. ASSUME NEW p \in Row, NEW v \in BOOLEAN
      PROVE  /\ Fit(S, Change(p, "joined", now + 1) \cup Change(p, "left", None))
             /\ Fit(S, Change(p, "left", now + 1))
             /\ Fit(S, Change(p, "removed", v))
             /\ Fit(S, Change(p, "removed", v) \cup Change(p, "left", now + 1))
  BY <1>3
<1>6. on = TRUE /\ on \in BOOLEAN /\ off = FALSE /\ off \in BOOLEAN
  OBVIOUS
<1> HIDE DEF on, off
<1>7. ASSUME NEW p \in Row, Arrive(p) PROVE FittingStep(S) /\ outside' \in World
  <2> DEFINE group == there \cup {p}
             lost == outside.lost \/ db[p].joined # None
             blurred == outside.blurred \/ Pending(p)
  <2>1. FittingStep(S)
    BY <1>5, <1>6, <1>7, CallFits DEF Arrive
  <2>2. Busiest(group) \in Nat /\ group \subseteq Row /\ lost \in BOOLEAN /\ blurred \in BOOLEAN
    BY <1>3, <1>4
  <2>3. outside' = [now |-> now + 1, there |-> group, busiest |-> Busiest(group), lost |-> lost,
                    blurred |-> blurred]
    BY <1>7 DEF Arrive
  <2> HIDE DEF group, lost, blurred
  <2> QED BY <1>3, <2>1, <2>2, <2>3
<1>8. ASSUME NEW p \in Row, ArriveAdmitted(p) PROVE FittingStep(S) /\ outside' \in World
  <2> DEFINE group == there \cup {p}
  <2>1. FittingStep(S)
    BY <1>8, OutsideFits DEF ArriveAdmitted
  <2>2. PICK n \in Nat : n = Busiest(group)
    BY <1>3, <1>4
  <2>3. outside' = [outside EXCEPT !.there = outside.there \cup {p}, !.busiest = n, !.lost = on]
    BY <1>6, <1>8, <2>2 DEF ArriveAdmitted, Outside, there
  <2> QED BY <1>3, <1>6, <2>1, <2>2, <2>3
<1>9. ASSUME NEW p \in Row, GoAway(p) PROVE FittingStep(S) /\ outside' \in World
  <2> DEFINE blurred == \/ outside.blurred \/ Pending(p)
                        \/ (~db[p].removed /\ db[p].joined # None /\ db[p].left # None)
  <2>1. FittingStep(S)
    BY <1>5, <1>6, <1>9, CallFits DEF GoAway
  <2>2. outside' = [outside EXCEPT !.now = outside.now + 1, !.there = outside.there \ {p}, !.blurred = blurred]
    BY <1>9 DEF GoAway
  <2>3. blurred \in BOOLEAN /\ outside.there \ {p} \subseteq Row /\ outside.now + 1 \in Nat
    BY <1>3
  <2> HIDE DEF blurred
  <2> QED BY <1>3, <2>1, <2>2, <2>3
<1>10. ASSUME NEW p \in Row, SendAway(p) PROVE FittingStep(S) /\ outside' \in World
  <2> DEFINE blurred == outside.blurred \/ Pending(p)
  <2>1. FittingStep(S)
    <3>1. Call(Change(p, "removed", on) \cup Change(p, "left", now + 1))
      BY <1>6, <1>10 DEF SendAway
    <3>2. Fit(S, Change(p, "removed", on) \cup Change(p, "left", now + 1))
      BY <1>5, <1>6
    <3> QED BY <3>1, <3>2, CallFits
  <2>2. outside' = [outside EXCEPT !.now = outside.now + 1, !.there = outside.there \ {p}, !.lost = on,
                                   !.blurred = blurred]
    BY <1>6, <1>10 DEF SendAway
  <2>3. blurred \in BOOLEAN /\ outside.there \ {p} \subseteq Row /\ outside.now + 1 \in Nat
    BY <1>3
  <2> HIDE DEF blurred
  <2> QED BY <1>3, <1>6, <2>1, <2>2, <2>3
<1>11. ASSUME NEW p \in Row, AdmitAgain(p) PROVE FittingStep(S) /\ outside' \in World
  <2>1. Call(Change(p, "removed", off)) /\ outside' = [outside EXCEPT !.blurred = on]
    BY <1>6, <1>11 DEF AdmitAgain
  <2>2. Fit(S, Change(p, "removed", off))
    BY <1>5, <1>6
  <2> QED BY <1>3, <1>6, <2>1, <2>2, CallFits
<1>12. ASSUME NEW t \in Slot, Commit(t) \/ FailAttendance(t) PROVE FittingStep(S) /\ outside' \in World
  BY <1>3, <1>12, EndFits DEF Commit, FailAttendance
<1>13. FittingStep(S) /\ outside' \in World
  BY <1>7, <1>8, <1>9, <1>10, <1>11, <1>12 DEF AttendanceNext
<1> QED BY <1>2, <1>13, TypedStays DEF AttendanceTyped

(* The files of a meeting.                                                 *)
LEMMA FilesRows ==
  ASSUME FilesTyped, topic = "files"
  PROVE  /\ \A r \in Row : r \in DOMAIN FilesSchema /\ FilesSchema[r] = FileRow /\ db[r] \in FileRow
         /\ Occasion \in DOMAIN FilesSchema /\ FilesSchema[Occasion] = [is : Is]
         /\ db[Occasion] \in [is : Is]
<1>1. /\ \A r \in Row : r \in DOMAIN FilesSchema /\ FilesSchema[r] = FileRow
      /\ Occasion \in DOMAIN FilesSchema /\ FilesSchema[Occasion] = [is : Is]
  BY FilesAssumption DEF FilesSchema
<1> QED BY <1>1 DEF FilesTyped, Typed

LEMMA FilesFits ==
  ASSUME FilesTyped, topic = "files", NEW r \in Row
  PROVE  /\ FitsAt(FilesSchema, r, "is", "here") /\ FitsAt(FilesSchema, r, "is", "gone")
         /\ \A v \in FileKinds : FitsAt(FilesSchema, r, "kind", v)
         /\ \A v \in {"processing", "ready", "failed"} : FitsAt(FilesSchema, r, "status", v)
<1>1. r \in DOMAIN FilesSchema /\ FilesSchema[r] = FileRow /\ db[r] \in FileRow
  BY FilesRows
<1> QED BY <1>1 DEF FitsAt, FileRow, Is

LEMMA FilesTypesStay ==
  ASSUME FilesTyped, topic = "files", DOMAIN open = Slot \cup Job, FilesNext
  PROVE  FilesTyped'
<1> DEFINE S == FilesSchema
           World == [egress : SUBSET Row, objects : SUBSET Row, failed : BOOLEAN, deleted : BOOLEAN]
<1> USE ChangeFits, UnionFits, FilesFits
<1>1. Product(FileRow) /\ Product([is : Is])
  BY DEF Product, FileRow
<1>2. \A row \in DOMAIN S : Product(S[row])
  BY <1>1 DEF FilesSchema
<1>3. outside \in World
  BY DEF FilesTyped
<1>4. ASSUME NEW r \in Row, NEW kind \in FileKinds, NEW status \in {"processing", "ready"}
      PROVE  Fit(S, NewFile(r, kind, status))
  <2> DEFINE columns == [kind |-> kind, status |-> status]
  <2>1. \A column \in DOMAIN columns : FitsAt(S, r, column, columns[column])
    OBVIOUS
  <2>2. Fit(S, Insert(r, columns))
    BY <2>1, InsertFits
  <2> QED BY <2>2 DEF NewFile
<1>5. Recordings => FittingStep(S) /\ outside' \in World
  <2>1. ASSUME NEW r \in Row, StartRecording(r) PROVE FittingStep(S) /\ outside' \in World
    BY <1>3, <1>4, <2>1, CallFits DEF StartRecording, FileKinds
  <2>2. ASSUME NEW r \in Row, DeleteRecording(r) PROVE FittingStep(S) /\ outside' \in World
    BY <1>3, <2>2, CallFits, DeleteFits DEF DeleteRecording
  <2>3. ASSUME NEW r \in Row, NEW result \in {"processing", "ready", "failed"}, StopRecording(r, result)
        PROVE  FittingStep(S) /\ outside' \in World
    <3>1. FittingStep(S)
      BY <2>3, CallFits DEF StopRecording
    <3>2. CASE result = "processing"
      BY <1>3, <2>3, <3>1, <3>2 DEF StopRecording
    <3>3. CASE result # "processing"
      <4>1. PICK o \in SUBSET Row : outside' = [outside EXCEPT !.egress = @ \ {r}, !.objects = o]
        <5> DEFINE o == IF result = "ready" THEN outside.objects \cup {r} ELSE outside.objects
        <5>1. o \subseteq Row
          BY <1>3
        <5>2. outside' = [outside EXCEPT !.egress = @ \ {r}, !.objects = o]
          BY <2>3, <3>3 DEF StopRecording
        <5> HIDE DEF o
        <5> QED BY <5>1, <5>2
      <4> QED BY <1>3, <3>1, <4>1
    <3> QED BY <3>2, <3>3
  <2> QED BY <2>1, <2>2, <2>3 DEF Recordings
<1>6. Documents => FittingStep(S) /\ outside' \in World
  <2>1. ASSUME NEW r \in Row, RequestDocumentUpload(r) PROVE FittingStep(S) /\ outside' \in World
    BY <1>3, <1>4, <2>1, RequestFits DEF RequestDocumentUpload, FileKinds, Request
  <2>2. ASSUME NEW r \in Row, DeleteDocument(r) PROVE FittingStep(S) /\ outside' \in World
    BY <1>3, <2>2, CallFits, DeleteFits DEF DeleteDocument
  <2> QED BY <2>1, <2>2 DEF Documents
<1>7. Assistant => FittingStep(S) /\ outside' \in World
  BY <1>3, <1>4, RequestFits DEF Assistant, GenerateNotes, TranscribeRecording, FileKinds, Request
<1>8. ASSUME NEW r \in Row, EgressEnds(r) \/ Upload(r) PROVE FittingStep(S) /\ outside' \in World
  <2>1. FittingStep(S)
    BY <1>8, OutsideFits DEF EgressEnds, Upload
  <2>2. CASE EgressEnds(r)
    BY <1>3, <2>1, <2>2 DEF EgressEnds, Outside
  <2>3. CASE Upload(r)
    BY <1>3, <2>1, <2>3 DEF Upload, Outside
  <2> QED BY <1>8, <2>2, <2>3
<1>9. ASSUME NEW t \in Slot, CommitFiles(t) \/ FailFiles(t) PROVE FittingStep(S) /\ outside' \in World
  <2>1. CASE CommitDeletion(t)
    <3>1. Ends(t, Gone)
      BY <2>1, DeletionEnds
    <3>2. ASSUME NEW r \in DOMAIN db PROVE FitsAt(S, r, "is", "gone")
      BY FilesRows, <3>2 DEF FilesTyped, Typed, FitsAt, FilesSchema, Is
    <3>3. Fit(S, Gone)
      BY <3>2 DEF Fit, Gone
    <3> QED BY <1>3, <3>1, <3>3 DEF FittingStep, Ends
  <2>2. CASE Commit(t) \/ FailFiles(t)
    BY <1>3, <2>2, EndFits DEF FailFiles, Commit
  <2> QED BY <1>9, <2>1, <2>2 DEF CommitFiles
<1>10. ASSUME DeleteOccasion PROVE FittingStep(S) /\ outside' \in World
  <2>1. FitsAt(S, Occasion, "is", "gone")
    BY FilesRows DEF FitsAt, Is
  <2> QED BY <1>3, <1>10, <2>1, DeleteFits, CallFits DEF DeleteOccasion
<1>11. FittingStep(S) /\ outside' \in World
  BY <1>5, <1>6, <1>7, <1>8, <1>9, <1>10 DEF FilesNext
<1> QED BY <1>2, <1>11, TypedStays DEF FilesTyped

(* The upgrade to VIP.                                                     *)
LEMMA VipProducts == \A row \in DOMAIN VipSchema : Product(VipSchema[row])
<1>1. Product(UserRow) /\ Product(SubscriptionRow) /\ Product(KycRow)
  BY DEF Product, UserRow, SubscriptionRow, KycRow
<1> QED BY <1>1 DEF VipSchema

LEMMA VipTypedRows ==
  ASSUME VipTyped, topic = "vip"
  PROVE  /\ Subscriber \in DOMAIN VipSchema /\ VipSchema[Subscriber] = UserRow /\ db[Subscriber] \in UserRow
         /\ \A s \in Subscriptions :
              s \in DOMAIN VipSchema /\ VipSchema[s] = SubscriptionRow /\ db[s] \in SubscriptionRow
         /\ \A k \in VipRows \ Subscriptions :
              k \in DOMAIN VipSchema /\ VipSchema[k] = KycRow /\ db[k] \in KycRow
<1>1. Subscriber \notin VipRows
  <2>1. \A k \in VipRows : k[1] \in {"subscription", "document", "face"}
    BY VipNames DEF VipRows, Doc
  <2> QED BY <2>1, VipNames
<1>2. Subscriptions \subseteq VipRows
  BY DEF VipRows
<1>3. /\ Subscriber \in DOMAIN VipSchema /\ VipSchema[Subscriber] = UserRow
      /\ \A s \in Subscriptions : s \in DOMAIN VipSchema /\ VipSchema[s] = SubscriptionRow
      /\ \A k \in VipRows \ Subscriptions : k \in DOMAIN VipSchema /\ VipSchema[k] = KycRow
  BY <1>1, <1>2 DEF VipSchema
<1> QED BY <1>3 DEF VipTyped, Typed

LEMMA SubscriberFits ==
  ASSUME VipTyped, topic = "vip"
  PROVE  FitsAt(VipSchema, Subscriber, "tier", "vip")
<1>1. Subscriber \in DOMAIN VipSchema /\ VipSchema[Subscriber] = UserRow /\ db[Subscriber] \in UserRow
  BY VipTypedRows
<1> QED BY <1>1 DEF FitsAt, UserRow

LEMMA SubscriptionFits ==
  ASSUME VipTyped, topic = "vip", NEW s \in Subscriptions
  PROVE  /\ FitsAt(VipSchema, s, "is", "here") /\ \A v \in BOOLEAN : FitsAt(VipSchema, s, "paid", v)
         /\ \A v \in {"pending_payment", "awaiting_kyc", "active", "failed"} :
              FitsAt(VipSchema, s, "status", v)
<1>1. s \in DOMAIN VipSchema /\ VipSchema[s] = SubscriptionRow /\ db[s] \in SubscriptionRow
  BY VipTypedRows
<1> QED BY <1>1 DEF FitsAt, SubscriptionRow, Is

LEMMA KycFits ==
  ASSUME VipTyped, topic = "vip", NEW k \in VipRows \ Subscriptions
  PROVE  /\ FitsAt(VipSchema, k, "is", "here")
         /\ \A v \in {"pending", "passed", "failed"} : FitsAt(VipSchema, k, "status", v)
<1>1. k \in DOMAIN VipSchema /\ VipSchema[k] = KycRow /\ db[k] \in KycRow
  BY VipTypedRows
<1> QED BY <1>1 DEF FitsAt, KycRow, Is

LEMMA VipTypesStay ==
  ASSUME VipTyped, VipInv, topic = "vip", DOMAIN open = Slot \cup Job, VipNext
  PROVE  VipTyped'
<1> DEFINE S == VipSchema
           SaysTyped == \A k \in VipRows \ Subscriptions : says[k] \in {None, "passed", "failed"}
<1> USE ChangeFits, UnionFits
<1>0. DOMAIN outside = {"says", "passed"} /\ DOMAIN says = VipRows /\ SaysTyped
  BY DEF VipInv, VipTyped
<1>1. ASSUME NEW k, NEW status, \A v \in {status} : FitsAt(S, k, "status", v), FitsAt(S, k, "is", "here")
      PROVE  Fit(S, Insert(k, [status |-> status]))
  <2> DEFINE columns == [status |-> status]
  <2>1. \A column \in DOMAIN columns : FitsAt(S, k, column, columns[column])
    BY <1>1
  <2> QED BY <1>1, <2>1, InsertFits
<1>2. ASSUME UNCHANGED outside PROVE SaysTyped'
  BY <1>0, <1>2 DEF says
<1>3. VipUpgrade => FittingStep(S) /\ SaysTyped'
  <2>1. ASSUME NEW k \in VipRows, StartVipUpgrade(k)
        PROVE  FittingStep(S) /\ UNCHANGED outside
    <3>1. k \in Subscriptions
      BY <2>1, NextIsFree DEF StartVipUpgrade, InitiatePayment, Subscriptions, Sub
    <3>2. Fit(S, Insert(k, [status |-> "pending_payment"]))
      BY <1>1, <3>1, SubscriptionFits
    <3> QED BY <2>1, <3>2, RequestFits DEF StartVipUpgrade, InitiatePayment, Request
  <2>2. ASSUME NEW k \in VipRows, StartKycDocument(k) \/ StartKycLiveness(k)
        PROVE  FittingStep(S) /\ UNCHANGED outside
    <3>1. k \in VipRows \ Subscriptions
      BY <2>2, NextIsFree, VipNames DEF StartKycDocument, StartKycLiveness, VipRows, Subscriptions, Sub, Doc, Face
    <3>2. Fit(S, Insert(k, [status |-> "pending"]))
      BY <1>1, <3>1, KycFits
    <3> QED BY <2>2, <3>2, RequestFits DEF StartKycDocument, StartKycLiveness, Request
  <2> QED BY <1>2, <2>1, <2>2 DEF VipUpgrade
<1>4. ASSUME NEW k \in Subscriptions, HandleVipPayment(k)
      PROVE  FittingStep(S) /\ SaysTyped'
  <2>1. /\ Fit(S, Change(k, "status", "awaiting_kyc")) /\ Fit(S, Change(k, "status", "failed"))
        /\ \A v \in BOOLEAN : Fit(S, Change(k, "paid", v))
    BY SubscriptionFits
  <2>2. TRUE \in BOOLEAN
    OBVIOUS
  <2> QED BY <1>2, <1>4, <2>1, <2>2, RequestFits DEF HandleVipPayment, Request
<1>5. ASSUME NEW k \in {Doc(1), Doc(2)}, HandleKycDocumentResult(k)
      PROVE  FittingStep(S) /\ SaysTyped'
  <2>1. k \in VipRows \ Subscriptions
    <3>1. k \in VipRows
      BY DEF VipRows
    <3> QED BY <3>1, VipNames DEF KycDocuments
  <2>2. Fit(S, Change(k, "status", says[k]))
    BY <1>0, <1>5, <2>1, KycFits DEF HandleKycDocumentResult
  <2>3. says' = says
    BY <1>0, <1>5 DEF HandleKycDocumentResult, says
  <2>4. FittingStep(S)
    BY <1>5, <2>2, CallFits DEF HandleKycDocumentResult
  <2> QED BY <1>0, <2>3, <2>4
<1>6. ASSUME HandleKycLivenessResult(Face(1))
      PROVE  FittingStep(S) /\ SaysTyped'
  <2>1. Face(1) \in VipRows \ Subscriptions
    BY VipNames DEF VipRows
  <2>2. /\ Fit(S, Change(Face(1), "status", "failed")) /\ Fit(S, Change(Face(1), "status", "passed"))
        /\ Fit(S, Change(Subscriber, "tier", "vip"))
        /\ \A s \in Subscriptions : Fit(S, Change(s, "status", "active"))
    BY <2>1, KycFits, SubscriberFits, SubscriptionFits
  <2> QED BY <1>2, <1>6, <2>2, RequestFits DEF HandleKycLivenessResult, Request
<1>7. ASSUME NEW k \in VipRows, NEW outcomes,
             Decide(k, outcomes), k \in Subscriptions \/ outcomes \subseteq {"passed", "failed"}
      PROVE  FittingStep(S) /\ SaysTyped'
  <2>1. PICK outcome \in outcomes : Outside([outside EXCEPT !.says[k] = outcome])
    BY <1>7 DEF Decide
  <2>2. says' = [says EXCEPT ![k] = outcome]
    BY <1>0, <2>1 DEF Outside, says
  <2> QED BY <1>0, <1>7, <2>1, <2>2, OutsideFits
<1>8. ASSUME NEW t \in Slot, Commit(t) \/ (RollBack(t) /\ UNCHANGED outside)
      PROVE  FittingStep(S) /\ SaysTyped'
  BY <1>2, <1>8, EndFits DEF Commit
<1>9. FittingStep(S) /\ SaysTyped'
  <2>1. \A k \in VipRows \ Subscriptions : k \in VipRows
    OBVIOUS
  <2>2. Subscriptions \subseteq VipRows
    BY DEF VipRows
  <2> QED BY <1>3, <1>4, <1>5, <1>6, <1>7, <1>8, <2>1, <2>2 DEF VipNext, KycWebhooks
<1> QED BY <1>9, VipProducts, TypedStays DEF VipTyped

(* The conference plan.                                                    *)
LEMMA PlanProducts == \A row \in DOMAIN PlanSchema : Product(PlanSchema[row])
<1>1. Product(AccountPlan) /\ Product(PlanRow)
  BY DEF Product, AccountPlan, PlanRow
<1>2. Product(PurchaseRow)
  BY DEF Product, PurchaseRow
<1>3. Product(PriceRow)
  BY DEF Product, PriceRow
<1> QED BY <1>1, <1>2, <1>3 DEF PlanSchema

LEMMA PlanTypedRows ==
  ASSUME PlanTyped, topic = "plan"
  PROVE  /\ Account \in DOMAIN PlanSchema /\ PlanSchema[Account] = AccountPlan /\ db[Account] \in AccountPlan
         /\ \A c \in Plans : c \in DOMAIN PlanSchema /\ PlanSchema[c] = PlanRow /\ db[c] \in PlanRow
         /\ \A k \in Purchases : k \in DOMAIN PlanSchema /\ PlanSchema[k] = PurchaseRow /\ db[k] \in PurchaseRow
         /\ \A k \in Prices : k \in DOMAIN PlanSchema /\ PlanSchema[k] = PriceRow /\ db[k] \in PriceRow
<1>1. Prices \cap Plans = {}
  <2>1. \A k \in Prices : k[1] = "price"
    BY DEF Prices
  <2>2. \A k \in Plans : k[1] = "plan"
    BY DEF Plans, Plan
  <2> QED BY <2>1, <2>2
<1>2. /\ Account \in DOMAIN PlanSchema /\ PlanSchema[Account] = AccountPlan
      /\ \A c \in Plans : c \in DOMAIN PlanSchema /\ PlanSchema[c] = PlanRow
      /\ \A k \in Purchases : k \in DOMAIN PlanSchema /\ PlanSchema[k] = PurchaseRow
      /\ \A k \in Prices : k \in DOMAIN PlanSchema /\ PlanSchema[k] = PriceRow
  BY <1>1, PlanRows DEF PlanSchema
<1> QED BY <1>2 DEF PlanTyped, Typed

LEMMA AccountPlanFits ==
  ASSUME PlanTyped, topic = "plan", NEW c \in Plans \cup {None}
  PROVE  FitsAt(PlanSchema, Account, "plan", c)
<1>1. Account \in DOMAIN PlanSchema /\ PlanSchema[Account] = AccountPlan /\ db[Account] \in AccountPlan
  BY PlanTypedRows
<1> QED BY <1>1 DEF FitsAt, AccountPlan

LEMMA CatalogueFits ==
  ASSUME PlanTyped, topic = "plan", NEW c \in Plans
  PROVE  /\ FitsAt(PlanSchema, c, "is", "here")
         /\ \A v \in {"active", "archived"} : FitsAt(PlanSchema, c, "status", v)
<1>1. c \in DOMAIN PlanSchema /\ PlanSchema[c] = PlanRow /\ db[c] \in PlanRow
  BY PlanTypedRows
<1> QED BY <1>1 DEF FitsAt, PlanRow, Is

LEMMA PurchaseFits ==
  ASSUME PlanTyped, topic = "plan", NEW k \in Purchases
  PROVE  /\ FitsAt(PlanSchema, k, "is", "here")
         /\ \A c \in Plans : FitsAt(PlanSchema, k, "plan", c)
         /\ \A v \in {"paid", "failed"} : FitsAt(PlanSchema, k, "status", v)
         /\ db[k].plan \in Plans \cup {None}
<1>1. k \in DOMAIN PlanSchema /\ PlanSchema[k] = PurchaseRow /\ db[k] \in PurchaseRow
  BY PlanTypedRows
<1> QED BY <1>1 DEF FitsAt, PurchaseRow, Is

LEMMA PriceFits ==
  ASSUME PlanTyped, topic = "plan", NEW k \in Prices
  PROVE  /\ FitsAt(PlanSchema, k, "is", "here")
         /\ \A n \in 0..2 : FitsAt(PlanSchema, k, "amount", n)
         /\ FitsAt(PlanSchema, k, "status", "archived")
<1>1. k \in DOMAIN PlanSchema /\ PlanSchema[k] = PriceRow /\ db[k] \in PriceRow
  BY PlanTypedRows
<1> QED BY <1>1 DEF FitsAt, PriceRow, Is

LEMMA PlanTypesStay ==
  ASSUME PlanTyped, PlanInv, topic = "plan", DOMAIN open = Slot \cup Job, PlansNext
  PROVE  PlanTyped'
<1> DEFINE S == PlanSchema
<1> USE ChangeFits, UnionFits
<1>1. ASSUME NEW c \in Plans, CreatePlan(c) PROVE FittingStep(S)
  <2> DEFINE columns == [status |-> "active"]
  <2>1. \A column \in DOMAIN columns : FitsAt(S, c, column, columns[column])
    BY CatalogueFits
  <2>2. Fit(S, Insert(c, columns))
    BY <2>1, CatalogueFits, InsertFits
  <2> QED BY <1>1, <2>2, RequestFits DEF CreatePlan
<1>2. ASSUME NEW c \in Plans, NEW status \in {"active", "archived"}, SetPlanStatus(c, status)
      PROVE  FittingStep(S)
  BY <1>2, CatalogueFits, RequestFits DEF SetPlanStatus
<1>3. ASSUME NEW c \in Plans, SetUserConferencePlan(c) PROVE FittingStep(S)
  BY <1>3, AccountPlanFits, CallFits DEF SetUserConferencePlan
<1>4. ASSUME NEW k \in Prices, NEW amount \in {0, 1}, SetPrice(k, amount) PROVE FittingStep(S)
  <2> DEFINE columns == [amount |-> amount]
             archived == UNION {Change(p, "status", "archived") : p \in {q \in Prices : LatestPrice(q)}}
  <2>1. \A column \in DOMAIN columns : FitsAt(S, k, column, columns[column])
    BY PriceFits
  <2>2. Fit(S, Insert(k, columns))
    BY <2>1, PriceFits, InsertFits
  <2>3. Fit(S, archived)
    BY PriceFits DEF Fit
  <2>4. Fit(S, Insert(k, columns) \cup archived)
    BY <2>2, <2>3
  <2> QED BY <1>4, <2>4, RequestFits DEF SetPrice
<1>5. ASSUME NEW c \in Plans, NEW k \in Purchases, StartConferenceUpgrade(c, k) PROVE FittingStep(S)
  <2> DEFINE columns == [plan |-> c]
  <2>1. \A column \in DOMAIN columns : FitsAt(S, k, column, columns[column])
    BY PurchaseFits
  <2>2. Fit(S, Insert(k, columns))
    BY <2>1, PurchaseFits, InsertFits
  <2>3. Fit(S, Change(Account, "plan", c))
    BY AccountPlanFits
  <2> QED BY <1>5, <2>2, <2>3, CallFits, RequestFits
      DEF StartConferenceUpgrade, ApplyPaidConferencePlan, InitiatePayment
<1>6. ASSUME NEW k \in Purchases, HandleConferencePayment(k) PROVE FittingStep(S)
  <2>1. Fit(S, Change(k, "status", "paid")) /\ Fit(S, Change(k, "status", "failed"))
    BY PurchaseFits
  <2>2. CASE says[k] = "paid"
    <3>1. db[k].plan \in Plans \cup {None}
      BY PurchaseFits
    <3>2. Fit(S, ApplyPaidConferencePlan(db[k].plan))
      BY <3>1, AccountPlanFits DEF ApplyPaidConferencePlan
    <3> QED BY <1>6, <2>1, <2>2, <3>2, RequestFits DEF HandleConferencePayment
  <2>3. CASE says[k] # "paid"
    BY <1>6, <2>1, <2>3, RequestFits DEF HandleConferencePayment
  <2> QED BY <2>2, <2>3
<1>7. ASSUME NEW k, NEW outcomes, Decide(k, outcomes) PROVE FittingStep(S)
  BY <1>7, OutsideFits DEF Decide
<1>8. ASSUME NEW t \in Slot, Commit(t) \/ (RollBack(t) /\ UNCHANGED outside) PROVE FittingStep(S)
  BY <1>8, EndFits
<1>9. FittingStep(S)
  BY <1>1, <1>2, <1>3, <1>4, <1>5, <1>6, <1>7, <1>8
     DEF PlansNext, Catalogue, ConferenceUpgrade, StitchWebhook
<1> QED BY <1>9, PlanProducts, TypedStays DEF PlanTyped

(* The signup.                                                             *)
LEMMA SignupProducts == \A row \in DOMAIN SignupSchema : Product(SignupSchema[row])
<1>1. Product(ConfigRow) /\ Product(InvitationRow)
  BY DEF Product, ConfigRow, InvitationRow
<1>2. Product(SignupRow)
  BY DEF Product, SignupRow
<1> QED BY <1>1, <1>2 DEF SignupSchema

LEMMA SignupRows ==
  ASSUME SignupTyped, topic = "signup"
  PROVE  /\ Config \in DOMAIN SignupSchema /\ SignupSchema[Config] = ConfigRow /\ db[Config] \in ConfigRow
         /\ Invite \in DOMAIN SignupSchema /\ SignupSchema[Invite] = InvitationRow /\ db[Invite] \in InvitationRow
         /\ \A r \in Row : r \in DOMAIN SignupSchema /\ SignupSchema[r] = SignupRow /\ db[r] \in SignupRow
<1>1. Config # Invite
  BY DEF Config, Invite
<1>2. /\ Config \in DOMAIN SignupSchema /\ SignupSchema[Config] = ConfigRow
      /\ Invite \in DOMAIN SignupSchema /\ SignupSchema[Invite] = InvitationRow
      /\ \A r \in Row : r \in DOMAIN SignupSchema /\ SignupSchema[r] = SignupRow
  BY <1>1, AccountsAssumption DEF SignupSchema
<1> QED BY <1>2 DEF SignupTyped, Typed

LEMMA ConfigFits ==
  ASSUME SignupTyped, topic = "signup"
  PROVE  \A v \in BOOLEAN : FitsAt(SignupSchema, Config, "invite_only", v)
<1>1. Config \in DOMAIN SignupSchema /\ SignupSchema[Config] = ConfigRow /\ db[Config] \in ConfigRow
  BY SignupRows
<1> QED BY <1>1 DEF FitsAt, ConfigRow

LEMMA InvitationFits ==
  ASSUME SignupTyped, topic = "signup"
  PROVE  /\ FitsAt(SignupSchema, Invite, "is", "here")
         /\ \A v \in {"sent", "redeemed"} : FitsAt(SignupSchema, Invite, "status", v)
<1>1. Invite \in DOMAIN SignupSchema /\ SignupSchema[Invite] = InvitationRow /\ db[Invite] \in InvitationRow
  BY SignupRows
<1> QED BY <1>1 DEF FitsAt, InvitationRow, Is

LEMMA SignupFits ==
  ASSUME SignupTyped, topic = "signup", NEW r \in Row
  PROVE  /\ FitsAt(SignupSchema, r, "is", "here")
         /\ \A v \in User : FitsAt(SignupSchema, r, "phone", v)
         /\ \A v \in BOOLEAN : FitsAt(SignupSchema, r, "invited", v)
<1>1. r \in DOMAIN SignupSchema /\ SignupSchema[r] = SignupRow /\ db[r] \in SignupRow
  BY SignupRows
<1> QED BY <1>1 DEF FitsAt, SignupRow, Is

LEMMA SignupTypesStay ==
  ASSUME SignupTyped, topic = "signup", DOMAIN open = Slot \cup Job, SignupNext
  PROVE  SignupTyped'
<1> DEFINE S == SignupSchema
           World == [expired : BOOLEAN]
<1> USE ChangeFits, UnionFits
<1>0. outside \in World
  BY DEF SignupTyped
<1>1. ASSUME NEW phone \in User, NEW invite \in BOOLEAN, NEW r \in Row, Signup(phone, invite, r)
      PROVE  FittingStep(S) /\ outside' \in World
  <2> DEFINE columns == [phone |-> phone, invited |-> invite]
             redeemed == IF invite THEN Change(Invite, "status", "redeemed") ELSE {}
  <2>1. \A column \in DOMAIN columns : FitsAt(S, r, column, columns[column])
    BY SignupFits
  <2>2. Fit(S, Insert(r, columns))
    BY <2>1, SignupFits, InsertFits
  <2>3. Fit(S, redeemed)
    BY InvitationFits
  <2>4. Fit(S, Insert(r, columns) \cup redeemed)
    BY <2>2, <2>3
  <2>5. Request(Insert(r, columns) \cup redeemed)
    BY <1>1 DEF Signup
  <2> HIDE DEF columns, redeemed
  <2> QED BY <1>0, <2>4, <2>5, RequestFits DEF Request
<1>2. CreateInvitation => FittingStep(S) /\ outside' \in World
  <2> DEFINE columns == [status |-> "sent"]
  <2>1. \A column \in DOMAIN columns : FitsAt(S, Invite, column, columns[column])
    BY InvitationFits
  <2>2. Fit(S, Insert(Invite, columns))
    BY <2>1, InvitationFits, InsertFits
  <2> QED BY <1>0, <2>2, RequestFits DEF CreateInvitation, Request
<1>3. ASSUME NEW on \in BOOLEAN, SetInviteOnlyMode(on) PROVE FittingStep(S) /\ outside' \in World
  BY <1>0, <1>3, ConfigFits, RequestFits DEF SetInviteOnlyMode, Request
<1>4. Expire => FittingStep(S) /\ outside' \in World
  BY OutsideFits DEF Expire, Outside
<1>5. ASSUME NEW t \in Slot, Commit(t) \/ (RollBack(t) /\ UNCHANGED outside)
      PROVE  FittingStep(S) /\ outside' \in World
  BY <1>0, <1>5, EndFits DEF Commit
<1>6. FittingStep(S) /\ outside' \in World
  BY <1>1, <1>2, <1>3, <1>4, <1>5 DEF SignupNext, Signups, InviteOnly
<1> QED BY <1>6, SignupProducts, TypedStays DEF SignupTyped

(* The account.                                                            *)
LEMMA AccountProducts == \A row \in DOMAIN AccountSchema : Product(AccountSchema[row])
<1>1. Product(AccountRow)
  BY DEF Product, AccountRow
<1>2. Product(JobRow)
  BY DEF Product, JobRow
<1> QED BY <1>1, <1>2 DEF AccountSchema

LEMMA AccountNames == Me \notin Jobs /\ Documents2 \subseteq Jobs /\ \A k \in Jobs : k[1] \in {"kyc_document", "kyc_selfie"}
<1>1. \A k \in Jobs : k[1] \in {"kyc_document", "kyc_selfie"}
  BY DEF Jobs, Documents2, Document, Selfie
<1>2. Me[1] = "me"
  BY DEF Me
<1> QED BY <1>1, <1>2 DEF Jobs

LEMMA AccountRows ==
  ASSUME AccountTyped, topic = "account"
  PROVE  /\ Me \in DOMAIN AccountSchema /\ AccountSchema[Me] = AccountRow /\ db[Me] \in AccountRow
         /\ \A k \in Jobs : k \in DOMAIN AccountSchema /\ AccountSchema[k] = JobRow /\ db[k] \in JobRow
<1>1. /\ Me \in DOMAIN AccountSchema /\ AccountSchema[Me] = AccountRow
      /\ \A k \in Jobs : k \in DOMAIN AccountSchema /\ AccountSchema[k] = JobRow
  BY AccountNames DEF AccountSchema
<1> QED BY <1>1 DEF AccountTyped, Typed

LEMMA AccountFits ==
  ASSUME AccountTyped, topic = "account"
  PROVE  /\ FitsAt(AccountSchema, Me, "is", "gone")
         /\ \A v \in AccountStates : FitsAt(AccountSchema, Me, "state", v)
         /\ \A v \in BOOLEAN : FitsAt(AccountSchema, Me, "code", v)
         /\ \A v \in {"never", "grace", "now"} : FitsAt(AccountSchema, Me, "due", v)
<1>1. Me \in DOMAIN AccountSchema /\ AccountSchema[Me] = AccountRow /\ db[Me] \in AccountRow
  BY AccountRows
<1> QED BY <1>1 DEF FitsAt, AccountRow, Is

LEMMA JobFits ==
  ASSUME AccountTyped, topic = "account", NEW k \in Jobs
  PROVE  /\ FitsAt(AccountSchema, k, "is", "here")
         /\ \A v \in {"pending", "passed", "failed", "manual_review"} : FitsAt(AccountSchema, k, "status", v)
<1>1. k \in DOMAIN AccountSchema /\ AccountSchema[k] = JobRow /\ db[k] \in JobRow
  BY AccountRows
<1> QED BY <1>1 DEF FitsAt, JobRow, Is

LEMMA AccountTypesStay ==
  ASSUME AccountTyped, topic = "account", DOMAIN open = Slot \cup Job, AccountNext
  PROVE  AccountTyped'
<1> DEFINE S == AccountSchema
<1> USE ChangeFits, UnionFits
<1>1. ASSUME NEW s \in AccountStates PROVE Fit(S, Change(Me, "state", s))
  BY AccountFits
<1>2. ASSUME NEW d \in {"never", "grace", "now"} PROVE Fit(S, Change(Me, "due", d))
  BY AccountFits
<1>3. ASSUME NEW k \in Jobs, NEW v \in {"pending", "passed", "failed", "manual_review"}
      PROVE  Fit(S, Change(k, "status", v))
  BY JobFits
<1>4. ASSUME NEW w, Moves(w), Fit(S, w) PROVE FittingStep(S)
  BY <1>4, CallFits DEF Moves
<1>5. Onboarding => FittingStep(S)
  <2>1. ASSUME NEW from, NEW to \in AccountStates, Step(from, to) PROVE FittingStep(S)
    BY <1>1, <2>1, RequestFits DEF Step
  <2>2. SetDitsalaCode => FittingStep(S)
    <3>1. \A v \in BOOLEAN : Fit(S, Change(Me, "code", v))
      BY AccountFits
    <3> QED BY <3>1, RequestFits DEF SetDitsalaCode
  <2>3. ConfirmEmail \/ ConfirmPhone \/ AddNextOfKin => FittingStep(S)
    BY <2>1 DEF ConfirmEmail, ConfirmPhone, AddNextOfKin, AccountStates
  <2>4. CompleteOnboarding => FittingStep(S)
    BY <1>1, CallFits DEF CompleteOnboarding, AccountStates
  <2>5. ASSUME NEW k \in Jobs, StartKyc(k) PROVE FittingStep(S)
    <3> DEFINE columns == [status |-> "pending"]
    <3>1. \A column \in DOMAIN columns : FitsAt(S, k, column, columns[column])
      BY JobFits
    <3>2. Fit(S, Insert(k, columns))
      BY <3>1, JobFits, InsertFits
    <3> QED BY <2>5, <3>2, RequestFits DEF StartKyc
  <2> QED BY <2>2, <2>3, <2>4, <2>5 DEF Onboarding
<1>6. Reviews \/ Staff => FittingStep(S)
  BY <1>1, <1>2, <1>4, AccountsAssumption
     DEF Reviews, Staff, Approve, Reject, RequestRecapture, ForceAccountState, ActionReport, AccountStates
<1>7. Lifecycle \/ LogIn => FittingStep(S)
  BY <1>1, <1>2, CallFits, RequestFits, OutsideFits
     DEF Lifecycle, RequestDeactivation, CancelDeactivation, Elapse, LogIn, AccountStates
<1>8. ASSUME NEW k \in Jobs, HandleKycResult(k) PROVE FittingStep(S)
  BY <1>1, <1>3, <1>4, <1>8 DEF HandleKycResult, AccountStates
<1>9. ASSUME NEW k, NEW outcomes, Decide(k, outcomes) PROVE FittingStep(S)
  BY <1>9, OutsideFits DEF Decide
<1>10. ASSUME NEW j \in Job, ProcessScheduledDeletions(j) PROVE FittingStep(S)
  BY <1>10, AccountFits, DeleteFits DEF ProcessScheduledDeletions, FittingStep
<1>11. ASSUME NEW t \in Slot \cup Job, Commit(t) \/ (RollBack(t) /\ UNCHANGED outside) PROVE FittingStep(S)
  BY <1>11, EndFits
<1>12. FittingStep(S)
  BY <1>5, <1>6, <1>7, <1>8, <1>9, <1>10, <1>11 DEF AccountNext
<1> QED BY <1>12, AccountProducts, TypedStays DEF AccountTyped

(* The recovery and the login.                                             *)
LEMMA RecoveryProducts == \A row \in DOMAIN RecoverySchema : Product(RecoverySchema[row])
<1>1. Product(OwnerRow) /\ Product(CodeRow)
  BY DEF Product, OwnerRow, CodeRow
<1>2. Product(RecoveryRow)
  BY DEF Product, RecoveryRow
<1> QED BY <1>1, <1>2 DEF RecoverySchema

LEMMA RecoveryRows ==
  ASSUME RecoveryTyped, topic = "recovery"
  PROVE  /\ Owner \in DOMAIN RecoverySchema /\ RecoverySchema[Owner] = OwnerRow /\ db[Owner] \in OwnerRow
         /\ \A c \in Codes : c \in DOMAIN RecoverySchema /\ RecoverySchema[c] = CodeRow /\ db[c] \in CodeRow
         /\ \A r \in Asks : r \in DOMAIN RecoverySchema /\ RecoverySchema[r] = RecoveryRow /\ db[r] \in RecoveryRow
<1>1. (\A r \in Asks : r[1] = "request") /\ (\A c \in Codes : c[1] = "code") /\ Owner[1] = "owner"
  BY DEF Asks, Ask, Codes, Code, Owner
<1>2. /\ Owner \in DOMAIN RecoverySchema /\ RecoverySchema[Owner] = OwnerRow
      /\ \A c \in Codes : c \in DOMAIN RecoverySchema /\ RecoverySchema[c] = CodeRow
      /\ \A r \in Asks : r \in DOMAIN RecoverySchema /\ RecoverySchema[r] = RecoveryRow
  BY <1>1 DEF RecoverySchema
<1> QED BY <1>2 DEF RecoveryTyped, Typed

LEMMA OwnerFits ==
  ASSUME RecoveryTyped, topic = "recovery"
  PROVE  /\ FitsAt(RecoverySchema, Owner, "tier", "vip")
         /\ \A v \in BOOLEAN : FitsAt(RecoverySchema, Owner, "email", v)
<1>1. Owner \in DOMAIN RecoverySchema /\ RecoverySchema[Owner] = OwnerRow /\ db[Owner] \in OwnerRow
  BY RecoveryRows
<1> QED BY <1>1 DEF FitsAt, OwnerRow

LEMMA CodeFits ==
  ASSUME RecoveryTyped, topic = "recovery", NEW c \in Codes
  PROVE  /\ FitsAt(RecoverySchema, c, "is", "here")
         /\ \A v \in {"pending", "verified"} : FitsAt(RecoverySchema, c, "status", v)
<1>1. c \in DOMAIN RecoverySchema /\ RecoverySchema[c] = CodeRow /\ db[c] \in CodeRow
  BY RecoveryRows
<1> QED BY <1>1 DEF FitsAt, CodeRow, Is

LEMMA AskFits ==
  ASSUME RecoveryTyped, topic = "recovery", NEW r \in Asks
  PROVE  /\ FitsAt(RecoverySchema, r, "is", "here")
         /\ \A v \in {"initiated", "phone_verified", "liveness_passed", "liveness_failed",
                      "next_of_kin_flagged", "completed"} : FitsAt(RecoverySchema, r, "status", v)
         /\ \A v \in BOOLEAN : FitsAt(RecoverySchema, r, "email", v) /\ FitsAt(RecoverySchema, r, "phone", v)
         /\ \A n \in Lives : FitsAt(RecoverySchema, r, "job", n)
<1>1. r \in DOMAIN RecoverySchema /\ RecoverySchema[r] = RecoveryRow /\ db[r] \in RecoveryRow
  BY RecoveryRows
<1> QED BY <1>1 DEF FitsAt, RecoveryRow, Is

LEMMA RecoveryTypesStay ==
  ASSUME RecoveryTyped, topic = "recovery", DOMAIN open = Slot \cup Job, RecoveryNext
  PROVE  RecoveryTyped'
<1> DEFINE S == RecoverySchema
           Good == DOMAIN outside = {"started", "says", "told"} /\ outside.started \in 0..2
<1> USE ChangeFits, UnionFits
<1>0. Good
  BY DEF RecoveryTyped
<1>1. ASSUME NEW k \in Asks \cup Codes, NEW status, \A v \in {status} : FitsAt(S, k, "status", v)
      PROVE  Fit(S, Insert(k, [status |-> status]))
  <2> DEFINE columns == [status |-> status]
  <2>1. \A column \in DOMAIN columns : FitsAt(S, k, column, columns[column])
    BY <1>1
  <2>2. FitsAt(S, k, "is", "here")
    BY AskFits, CodeFits
  <2> QED BY <2>1, <2>2, InsertFits
<1>2. ASSUME NEW r \in Asks, StartRecovery(r) \/ StartPhoneRecovery(r) PROVE FittingStep(S) /\ Good'
  <2>1. Fit(S, Insert(r, [status |-> "initiated"])) /\ \A c \in Codes : Fit(S, Insert(c, [status |-> "pending"]))
    BY <1>1, AskFits, CodeFits
  <2> QED BY <1>0, <1>2, <2>1, RequestFits DEF StartRecovery, StartPhoneRecovery, Request
<1>3. ASSUME NEW r \in Asks, NEW v \in {"phone_verified", "liveness_passed", "liveness_failed", "next_of_kin_flagged", "completed"}
      PROVE  Fit(S, Change(r, "status", v))
  BY AskFits
<1>4. ASSUME NEW r \in Asks, NEW v \in BOOLEAN
      PROVE  Fit(S, Change(r, "email", v)) /\ Fit(S, Change(r, "phone", v))
  BY AskFits
<1>5. ASSUME NEW r \in Asks, NotifyNextOfKin(r) PROVE Good'
  BY <1>0, <1>5 DEF NotifyNextOfKin
<1> DEFINE on == TRUE
<1>6. on \in BOOLEAN /\ on = TRUE
  OBVIOUS
<1> HIDE DEF on
<1>7. ASSUME NEW r \in Asks, ConfirmRecoveryEmail(r) \/ ConfirmRecoveryPhone(r) \/ ConfirmPhoneRecovery(r)
      PROVE  FittingStep(S) /\ Good'
  <2>1. Fit(S, Change(r, "email", on)) /\ Fit(S, Change(r, "phone", on)) /\ Fit(S, Change(r, "status", "phone_verified"))
    BY <1>3, <1>4, <1>6
  <2>2. \A c \in Codes : Fit(S, Change(c, "status", "verified"))
    BY CodeFits
  <2>3. FittingStep(S)
    BY <1>6, <1>7, <2>1, <2>2, CallFits, RequestFits DEF ConfirmRecoveryEmail, ConfirmRecoveryPhone, ConfirmPhoneRecovery
  <2> QED BY <1>0, <1>5, <1>7, <2>3 DEF ConfirmRecoveryEmail, ConfirmRecoveryPhone, ConfirmPhoneRecovery, Request
<1>8. ASSUME NEW r \in Asks, StartLiveness(r) PROVE FittingStep(S) /\ Good'
  <2>1. outside.started + 1 \in Lives /\ outside.started + 1 \in 0..2
    BY <1>0, <1>8 DEF StartLiveness, Lives
  <2>2. Fit(S, Change(r, "job", outside.started + 1))
    BY <2>1, AskFits
  <2> QED BY <1>0, <1>8, <2>1, <2>2, CallFits DEF StartLiveness
<1>9. ASSUME NEW r \in Asks, FlagByToken(r) \/ Complete(r) PROVE FittingStep(S) /\ Good'
  BY <1>0, <1>3, <1>9, RequestFits DEF FlagByToken, Complete, Request
<1>10. ASSUME NEW n, NEW r \in Asks, ProviderDecides(n) \/ HandleLiveness(n, r) PROVE FittingStep(S) /\ Good'
  <2>1. CASE ProviderDecides(n)
    BY <1>0, <2>1, OutsideFits DEF ProviderDecides, Outside
  <2>2. CASE HandleLiveness(n, r)
    BY <1>0, <1>3, <1>5, <2>2, CallFits, RequestFits DEF HandleLiveness, Request
  <2> QED BY <1>10, <2>1, <2>2
<1>11. ASSUME Upgrade PROVE FittingStep(S) /\ Good'
  <2>1. Fit(S, Change(Owner, "tier", "vip")) /\ Fit(S, Change(Owner, "email", on))
    BY <1>6, OwnerFits
  <2> QED BY <1>0, <1>6, <1>11, <2>1, RequestFits DEF Upgrade, Request
<1>12. ASSUME NEW t \in Slot, Commit(t) \/ (RollBack(t) /\ UNCHANGED outside) PROVE FittingStep(S) /\ Good'
  BY <1>0, <1>12, EndFits DEF Commit
<1>13. FittingStep(S) /\ Good'
  BY <1>2, <1>7, <1>8, <1>9, <1>10, <1>11, <1>12 DEF RecoveryNext, RecoverySteps
<1> QED BY <1>13, RecoveryProducts, TypedStays DEF RecoveryTyped

LEMMA LoginFits ==
  ASSUME LoginTyped, topic = "login", NEW k \in Checks
  PROVE  /\ FitsAt(LoginSchema, k, "is", "here")
         /\ \A v \in {"pending", "passed", "failed"} : FitsAt(LoginSchema, k, "status", v)
         /\ FitsAt(LoginSchema, k, "verified", now)
<1>1. k \in DOMAIN LoginSchema /\ LoginSchema[k] = CheckRow /\ db[k] \in CheckRow /\ now \in 0..Horizon
  BY DEF LoginTyped, Typed, LoginSchema
<1> QED BY <1>1 DEF FitsAt, CheckRow, Is

LEMMA LoginTypesStay ==
  ASSUME LoginTyped, topic = "login", DOMAIN open = Slot \cup Job, LoginNext
  PROVE  LoginTyped'
<1> DEFINE S == LoginSchema
           Good == DOMAIN outside = {"says", "now", "hits", "log", "in"} /\ now \in 0..Horizon
<1> USE ChangeFits, UnionFits
<1>1. Product(CheckRow)
  BY DEF Product, CheckRow
<1>2. \A row \in DOMAIN S : Product(S[row])
  BY <1>1 DEF LoginSchema
<1>3. Good
  BY DEF LoginTyped
<1>4. ASSUME Hit PROVE Good'
  BY <1>3, <1>4 DEF Hit, now
<1>5. ASSUME TryWrongCode PROVE FittingStep(S) /\ Good'
  BY <1>4, <1>5, CallFits DEF TryWrongCode
<1>6. ASSUME NEW k \in Checks, StartLogin(k) PROVE FittingStep(S) /\ Good'
  <2> DEFINE columns == [status |-> "pending"]
  <2>1. \A column \in DOMAIN columns : FitsAt(S, k, column, columns[column])
    BY LoginFits
  <2>2. Fit(S, Insert(k, columns))
    BY <2>1, LoginFits, InsertFits
  <2> QED BY <1>4, <1>6, <2>2, CallFits DEF StartLogin
<1>7. ASSUME NEW k \in Checks, CompleteLogin(k) PROVE FittingStep(S) /\ Good'
  <2>1. FittingStep(S)
    BY <1>7, CallFits DEF CompleteLogin
  <2> QED BY <1>3, <1>7, <2>1 DEF CompleteLogin, now
<1>8. ASSUME NEW k \in Checks, RecordLoginLiveness(k) PROVE FittingStep(S) /\ Good'
  <2>1. /\ Fit(S, Change(k, "status", "failed")) /\ Fit(S, Change(k, "status", "passed"))
        /\ Fit(S, Change(k, "verified", now))
    BY LoginFits
  <2>2. FittingStep(S)
    BY <1>8, <2>1, RequestFits DEF RecordLoginLiveness
  <2> QED BY <1>3, <1>8, <2>2 DEF RecordLoginLiveness, Request, now
<1>9. ASSUME NEW k, NEW outcomes, Decide(k, outcomes) PROVE FittingStep(S) /\ Good'
  BY <1>3, <1>9, OutsideFits DEF Decide, Outside, now
<1>10. ASSUME ClockTicks PROVE FittingStep(S) /\ Good'
  <2>1. now + 1 \in 0..Horizon
    BY <1>3, <1>10, RecoveryAssumption DEF ClockTicks
  <2>2. outside' = [outside EXCEPT !.now = now + 1]
    BY <1>10 DEF ClockTicks, Outside, now
  <2> QED BY <1>3, <1>10, <2>1, <2>2, OutsideFits DEF ClockTicks, now
<1>11. ASSUME Restart PROVE FittingStep(S) /\ Good'
  BY <1>3, <1>11, OutsideFits DEF Restart, Outside, now
<1>12. ASSUME NEW t \in Slot, Commit(t) \/ (RollBack(t) /\ UNCHANGED outside) PROVE FittingStep(S) /\ Good'
  BY <1>3, <1>12, EndFits DEF Commit, now
<1>13. FittingStep(S) /\ Good'
  BY <1>5, <1>6, <1>7, <1>8, <1>9, <1>10, <1>11, <1>12 DEF LoginNext, LoginSteps
<1> QED BY <1>2, <1>13, TypedStays DEF LoginTyped

(* The keys.                                                               *)
LEMMA KeysProducts == \A row \in DOMAIN KeysSchema : Product(KeysSchema[row])
<1>1. Product(PrekeyRow)
  BY DEF Product, PrekeyRow
<1>2. Product(EnvelopeRow)
  BY DEF Product, EnvelopeRow
<1> QED BY <1>1, <1>2 DEF KeysSchema

LEMMA KeysRows ==
  ASSUME KeysTyped, topic = "keys"
  PROVE  /\ \A k \in Prekeys : k \in DOMAIN KeysSchema /\ KeysSchema[k] = PrekeyRow /\ db[k] \in PrekeyRow
         /\ \A p \in Phones : /\ Envelope(p) \in DOMAIN KeysSchema
                              /\ KeysSchema[Envelope(p)] = EnvelopeRow
                              /\ db[Envelope(p)] \in EnvelopeRow
<1>1. (\A k \in Prekeys : k[1] = "prekey") /\ \A p \in Phones : Envelope(p)[1] = "sender_key"
  BY DEF Prekeys, Prekey, Envelope
<1>2. /\ \A k \in Prekeys : k \in DOMAIN KeysSchema /\ KeysSchema[k] = PrekeyRow
      /\ \A p \in Phones : Envelope(p) \in DOMAIN KeysSchema /\ KeysSchema[Envelope(p)] = EnvelopeRow
  BY <1>1 DEF KeysSchema
<1> QED BY <1>2 DEF KeysTyped, Typed

LEMMA PrekeyFits ==
  ASSUME KeysTyped, topic = "keys", NEW k \in Prekeys
  PROVE  /\ FitsAt(KeysSchema, k, "is", "here")
         /\ \A n \in 0..2 : FitsAt(KeysSchema, k, "batch", n)
         /\ \A v \in BOOLEAN : FitsAt(KeysSchema, k, "consumed", v)
         /\ db[k].batch \in 0..2
<1>1. k \in DOMAIN KeysSchema /\ KeysSchema[k] = PrekeyRow /\ db[k] \in PrekeyRow
  BY KeysRows
<1> QED BY <1>1 DEF FitsAt, PrekeyRow, Is

LEMMA EnvelopeFits ==
  ASSUME KeysTyped, topic = "keys", NEW p \in Phones
  PROVE  /\ FitsAt(KeysSchema, Envelope(p), "is", "here")
         /\ \A d \in Drafts : FitsAt(KeysSchema, Envelope(p), "key", d)
         /\ \A n \in 0..2 : FitsAt(KeysSchema, Envelope(p), "seal", n)
         /\ db[Envelope(p)].key \in Drafts \cup {None} /\ db[Envelope(p)].seal \in 0..2
<1> DEFINE e == Envelope(p)
<1>1. e \in DOMAIN KeysSchema /\ KeysSchema[e] = EnvelopeRow /\ db[e] \in EnvelopeRow
  BY KeysRows
<1> HIDE DEF e
<1>2. /\ FitsAt(KeysSchema, e, "is", "here")
      /\ \A d \in Drafts : FitsAt(KeysSchema, e, "key", d)
      /\ \A n \in 0..2 : FitsAt(KeysSchema, e, "seal", n)
      /\ db[e].key \in Drafts \cup {None} /\ db[e].seal \in 0..2
  BY <1>1 DEF FitsAt, EnvelopeRow, Is
<1> QED BY <1>2 DEF e

LEMMA DraftFacts ==
  /\ \A d \in Drafts : Writer(d) \in Phones
  /\ \A n \in 1..2 : Prekey(n) \in Prekeys
BY DEF Drafts, Writer, Phones, Prekeys, Batches

LEMMA PhoneReadsTyped ==
  ASSUME KeysTyped, topic = "keys", PhoneReads
  PROVE  FittingStep(KeysSchema) /\ outside' \in KeysWorld
<1> DEFINE S == KeysSchema
<1>0. outside \in KeysWorld
  BY DEF KeysTyped
<1>1. ASSUME RegisterWithBackend PROVE FittingStep(S) /\ outside' \in KeysWorld
  <2> DEFINE n == outside.made + 1
             columns == [batch |-> n]
             mishap == outside.mishap \/ outside.secret # 0 \/ Opening
  <2>1. n \in 1..2
    BY <1>0, <1>1 DEF RegisterWithBackend, KeysWorld
  <2>2. Call(Insert(Prekey(n), columns)) /\ outside' = [outside EXCEPT !.made = n, !.secret = n, !.mishap = mishap]
    BY <1>1 DEF RegisterWithBackend
  <2>3. mishap \in BOOLEAN
    OBVIOUS
  <2>4. Fit(S, Insert(Prekey(n), columns))
    <3>1. \A column \in DOMAIN columns : FitsAt(S, Prekey(n), column, columns[column])
      BY <2>1, DraftFacts, PrekeyFits
    <3>2. FitsAt(S, Prekey(n), "is", "here")
      BY <2>1, DraftFacts, PrekeyFits
    <3> QED BY <3>1, <3>2, InsertFits
  <2>5. n \in 0..2
    BY <2>1
  <2> HIDE DEF n, columns, mishap
  <2> QED BY <1>0, <2>2, <2>3, <2>4, <2>5, CallFits DEF KeysWorld
<1>2. ASSUME ListPrekeys PROVE FittingStep(S) /\ outside' \in KeysWorld
  BY <1>0, <1>2, OutsideFits DEF ListPrekeys, Outside, KeysWorld
<1>3. ASSUME NEW d \in Drafts, ListSenderKeys(d) PROVE FittingStep(S) /\ outside' \in KeysWorld
  <2> DEFINE e == <<db[Envelope(Writer(d))].key, db[Envelope(Writer(d))].seal>>
  <2>1. e \in (Drafts \cup {None}) \X (0..2)
    BY DraftFacts, EnvelopeFits
  <2>2. Outside([outside EXCEPT !.opening[d] = "fetched", !.read[d] = e])
    BY <1>3 DEF ListSenderKeys
  <2> HIDE DEF e
  <2>3. outside' = [outside EXCEPT !.opening = [@ EXCEPT ![d] = "fetched"], !.read = [@ EXCEPT ![d] = e]]
    BY <2>2 DEF Outside
  <2> QED BY <1>0, <2>1, <2>2, <2>3, OutsideFits DEF KeysWorld
<1>4. ASSUME NEW d \in Drafts, FindLocalPrekeySecret(d) PROVE FittingStep(S) /\ outside' \in KeysWorld
  <2> DEFINE seal == outside.read[d][2]
             next == IF outside.secret = seal THEN "opened" ELSE "no"
             listed == outside.listed /\ outside.secret = 0
  <2>1. \/ Outside([outside EXCEPT !.opening[d] = "opened"])
        \/ Outside([outside EXCEPT !.opening[d] = next, !.secret = 0, !.listed = listed])
    BY <1>4 DEF FindLocalPrekeySecret
  <2>2. next \in {"no", "opened"} /\ listed \in BOOLEAN
    OBVIOUS
  <2> HIDE DEF next, listed
  <2>3. CASE Outside([outside EXCEPT !.opening[d] = "opened"])
    <3>1. outside' = [outside EXCEPT !.opening = [@ EXCEPT ![d] = "opened"]]
      BY <2>3 DEF Outside
    <3> QED BY <1>0, <2>3, <3>1, OutsideFits DEF KeysWorld
  <2>4. CASE Outside([outside EXCEPT !.opening[d] = next, !.secret = 0, !.listed = listed])
    <3> DEFINE opening == [outside.opening EXCEPT ![d] = next]
    <3>1. opening \in [Drafts -> {"no", "fetched", "opened"}]
      <4>1. outside.opening \in [Drafts -> {"no", "fetched", "opened"}]
        BY <1>0 DEF KeysWorld
      <4> QED BY <2>2, <4>1
    <3>2. outside' = [outside EXCEPT !.opening = opening, !.secret = 0, !.listed = listed]
      BY <2>4 DEF Outside
    <3> HIDE DEF opening
    <3>3. outside' \in KeysWorld
      <4>1. listed \in BOOLEAN /\ 0 \in 0..2
        BY <2>2
      <4> QED BY ONLY <1>0, <3>1, <3>2, <4>1 DEF KeysWorld
    <3> QED BY <2>4, <3>3, OutsideFits
  <2> QED BY <2>1, <2>3, <2>4
<1>5. ASSUME NEW d \in Drafts, CacheSenderKey(d) PROVE FittingStep(S) /\ outside' \in KeysWorld
  <2> DEFINE key == outside.read[d][1]
  <2>1. key \in Drafts \cup {None} /\ Writer(d) \in Phones
    BY <1>0, DraftFacts DEF KeysWorld
  <2>2. outside' = [outside EXCEPT !.cached = [@ EXCEPT ![Writer(d)] = key], !.opening = [@ EXCEPT ![d] = "no"]]
    BY <1>5 DEF CacheSenderKey, Outside
  <2>3. FittingStep(S)
    BY <1>5, OutsideFits DEF CacheSenderKey
  <2> HIDE DEF key
  <2> QED BY <1>0, <2>1, <2>2, <2>3 DEF KeysWorld
<1>6. ASSUME CloseApp PROVE FittingStep(S) /\ outside' \in KeysWorld
  <2> DEFINE mishap == outside.mishap \/ \E d \in Drafts : outside.opening[d] = "opened"
             none == [d \in Drafts |-> "no"]
  <2>1. outside' = [outside EXCEPT !.opening = none, !.mishap = mishap]
    BY <1>6 DEF CloseApp, Outside
  <2>2. mishap \in BOOLEAN /\ none \in [Drafts -> {"no", "fetched", "opened"}]
    OBVIOUS
  <2>3. FittingStep(S)
    BY <1>6, OutsideFits DEF CloseApp
  <2> HIDE DEF mishap, none
  <2> QED BY <1>0, <2>1, <2>2, <2>3 DEF KeysWorld
<1> QED BY <1>1, <1>2, <1>3, <1>4, <1>5, <1>6 DEF PhoneReads

LEMMA PhoneWritesTyped ==
  ASSUME KeysTyped, topic = "keys", PhoneWrites
  PROVE  FittingStep(KeysSchema) /\ outside' \in KeysWorld
<1> DEFINE S == KeysSchema
<1> USE ChangeFits, UnionFits
<1>0. outside \in KeysWorld
  BY DEF KeysTyped
<1>1. ASSUME NEW d \in Drafts, GetPrekeyBundle(d) PROVE FittingStep(S) /\ outside' \in KeysWorld
  <2> DEFINE mishap == outside.mishap \/ Another(d)
             on == TRUE
  <2>1. PICK k \in ClaimOne \cup {None} :
          /\ Call(IF k = None THEN {} ELSE Change(k, "consumed", on))
          /\ outside' = [outside EXCEPT !.step[d] = "sealed",
                                        !.seal[d] = IF k = None THEN Signed ELSE db[k].batch,
                                        !.mishap = mishap]
    BY <1>1 DEF GetPrekeyBundle, Claim
  <2>2. mishap \in BOOLEAN /\ on \in BOOLEAN
    OBVIOUS
  <2> DEFINE seal == IF k = None THEN Signed ELSE db[k].batch
             w == IF k = None THEN {} ELSE Change(k, "consumed", on)
  <2> HIDE DEF on, mishap
  <2>3. seal \in 0..2 /\ Fit(S, w)
    <3>1. CASE k = None
      BY <3>1 DEF Signed
    <3>2. CASE k # None
      <4>1. k \in Prekeys
        BY <3>2 DEF ClaimOne
      <4> QED BY <2>2, <3>2, <4>1, PrekeyFits
    <3> QED BY <3>1, <3>2
  <2>4. Call(w) /\ outside' = [outside EXCEPT !.step = [@ EXCEPT ![d] = "sealed"], !.seal = [@ EXCEPT ![d] = seal],
                               !.mishap = mishap]
    BY <2>1
  <2> HIDE DEF seal, w
  <2> QED BY <1>0, <2>2, <2>3, <2>4, CallFits DEF KeysWorld
<1>2. ASSUME NEW d \in Drafts, UploadSenderKey(d) PROVE FittingStep(S) /\ outside' \in KeysWorld
  <2> DEFINE e == Envelope(Writer(d))
             columns == [key |-> d, seal |-> outside.seal[d]]
             is == IF Here(e) THEN {} ELSE {<<e, "is", "here">>}
  <2>1. /\ FitsAt(S, e, "is", "here")
        /\ \A column \in DOMAIN columns : FitsAt(S, e, column, columns[column])
    <3>1. Writer(d) \in Phones /\ outside.seal[d] \in 0..2
      BY <1>0, DraftFacts DEF KeysWorld
    <3> QED BY <3>1, EnvelopeFits
  <2>2. Fit(S, Update(e, columns))
    BY <2>1, UpdateFits
  <2>3. Fit(S, is)
    BY <2>1 DEF Fit
  <2>4. Call(is \cup Update(e, columns)) /\ outside' = [outside EXCEPT !.step = [@ EXCEPT ![d] = "uploaded"]]
    BY <1>2 DEF UploadSenderKey
  <2> HIDE DEF is, columns, e
  <2> QED BY <1>0, <2>2, <2>3, <2>4, CallFits DEF KeysWorld
<1>3. ASSUME NEW d \in Drafts, SendSealed(d) PROVE FittingStep(S) /\ outside' \in KeysWorld
  <2> DEFINE mishap == outside.mishap \/ Pending(Envelope(Writer(d)))
  <2>1. outside' = [outside EXCEPT !.step = [@ EXCEPT ![d] = "sent"], !.used = [@ EXCEPT ![d] = d],
                                   !.saved = [@ EXCEPT ![Writer(d)] = d], !.mishap = mishap]
    BY <1>3 DEF SendSealed, Outside
  <2>2. mishap \in BOOLEAN /\ Writer(d) \in Phones
    BY DraftFacts
  <2>3. FittingStep(S)
    BY <1>3, OutsideFits DEF SendSealed
  <2> HIDE DEF mishap
  <2> QED BY <1>0, <2>1, <2>2, <2>3 DEF KeysWorld
<1>4. ASSUME NEW d \in Drafts, SendWithSaved(d) PROVE FittingStep(S) /\ outside' \in KeysWorld
  <2> DEFINE key == outside.saved[Writer(d)]
  <2>1. outside' = [outside EXCEPT !.step = [@ EXCEPT ![d] = "sent"], !.used = [@ EXCEPT ![d] = key]]
    BY <1>4 DEF SendWithSaved, Outside
  <2>2. key \in Drafts \cup {None}
    BY <1>0, DraftFacts DEF KeysWorld
  <2>3. FittingStep(S)
    BY <1>4, OutsideFits DEF SendWithSaved
  <2> HIDE DEF key
  <2> QED BY <1>0, <2>1, <2>2, <2>3 DEF KeysWorld
<1>5. ASSUME NEW d \in Drafts, SendFails(d) PROVE FittingStep(S) /\ outside' \in KeysWorld
  <2>1. outside' = [outside EXCEPT !.step = [@ EXCEPT ![d] = "failed"]]
    BY <1>5 DEF SendFails, Outside
  <2>2. FittingStep(S)
    BY <1>5, OutsideFits DEF SendFails
  <2> QED BY <1>0, <2>1, <2>2 DEF KeysWorld
<1>6. ASSUME NEW d \in Drafts, SkipDevice(d) PROVE FittingStep(S) /\ outside' \in KeysWorld
  <2> DEFINE mishap == outside.mishap \/ Another(d)
             on == TRUE
             skipped == outside.skipped \cup {d}
  <2>1. outside' = [outside EXCEPT !.step = [@ EXCEPT ![d] = "uploaded"], !.skipped = skipped, !.mishap = mishap]
    BY <1>6 DEF SkipDevice
  <2>2. mishap \in BOOLEAN /\ on \in BOOLEAN /\ skipped \subseteq Drafts
    BY <1>0 DEF KeysWorld
  <2>3. Call({}) \/ \E k \in ClaimOne : Claim(k)
    BY <1>6 DEF SkipDevice
  <2>4. ASSUME NEW k \in ClaimOne, Claim(k) PROVE FittingStep(S)
    <3>1. k \in Prekeys
      BY DEF ClaimOne
    <3>2. k = None => Call({})
      BY <2>4 DEF Claim
    <3>3. k # None => Call(Change(k, "consumed", on))
      BY <2>4 DEF Claim
    <3> HIDE DEF on
    <3>4. Fit(S, Change(k, "consumed", on))
      BY <2>2, <3>1, PrekeyFits
    <3> QED BY <3>2, <3>3, <3>4, CallFits
  <2>5. FittingStep(S)
    BY <2>3, <2>4, CallFits
  <2> HIDE DEF mishap, on, skipped
  <2> QED BY <1>0, <2>1, <2>2, <2>5 DEF KeysWorld
<1> QED BY <1>1, <1>2, <1>3, <1>4, <1>5, <1>6 DEF PhoneWrites

LEMMA KeysTypesStay ==
  ASSUME KeysTyped, topic = "keys", DOMAIN open = Slot \cup Job, KeysNext
  PROVE  KeysTyped'
<1>1. outside \in KeysWorld
  BY DEF KeysTyped
<1>2. ASSUME NEW t \in Slot, Commit(t) \/ (RollBack(t) /\ outside' = [outside EXCEPT !.mishap = TRUE])
      PROVE  FittingStep(KeysSchema) /\ outside' \in KeysWorld
  BY <1>1, <1>2, EndFits DEF Commit, KeysWorld
<1>3. FittingStep(KeysSchema) /\ outside' \in KeysWorld
  BY <1>2, PhoneReadsTyped, PhoneWritesTyped DEF KeysNext
<1> QED BY <1>3, KeysProducts, TypedStays DEF KeysTyped

(* Conversations of two and translations.                                  *)
LEMMA ChatProducts == \A row \in DOMAIN ChatSchema : Product(ChatSchema[row])
<1>1. Product(ConversationRow) /\ Product(UsageRow) /\ Product([is : Is])
  BY DEF Product, ConversationRow, UsageRow
<1>2. Product(AttemptRow)
  BY DEF Product, AttemptRow
<1>3. Product(VipMessageRow)
  BY DEF Product, VipMessageRow
<1> QED BY <1>1, <1>2, <1>3 DEF ChatSchema

LEMMA ChatNames ==
  /\ \A c \in Conversations : c[1] = "conversation"
  /\ \A k \in Attempts : k[1] = "attempt"
  /\ Usage[1] = "usage" /\ Preferences[1] = "preferences"
BY DEF Conversations, Conversation, Attempts, Attempt, Usage, Preferences

LEMMA ChatRows ==
  ASSUME ChatTyped, topic = "chat"
  PROVE  /\ \A r \in Row : r \in DOMAIN ChatSchema /\ ChatSchema[r] = VipMessageRow /\ db[r] \in VipMessageRow
         /\ \A c \in Conversations :
              c \in DOMAIN ChatSchema /\ ChatSchema[c] = ConversationRow /\ db[c] \in ConversationRow
         /\ \A k \in Attempts : k \in DOMAIN ChatSchema /\ ChatSchema[k] = AttemptRow /\ db[k] \in AttemptRow
         /\ Usage \in DOMAIN ChatSchema /\ ChatSchema[Usage] = UsageRow /\ db[Usage] \in UsageRow
         /\ Preferences \in DOMAIN ChatSchema /\ ChatSchema[Preferences] = [is : Is]
         /\ db[Preferences] \in [is : Is]
<1>1. /\ \A r \in Row : r \in DOMAIN ChatSchema /\ ChatSchema[r] = VipMessageRow
      /\ \A c \in Conversations : c \in DOMAIN ChatSchema /\ ChatSchema[c] = ConversationRow
      /\ \A k \in Attempts : k \in DOMAIN ChatSchema /\ ChatSchema[k] = AttemptRow
      /\ Usage \in DOMAIN ChatSchema /\ ChatSchema[Usage] = UsageRow
      /\ Preferences \in DOMAIN ChatSchema /\ ChatSchema[Preferences] = [is : Is]
  BY ChatNames, ChatAssumption DEF ChatSchema
<1> QED BY <1>1 DEF ChatTyped, Typed

LEMMA MessageFits ==
  ASSUME ChatTyped, topic = "chat", NEW r \in Row
  PROVE  /\ FitsAt(ChatSchema, r, "is", "here")
         /\ \A n \in 0..2 : FitsAt(ChatSchema, r, "client", n)
         /\ \A v \in {"completed", "failed"} : FitsAt(ChatSchema, r, "status", v)
<1>1. r \in DOMAIN ChatSchema /\ ChatSchema[r] = VipMessageRow /\ db[r] \in VipMessageRow
  BY ChatRows
<1> QED BY <1>1 DEF FitsAt, VipMessageRow, Is

LEMMA ConversationFits ==
  ASSUME ChatTyped, topic = "chat", NEW c \in Conversations
  PROVE  /\ FitsAt(ChatSchema, c, "is", "here")
         /\ \A type \in ConversationTypes : FitsAt(ChatSchema, c, "type", type)
<1>1. c \in DOMAIN ChatSchema /\ ChatSchema[c] = ConversationRow /\ db[c] \in ConversationRow
  BY ChatRows
<1> QED BY <1>1 DEF FitsAt, ConversationRow, Is

LEMMA AttemptFits ==
  ASSUME ChatTyped, topic = "chat", NEW k \in Attempts
  PROVE  /\ FitsAt(ChatSchema, k, "is", "here")
         /\ \A v \in {"completed", "failed"} : FitsAt(ChatSchema, k, "status", v)
         /\ \A r \in Row \cup {None} : FitsAt(ChatSchema, k, "of", r)
<1>1. k \in DOMAIN ChatSchema /\ ChatSchema[k] = AttemptRow /\ db[k] \in AttemptRow
  BY ChatRows
<1> QED BY <1>1 DEF FitsAt, AttemptRow, Is

LEMMA UsageFits ==
  ASSUME ChatTyped, topic = "chat"
  PROVE  /\ FitsAt(ChatSchema, Usage, "is", "here")
         /\ \A n \in Nat : FitsAt(ChatSchema, Usage, "requests", n)
         /\ db[Usage].requests \in Nat
<1>1. Usage \in DOMAIN ChatSchema /\ ChatSchema[Usage] = UsageRow /\ db[Usage] \in UsageRow
  BY ChatRows
<1> QED BY <1>1 DEF FitsAt, UsageRow, Is

LEMMA ChatTypesStay ==
  ASSUME ChatTyped, topic = "chat", DOMAIN open = Slot \cup Job, ChatNext
  PROVE  ChatTyped'
<1> DEFINE S == ChatSchema
<1> USE ChangeFits, UnionFits
<1>1. ASSUME NEW outcome PROVE Fit(S, Increment(outcome))
  <2> DEFINE columns == [requests |-> 1]
             n == db[Usage].requests + 1
  <2>1. \A column \in DOMAIN columns : FitsAt(S, Usage, column, columns[column])
    BY UsageFits
  <2>2. Fit(S, Insert(Usage, columns))
    BY <2>1, UsageFits, InsertFits
  <2>3. n \in Nat
    BY UsageFits
  <2>4. Fit(S, Change(Usage, "requests", n))
    BY <2>3, UsageFits
  <2> QED BY <2>2, <2>4 DEF Increment
<1>2. ASSUME NEW k \in Attempts, NEW outcome \in {"completed", "failed"}, NEW r \in Row \cup {None}
      PROVE  Fit(S, TranslateAndRecord(k, outcome, r))
  <2> DEFINE columns == [status |-> outcome, of |-> r]
  <2>1. \A column \in DOMAIN columns : FitsAt(S, k, column, columns[column])
    BY AttemptFits
  <2>2. Fit(S, Insert(k, columns))
    BY <2>1, AttemptFits, InsertFits
  <2> QED BY <1>1, <2>2 DEF TranslateAndRecord
<1>3. ASSUME NEW type \in ConversationTypes, NEW c \in Conversations, StartConversation(type, c)
      PROVE  FittingStep(S)
  <2> DEFINE columns == [type |-> type]
  <2>1. \A column \in DOMAIN columns : FitsAt(S, c, column, columns[column])
    BY ConversationFits
  <2>2. Fit(S, Insert(c, columns))
    BY <2>1, ConversationFits, InsertFits
  <2> QED BY <1>3, <2>2, RequestFits DEF StartConversation
<1>4. ASSUME SetLanguagePreferences PROVE FittingStep(S)
  <2>1. FitsAt(S, Preferences, "is", "here")
    BY ChatRows DEF FitsAt, Is
  <2>2. \A column \in DOMAIN <<>> : FitsAt(S, Preferences, column, <<>>[column])
    OBVIOUS
  <2>3. Fit(S, Insert(Preferences, <<>>))
    BY <2>1, <2>2, InsertFits
  <2> QED BY <1>4, <2>3, RequestFits DEF SetLanguagePreferences
<1>5. ASSUME NEW k \in Attempts, NEW outcome \in {"completed", "failed"}, InterpreterTranslate(k, outcome)
      PROVE  FittingStep(S)
  BY <1>2, <1>5, RequestFits DEF InterpreterTranslate
<1>6. ASSUME NEW k \in Attempts, NEW outcome \in {"completed", "failed"}, NEW r \in Row, NEW client \in ClientIds,
             SendVipMessage(r, client, k, outcome)
      PROVE  FittingStep(S)
  <2> DEFINE columns == [client |-> client, status |-> outcome]
  <2>1. \A column \in DOMAIN columns : FitsAt(S, r, column, columns[column])
    BY MessageFits DEF ClientIds
  <2>2. Fit(S, Insert(r, columns))
    BY <2>1, MessageFits, InsertFits
  <2>3. Fit(S, Insert(r, columns) \cup TranslateAndRecord(k, outcome, r))
    BY <1>2, <2>2
  <2> QED BY <1>6, <2>3, RequestFits DEF SendVipMessage
<1>7. ASSUME NEW k \in Attempts, NEW outcome \in {"completed", "failed"}, NEW r \in Row,
             RetryTranslation(r, k, outcome)
      PROVE  FittingStep(S)
  <2>1. Fit(S, Change(r, "status", outcome) \cup TranslateAndRecord(k, outcome, r))
    BY <1>2, MessageFits
  <2> QED BY <1>7, <2>1, RequestFits DEF RetryTranslation
<1>8. CircleChanges => FittingStep(S)
  BY OutsideFits DEF CircleChanges
<1>9. ASSUME NEW t \in Slot, Commit(t) \/ (RollBack(t) /\ UNCHANGED outside) PROVE FittingStep(S)
  BY <1>9, EndFits
<1>10. FittingStep(S)
  BY <1>3, <1>4, <1>5, <1>6, <1>7, <1>8, <1>9 DEF ChatNext, VipMessages
<1> QED BY <1>10, ChatProducts, TypedStays DEF ChatTyped

(* The office, requests of data subjects and locations.                    *)
LEMMA AdminFits ==
  ASSUME OfficeTyped, topic = "office", NEW a \in Row
  PROVE  /\ FitsAt(OfficeSchema, a, "is", "here")
         /\ \A v \in Roles : FitsAt(OfficeSchema, a, "role", v)
         /\ \A v \in BOOLEAN : FitsAt(OfficeSchema, a, "active", v) /\ FitsAt(OfficeSchema, a, "enrolled", v)
<1>1. a \in DOMAIN OfficeSchema /\ OfficeSchema[a] = AdminRow /\ db[a] \in AdminRow
  BY DEF OfficeTyped, Typed, OfficeSchema
<1> QED BY <1>1 DEF FitsAt, AdminRow, Is

LEMMA OfficeTypesStay ==
  ASSUME OfficeTyped, topic = "office", DOMAIN open = Slot \cup Job, OfficeNext
  PROVE  OfficeTyped'
<1> DEFINE S == OfficeSchema
           on == TRUE
<1> USE ChangeFits, UnionFits
<1>1. Product(AdminRow)
  BY DEF Product, AdminRow
<1>2. \A row \in DOMAIN S : Product(S[row])
  BY <1>1 DEF OfficeSchema
<1>3. on = TRUE /\ on \in BOOLEAN
  OBVIOUS
<1> HIDE DEF on
<1>4. ASSUME NEW a \in Row, StartAdminLogin(a) \/ CompleteAdminLogin(a) PROVE FittingStep(S)
  BY <1>4, CallFits DEF StartAdminLogin, CompleteAdminLogin
<1>5. ASSUME NEW a \in Row, EnrollMfa(a) PROVE FittingStep(S)
  <2>1. Fit(S, Change(a, "enrolled", on))
    BY <1>3, AdminFits
  <2> QED BY <1>3, <1>5, <2>1, CallFits DEF EnrollMfa
<1>6. ASSUME NEW a \in Row, TokenExpires(a) \/ LoginExpires(a) PROVE FittingStep(S)
  BY <1>6, OutsideFits DEF TokenExpires, LoginExpires
<1>7. ASSUME NEW actor, NEW w, ByAdmin(actor, w), Fit(S, w) PROVE FittingStep(S)
  BY <1>7, CallFits DEF ByAdmin
<1>8. ASSUME NEW actor, NEW a \in Row, NEW role \in Roles, CreateAdmin(actor, a, role) PROVE FittingStep(S)
  <2> DEFINE columns == [role |-> role]
  <2>1. \A column \in DOMAIN columns : FitsAt(S, a, column, columns[column])
    BY AdminFits
  <2>2. Fit(S, Insert(a, columns))
    BY <2>1, AdminFits, InsertFits
  <2> QED BY <1>7, <1>8, <2>2 DEF CreateAdmin
<1>9. ASSUME NEW actor, NEW a \in Row, NEW role \in Roles, ChangeAdminRole(actor, a, role) PROVE FittingStep(S)
  BY <1>7, <1>9, AdminFits DEF ChangeAdminRole
<1>10. ASSUME NEW actor, NEW a \in Row, NEW v \in BOOLEAN, SetAdminActive(actor, a, v) PROVE FittingStep(S)
  BY <1>7, <1>10, AdminFits DEF SetAdminActive
<1>11. ASSUME NEW t \in Slot, Commit(t) \/ RollBack(t) PROVE FittingStep(S)
  BY <1>11, EndFits
<1>12. FittingStep(S)
  BY <1>4, <1>5, <1>6, <1>8, <1>9, <1>10, <1>11 DEF OfficeNext, AdminSteps
<1> QED BY <1>2, <1>12, TypedStays DEF OfficeTyped

LEMMA ComplianceProducts == \A row \in DOMAIN ComplianceSchema : Product(ComplianceSchema[row])
<1>1. Product(SubjectRow)
  BY DEF Product, SubjectRow
<1>2. Product(DataRequestRow)
  BY DEF Product, DataRequestRow
<1> QED BY <1>1, <1>2 DEF ComplianceSchema

LEMMA ComplianceRows ==
  ASSUME ComplianceTyped, topic = "compliance"
  PROVE  /\ Subject \in DOMAIN ComplianceSchema /\ ComplianceSchema[Subject] = SubjectRow
         /\ db[Subject] \in SubjectRow
         /\ \A k \in DataRequests : /\ k \in DOMAIN ComplianceSchema /\ ComplianceSchema[k] = DataRequestRow
                                    /\ db[k] \in DataRequestRow
<1>1. (\A k \in DataRequests : k[1] = "data_request") /\ Subject[1] = "subject"
  BY DEF DataRequests, DataRequest, Subject
<1>2. /\ Subject \in DOMAIN ComplianceSchema /\ ComplianceSchema[Subject] = SubjectRow
      /\ \A k \in DataRequests : k \in DOMAIN ComplianceSchema /\ ComplianceSchema[k] = DataRequestRow
  BY <1>1 DEF ComplianceSchema
<1> QED BY <1>2 DEF ComplianceTyped, Typed

LEMMA SubjectFits ==
  ASSUME ComplianceTyped, topic = "compliance"
  PROVE  /\ FitsAt(ComplianceSchema, Subject, "is", "gone")
         /\ \A v \in {"active", "suspended", "deactivated"} : FitsAt(ComplianceSchema, Subject, "state", v)
         /\ \A v \in BOOLEAN : FitsAt(ComplianceSchema, Subject, "due", v)
<1>1. /\ Subject \in DOMAIN ComplianceSchema /\ ComplianceSchema[Subject] = SubjectRow
      /\ db[Subject] \in SubjectRow
  BY ComplianceRows
<1> QED BY <1>1 DEF FitsAt, SubjectRow, Is

LEMMA DataRequestFits ==
  ASSUME ComplianceTyped, topic = "compliance", NEW k \in DataRequests
  PROVE  /\ FitsAt(ComplianceSchema, k, "is", "here") /\ FitsAt(ComplianceSchema, k, "is", "gone")
         /\ \A v \in {"access", "deletion"} : FitsAt(ComplianceSchema, k, "type", v)
         /\ \A v \in {"in_progress", "completed", "rejected"} : FitsAt(ComplianceSchema, k, "status", v)
         /\ \A v \in BOOLEAN : FitsAt(ComplianceSchema, k, "export", v)
<1>1. k \in DOMAIN ComplianceSchema /\ ComplianceSchema[k] = DataRequestRow /\ db[k] \in DataRequestRow
  BY ComplianceRows
<1> QED BY <1>1 DEF FitsAt, DataRequestRow, Is

LEMMA ComplianceTypesStay ==
  ASSUME ComplianceTyped, topic = "compliance", DOMAIN open = Slot \cup Job, ComplianceNext
  PROVE  ComplianceTyped'
<1> DEFINE S == ComplianceSchema
           on == TRUE
           off == FALSE
<1> USE ChangeFits, UnionFits
<1>1. on = TRUE /\ on \in BOOLEAN /\ off = FALSE /\ off \in BOOLEAN
  OBVIOUS
<1> HIDE DEF on, off
<1>2. ASSUME NEW state \in {"active", "deactivated"}, NEW due \in BOOLEAN
      PROVE  Fit(S, Update(Subject, [state |-> state, due |-> due]))
  <2> DEFINE columns == [state |-> state, due |-> due]
  <2>1. DOMAIN columns = {"state", "due"} /\ columns["state"] = state /\ columns["due"] = due
    OBVIOUS
  <2> HIDE DEF columns
  <2>2. \A column \in DOMAIN columns : FitsAt(S, Subject, column, columns[column])
    BY <2>1, SubjectFits
  <2>3. Fit(S, Update(Subject, columns))
    BY <2>2, UpdateFits
  <2> QED BY <2>3 DEF columns
<1>3. ASSUME NEW k \in DataRequests, NEW type \in {"access", "deletion"}, FileRequest(k, type)
      PROVE  FittingStep(S)
  <2> DEFINE columns == [type |-> type]
  <2>1. \A column \in DOMAIN columns : FitsAt(S, k, column, columns[column])
    BY DataRequestFits
  <2>2. Fit(S, Insert(k, columns))
    BY <2>1, DataRequestFits, InsertFits
  <2> QED BY <1>3, <2>2, RequestFits DEF FileRequest
<1>4. ASSUME NEW k \in DataRequests, MarkInProgress(k) \/ RejectRequest(k) PROVE FittingStep(S)
  BY <1>4, DataRequestFits, RequestFits DEF MarkInProgress, RejectRequest
<1>5. ASSUME NEW k \in DataRequests, CompleteRequest(k) PROVE FittingStep(S)
  <2> DEFINE columns == [status |-> "completed", export |-> on]
  <2>1. DOMAIN columns = {"status", "export"} /\ columns["status"] = "completed" /\ columns["export"] = on
    OBVIOUS
  <2>2. Fit(S, Update(k, columns))
    <3> HIDE DEF columns
    <3>1. \A column \in DOMAIN columns : FitsAt(S, k, column, columns[column])
      BY <1>1, <2>1, DataRequestFits
    <3> QED BY <3>1, UpdateFits
  <2>3. Fit(S, Change(k, "status", "completed") \cup Deactivated)
    <3>1. Fit(S, Update(Subject, [state |-> "deactivated", due |-> on]))
      BY <1>1, <1>2
    <3> QED BY <1>1, <3>1, DataRequestFits DEF Deactivated
  <2>4. \/ Call(Update(k, columns)) \/ Call(Change(k, "status", "completed") \cup Deactivated)
    BY <1>1, <1>5 DEF CompleteRequest
  <2> HIDE DEF columns
  <2> QED BY <2>2, <2>3, <2>4, CallFits
<1>6. ASSUME AccountChanges PROVE FittingStep(S)
  <2>1. Fit(S, Update(Subject, [state |-> "active", due |-> off]))
    BY <1>1, <1>2
  <2>2. \A state \in {"active", "suspended"} : Fit(S, Change(Subject, "state", state))
    BY SubjectFits
  <2>3. \/ Call(Update(Subject, [state |-> "active", due |-> off]))
        \/ \E state \in {"active", "suspended"} : Call(Change(Subject, "state", state))
    BY <1>1, <1>6 DEF AccountChanges
  <2> QED BY <2>1, <2>2, <2>3, CallFits
<1>7. ASSUME GraceEnds PROVE FittingStep(S)
  BY <1>7, OutsideFits DEF GraceEnds
<1>8. ASSUME NEW t \in Job, DeleteSubject(t) PROVE FittingStep(S)
  <2> DEFINE w == UNION {Delete(k) : k \in {r \in DataRequests : Here(r)}}
  <2>1. Fit(S, w)
    <3>1. \A k \in DataRequests : Fit(S, Delete(k))
      BY DataRequestFits, DeleteFits
    <3> QED BY <3>1 DEF Fit
  <2>2. Fit(S, Delete(Subject) \cup w)
    BY <2>1, SubjectFits, DeleteFits
  <2> QED BY <1>8, <2>2 DEF DeleteSubject, FittingStep
<1>9. ASSUME NEW t \in Slot \cup Job, Commit(t) \/ RollBack(t) PROVE FittingStep(S)
  BY <1>9, EndFits
<1>10. FittingStep(S)
  BY <1>3, <1>4, <1>5, <1>6, <1>7, <1>8, <1>9 DEF ComplianceNext
<1> QED BY <1>10, ComplianceProducts, TypedStays DEF ComplianceTyped

LEMMA LocationProducts == \A row \in DOMAIN LocationSchema : Product(LocationSchema[row])
<1>1. Product(ShareRow)
  BY DEF Product, ShareRow
<1>2. Product(PingRow)
  BY DEF Product, PingRow
<1> QED BY <1>1, <1>2 DEF LocationSchema

LEMMA LocationNames == (\A k \in Shares : k[1] = "share") /\ \A p \in Pings : p[1] = "ping"
BY DEF Shares, Share, Pings, Ping

LEMMA LocationRows ==
  ASSUME LocationTyped, topic = "location"
  PROVE  /\ \A k \in Shares : k \in DOMAIN LocationSchema /\ LocationSchema[k] = ShareRow /\ db[k] \in ShareRow
         /\ \A p \in Pings : p \in DOMAIN LocationSchema /\ LocationSchema[p] = PingRow /\ db[p] \in PingRow
<1>1. /\ \A k \in Shares : k \in DOMAIN LocationSchema /\ LocationSchema[k] = ShareRow
      /\ \A p \in Pings : p \in DOMAIN LocationSchema /\ LocationSchema[p] = PingRow
  BY LocationNames DEF LocationSchema
<1> QED BY <1>1 DEF LocationTyped, Typed

LEMMA ShareFits ==
  ASSUME LocationTyped, topic = "location", NEW k \in Shares
  PROVE  /\ FitsAt(LocationSchema, k, "is", "here")
         /\ \A n \in 0..6 : FitsAt(LocationSchema, k, "expires", n)
         /\ \A n \in Moments : FitsAt(LocationSchema, k, "revoked", n)
<1>1. k \in DOMAIN LocationSchema /\ LocationSchema[k] = ShareRow /\ db[k] \in ShareRow
  BY LocationRows
<1> QED BY <1>1 DEF FitsAt, ShareRow, Is

LEMMA PingFits ==
  ASSUME LocationTyped, topic = "location", NEW p \in Pings
  PROVE  /\ FitsAt(LocationSchema, p, "is", "here") /\ FitsAt(LocationSchema, p, "is", "gone")
         /\ \A k \in Shares : FitsAt(LocationSchema, p, "of", k)
         /\ \A n \in Moments : FitsAt(LocationSchema, p, "at", n)
<1>1. p \in DOMAIN LocationSchema /\ LocationSchema[p] = PingRow /\ db[p] \in PingRow
  BY LocationRows
<1> QED BY <1>1 DEF FitsAt, PingRow, Is

LEMMA LocationTypesStay ==
  ASSUME LocationTyped, topic = "location", DOMAIN open = Slot \cup Job, LocationNext
  PROVE  LocationTyped'
<1> DEFINE S == LocationSchema
           World == [now : Moments, trusted : BOOLEAN]
<1> USE ChangeFits, UnionFits
<1>0. outside \in World /\ now \in Moments
  BY DEF LocationTyped, now
<1>1. ASSUME NEW k \in Shares, CreateShare(k) PROVE FittingStep(S) /\ outside' \in World
  <2> DEFINE columns == [expires |-> now + Duration]
  <2>1. now + Duration \in 0..6
    BY <1>0 DEF Moments, Duration
  <2>2. \A column \in DOMAIN columns : FitsAt(S, k, column, columns[column])
    BY <2>1, ShareFits
  <2>3. Fit(S, Insert(k, columns))
    BY <2>2, ShareFits, InsertFits
  <2> QED BY <1>0, <1>1, <2>3, RequestFits DEF CreateShare, Request
<1>2. ASSUME NEW k \in Shares, RevokeShare(k) PROVE FittingStep(S) /\ outside' \in World
  BY <1>0, <1>2, ShareFits, RequestFits DEF RevokeShare, Request
<1>3. ASSUME NEW k \in Shares, NEW p \in Pings, RecordPing(k, p) PROVE FittingStep(S) /\ outside' \in World
  <2> DEFINE columns == [of |-> k, at |-> now]
  <2>1. \A column \in DOMAIN columns : FitsAt(S, p, column, columns[column])
    BY <1>0, PingFits
  <2>2. Fit(S, Insert(p, columns))
    BY <2>1, PingFits, InsertFits
  <2> QED BY <1>0, <1>3, <2>2, RequestFits DEF RecordPing, Request
<1>4. ASSUME NEW t \in Job, PurgeExpired(t) PROVE FittingStep(S) /\ outside' \in World
  <2> DEFINE due == {p \in Pings : Here(p) /\ Past(db[p].of)}
             w == UNION {Delete(p) : p \in due}
  <2>1. Fit(S, w)
    <3>1. \A p \in Pings : Fit(S, Delete(p))
      BY PingFits, DeleteFits
    <3> QED BY <3>1 DEF Fit
  <2> QED BY <1>0, <1>4, <2>1 DEF PurgeExpired, FittingStep
<1>5. ASSUME Clock PROVE FittingStep(S) /\ outside' \in World
  <2>1. now + 1 \in Moments /\ outside' = [outside EXCEPT !.now = now + 1]
    BY <1>0, <1>5 DEF Clock, Outside, Moments, now
  <2> QED BY <1>0, <1>5, <2>1, OutsideFits DEF Clock
<1>6. ASSUME TrustEnds PROVE FittingStep(S) /\ outside' \in World
  BY <1>0, <1>6, OutsideFits DEF TrustEnds, Outside
<1>7. ASSUME NEW t \in Slot \cup Job, Commit(t) \/ (RollBack(t) /\ UNCHANGED outside)
      PROVE  FittingStep(S) /\ outside' \in World
  BY <1>0, <1>7, EndFits DEF Commit
<1>8. FittingStep(S) /\ outside' \in World
  BY <1>1, <1>2, <1>3, <1>4, <1>5, <1>6, <1>7 DEF LocationNext
<1> QED BY <1>8, LocationProducts, TypedStays DEF LocationTyped

(* The rows each topic starts with are of their types.                     *)
LEMMA TypedStarts ==
  ASSUME NEW name, NEW schema, NEW rows, NEW world, Start(name, rows, world),
         DOMAIN rows = DOMAIN schema, \A k \in DOMAIN schema : rows[k] \in schema[k]
  PROVE  topic = name /\ outside = world /\ Typed(schema)
BY StartOpens DEF Typed, Fit

LEMMA RoomTypesStart ==
  ASSUME MeetingsInit
  PROVE  RoomTyped
<1> DEFINE host == [NoRow EXCEPT !.is = "here", !.user = Host, !.role = "host"]
           room(w, s) == [is |-> "here", status |-> "scheduled", locked |-> FALSE,
                          waiting_room |-> w, scheduled |-> s]
           rows(w, s) == [k \in Row \cup {Meeting} |->
                           IF k = Meeting THEN room(w, s) ELSE IF k = HostRow THEN host ELSE NoRow]
           world(s) == [clock |-> IF s THEN "early" ELSE "due", leaves |-> {},
                        page |-> [p \in Row |-> "form"]]
<1>1. PICK w, s \in BOOLEAN : Start("room", rows(w, s), world(s))
  BY DEF MeetingsInit, Participant
<1>2. NoRow \in ParticipantRow
  BY DEF NoRow, ParticipantRow, Is
<1>3. host \in ParticipantRow
  BY <1>2 DEF ParticipantRow, Is
<1>4. room(w, s) \in MeetingRow
  BY DEF MeetingRow, Is
<1>5. world(s) \in [clock : {"early", "prep", "due"}, leaves : SUBSET Row,
                    page : [Row -> {"form", "waiting", "token", "room"}]]
  OBVIOUS
<1> HIDE DEF host, room, world
<1>6. DOMAIN rows(w, s) = DOMAIN RoomSchema /\ \A k \in DOMAIN RoomSchema : rows(w, s)[k] \in RoomSchema[k]
  BY <1>2, <1>3, <1>4 DEF RoomSchema
<1> HIDE DEF rows
<1> QED BY <1>1, <1>5, <1>6, TypedStarts DEF RoomTyped

LEMMA RecordTypesStart ==
  ASSUME RecordsInit
  PROVE  RecordsTyped
<1> DEFINE rows == [k \in Row \cup {Poll, Breakout} |->
                     IF k \in Row
                     THEN [is |-> "none", kind |-> None, who |-> None, value |-> 0, status |-> "open"]
                     ELSE [is |-> "none", closed |-> FALSE]]
           world == [upvotes |-> [r \in Row |-> 0], inBreakout |-> {}]
<1>1. DOMAIN rows = DOMAIN RecordSchema /\ \A k \in DOMAIN RecordSchema : rows[k] \in RecordSchema[k]
  BY DEF RecordSchema, RecordRow, OpenRow, Is
<1>2. world \in [upvotes : [Row -> Nat], inBreakout : SUBSET User]
  OBVIOUS
<1>3. Start("records", rows, world)
  BY DEF RecordsInit
<1> HIDE DEF rows, world
<1> QED BY <1>1, <1>2, <1>3, TypedStarts DEF RecordsTyped

LEMMA StageTypesStart ==
  ASSUME StageInit
  PROVE  StageTyped
<1> DEFINE rows(host) == [p \in Row |-> [is |-> "here", role |-> IF p = host THEN "host" ELSE "participant",
                                         stage |-> IF p = host THEN "on_stage" ELSE "audience"]]
           world == [connected |-> {}, publishes |-> {}, tokens |-> [p \in Row |-> {}], unmuted |-> {},
                     raced |-> FALSE]
<1>1. PICK host \in Row : Start("stage", rows(host), world)
  BY DEF StageInit
<1>2. DOMAIN rows(host) = DOMAIN StageSchema /\ \A k \in DOMAIN StageSchema : rows(host)[k] \in StageSchema[k]
  BY DEF StageSchema, StageRow, Is
<1> HIDE DEF rows, world
<1> QED BY <1>1, <1>2, TypedStarts DEF StageTyped

LEMMA MinutesTypesStart ==
  ASSUME MinutesInit
  PROVE  MinutesTyped
<1> DEFINE row(n) == [is |-> "here", status |-> "scheduled", planned |-> ClampDuration(n), added |-> 0]
           rows(n) == [k \in {"minutes"} |-> row(n)]
           world == [granted |-> 0]
<1>1. PICK n \in (1..Minutes + 1) \cup {None} : Start("minutes", rows(n), world)
  BY DEF MinutesInit
<1>2. ClampDuration(n) \in (0..Minutes) \cup {None}
  BY ToolsAssumption DEF ClampDuration
<1>3. row(n) \in MinutesRow
  BY <1>2 DEF MinutesRow, Is
<1>4. world \in [granted : Nat]
  OBVIOUS
<1> HIDE DEF row, world
<1>5. DOMAIN rows(n) = DOMAIN MinutesSchema /\ \A k \in DOMAIN MinutesSchema : rows(n)[k] \in MinutesSchema[k]
  BY <1>3 DEF MinutesSchema
<1> HIDE DEF rows
<1> QED BY <1>1, <1>4, <1>5, TypedStarts DEF MinutesTyped

LEMMA AttendanceTypesStart ==
  ASSUME AttendanceInit
  PROVE  AttendanceTyped
<1> DEFINE rows == [p \in Row |-> [is |-> "here", joined |-> None, left |-> None, removed |-> FALSE]]
           world == [now |-> 0, there |-> {}, busiest |-> 0, lost |-> FALSE, blurred |-> FALSE]
<1>1. DOMAIN rows = DOMAIN AttendanceSchema /\ \A k \in DOMAIN AttendanceSchema : rows[k] \in AttendanceSchema[k]
  BY DEF AttendanceSchema, AttendanceRow, Is
<1>2. world \in [now : Nat, there : SUBSET Row, busiest : Nat, lost : BOOLEAN, blurred : BOOLEAN]
  OBVIOUS
<1>3. Start("attendance", rows, world)
  BY DEF AttendanceInit
<1> HIDE DEF rows, world
<1> QED BY <1>1, <1>2, <1>3, TypedStarts DEF AttendanceTyped

LEMMA FilesTypesStart ==
  ASSUME FilesInit
  PROVE  FilesTyped
<1> DEFINE rows == [k \in Row \cup {Occasion} |->
                     IF k = Occasion THEN [is |-> "here"]
                     ELSE [is |-> "none", kind |-> None, status |-> "ready"]]
           world == [egress |-> {}, objects |-> {}, failed |-> FALSE, deleted |-> FALSE]
<1>1. DOMAIN rows = DOMAIN FilesSchema /\ \A k \in DOMAIN FilesSchema : rows[k] \in FilesSchema[k]
  BY DEF FilesSchema, FileRow, Is
<1>2. world \in [egress : SUBSET Row, objects : SUBSET Row, failed : BOOLEAN, deleted : BOOLEAN]
  OBVIOUS
<1>3. Start("files", rows, world)
  BY DEF FilesInit
<1> HIDE DEF rows, world
<1> QED BY <1>1, <1>2, <1>3, TypedStarts DEF FilesTyped

LEMMA VipTypesStart ==
  ASSUME VipInit
  PROVE  VipTyped
<1> DEFINE row(k) ==
             CASE k = Subscriber -> [is |-> "here", tier |-> "normal"]
               [] k \in Subscriptions -> [is |-> "none", status |-> "pending_payment", paid |-> FALSE]
               [] OTHER -> [is |-> "none", status |-> "pending"]
           rows == [k \in VipRows \cup {Subscriber} |-> row(k)]
           world == [says |-> [k \in VipRows |-> None], passed |-> FALSE]
<1>0. row(Subscriber) = [is |-> "here", tier |-> "normal"]
  BY VipNames
<1>1. row(Subscriber) \in UserRow
  BY <1>0 DEF UserRow, Is
<1>2. ASSUME NEW k, k # Subscriber PROVE row(k) \in IF k \in Subscriptions THEN SubscriptionRow ELSE KycRow
  <2>1. CASE k \in Subscriptions
    <3>1. row(k) = [is |-> "none", status |-> "pending_payment", paid |-> FALSE]
      BY <1>2, <2>1, VipNames
    <3> QED BY <2>1, <3>1 DEF SubscriptionRow, Is
  <2>2. CASE k \notin Subscriptions
    <3>1. row(k) = [is |-> "none", status |-> "pending"]
      BY <1>2, <2>2
    <3> QED BY <2>2, <3>1 DEF KycRow, Is
  <2> QED BY <2>1, <2>2
<1> HIDE DEF row
<1>3. DOMAIN rows = DOMAIN VipSchema /\ \A k \in DOMAIN VipSchema : rows[k] \in VipSchema[k]
  BY <1>1, <1>2 DEF VipSchema
<1>4. Start("vip", rows, world)
  BY DEF VipInit, row
<1>5. \A k \in VipRows : world.says[k] = None
  OBVIOUS
<1> HIDE DEF rows, world
<1> QED BY <1>3, <1>4, <1>5, TypedStarts DEF VipTyped, says

LEMMA PlanTypesStart ==
  ASSUME PlansInit
  PROVE  PlanTyped
<1> DEFINE row(k) ==
             CASE k = Account -> [is |-> "here", plan |-> None]
               [] k \in Plans -> [is |-> IF k = Plan(1) THEN "here" ELSE "none", status |-> "active"]
               [] k \in Purchases -> [is |-> "none", plan |-> None, status |-> "pending_payment"]
               [] OTHER -> [is |-> "none", status |-> "active", amount |-> 0]
           rows == [k \in {Account} \cup Plans \cup Purchases \cup Prices |-> row(k)]
           world == [says |-> [k \in Purchases |-> None], given |-> {None}]
<1>1. row(Account) = [is |-> "here", plan |-> None]
  BY PlanRows
<1>2. ASSUME NEW k \in Plans PROVE row(k) = [is |-> IF k = Plan(1) THEN "here" ELSE "none", status |-> "active"]
  <2>1. k # Account /\ k \notin Purchases
    BY PlanRows
  <2> QED BY <2>1
<1>3. ASSUME NEW k \in Purchases PROVE row(k) = [is |-> "none", plan |-> None, status |-> "pending_payment"]
  <2>1. k # Account /\ k \notin Plans
    BY PlanRows
  <2> QED BY <2>1
<1>4. ASSUME NEW k, k # Account, k \notin Plans, k \notin Purchases
      PROVE  row(k) = [is |-> "none", status |-> "active", amount |-> 0]
  BY <1>4
<1> HIDE DEF row
<1>5. row(Account) \in AccountPlan
  BY <1>1 DEF AccountPlan, Is
<1>6. \A k \in Plans : row(k) \in PlanRow
  BY <1>2 DEF PlanRow, Is
<1>7. \A k \in Purchases : row(k) \in PurchaseRow
  BY <1>3 DEF PurchaseRow, Is
<1>8. \A k : k # Account /\ k \notin Plans /\ k \notin Purchases => row(k) \in PriceRow
  BY <1>4 DEF PriceRow, Is
<1>9. DOMAIN rows = DOMAIN PlanSchema /\ \A k \in DOMAIN PlanSchema : rows[k] \in PlanSchema[k]
  BY <1>5, <1>6, <1>7, <1>8 DEF PlanSchema
<1>10. Start("plan", rows, world)
  BY DEF PlansInit, row
<1> HIDE DEF rows, world
<1> QED BY <1>9, <1>10, TypedStarts DEF PlanTyped

LEMMA SignupTypesStart ==
  ASSUME SignupInit
  PROVE  SignupTyped
<1> DEFINE row(on, k) ==
             CASE k = Config -> [is |-> "here", invite_only |-> on]
               [] k = Invite -> [is |-> "none", status |-> "sent"]
               [] OTHER -> [is |-> "none", phone |-> None, invited |-> FALSE]
           rows(on) == [k \in Row \cup {Config, Invite} |-> row(on, k)]
           world == [expired |-> FALSE]
<1>0. Config # Invite
  BY DEF Config, Invite
<1>1. \A on \in BOOLEAN : row(on, Config) = [is |-> "here", invite_only |-> on]
  BY <1>0
<1>2. \A on \in BOOLEAN : row(on, Invite) = [is |-> "none", status |-> "sent"]
  BY <1>0
<1>3. \A on \in BOOLEAN : \A k : k # Config /\ k # Invite => row(on, k) = [is |-> "none", phone |-> None, invited |-> FALSE]
  OBVIOUS
<1> HIDE DEF row
<1>4. ASSUME NEW on \in BOOLEAN
      PROVE  /\ row(on, Config) \in ConfigRow /\ row(on, Invite) \in InvitationRow
             /\ \A k : k # Config /\ k # Invite => row(on, k) \in SignupRow
  <2>1. [is |-> "here", invite_only |-> on] \in ConfigRow
    BY DEF ConfigRow, Is
  <2>2. [is |-> "none", status |-> "sent"] \in InvitationRow
    BY DEF InvitationRow, Is
  <2>3. [is |-> "none", phone |-> None, invited |-> FALSE] \in SignupRow
    BY DEF SignupRow, Is
  <2> QED BY <1>1, <1>2, <1>3, <2>1, <2>2, <2>3
<1>5. PICK on \in BOOLEAN : Start("signup", rows(on), world)
  BY DEF SignupInit, row
<1>6. DOMAIN rows(on) = DOMAIN SignupSchema /\ \A k \in DOMAIN SignupSchema : rows(on)[k] \in SignupSchema[k]
  BY <1>4 DEF SignupSchema
<1>7. world \in [expired : BOOLEAN]
  OBVIOUS
<1> HIDE DEF rows, world
<1> QED BY <1>5, <1>6, <1>7, TypedStarts DEF SignupTyped

LEMMA AccountTypesStart ==
  ASSUME AccountInit
  PROVE  AccountTyped
<1> DEFINE mine(s) == [is |-> "here", state |-> s, code |-> s \in {"active", "manual_review"}, due |-> "never"]
           rows(s) == [k \in Jobs \cup {Me} |-> IF k = Me THEN mine(s) ELSE [is |-> "none", status |-> "pending"]]
           world == [says |-> [k \in Jobs |-> None], session |-> FALSE, elapsed |-> FALSE,
                     forced |-> FALSE, moved |-> FALSE]
           states == {"pending_email", "pending_phone", "active", "manual_review"}
<1>1. PICK s \in states : Start("account", rows(s), world)
  BY DEF AccountInit
<1>2. s \in AccountStates
  BY DEF AccountStates
<1>3. mine(s) \in AccountRow
  BY <1>2 DEF AccountRow, Is
<1> HIDE DEF mine, world
<1>4. DOMAIN rows(s) = DOMAIN AccountSchema /\ \A k \in DOMAIN AccountSchema : rows(s)[k] \in AccountSchema[k]
  BY <1>3 DEF AccountSchema, JobRow, Is
<1> HIDE DEF rows
<1> QED BY <1>1, <1>4, TypedStarts DEF AccountTyped

LEMMA RecoveryTypesStart ==
  ASSUME RecoveryInit
  PROVE  RecoveryTyped
<1> DEFINE row(tier, k) ==
             CASE k = Owner -> [is |-> "here", tier |-> tier, email |-> tier = "vip"]
               [] k \in Codes -> [is |-> "none", status |-> "pending"]
               [] OTHER -> [is |-> "none", status |-> "initiated", email |-> FALSE,
                            phone |-> FALSE, job |-> None]
           rows(tier) == [k \in Asks \cup Codes \cup {Owner} |-> row(tier, k)]
           world == [started |-> 0, says |-> [n \in Lives |-> None], told |-> {}]
           tiers == {"normal", "vip"}
<1>0. Owner \notin Codes
  BY DEF Owner, Codes, Code
<1>1. \A tier \in tiers : row(tier, Owner) = [is |-> "here", tier |-> tier, email |-> tier = "vip"]
  BY <1>0
<1>2. \A tier \in tiers, k \in Codes : row(tier, k) = [is |-> "none", status |-> "pending"]
  BY <1>0
<1>3. \A tier \in tiers : \A k : k # Owner /\ k \notin Codes =>
        row(tier, k) = [is |-> "none", status |-> "initiated", email |-> FALSE, phone |-> FALSE, job |-> None]
  OBVIOUS
<1> HIDE DEF row
<1>4. ASSUME NEW tier \in tiers
      PROVE  /\ row(tier, Owner) \in OwnerRow /\ \A k \in Codes : row(tier, k) \in CodeRow
             /\ \A k : k # Owner /\ k \notin Codes => row(tier, k) \in RecoveryRow
  <2>1. [is |-> "here", tier |-> tier, email |-> tier = "vip"] \in OwnerRow
    BY DEF OwnerRow, Is
  <2>2. [is |-> "none", status |-> "pending"] \in CodeRow
    BY DEF CodeRow, Is
  <2>3. [is |-> "none", status |-> "initiated", email |-> FALSE, phone |-> FALSE, job |-> None] \in RecoveryRow
    BY DEF RecoveryRow, Is
  <2> QED BY <1>1, <1>2, <1>3, <2>1, <2>2, <2>3
<1>5. PICK tier \in tiers : Start("recovery", rows(tier), world)
  BY DEF RecoveryInit, row
<1>6. DOMAIN rows(tier) = DOMAIN RecoverySchema /\ \A k \in DOMAIN RecoverySchema : rows(tier)[k] \in RecoverySchema[k]
  BY <1>4 DEF RecoverySchema
<1>7. DOMAIN world = {"started", "says", "told"} /\ world.started \in 0..2
  OBVIOUS
<1> HIDE DEF rows, world
<1> QED BY <1>5, <1>6, <1>7, TypedStarts DEF RecoveryTyped

LEMMA LoginTypesStart ==
  ASSUME LoginInit
  PROVE  LoginTyped
<1> DEFINE rows == [k \in Checks |-> [is |-> "none", status |-> "pending", verified |-> 0]]
           world == [says |-> [k \in Checks |-> None], now |-> 0, hits |-> <<>>, log |-> <<>>, in |-> {}]
<1>1. DOMAIN rows = DOMAIN LoginSchema /\ \A k \in DOMAIN LoginSchema : rows[k] \in LoginSchema[k]
  BY RecoveryAssumption DEF LoginSchema, CheckRow, Is
<1>2. DOMAIN world = {"says", "now", "hits", "log", "in"} /\ world.now \in 0..Horizon
  BY RecoveryAssumption
<1>3. Start("login", rows, world)
  BY DEF LoginInit
<1> HIDE DEF rows, world
<1> QED BY <1>1, <1>2, <1>3, TypedStarts DEF LoginTyped, now

LEMMA KeysTypesStart ==
  ASSUME KeysInit
  PROVE  KeysTyped
<1> DEFINE rows == [k \in Prekeys \cup {Envelope(p) : p \in Phones} |->
                     IF k \in Prekeys THEN [is |-> "none", batch |-> 0, consumed |-> FALSE]
                     ELSE [is |-> "none", key |-> None, seal |-> Signed]]
           world == [made |-> 0, secret |-> 0, listed |-> FALSE,
                     cached |-> [p \in Phones |-> None], opening |-> [d \in Drafts |-> "no"],
                     read |-> [d \in Drafts |-> <<None, Signed>>],
                     step |-> [d \in Drafts |-> "new"], seal |-> [d \in Drafts |-> Signed],
                     used |-> [d \in Drafts |-> None], saved |-> [p \in Phones |-> None],
                     skipped |-> {}, mishap |-> FALSE]
<1>1. DOMAIN rows = DOMAIN KeysSchema /\ \A k \in DOMAIN KeysSchema : rows[k] \in KeysSchema[k]
  <2>1. [is |-> "none", batch |-> 0, consumed |-> FALSE] \in PrekeyRow
    BY DEF PrekeyRow, Is
  <2>2. [is |-> "none", key |-> None, seal |-> Signed] \in EnvelopeRow
    BY DEF EnvelopeRow, Is, Signed
  <2> QED BY <2>1, <2>2 DEF KeysSchema
<1>2. world \in KeysWorld
  BY DEF KeysWorld, Signed
<1>3. Start("keys", rows, world)
  BY DEF KeysInit
<1> HIDE DEF rows, world
<1> QED BY <1>1, <1>2, <1>3, TypedStarts DEF KeysTyped

LEMMA ChatTypesStart ==
  ASSUME ChatInit
  PROVE  ChatTyped
<1> DEFINE row(k) ==
             CASE k \in Row -> [is |-> "none", client |-> 0, status |-> "failed"]
               [] k \in Conversations -> [is |-> "none", type |-> "direct"]
               [] k \in Attempts -> [is |-> "none", status |-> "failed", of |-> None]
               [] k = Usage -> [is |-> "none", requests |-> 0]
               [] OTHER -> [is |-> "none"]
           rows == [k \in Row \cup Conversations \cup Attempts \cup {Usage, Preferences} |-> row(k)]
           world == [accepted |-> FALSE, blocked |-> FALSE]
<1>0. ASSUME NEW k
      PROVE  /\ k \in Row => k \notin Conversations /\ k \notin Attempts /\ k # Usage /\ k # Preferences
             /\ k \in Conversations => k \notin Attempts /\ k # Usage /\ k # Preferences
             /\ k \in Attempts => k # Usage /\ k # Preferences
             /\ Usage # Preferences
  BY ChatNames, ChatAssumption
<1>1. \A k \in Row : row(k) = [is |-> "none", client |-> 0, status |-> "failed"]
  BY <1>0
<1>2. \A k \in Conversations : row(k) = [is |-> "none", type |-> "direct"]
  BY <1>0
<1>3. \A k \in Attempts : row(k) = [is |-> "none", status |-> "failed", of |-> None]
  BY <1>0
<1>4. row(Usage) = [is |-> "none", requests |-> 0] /\ row(Preferences) = [is |-> "none"]
  BY <1>0
<1> HIDE DEF row
<1>5. /\ \A k \in Row : row(k) \in VipMessageRow
      /\ \A k \in Conversations : row(k) \in ConversationRow
      /\ \A k \in Attempts : row(k) \in AttemptRow
      /\ row(Usage) \in UsageRow /\ row(Preferences) \in [is : Is]
  BY <1>1, <1>2, <1>3, <1>4 DEF VipMessageRow, ConversationRow, ConversationTypes, AttemptRow, UsageRow, Is
<1>6. DOMAIN rows = DOMAIN ChatSchema /\ \A k \in DOMAIN ChatSchema : rows[k] \in ChatSchema[k]
  BY <1>5 DEF ChatSchema
<1>7. Start("chat", rows, world)
  BY DEF ChatInit, row
<1> HIDE DEF rows, world
<1> QED BY <1>6, <1>7, TypedStarts DEF ChatTyped

LEMMA OfficeTypesStart ==
  ASSUME OfficeInit
  PROVE  OfficeTyped
<1> DEFINE rows(f) == [r \in Row |-> [is |-> IF r = f THEN "here" ELSE "none", role |-> "super_admin",
                                      active |-> TRUE, enrolled |-> FALSE]]
           world == [login |-> [r \in Row |-> {}], token |-> {}, ghost |-> FALSE, undone |-> FALSE]
<1>1. PICK f \in Row : Start("office", rows(f), world)
  BY DEF OfficeInit
<1>2. DOMAIN rows(f) = DOMAIN OfficeSchema /\ \A k \in DOMAIN OfficeSchema : rows(f)[k] \in OfficeSchema[k]
  BY DEF OfficeSchema, AdminRow, Roles, Is
<1> HIDE DEF rows, world
<1> QED BY <1>1, <1>2, TypedStarts DEF OfficeTyped

LEMMA ComplianceTypesStart ==
  ASSUME ComplianceInit
  PROVE  ComplianceTyped
<1> DEFINE rows == [k \in DataRequests \cup {Subject} |->
                     IF k = Subject THEN [is |-> "here", state |-> "active", due |-> FALSE]
                     ELSE [is |-> "none", type |-> "access", status |-> "pending", export |-> FALSE]]
           world == [exports |-> {}, late |-> FALSE, back |-> FALSE]
<1>1. DOMAIN rows = DOMAIN ComplianceSchema /\ \A k \in DOMAIN ComplianceSchema : rows[k] \in ComplianceSchema[k]
  BY DEF ComplianceSchema, SubjectRow, DataRequestRow, Is
<1>2. Start("compliance", rows, world)
  BY DEF ComplianceInit
<1> HIDE DEF rows, world
<1> QED BY <1>1, <1>2, TypedStarts DEF ComplianceTyped

LEMMA LocationTypesStart ==
  ASSUME LocationInit
  PROVE  LocationTyped
<1> DEFINE rows == [k \in Shares \cup Pings |->
                     IF k \in Shares THEN [is |-> "none", expires |-> 0, revoked |-> None]
                     ELSE [is |-> "none", of |-> Share(1), at |-> 0]]
           world == [now |-> 0, trusted |-> TRUE]
<1>1. DOMAIN rows = DOMAIN LocationSchema /\ \A k \in DOMAIN LocationSchema : rows[k] \in LocationSchema[k]
  <2>1. [is |-> "none", expires |-> 0, revoked |-> None] \in ShareRow
    BY DEF ShareRow, Is
  <2>2. [is |-> "none", of |-> Share(1), at |-> 0] \in PingRow
    BY DEF PingRow, Shares, Moments, Is
  <2> QED BY <2>1, <2>2 DEF LocationSchema
<1>2. world \in [now : Moments, trusted : BOOLEAN]
  BY DEF Moments
<1>3. Start("location", rows, world)
  BY DEF LocationInit
<1> HIDE DEF rows, world
<1> QED BY <1>1, <1>2, <1>3, TypedStarts DEF LocationTyped

(* The types of a topic's rows say nothing of the other topics.            *)
LEMMA ElsewhereTyped ==
  /\ (topic # "room" => RoomTyped) /\ (topic # "records" => RecordsTyped)
  /\ (topic # "stage" => StageTyped) /\ (topic # "minutes" => MinutesTyped)
  /\ (topic # "attendance" => AttendanceTyped) /\ (topic # "files" => FilesTyped)
  /\ (topic # "vip" => VipTyped) /\ (topic # "plan" => PlanTyped)
  /\ (topic # "signup" => SignupTyped) /\ (topic # "account" => AccountTyped)
  /\ (topic # "recovery" => RecoveryTyped) /\ (topic # "login" => LoginTyped)
  /\ (topic # "keys" => KeysTyped) /\ (topic # "chat" => ChatTyped)
  /\ (topic # "office" => OfficeTyped) /\ (topic # "compliance" => ComplianceTyped)
  /\ (topic # "location" => LocationTyped)
BY DEF RoomTyped, RecordsTyped, StageTyped, MinutesTyped, AttendanceTyped, FilesTyped, VipTyped,
   PlanTyped, SignupTyped, AccountTyped, RecoveryTyped, LoginTyped, KeysTyped, ChatTyped,
   OfficeTyped, ComplianceTyped, LocationTyped

LEMMA ElsewhereTypedNext ==
  /\ (topic' # "room" => RoomTyped') /\ (topic' # "records" => RecordsTyped')
  /\ (topic' # "stage" => StageTyped') /\ (topic' # "minutes" => MinutesTyped')
  /\ (topic' # "attendance" => AttendanceTyped') /\ (topic' # "files" => FilesTyped')
  /\ (topic' # "vip" => VipTyped') /\ (topic' # "plan" => PlanTyped')
  /\ (topic' # "signup" => SignupTyped') /\ (topic' # "account" => AccountTyped')
  /\ (topic' # "recovery" => RecoveryTyped') /\ (topic' # "login" => LoginTyped')
  /\ (topic' # "keys" => KeysTyped') /\ (topic' # "chat" => ChatTyped')
  /\ (topic' # "office" => OfficeTyped') /\ (topic' # "compliance" => ComplianceTyped')
  /\ (topic' # "location" => LocationTyped')
BY DEF RoomTyped, RecordsTyped, StageTyped, MinutesTyped, AttendanceTyped, FilesTyped, VipTyped,
   PlanTyped, SignupTyped, AccountTyped, RecoveryTyped, LoginTyped, KeysTyped, ChatTyped,
   OfficeTyped, ComplianceTyped, LocationTyped

LEMMA TypesStart ==
  ASSUME Init
  PROVE  TypesInv
<1>1. ASSUME NEW name \in Topics, NEW rows, NEW world, Start(name, rows, world)
      PROVE  topic = name /\ topic \in Topics /\ TransactionsOK
  <2>1. asked = 0 /\ topic = name /\ DOMAIN open = Slot \cup Job /\ overlapped = FALSE
    BY <1>1 DEF Start
  <2>2. MaxRequests[name] \in Nat
    BY RequestsAssumption, BackendAssumption
  <2>3. overlapped \in BOOLEAN
    BY <2>1
  <2>4. asked \in 0..MaxRequests[topic]
    BY <2>1, <2>2
  <2> QED BY <2>1, <2>3, <2>4, Zenon DEF TransactionsOK
<1> DEFINE About(name) == topic = name /\ topic \in Topics /\ TransactionsOK
<1>2. CASE MeetingsInit
  <2>1. About("room")
    BY <1>1, <1>2, Zenon DEF MeetingsInit, Topics
  <2> QED BY <1>2, <2>1, RoomTypesStart, ElsewhereTyped DEF TypesInv
<1>3. CASE RecordsInit
  <2>1. About("records")
    BY <1>1, <1>3, Zenon DEF RecordsInit, Topics
  <2> QED BY <1>3, <2>1, RecordTypesStart, ElsewhereTyped DEF TypesInv
<1>4. CASE StageInit
  <2>1. About("stage")
    BY <1>1, <1>4, Zenon DEF StageInit, Topics
  <2> QED BY <1>4, <2>1, StageTypesStart, ElsewhereTyped DEF TypesInv
<1>5. CASE MinutesInit
  <2>1. About("minutes")
    BY <1>1, <1>5, Zenon DEF MinutesInit, Topics
  <2> QED BY <1>5, <2>1, MinutesTypesStart, ElsewhereTyped DEF TypesInv
<1>6. CASE AttendanceInit
  <2>1. About("attendance")
    BY <1>1, <1>6, Zenon DEF AttendanceInit, Topics
  <2> QED BY <1>6, <2>1, AttendanceTypesStart, ElsewhereTyped DEF TypesInv
<1>7. CASE FilesInit
  <2>1. About("files")
    BY <1>1, <1>7, Zenon DEF FilesInit, Topics
  <2> QED BY <1>7, <2>1, FilesTypesStart, ElsewhereTyped DEF TypesInv
<1>8. CASE VipInit
  <2>1. About("vip")
    BY <1>1, <1>8, Zenon DEF VipInit, Topics
  <2> QED BY <1>8, <2>1, VipTypesStart, ElsewhereTyped DEF TypesInv
<1>9. CASE PlansInit
  <2>1. About("plan")
    BY <1>1, <1>9, Zenon DEF PlansInit, Topics
  <2> QED BY <1>9, <2>1, PlanTypesStart, ElsewhereTyped DEF TypesInv
<1>10. CASE SignupInit
  <2>1. About("signup")
    BY <1>1, <1>10, Zenon DEF SignupInit, Topics
  <2> QED BY <1>10, <2>1, SignupTypesStart, ElsewhereTyped DEF TypesInv
<1>11. CASE AccountInit
  <2>1. About("account")
    BY <1>1, <1>11, Zenon DEF AccountInit, Topics
  <2> QED BY <1>11, <2>1, AccountTypesStart, ElsewhereTyped DEF TypesInv
<1>12. CASE RecoveryInit
  <2>1. About("recovery")
    BY <1>1, <1>12, Zenon DEF RecoveryInit, Topics
  <2> QED BY <1>12, <2>1, RecoveryTypesStart, ElsewhereTyped DEF TypesInv
<1>13. CASE LoginInit
  <2>1. About("login")
    BY <1>1, <1>13, Zenon DEF LoginInit, Topics
  <2> QED BY <1>13, <2>1, LoginTypesStart, ElsewhereTyped DEF TypesInv
<1>14. CASE KeysInit
  <2>1. About("keys")
    BY <1>1, <1>14, Zenon DEF KeysInit, Topics
  <2> QED BY <1>14, <2>1, KeysTypesStart, ElsewhereTyped DEF TypesInv
<1>15. CASE ChatInit
  <2>1. About("chat")
    BY <1>1, <1>15, Zenon DEF ChatInit, Topics
  <2> QED BY <1>15, <2>1, ChatTypesStart, ElsewhereTyped DEF TypesInv
<1>16. CASE OfficeInit
  <2>1. About("office")
    BY <1>1, <1>16, Zenon DEF OfficeInit, Topics
  <2> QED BY <1>16, <2>1, OfficeTypesStart, ElsewhereTyped DEF TypesInv
<1>17. CASE ComplianceInit
  <2>1. About("compliance")
    BY <1>1, <1>17, Zenon DEF ComplianceInit, Topics
  <2> QED BY <1>17, <2>1, ComplianceTypesStart, ElsewhereTyped DEF TypesInv
<1>18. CASE LocationInit
  <2>1. About("location")
    BY <1>1, <1>18, Zenon DEF LocationInit, Topics
  <2> QED BY <1>18, <2>1, LocationTypesStart, ElsewhereTyped DEF TypesInv
<1> QED BY <1>2, <1>3, <1>4, <1>5, <1>6, <1>7, <1>8, <1>9, <1>10, <1>11, <1>12, <1>13, <1>14,
           <1>15, <1>16, <1>17, <1>18 DEF Init

LEMMA TypesStay ==
  ASSUME TypesInv, BackendInv, [Next]_vars
  PROVE  TypesInv'
<1>0. /\ topic \in Topics /\ TransactionsOK /\ DOMAIN open = Slot \cup Job
      /\ topic \in DOMAIN MaxRequests
  BY BackendAssumption DEF TypesInv, TransactionsOK
<1>1. CASE Next
  <2>0. topic' = topic /\ TransactionsOK'
    BY <1>0, <1>1, NextIsTableStep, TopicStays, TransactionsStayOK
  <2>1. topic = "room" => RoomTyped'
    BY <1>0, <1>1, NextByTopic, RoomTypesStay DEF TypesInv
  <2>2. topic = "records" => RecordsTyped'
    BY <1>0, <1>1, NextByTopic, RecordTypesStay DEF TypesInv
  <2>3. topic = "stage" => StageTyped'
    BY <1>0, <1>1, NextByTopic, StageTypesStay DEF TypesInv
  <2>4. topic = "minutes" => MinutesTyped'
    BY <1>0, <1>1, NextByTopic, MinutesTypesStay DEF TypesInv
  <2>5. topic = "attendance" => AttendanceTyped'
    BY <1>0, <1>1, NextByTopic, AttendanceTypesStay DEF TypesInv
  <2>6. topic = "files" => FilesTyped'
    BY <1>0, <1>1, NextByTopic, FilesTypesStay DEF TypesInv
  <2>7. topic = "vip" => VipTyped'
    BY <1>0, <1>1, NextByTopic, VipTypesStay DEF TypesInv, BackendInv
  <2>8. topic = "plan" => PlanTyped'
    BY <1>0, <1>1, NextByTopic, PlanTypesStay DEF TypesInv, BackendInv
  <2>9. topic = "signup" => SignupTyped'
    BY <1>0, <1>1, NextByTopic, SignupTypesStay DEF TypesInv
  <2>10. topic = "account" => AccountTyped'
    BY <1>0, <1>1, NextByTopic, AccountTypesStay DEF TypesInv, BackendInv
  <2>11. topic = "recovery" => RecoveryTyped'
    BY <1>0, <1>1, NextByTopic, RecoveryTypesStay DEF TypesInv
  <2>12. topic = "login" => LoginTyped'
    BY <1>0, <1>1, NextByTopic, LoginTypesStay DEF TypesInv, BackendInv
  <2>13. topic = "keys" => KeysTyped'
    BY <1>0, <1>1, NextByTopic, KeysTypesStay DEF TypesInv
  <2>14. topic = "chat" => ChatTyped'
    BY <1>0, <1>1, NextByTopic, ChatTypesStay DEF TypesInv
  <2>15. topic = "office" => OfficeTyped'
    BY <1>0, <1>1, NextByTopic, OfficeTypesStay DEF TypesInv
  <2>16. topic = "compliance" => ComplianceTyped'
    BY <1>0, <1>1, NextByTopic, ComplianceTypesStay DEF TypesInv
  <2>17. topic = "location" => LocationTyped'
    BY <1>0, <1>1, NextByTopic, LocationTypesStay DEF TypesInv
  <2> QED BY <1>0, <2>0, <2>1, <2>2, <2>3, <2>4, <2>5, <2>6, <2>7, <2>8, <2>9, <2>10, <2>11, <2>12,
             <2>13, <2>14, <2>15, <2>16, <2>17, ElsewhereTypedNext DEF TypesInv
<1>2. CASE UNCHANGED vars
  <2>1. /\ topic' = topic /\ db' = db /\ open' = open /\ asked' = asked
        /\ overlapped' = overlapped /\ outside' = outside
    BY <1>2 DEF vars, tables
  <2>2. ASSUME NEW schema, Typed(schema) PROVE Typed(schema)'
    BY <2>1, <2>2 DEF Typed, Fit, FitsAt
  <2>3. TransactionsOK'
    BY <1>0, <2>1 DEF TransactionsOK
  <2>4. RoomTyped' /\ RecordsTyped' /\ StageTyped' /\ MinutesTyped' /\ AttendanceTyped' /\ FilesTyped'
    BY <2>1, <2>2 DEF TypesInv, RoomTyped, RecordsTyped, StageTyped, MinutesTyped, AttendanceTyped, FilesTyped
  <2>5. VipTyped' /\ PlanTyped' /\ SignupTyped' /\ AccountTyped' /\ RecoveryTyped' /\ LoginTyped'
    BY <2>1, <2>2 DEF TypesInv, VipTyped, PlanTyped, SignupTyped, AccountTyped, RecoveryTyped, LoginTyped, says, now
  <2>6. KeysTyped' /\ ChatTyped' /\ OfficeTyped' /\ ComplianceTyped' /\ LocationTyped'
    BY <2>1, <2>2 DEF TypesInv, KeysTyped, ChatTyped, OfficeTyped, ComplianceTyped, LocationTyped
  <2> QED BY <1>0, <2>1, <2>3, <2>4, <2>5, <2>6 DEF TypesInv
<1> QED BY <1>1, <1>2

LEMMA TypesGiveTypeOK ==
  ASSUME TypesInv
  PROVE  BackendTypeOK
<1> USE DEF TypesInv
<1>1. MeetingsTypeOK
  BY RoomRows DEF MeetingsTypeOK, RoomTyped, Participant
<1>2. ToolsTypeOK
  <2>1. topic = "records" => {db[Poll], db[Breakout]} \subseteq OpenRow /\ \A r \in Row : db[r] \in RecordRow
    BY RecordRows
  <2>2. topic = "stage" => \A p \in Row : db[p] \in StageRow
    BY DEF StageTyped, Typed, StageSchema
  <2>3. topic = "minutes" => minutes \in MinutesRow
    BY DEF MinutesTyped, Typed, MinutesSchema, minutes
  <2>4. topic = "attendance" => \A p \in Row : db[p] \in AttendanceRow
    BY DEF AttendanceTyped, Typed, AttendanceSchema
  <2> QED BY <2>1, <2>2, <2>3, <2>4 DEF ToolsTypeOK
<1>3. FilesTypeOK
  <2>1. topic = "files" => /\ \A r \in Row : db[r] \in FileRow
                           /\ db[Occasion] \in [is : Is]
                           /\ {egress, objects} \subseteq SUBSET Row
    BY FilesRows DEF FilesTyped, egress, objects
  <2> QED BY <2>1 DEF FilesTypeOK
<1>4. BillingTypeOK
  <2>1. topic = "vip" =>
          /\ db[Subscriber] \in UserRow /\ \A s \in Subscriptions : db[s] \in SubscriptionRow
          /\ {db[Doc(1)], db[Doc(2)], db[Face(1)]} \subseteq KycRow
    <3>1. {Doc(1), Doc(2), Face(1)} \subseteq VipRows \ Subscriptions
      BY VipNames DEF VipRows, KycDocuments
    <3> QED BY <3>1, VipTypedRows
  <2>2. topic = "plan" =>
          /\ db[Account] \in AccountPlan /\ \A c \in Plans : db[c] \in PlanRow
          /\ \A k \in Purchases : db[k] \in PurchaseRow /\ \A p \in Prices : db[p] \in PriceRow
    BY PlanTypedRows
  <2> QED BY <2>1, <2>2, PlanTypedRows DEF BillingTypeOK
<1>5. AccountsTypeOK
  <2>1. topic = "signup" => db[Config] \in ConfigRow /\ db[Invite] \in InvitationRow /\ \A r \in Row : db[r] \in SignupRow
    BY SignupRows
  <2>2. topic = "account" => me \in AccountRow /\ \A k \in Jobs : db[k] \in JobRow
    BY AccountRows DEF me
  <2> QED BY <2>1, <2>2 DEF AccountsTypeOK
<1>6. RecoveryTypeOK
  <2>1. topic = "recovery" => /\ db[Owner] \in OwnerRow
                              /\ \A r \in Asks : db[r] \in RecoveryRow
                              /\ \A c \in Codes : db[c] \in CodeRow
    BY RecoveryRows
  <2>2. topic = "login" => \A k \in Checks : db[k] \in CheckRow
    BY DEF LoginTyped, Typed, LoginSchema
  <2> QED BY <2>1, <2>2 DEF RecoveryTypeOK
<1>7. KeysTypeOK
  <2>1. topic = "keys" => (\A k \in Prekeys : db[k] \in PrekeyRow) /\ \A p \in Phones : db[Envelope(p)] \in EnvelopeRow
    BY KeysRows
  <2> QED BY <2>1 DEF KeysTypeOK
<1>8. ChatTypeOK
  BY ChatRows DEF ChatTypeOK
<1>9. OfficeTypeOK
  <2>1. topic = "office" => \A r \in Row : db[r] \in AdminRow
    BY DEF OfficeTyped, Typed, OfficeSchema
  <2>2. topic = "compliance" => db[Subject] \in SubjectRow /\ \A k \in DataRequests : db[k] \in DataRequestRow
    BY ComplianceRows
  <2>3. topic = "location" => (\A k \in Shares : db[k] \in ShareRow) /\ \A p \in Pings : db[p] \in PingRow
    BY LocationRows
  <2> QED BY <2>1, <2>2, <2>3 DEF OfficeTypeOK
<1> QED BY <1>1, <1>2, <1>3, <1>4, <1>5, <1>6, <1>7, <1>8, <1>9 DEF BackendTypeOK

(* What the tables may be next, after each form of step.                   *)
LEMMA WrittenStays ==
  ASSUME UNCHANGED db
  PROVE  \A w : Written(w)' = Written(w)
BY DEF Written, Value

LEMMA OpensFutures ==
  ASSUME NEW t \in DOMAIN open, NEW w, Opens(t, w)
  PROVE  /\ db \in Futures
         /\ \A T \in Futures' : T \in Futures \/ (w # {} /\ T = Written(w))
<1>1. \A x : Written(x)' = Written(x)
  BY WrittenStays DEF Opens
<1>2. ASSUME NEW s \in Opened'
      PROVE  Written(open[s])' \in Futures \/ (w # {} /\ Written(open[s])' = Written(w))
  <2>1. s \in DOMAIN open /\ open'[s] # {}
    BY <1>2 DEF Opens, Opened
  <2>2. Written(open[s])' = Written(open'[s])
    BY <1>1
  <2>3. CASE s = t
    BY <2>1, <2>2, <2>3 DEF Opens
  <2>4. CASE s # t
    BY <2>1, <2>2, <2>4 DEF Opens, Futures, Opened
  <2> QED BY <2>3, <2>4
<1>3. db' = db
  BY DEF Opens
<1>4. db \in Futures
  BY DEF Futures
<1> QED BY <1>2, <1>3, <1>4 DEF Futures

LEMMA CallFutures ==
  ASSUME DOMAIN open = Slot \cup Job, NEW w, Call(w)
  PROVE  /\ db \in Futures
         /\ overlapped => overlapped'
         /\ UNCHANGED topic
         /\ \A T \in Futures' : T \in Futures \/ (w # {} /\ T = Written(w))
<1>1. PICK t \in Slot : Opens(t, w)
  BY CallOpens
<1>2. t \in DOMAIN open
  OBVIOUS
<1> QED BY <1>1, <1>2, OpensFutures DEF Opens

LEMMA EndFutures ==
  ASSUME DOMAIN open = Slot \cup Job, OpenAlone, ~overlapped, NEW t \in Slot \cup Job,
         Commit(t) \/ RollBack(t)
  PROVE  /\ Futures' \subseteq Futures
         /\ UNCHANGED <<topic, overlapped>>
<1>1. Closes(t)
  BY CommitCloses, RollBackCloses
<1>2. Opened' = {}
  BY <1>1, NoneIsLeft DEF Opened
<1>3. Futures' = {db'}
  BY <1>2 DEF Futures
<1>4. CASE Commit(t)
  <2>1. db' = Written(open[t]) /\ t \in Opened
    BY <1>4, CommitCloses DEF Closes, Opened
  <2> QED BY <1>1, <1>3, <2>1 DEF Futures, Closes
<1>5. CASE RollBack(t)
  <2>1. db' = db
    BY <1>5, RollBackCloses
  <2> QED BY <1>1, <1>3, <2>1 DEF Futures, Closes
<1> QED BY <1>4, <1>5

LEMMA StillFutures ==
  ASSUME UNCHANGED tables
  PROVE  Futures' = Futures /\ Outcomes' = Outcomes
<1>1. \A x : Written(x)' = Written(x)
  BY WrittenStays DEF tables
<1>2. Opened' = Opened /\ open' = open /\ db' = db /\ Quiet' = Quiet
  BY DEF tables, Opened, Quiet
<1> QED BY <1>1, <1>2 DEF Futures, Outcomes

(* What is written to a row.                                               *)
LEMMA WrittenValue ==
  ASSUME NEW w, NEW row \in DOMAIN db, NEW column \in DOMAIN db[row], NEW v,
         \A c \in w : c[1] = row /\ c[2] = column => c[3] = v,
         db[row][column] = v \/ Writes(w, row, column)
  PROVE  Written(w)[row][column] = v
<1>1. CASE Writes(w, row, column)
  BY <1>1, WrittenTakes
<1>2. CASE ~Writes(w, row, column)
  BY <1>2, WrittenKeeps
<1> QED BY <1>1, <1>2

LEMMA RowIsKept ==
  ASSUME NEW w, NEW row \in DOMAIN db, \A c \in w : c[1] # row
  PROVE  Written(w)[row] = [column \in DOMAIN db[row] |-> db[row][column]]
<1>1. \A column \in DOMAIN db[row] : ~Writes(w, row, column)
  BY DEF Writes
<1> QED BY <1>1, WrittenKeeps, WrittenShape

LEMMA UpdateIsWritten ==
  ASSUME NEW w, NEW row \in DOMAIN db, NEW columns, Update(row, columns) \subseteq w,
         NEW column \in DOMAIN columns, column \in DOMAIN db[row],
         \A c \in w : c[1] = row /\ c[2] = column => c \in Update(row, columns)
  PROVE  Written(w)[row][column] = columns[column]
<1>1. \A c \in w : c[1] = row /\ c[2] = column => c[3] = columns[column]
  BY UpdateShape
<1>2. db[row][column] = columns[column] \/ Writes(w, row, column)
  BY UpdateShape DEF Writes
<1> QED BY <1>1, <1>2, WrittenValue

(* A finite set whose members are all equal.                               *)
LEMMA AtMostOne ==
  ASSUME NEW S, \A x, y \in S : x = y
  PROVE  IsFiniteSet(S) /\ Cardinality(S) <= 1
<1>1. CASE S = {}
  <2>1. IsFiniteSet(S) /\ Cardinality(S) = 0
    BY <1>1, FS_EmptySet
  <2> QED BY <2>1
<1>2. CASE S # {}
  <2>1. PICK x \in S : TRUE
    BY <1>2
  <2>2. S = {x}
    BY <2>1
  <2>3. IsFiniteSet({x}) /\ Cardinality({x}) = 1
    BY FS_Singleton
  <2> QED BY <2>2, <2>3
<1> QED BY <1>1, <1>2

-----------------------------------------------------------------------------
(* The prices.                                                             *)
LEMMA PriceCall ==
  ASSUME PriceKept, topic = "plan", DOMAIN open = Slot \cup Job, NEW w, Call(w),
         ~overlapped /\ OnePriceIn(db) => OnePriceIn(Written(w))
  PROVE  PriceKept'
BY CallFutures DEF PriceKept, OnePriceIn, IsIn

LEMMA NoPriceIsTouched ==
  ASSUME PriceKept, PlanTyped, topic = "plan", DOMAIN open = Slot \cup Job, NEW w, Call(w),
         \A c \in w : c[1] \notin Prices
  PROVE  PriceKept'
<1>1. ASSUME NEW p \in Prices
      PROVE  Written(w)[p].is = db[p].is /\ Written(w)[p].status = db[p].status
  <2>1. p \in DOMAIN PlanSchema /\ db[p] \in PriceRow
    BY PlanTypedRows
  <2>2. p \in DOMAIN db /\ {"is", "status"} \subseteq DOMAIN db[p]
    BY <2>1 DEF PlanTyped, Typed, PriceRow
  <2>3. ~Writes(w, p, "is") /\ ~Writes(w, p, "status")
    BY DEF Writes
  <2> QED BY <2>2, <2>3, WrittenKeeps
<1>2. OnePriceIn(db) => OnePriceIn(Written(w))
  BY <1>1 DEF OnePriceIn, IsIn
<1> QED BY <1>2, PriceCall

LEMMA PriceIsReplaced ==
  ASSUME PlanTyped, topic = "plan", OnePriceIn(db), NEW k \in Prices, NEW amount \in {0, 1},
         SetPrice(k, amount)
  PROVE  OnePriceIn(Written(Insert(k, [amount |-> amount])
           \cup UNION {Change(p, "status", "archived") : p \in {q \in Prices : LatestPrice(q)}}))
<1> DEFINE columns == [amount |-> amount]
           archived == UNION {Change(p, "status", "archived") : p \in {q \in Prices : LatestPrice(q)}}
           w == Insert(k, columns) \cup archived
<1>1. \A c \in Insert(k, columns) : c[1] = k
  BY InsertShape
<1>2. \A c \in archived : c[2] = "status" /\ c[3] = "archived"
  BY ChangeShape
<1>3. \A p \in Prices : LatestPrice(p) => Change(p, "status", "archived") \subseteq w
  OBVIOUS
<1> HIDE DEF columns, archived
<1>4. ASSUME NEW p \in Prices, p # k, IsIn(Written(w), p)
      PROVE  Written(w)[p].status # "active"
  <2>1. p \in DOMAIN db /\ {"is", "status"} \subseteq DOMAIN db[p]
    <3>1. p \in DOMAIN PlanSchema /\ db[p] \in PriceRow
      BY PlanTypedRows
    <3> QED BY <3>1 DEF PlanTyped, Typed, PriceRow
  <2>2. \A c \in w : c[1] = p => c[2] = "status" /\ c[3] = "archived"
    BY <1>1, <1>2, <1>4
  <2>3. Here(p)
    <3>1. ~Writes(w, p, "is")
      BY <2>2 DEF Writes
    <3> QED BY <1>4, <2>1, <3>1, WrittenKeeps DEF Here, IsIn
  <2>4. CASE db[p].status # "active"
    BY <2>1, <2>2, <2>4, WrittenKeeps, WrittenTakes
  <2>5. CASE db[p].status = "active"
    <3>1. p \in GetActivePrice /\ \A q \in GetActivePrice : q = p
      BY <1>4, <2>3, <2>5 DEF GetActivePrice, OnePriceIn, IsIn, Here
    <3>2. PICK n \in 1..3 : p = Price(n)
      BY DEF Prices, Price
    <3>3. \A m \in n + 1..3 : Price(m) # p
      BY <3>2 DEF Price
    <3>4. LatestPrice(p)
      BY <3>1, <3>2, <3>3 DEF LatestPrice
    <3>5. Change(p, "status", "archived") \subseteq w
      BY <1>3, <3>4
    <3>6. db[p].status = "archived" \/ Writes(w, p, "status")
      BY <3>5, ChangeShape DEF Writes
    <3>7. Written(w)[p].status = "archived"
      BY <2>1, <2>2, <3>6, WrittenValue
    <3> QED BY <3>7
  <2> QED BY <2>4, <2>5
<1>5. OnePriceIn(Written(w))
  BY <1>4 DEF OnePriceIn
<1> QED BY <1>5 DEF columns, archived

LEMMA NoPlanIsAPrice == Prices \cap Plans = {}
<1>1. \A k \in Prices : k[1] = "price"
  BY DEF Prices
<1>2. \A k \in Plans : k[1] = "plan"
  BY DEF Plans, Plan
<1> QED BY <1>1, <1>2

LEMMA PriceStays ==
  ASSUME PriceKept, PlanTyped, topic = "plan", DOMAIN open = Slot \cup Job, OpenAlone, PlansNext
  PROVE  PriceKept'
<1>1. ASSUME NEW c \in Plans, NEW columns, Call(Insert(c, columns)) PROVE PriceKept'
  <2>1. \A d \in Insert(c, columns) : d[1] \notin Prices
    BY InsertShape, NoPlanIsAPrice
  <2> QED BY <1>1, <2>1, NoPriceIsTouched
<1>2. ASSUME NEW k \in Purchases, NEW columns, Call(Insert(k, columns)) PROVE PriceKept'
  <2>1. \A d \in Insert(k, columns) : d[1] \notin Prices
    BY InsertShape, PlanRows
  <2> QED BY <1>2, <2>1, NoPriceIsTouched
<1>3. ASSUME NEW row \in Plans \cup Purchases \cup {Account}, NEW column, NEW v PROVE \A d \in Change(row, column, v) : d[1] \notin Prices
  BY ChangeShape, PlanRows, NoPlanIsAPrice
<1>4. ASSUME NEW row \in Plans \cup Purchases \cup {Account}, NEW column, NEW v, Call(Change(row, column, v)) PROVE PriceKept'
  BY <1>3, <1>4, NoPriceIsTouched
<1>5. ASSUME NEW k \in Prices, NEW amount \in {0, 1}, SetPrice(k, amount) PROVE PriceKept'
  <2> DEFINE w == Insert(k, [amount |-> amount])
           \cup UNION {Change(p, "status", "archived") : p \in {q \in Prices : LatestPrice(q)}}
  <2>1. Call(w)
    BY <1>5 DEF SetPrice, Request
  <2>2. OnePriceIn(db) => OnePriceIn(Written(w))
    BY <1>5, PriceIsReplaced
  <2> HIDE DEF w
  <2> QED BY <2>1, <2>2, PriceCall
<1>6. ASSUME Catalogue PROVE PriceKept'
  BY <1>1, <1>4, <1>5, <1>6 DEF Catalogue, CreatePlan, SetPlanStatus, SetUserConferencePlan, Request
<1>7. ASSUME NEW c \in Plans, NEW k \in Purchases, StartConferenceUpgrade(c, k) PROVE PriceKept'
  BY <1>2, <1>4, <1>7 DEF StartConferenceUpgrade, ApplyPaidConferencePlan, InitiatePayment, Request
<1>8. ASSUME NEW k \in Purchases, HandleConferencePayment(k) PROVE PriceKept'
  <2>1. CASE says[k] = "paid"
    <3> DEFINE w == Change(k, "status", "paid") \cup Change(Account, "plan", db[k].plan)
    <3>1. Call(w)
      BY <1>8, <2>1 DEF HandleConferencePayment, Request, ApplyPaidConferencePlan
    <3>2. \A d \in w : d[1] \notin Prices
      BY <1>3
    <3> QED BY <3>1, <3>2, NoPriceIsTouched
  <2> QED BY <1>4, <1>8, <2>1 DEF HandleConferencePayment, Request
<1>9. ASSUME UNCHANGED tables PROVE PriceKept'
  BY <1>9, StillFutures DEF PriceKept, OnePriceIn, IsIn, tables
<1>10. ASSUME NEW k, NEW outcomes, Decide(k, outcomes) PROVE PriceKept'
  BY <1>9, <1>10 DEF Decide, Outside
<1>11. ASSUME NEW t \in Slot, Commit(t) \/ RollBack(t) PROVE PriceKept'
  <2>1. UNCHANGED overlapped
    BY <1>11 DEF Commit, RollBack
  <2> QED BY <1>11, <2>1, EndFutures DEF PriceKept, OnePriceIn, IsIn
<1> QED BY <1>6, <1>7, <1>8, <1>10, <1>11 DEF PlansNext, ConferenceUpgrade, StitchWebhook

LEMMA PriceStarts ==
  ASSUME PlansInit
  PROVE  PriceKept
<1>1. Futures = {db}
  BY DEF PlansInit, Start, Futures, Opened
<1>2. ASSUME NEW k \in Prices PROVE db[k].is = "none"
  <2>1. k # Account /\ k \notin Plans /\ k \notin Purchases
    BY PlanRows, NoPlanIsAPrice
  <2>2. db[k] = [is |-> "none", status |-> "active", amount |-> 0]
    BY <2>1 DEF PlansInit, Start
  <2> QED BY <2>2
<1> QED BY <1>1, <1>2 DEF PriceKept, OnePriceIn, IsIn

LEMMA OnePrice ==
  ASSUME PriceKept
  PROVE  OneActivePrice
<1>1. topic = "plan" /\ ~overlapped => \A p, q \in GetActivePrice : p = q
  BY DEF PriceKept, Futures, OnePriceIn, IsIn, GetActivePrice, Here
<1> QED BY <1>1, AtMostOne DEF OneActivePrice

-----------------------------------------------------------------------------
(* The invitation.                                                         *)
LEMMA InviteCall ==
  ASSUME InviteKept, topic = "signup", DOMAIN open = Slot \cup Job, NEW w, Call(w),
         ~overlapped /\ OneGuestIn(db) => OneGuestIn(Written(w))
  PROVE  InviteKept'
BY CallFutures DEF InviteKept, OneGuestIn, IsIn

LEMMA SignupColumns ==
  ASSUME SignupTyped, topic = "signup"
  PROVE  /\ Invite \in DOMAIN db /\ {"is", "status"} \subseteq DOMAIN db[Invite]
         /\ \A r \in Row : r \in DOMAIN db /\ {"is", "phone", "invited"} \subseteq DOMAIN db[r]
<1>1. /\ Invite \in DOMAIN db /\ db[Invite] \in InvitationRow
      /\ \A r \in Row : r \in DOMAIN db /\ db[r] \in SignupRow
  BY SignupRows DEF SignupTyped, Typed
<1> QED BY <1>1 DEF InvitationRow, SignupRow

LEMMA GuestsAreKept ==
  ASSUME SignupTyped, topic = "signup", NEW w, NEW p \in Row, \A c \in w : c[1] # p
  PROVE  IsIn(Written(w), p) = IsIn(db, p) /\ Written(w)[p].invited = db[p].invited
<1>1. ~Writes(w, p, "is") /\ ~Writes(w, p, "invited")
  BY DEF Writes
<1> QED BY <1>1, SignupColumns, WrittenKeeps DEF IsIn

LEMMA InviteIsKept ==
  ASSUME SignupTyped, topic = "signup", NEW w, \A c \in w : c[1] # Invite
  PROVE  IsIn(Written(w), Invite) = IsIn(db, Invite) /\ Written(w)[Invite].status = db[Invite].status
<1>1. ~Writes(w, Invite, "is") /\ ~Writes(w, Invite, "status")
  BY DEF Writes
<1> QED BY <1>1, SignupColumns, WrittenKeeps DEF IsIn

LEMMA SignupNames == Config # Invite /\ Config \notin Row /\ Invite \notin Row
BY AccountsAssumption DEF Config, Invite

LEMMA GuestSignsUp ==
  ASSUME InviteKept, SignupTyped, topic = "signup", DOMAIN open = Slot \cup Job,
         NEW phone \in User, NEW invite \in BOOLEAN, NEW r \in Row, Signup(phone, invite, r)
  PROVE  InviteKept'
<1> DEFINE columns == [phone |-> phone, invited |-> invite]
           redeems == IF invite THEN Change(Invite, "status", "redeemed") ELSE {}
           w == Insert(r, columns) \cup redeems
<1>1. Call(w)
  BY DEF Signup, Request
<1>2. DOMAIN columns = {"phone", "invited"} /\ columns["invited"] = invite
  OBVIOUS
<1>3. \A c \in Insert(r, columns) :
        c[1] = r /\ ((c[2] = "is" /\ c[3] = "here") \/ c \in Update(r, columns))
  BY InsertShape
<1>4. \A c \in redeems : c[1] = Invite /\ c[2] = "status" /\ c[3] = "redeemed"
  BY ChangeShape
<1>5. ~invite => redeems = {}
  OBVIOUS
<1>6. invite => redeems = Change(Invite, "status", "redeemed")
  OBVIOUS
<1>7. Update(r, columns) \subseteq Insert(r, columns)
  BY InsertShape
<1>8. invite => IsIn(db, Invite) /\ db[Invite].status = "sent"
  BY DEF Signup, CheckInvite, IsIn, Here
<1> HIDE DEF columns, redeems
<1>9. \A p \in Row \ {r} : IsIn(Written(w), p) = IsIn(db, p) /\ Written(w)[p].invited = db[p].invited
  <2>1. \A p \in Row \ {r} : \A c \in w : c[1] # p
    BY <1>3, <1>4, SignupNames
  <2> HIDE DEF w
  <2> QED BY <2>1, GuestsAreKept
<1>10. Written(w)[r].invited = invite
  <2>1. \A c \in w : c[1] = r /\ c[2] = "invited" => c \in Update(r, columns)
    BY <1>3, <1>4
  <2>2. Update(r, columns) \subseteq w
    BY <1>7
  <2> HIDE DEF w
  <2> QED BY <1>2, <2>1, <2>2, SignupColumns, UpdateIsWritten
<1>11. invite => IsIn(Written(w), Invite) /\ Written(w)[Invite].status = "redeemed"
  <2> SUFFICES ASSUME invite PROVE IsIn(Written(w), Invite) /\ Written(w)[Invite].status = "redeemed"
    OBVIOUS
  <2>1. \A c \in w : c[1] = Invite => c[2] = "status" /\ c[3] = "redeemed"
    BY <1>3, <1>4, SignupNames
  <2>2. Change(Invite, "status", "redeemed") \subseteq w
    BY <1>6
  <2>3. db[Invite].status = "redeemed" \/ Writes(w, Invite, "status")
    BY <2>2, ChangeShape DEF Writes
  <2>4. ~Writes(w, Invite, "is")
    BY <2>1 DEF Writes
  <2> HIDE DEF w
  <2> QED BY <1>8, <2>1, <2>3, <2>4, SignupColumns, WrittenKeeps, WrittenValue DEF IsIn
<1>12. ~invite => IsIn(Written(w), Invite) = IsIn(db, Invite) /\ Written(w)[Invite].status = db[Invite].status
  <2> SUFFICES ASSUME ~invite PROVE \A c \in w : c[1] # Invite
    <3> HIDE DEF w
    <3> QED BY InviteIsKept
  <2> QED BY <1>3, <1>5, SignupNames
<1> HIDE DEF w
<1>13. OneGuestIn(db) => OneGuestIn(Written(w))
  <2> SUFFICES ASSUME OneGuestIn(db) PROVE OneGuestIn(Written(w))
    OBVIOUS
  <2>1. CASE invite
    <3>1. \A p \in Row : IsIn(Written(w), p) /\ Written(w)[p].invited => p = r
      BY <1>8, <1>9, <2>1 DEF OneGuestIn
    <3> QED BY <1>11, <2>1, <3>1 DEF OneGuestIn
  <2>2. CASE ~invite
    <3>1. ASSUME NEW p \in Row, IsIn(Written(w), p), Written(w)[p].invited
          PROVE  p # r /\ IsIn(db, p) /\ db[p].invited
      BY <1>9, <1>10, <2>2, <3>1
    <3> QED BY <1>12, <2>2, <3>1 DEF OneGuestIn
  <2> QED BY <2>1, <2>2
<1> QED BY <1>1, <1>13, InviteCall

LEMMA InviteStays ==
  ASSUME InviteKept, SignupTyped, topic = "signup", DOMAIN open = Slot \cup Job, OpenAlone, SignupNext
  PROVE  InviteKept'
<1>1. ASSUME CreateInvitation PROVE InviteKept'
  <2> DEFINE w == Insert(Invite, [status |-> "sent"])
  <2>1. Call(w) /\ ~IsIn(db, Invite)
    BY <1>1 DEF CreateInvitation, Request, IsIn
  <2>2. \A p \in Row : \A c \in w : c[1] # p
    BY InsertShape, SignupNames
  <2> HIDE DEF w
  <2>3. \A p \in Row : IsIn(Written(w), p) = IsIn(db, p) /\ Written(w)[p].invited = db[p].invited
    BY <2>2, GuestsAreKept
  <2>4. OneGuestIn(db) => OneGuestIn(Written(w))
    BY <2>1, <2>3 DEF OneGuestIn
  <2> QED BY <2>1, <2>4, InviteCall
<1>2. ASSUME NEW on \in BOOLEAN, SetInviteOnlyMode(on) PROVE InviteKept'
  <2> DEFINE w == Change(Config, "invite_only", on)
  <2>1. Call(w)
    BY <1>2 DEF SetInviteOnlyMode, Request
  <2>2. \A c \in w : c[1] = Config
    BY ChangeShape
  <2> HIDE DEF w
  <2>3. \A p \in Row : IsIn(Written(w), p) = IsIn(db, p) /\ Written(w)[p].invited = db[p].invited
    <3>1. \A p \in Row : \A c \in w : c[1] # p
      BY <2>2, SignupNames
    <3> QED BY <3>1, GuestsAreKept
  <2>4. IsIn(Written(w), Invite) = IsIn(db, Invite) /\ Written(w)[Invite].status = db[Invite].status
    BY <2>2, SignupNames, InviteIsKept
  <2>5. OneGuestIn(db) => OneGuestIn(Written(w))
    BY <2>3, <2>4 DEF OneGuestIn
  <2> QED BY <2>1, <2>5, InviteCall
<1>3. ASSUME Expire PROVE InviteKept'
  BY <1>3, StillFutures DEF Expire, Outside, InviteKept, OneGuestIn, IsIn, tables
<1>4. ASSUME NEW t \in Slot, Commit(t) \/ RollBack(t) PROVE InviteKept'
  <2>1. UNCHANGED overlapped
    BY <1>4 DEF Commit, RollBack
  <2> QED BY <1>4, <2>1, EndFutures DEF InviteKept, OneGuestIn, IsIn
<1> QED BY <1>1, <1>2, <1>3, <1>4, GuestSignsUp DEF SignupNext, Signups, InviteOnly

LEMMA InviteStarts ==
  ASSUME SignupInit
  PROVE  InviteKept
<1>1. Futures = {db}
  BY DEF SignupInit, Start, Futures, Opened
<1>2. ASSUME NEW r \in Row PROVE db[r].is = "none"
  <2>1. r # Config /\ r # Invite
    BY SignupNames
  <2>2. db[r] = [is |-> "none", phone |-> None, invited |-> FALSE]
    BY <2>1 DEF SignupInit, Start
  <2> QED BY <2>2
<1> QED BY <1>1, <1>2 DEF InviteKept, OneGuestIn, IsIn

LEMMA OneInvitation ==
  ASSUME InviteKept
  PROVE  InvitationOnce
<1>1. topic = "signup" /\ ~overlapped => \A p, q \in {r \in Table : db[r].invited} : p = q
  BY DEF InviteKept, Futures, OneGuestIn, IsIn, Table, Here
<1> QED BY <1>1, AtMostOne DEF InvitationOnce

LEMMA BeginFutures ==
  ASSUME DOMAIN open = Slot \cup Job, NEW t \in Slot \cup Job, NEW w, Begin(t, w)
  PROVE  /\ db \in Futures
         /\ overlapped => overlapped'
         /\ UNCHANGED topic
         /\ \A T \in Futures' : T \in Futures \/ (w # {} /\ T = Written(w))
<1>1. Opens(t, w)
  BY BeginOpens
<1> QED BY <1>1, OpensFutures DEF Opens

LEMMA FuturesAreTyped ==
  ASSUME NEW schema, \A row \in DOMAIN schema : Product(schema[row]), Typed(schema),
         NEW T \in Futures
  PROVE  DOMAIN T = DOMAIN schema /\ \A row \in DOMAIN schema : T[row] \in schema[row]
<1>1. CASE T = db
  BY <1>1 DEF Typed
<1>2. ASSUME NEW t \in Opened, T = Written(open[t])
      PROVE  DOMAIN T = DOMAIN schema /\ \A row \in DOMAIN schema : T[row] \in schema[row]
  <2>1. DOMAIN T = DOMAIN schema
    BY <1>2, WrittenShape DEF Typed
  <2>2. ASSUME NEW row \in DOMAIN schema PROVE T[row] \in schema[row]
    <3>1. row \in DOMAIN db /\ db[row] \in schema[row] /\ Product(schema[row])
      BY DEF Typed
    <3>2. \A c \in open[t] : c[1] = row => /\ c[2] \in DOMAIN db[row]
                                           /\ [db[row] EXCEPT ![c[2]] = c[3]] \in schema[row]
      BY DEF Typed, Fit, FitsAt, Opened
    <3> QED BY <1>2, <3>1, <3>2, WrittenFits
  <2> QED BY <2>1, <2>2
<1> QED BY <1>1, <1>2 DEF Futures

-----------------------------------------------------------------------------
(* The positions.                                                          *)
LEMMA PlacesAreKept ==
  ASSUME LocationTyped, topic = "location", NEW w, NEW row \in Shares \cup Pings, \A c \in w : c[1] # row
  PROVE  Written(w)[row] = db[row]
<1>1. row \in DOMAIN db /\ (db[row] \in ShareRow \/ db[row] \in PingRow)
  BY LocationRows DEF LocationTyped, Typed
<1>2. db[row] = [column \in DOMAIN db[row] |-> db[row][column]]
  BY <1>1 DEF ShareRow, PingRow
<1> QED BY <1>1, <1>2, RowIsKept

LEMMA PlaceColumns ==
  ASSUME LocationTyped, topic = "location"
  PROVE  /\ \A k \in Shares : k \in DOMAIN db /\ DOMAIN db[k] = {"is", "expires", "revoked"}
         /\ \A p \in Pings : p \in DOMAIN db /\ DOMAIN db[p] = {"is", "of", "at"}
<1>1. /\ \A k \in Shares : k \in DOMAIN db /\ db[k] \in ShareRow
      /\ \A p \in Pings : p \in DOMAIN db /\ db[p] \in PingRow
  BY LocationRows DEF LocationTyped, Typed
<1> QED BY <1>1 DEF ShareRow, PingRow

LEMMA PlacesInFutures ==
  ASSUME LocationTyped, topic = "location", NEW T \in Futures
  PROVE  (\A k \in Shares : T[k] \in ShareRow) /\ \A p \in Pings : T[p] \in PingRow
<1>1. \A row \in DOMAIN LocationSchema : T[row] \in LocationSchema[row]
  BY LocationProducts, FuturesAreTyped DEF LocationTyped
<1> QED BY <1>1, LocationRows

LEMMA PingCall ==
  ASSUME PingsKept, topic = "location", DOMAIN open = Slot \cup Job, NEW w,
         Call(w) \/ (\E t \in Slot \cup Job : Begin(t, w)), UNCHANGED outside,
         ~overlapped /\ PingsIn(db) => PingsIn(Written(w))
  PROVE  PingsKept'
<1>1. /\ db \in Futures /\ (overlapped => overlapped')
      /\ \A T \in Futures' : T \in Futures \/ T = Written(w)
  BY CallFutures, BeginFutures
<1>2. \A T : PingsIn(T) => PingsIn(T)'
  BY DEF PingsIn, IsIn, now
<1> QED BY <1>1, <1>2 DEF PingsKept

LEMMA ShareSteps ==
  ASSUME LocationTyped, topic = "location", PingsIn(db), NEW k \in Shares
  PROVE  /\ CreateShare(k) => PingsIn(Written(Insert(k, [expires |-> now + Duration])))
         /\ RevokeShare(k) => PingsIn(Written(Change(k, "revoked", now)))
<1>0. now \in Moments /\ \A p \in Pings : db[p].at \in Moments /\ db[p].of \in Shares
  BY LocationRows DEF LocationTyped, PingRow, now
<1>1. ASSUME CreateShare(k) PROVE PingsIn(Written(Insert(k, [expires |-> now + Duration])))
  <2> DEFINE w == Insert(k, [expires |-> now + Duration])
             T == Written(w)
  <2>1. ~Here(k)
    BY <1>1, NextIsFree DEF CreateShare, Here
  <2>2. \A c \in w : c[1] = k
    BY InsertShape
  <2> HIDE DEF w
  <2>3. \A row \in Shares \cup Pings : row # k => T[row] = db[row]
    BY <2>2, PlacesAreKept
  <2>4. \A p \in Pings : T[p] = db[p]
    BY <2>3, LocationNames
  <2>5. \A p \in Pings : Here(p) \/ db[p].is = "gone" => db[p].of # k
    BY <2>1 DEF PingsIn, IsIn, Here
  <2> HIDE DEF T
  <2>6. PingsIn(T)
    BY <1>0, <2>3, <2>4, <2>5 DEF PingsIn, IsIn, Here
  <2> QED BY <2>6 DEF T, w
<1>2. ASSUME RevokeShare(k) PROVE PingsIn(Written(Change(k, "revoked", now)))
  <2> DEFINE w == Change(k, "revoked", now)
             T == Written(w)
  <2>1. \A c \in w : c[1] = k /\ c[2] = "revoked" /\ c[3] = now
    BY ChangeShape
  <2>2. db[k].revoked = now \/ Writes(w, k, "revoked")
    BY ChangeShape
  <2> HIDE DEF w
  <2>3. \A row \in Shares \cup Pings : row # k => T[row] = db[row]
    BY <2>1, PlacesAreKept
  <2>4. T[k].is = db[k].is /\ T[k].expires = db[k].expires /\ T[k].revoked = now
    <3>1. ~Writes(w, k, "is") /\ ~Writes(w, k, "expires")
      BY <2>1 DEF Writes
    <3>2. k \in DOMAIN db /\ DOMAIN db[k] = {"is", "expires", "revoked"}
      BY PlaceColumns
    <3>3. T[k].is = db[k].is /\ T[k].expires = db[k].expires
      BY <3>1, <3>2, WrittenKeeps
    <3>4. T[k].revoked = now
      BY <2>1, <2>2, <3>2, WrittenValue
    <3> QED BY <3>3, <3>4
  <2>5. \A p \in Pings : T[p] = db[p]
    BY <2>3, LocationNames
  <2> HIDE DEF T
  <2>51. now # None
    BY <1>0, ToolsAssumption DEF Moments
  <2>6. PingsIn(T)
    BY <1>0, <2>3, <2>4, <2>5, <2>51 DEF PingsIn, IsIn
  <2> QED BY <2>6 DEF T, w
<1> QED BY <1>1, <1>2

LEMMA PingStep ==
  ASSUME LocationTyped, topic = "location", PingsIn(db), NEW k \in Shares, NEW p \in Pings,
         RecordPing(k, p)
  PROVE  PingsIn(Written(Insert(p, [of |-> k, at |-> now])))
<1>0. now \in Moments /\ \A q \in Pings : db[q].at \in Moments /\ db[q].of \in Shares
  BY LocationRows DEF LocationTyped, PingRow, now
<1> DEFINE columns == [of |-> k, at |-> now]
           w == Insert(p, columns)
           T == Written(w)
<1>1. DOMAIN columns = {"of", "at"} /\ columns["of"] = k /\ columns["at"] = now
  OBVIOUS
<1> HIDE DEF columns
<1>2. /\ \A c \in w : c[1] = p /\ ((c[2] = "is" /\ c[3] = "here") \/ c \in Update(p, columns))
      /\ Writes(w, p, "is") /\ Update(p, columns) \subseteq w
  BY InsertShape
<1>3. \A c \in Update(p, columns) : c[2] \in {"of", "at"}
  BY <1>1, UpdateShape
<1> HIDE DEF w
<1>4. T[p].is = "here" /\ T[p].of = k /\ T[p].at = now
  <2>1. p \in DOMAIN db /\ DOMAIN db[p] = {"is", "of", "at"}
    BY PlaceColumns
  <2>2. T[p].is = "here"
    BY <1>2, <1>3, <2>1, WrittenValue
  <2>3. T[p].of = columns["of"] /\ T[p].at = columns["at"]
    BY <1>1, <1>2, <2>1, UpdateIsWritten
  <2> QED BY <1>1, <2>2, <2>3
<1>5. \A row \in Shares \cup Pings : row # p => T[row] = db[row]
  BY <1>2, PlacesAreKept
<1>6. \A j \in Shares : T[j] = db[j]
  BY <1>5, LocationNames
<1>7. Here(k) /\ db[k].revoked = None /\ now < db[k].expires
  <2>1. db[k].expires \in 0..6
    BY LocationRows DEF ShareRow
  <2> QED BY <1>0, <2>1 DEF RecordPing, Active, Moments
<1> HIDE DEF T
<1>8. PingsIn(T)
  BY <1>0, <1>4, <1>5, <1>6, <1>7 DEF PingsIn, IsIn, Here, Moments
<1> QED BY <1>8 DEF T, w, columns

LEMMA PurgeStep ==
  ASSUME LocationTyped, topic = "location", PingsIn(db)
  PROVE  PingsIn(Written(UNION {Delete(p) : p \in {q \in Pings : Here(q) /\ Past(db[q].of)}}))
<1>0. /\ now \in Moments
      /\ \A q \in Pings : db[q].at \in Moments /\ db[q].of \in Shares
      /\ \A k \in Shares : db[k].expires \in 0..6 /\ db[k].revoked \in Moments \cup {None}
  BY LocationRows DEF LocationTyped, PingRow, ShareRow, now
<1> DEFINE due == {q \in Pings : Here(q) /\ Past(db[q].of)}
           w == UNION {Delete(p) : p \in due}
           T == Written(w)
<1>1. \A c \in w : c[1] \in due /\ c[2] = "is" /\ c[3] = "gone"
  BY ChangeShape DEF Delete
<1>2. due \subseteq Pings
  OBVIOUS
<1>3. \A q \in due : db[q].at + PingGrace < now
  <2> SUFFICES ASSUME NEW q \in due PROVE db[q].at + PingGrace < now
    OBVIOUS
  <2>1. IsIn(db, q) /\ Past(db[q].of)
    BY DEF IsIn, Here
  <2>2. db[q].at < db[db[q].of].expires /\ (db[db[q].of].revoked # None => db[q].at <= db[db[q].of].revoked)
    BY <1>2, <2>1 DEF PingsIn
  <2> QED BY <1>0, <1>2, <2>1, <2>2 DEF Past, Moments, PingGrace
<1> HIDE DEF due, w
<1>4. \A q \in Pings \ due : T[q] = db[q]
  BY <1>1, PlacesAreKept
<1>5. \A k \in Shares : T[k] = db[k]
  <2>1. \A k \in Shares : \A c \in w : c[1] # k
    BY <1>1, <1>2, LocationNames
  <2> QED BY <2>1, PlacesAreKept
<1>6. \A q \in due : T[q].at = db[q].at
  <2>1. \A q \in due : ~Writes(w, q, "at")
    BY <1>1 DEF Writes
  <2> QED BY <1>2, <2>1, PlaceColumns, WrittenKeeps
<1>7. \A q \in due : T[q].is = "gone"
  <2> SUFFICES ASSUME NEW q \in due PROVE T[q].is = "gone"
    OBVIOUS
  <2>1. Delete(q) \subseteq w
    BY DEF w
  <2>2. db[q].is = "gone" \/ Writes(w, q, "is")
    BY <2>1, ChangeShape DEF Delete, Writes
  <2> QED BY <1>1, <1>2, <2>2, PlaceColumns, WrittenValue
<1> HIDE DEF T
<1>8. \A q \in due : now > T[q].at + PingGrace
  BY <1>0, <1>2, <1>3, <1>6 DEF Moments, PingGrace
<1>80. \A q \in due : /\ T[q].of = db[q].of /\ IsIn(db, db[q].of)
                      /\ now > db[db[q].of].expires + PingGrace \/ db[db[q].of].revoked # None
  <2>1. \A q \in due : ~Writes(w, q, "of")
    BY <1>1 DEF Writes
  <2>2. \A q \in due : T[q].of = db[q].of
    BY <1>2, <2>1, PlaceColumns, WrittenKeeps DEF T
  <2>3. \A q \in due : IsIn(db, db[q].of) /\ Past(db[q].of)
    BY <1>2 DEF due, PingsIn, IsIn, Here
  <2> QED BY <1>0, <1>2, <2>2, <2>3 DEF Past, PingGrace, Moments
<1>9. ASSUME NEW q \in Pings
      PROVE  /\ IsIn(T, q) =>
                  /\ T[q].at <= now /\ IsIn(T, T[q].of) /\ T[q].at < T[T[q].of].expires
                  /\ T[T[q].of].revoked # None => T[q].at <= T[T[q].of].revoked
             /\ T[q].is = "gone" =>
                  /\ now > T[q].at + PingGrace /\ IsIn(T, T[q].of)
                  /\ now > T[T[q].of].expires + PingGrace \/ T[T[q].of].revoked # None
  <2>1. CASE q \in due
    <3>1. db[q].of \in Shares
      BY <1>0
    <3>2. T[db[q].of] = db[db[q].of]
      BY <1>5, <3>1
    <3> QED BY <1>7, <1>8, <1>80, <2>1, <3>2 DEF IsIn
  <2>2. CASE q \notin due
    BY <1>0, <1>4, <1>5, <2>2 DEF PingsIn, IsIn
  <2> QED BY <2>1, <2>2
<1>10. PingsIn(T)
  BY <1>9 DEF PingsIn
<1> QED BY <1>10 DEF T, w, due

LEMMA PingsStay ==
  ASSUME PingsKept, LocationTyped, topic = "location", DOMAIN open = Slot \cup Job, OpenAlone, LocationNext
  PROVE  PingsKept'
<1>1. ASSUME NEW k \in Shares, CreateShare(k) PROVE PingsKept'
  BY <1>1, ShareSteps, PingCall DEF CreateShare, Request
<1>2. ASSUME NEW k \in Shares, RevokeShare(k) PROVE PingsKept'
  BY <1>2, ShareSteps, PingCall DEF RevokeShare, Request
<1>3. ASSUME NEW k \in Shares, NEW p \in Pings, RecordPing(k, p) PROVE PingsKept'
  BY <1>3, PingStep, PingCall DEF RecordPing, Request
<1>4. ASSUME NEW t \in Job, PurgeExpired(t) PROVE PingsKept'
  BY <1>4, PurgeStep, PingCall DEF PurgeExpired
<1>5. ASSUME UNCHANGED tables, now' = now \/ now' = now + 1 PROVE PingsKept'
  <2>1. now \in Moments
    BY DEF LocationTyped, now
  <2>2. ASSUME NEW T \in Futures, PingsIn(T) PROVE PingsIn(T)'
    <3>1. /\ \A p \in Pings : T[p].at \in Moments /\ T[p].of \in Shares
          /\ \A k \in Shares : T[k].expires \in 0..6
      BY PlacesInFutures DEF PingRow, ShareRow
    <3> QED BY <1>5, <2>1, <2>2, <3>1 DEF PingsIn, IsIn, Moments, PingGrace
  <2>3. Futures' = Futures
    BY <1>5, StillFutures
  <2> QED BY <1>5, <2>2, <2>3 DEF PingsKept, tables
<1>6. ASSUME Clock \/ TrustEnds PROVE PingsKept'
  <2>1. DOMAIN outside = {"now", "trusted"}
    BY DEF LocationTyped
  <2>2. UNCHANGED tables
    BY <1>6 DEF Clock, TrustEnds, Outside
  <2>3. now' = now \/ now' = now + 1
    BY <1>6, <2>1 DEF Clock, TrustEnds, Outside, now
  <2> QED BY <1>5, <2>2, <2>3
<1>7. ASSUME NEW t \in Slot \cup Job, Commit(t) \/ (RollBack(t) /\ UNCHANGED outside) PROVE PingsKept'
  <2>1. UNCHANGED overlapped /\ UNCHANGED outside
    BY <1>7 DEF Commit, RollBack
  <2>2. \A T : PingsIn(T) => PingsIn(T)'
    BY <2>1 DEF PingsIn, IsIn, now
  <2> QED BY <1>7, <2>1, <2>2, EndFutures DEF PingsKept
<1> QED BY <1>1, <1>2, <1>3, <1>4, <1>6, <1>7 DEF LocationNext

LEMMA PingsStart ==
  ASSUME LocationInit
  PROVE  PingsKept
<1>1. Futures = {db}
  BY DEF LocationInit, Start, Futures, Opened
<1>2. ASSUME NEW p \in Pings PROVE db[p].is = "none"
  <2>1. p \notin Shares
    BY LocationNames
  <2>2. db[p] = [is |-> "none", of |-> Share(1), at |-> 0]
    BY <2>1 DEF LocationInit, Start
  <2> QED BY <2>2
<1> QED BY <1>1, <1>2 DEF PingsKept, PingsIn, IsIn

LEMMA PositionsAreTrue ==
  ASSUME PingsKept
  PROVE  PingsWithinShare
BY DEF PingsKept, PingsWithinShare, Futures, PingsIn, IsIn, Here

-----------------------------------------------------------------------------
(* The requests of a data subject.                                         *)
LEMMA SubjectColumns ==
  ASSUME ComplianceTyped, topic = "compliance"
  PROVE  /\ Subject \in DOMAIN db /\ DOMAIN db[Subject] = {"is", "state", "due"}
         /\ \A k \in DataRequests : k \in DOMAIN db /\ DOMAIN db[k] = {"is", "type", "status", "export"}
         /\ Subject \notin DataRequests
<1>1. /\ Subject \in DOMAIN db /\ db[Subject] \in SubjectRow
      /\ \A k \in DataRequests : k \in DOMAIN db /\ db[k] \in DataRequestRow
  BY ComplianceRows DEF ComplianceTyped, Typed
<1>2. (\A k \in DataRequests : k[1] = "data_request") /\ Subject[1] = "subject"
  BY DEF DataRequests, DataRequest, Subject
<1> QED BY <1>1, <1>2 DEF SubjectRow, DataRequestRow

LEMMA DataIsKept ==
  ASSUME ComplianceTyped, topic = "compliance", NEW w, NEW row \in DataRequests \cup {Subject}, \A c \in w : c[1] # row
  PROVE  Written(w)[row] = db[row]
<1>1. row \in DOMAIN db /\ (db[row] \in SubjectRow \/ db[row] \in DataRequestRow)
  BY ComplianceRows DEF ComplianceTyped, Typed
<1>2. db[row] = [column \in DOMAIN db[row] |-> db[row][column]]
  BY <1>1 DEF SubjectRow, DataRequestRow
<1> QED BY <1>1, <1>2, RowIsKept

(* What is outside: exports are made and the account is given back, once   *)
(* and for all.                                                            *)
MoreExports ==
  /\ DOMAIN outside' = DOMAIN outside
  /\ outside.exports \subseteq outside'.exports
  /\ outside.back => outside'.back

LEMMA StillHonoured ==
  ASSUME MoreExports
  PROVE  \A T : HonouredIn(T) => HonouredIn(T)'
BY DEF MoreExports, HonouredIn

LEMMA DataCall ==
  ASSUME RequestsKept, topic = "compliance", DOMAIN open = Slot \cup Job, NEW w,
         Call(w) \/ (\E t \in Slot \cup Job : Begin(t, w)), MoreExports,
         \A T : T = Written(w) /\ ~overlapped /\ HonouredIn(db) => HonouredIn(T)'
  PROVE  RequestsKept'
<1>1. /\ db \in Futures /\ (overlapped => overlapped')
      /\ \A T \in Futures' : T \in Futures \/ T = Written(w)
  BY CallFutures, BeginFutures
<1>2. \A T : HonouredIn(T) => HonouredIn(T)'
  BY StillHonoured
<1>3. ASSUME ~overlapped', NEW T \in Futures' PROVE HonouredIn(T)'
  <2>1. CASE T \in Futures
    BY <1>1, <1>2, <1>3, <2>1 DEF RequestsKept
  <2>2. CASE T = Written(w)
    <3>1. ~overlapped /\ HonouredIn(db)
      BY <1>1, <1>3 DEF RequestsKept
    <3> QED BY <2>2, <3>1
  <2> QED BY <1>1, <2>1, <2>2
<1> QED BY <1>3 DEF RequestsKept, MoreExports

(* What becomes of the request k, when nothing else is written.            *)
LEMMA OneIsHandled ==
  ASSUME ComplianceTyped, topic = "compliance", HonouredIn(db), MoreExports,
         NEW k \in DataRequests, NEW w, \A c \in w : c[1] = k,
         NEW T, T = Written(w),
         T[k].is = "none" => T[k].status = "pending" /\ ~T[k].export,
         T[k].status # "completed" \/ T[k].type # "deletion",
         T[k].export => T[k].status = "completed" /\ k \in outside'.exports
  PROVE  HonouredIn(T)'
<1>1. T[Subject] = db[Subject] /\ \A j \in DataRequests : j # k => T[j] = db[j]
  BY DataIsKept, SubjectColumns
<1> QED BY <1>1 DEF HonouredIn, MoreExports

LEMMA RequestIsFiled ==
  ASSUME ComplianceTyped, topic = "compliance", HonouredIn(db), UNCHANGED outside,
         NEW k \in DataRequests, NEW type \in {"access", "deletion"}, FileRequest(k, type),
         NEW T, T = Written(Insert(k, [type |-> type]))
  PROVE  HonouredIn(T)'
<1> DEFINE columns == [type |-> type]
           w == Insert(k, columns)
<1>1. DOMAIN columns = {"type"}
  OBVIOUS
<1> HIDE DEF columns
<1>2. /\ \A c \in w : c[1] = k /\ ((c[2] = "is" /\ c[3] = "here") \/ c \in Update(k, columns))
      /\ Writes(w, k, "is")
  BY InsertShape
<1>3. \A c \in Update(k, columns) : c[2] = "type"
  BY <1>1, UpdateShape
<1>4. T = Written(w)
  BY DEF columns
<1> HIDE DEF w
<1>5. k \in DOMAIN db /\ DOMAIN db[k] = {"is", "type", "status", "export"}
  BY SubjectColumns
<1>6. T[k].is = "here"
  BY <1>2, <1>3, <1>4, <1>5, WrittenValue
<1>7. ~Writes(w, k, "status") /\ ~Writes(w, k, "export")
  BY <1>2, <1>3 DEF Writes
<1>8. T[k].status = db[k].status /\ T[k].export = db[k].export
  BY <1>4, <1>5, <1>7, WrittenKeeps
<1>9. db[k].status = "pending" /\ ~db[k].export
  <2>1. db[k].is = "none"
    BY NextIsFree DEF FileRequest
  <2> QED BY <2>1 DEF HonouredIn
<1>10. MoreExports
  BY DEF MoreExports
<1> QED BY <1>2, <1>4, <1>6, <1>8, <1>9, <1>10, OneIsHandled

LEMMA RequestIsMoved ==
  ASSUME ComplianceTyped, topic = "compliance", HonouredIn(db), UNCHANGED outside,
         NEW k \in DataRequests, NEW status \in {"in_progress", "rejected"}, Actionable(k),
         NEW T, T = Written(Change(k, "status", status))
  PROVE  HonouredIn(T)'
<1> DEFINE w == Change(k, "status", status)
<1>1. \A c \in w : c[1] = k /\ c[2] = "status" /\ c[3] = status
  BY ChangeShape
<1>2. db[k].status = status \/ Writes(w, k, "status")
  BY ChangeShape
<1> HIDE DEF w
<1>3. k \in DOMAIN db /\ DOMAIN db[k] = {"is", "type", "status", "export"}
  BY SubjectColumns
<1>4. T = Written(w)
  BY DEF w
<1>5. T[k].status = status
  BY <1>1, <1>2, <1>3, <1>4, WrittenValue
<1>6. ~Writes(w, k, "is") /\ ~Writes(w, k, "export")
  BY <1>1 DEF Writes
<1>7. T[k].is = db[k].is /\ T[k].export = db[k].export
  BY <1>3, <1>4, <1>6, WrittenKeeps
<1>8. db[k].is # "none" /\ ~db[k].export
  BY DEF Actionable, Here, HonouredIn
<1>9. MoreExports
  BY DEF MoreExports
<1> QED BY <1>1, <1>4, <1>5, <1>7, <1>8, <1>9, OneIsHandled

LEMMA ExportIsMade ==
  ASSUME ComplianceTyped, topic = "compliance", HonouredIn(db), MoreExports,
         NEW k \in DataRequests, k \in outside'.exports, Actionable(k), db[k].type = "access",
         NEW T, T = Written(Update(k, [status |-> "completed", export |-> TRUE]))
  PROVE  HonouredIn(T)'
<1> DEFINE columns == [status |-> "completed", export |-> TRUE]
           w == Update(k, columns)
<1>1. DOMAIN columns = {"status", "export"} /\ columns["status"] = "completed"
  OBVIOUS
<1> HIDE DEF columns
<1>2. \A c \in w : c[1] = k /\ c[2] \in {"status", "export"}
  BY <1>1, UpdateShape
<1>3. k \in DOMAIN db /\ DOMAIN db[k] = {"is", "type", "status", "export"}
  BY SubjectColumns
<1>4. T = Written(w)
  BY DEF columns
<1>5. T[k].status = "completed"
  BY <1>1, <1>3, <1>4, UpdateIsWritten
<1> HIDE DEF w
<1>6. ~Writes(w, k, "is") /\ ~Writes(w, k, "type")
  BY <1>2 DEF Writes
<1>7. T[k].is = db[k].is /\ T[k].type = db[k].type
  BY <1>3, <1>4, <1>6, WrittenKeeps
<1>8. db[k].is # "none"
  BY DEF Actionable, Here
<1> QED BY <1>2, <1>4, <1>5, <1>7, <1>8, OneIsHandled

LEMMA DeletionIsMade ==
  ASSUME ComplianceTyped, topic = "compliance", HonouredIn(db), UNCHANGED outside,
         NEW k \in DataRequests, Actionable(k),
         NEW T, T = Written(Change(k, "status", "completed") \cup Deactivated)
  PROVE  HonouredIn(T)'
<1> DEFINE on == TRUE
           columns == [state |-> "deactivated", due |-> on]
           w == Change(k, "status", "completed") \cup Update(Subject, columns)
<1>0. T = Written(w) /\ on
  BY DEF Deactivated
<1> HIDE DEF on
<1>1. DOMAIN columns = {"state", "due"} /\ columns["state"] = "deactivated" /\ columns["due"] = on
  OBVIOUS
<1> HIDE DEF columns
<1>2. \A c \in Update(Subject, columns) : c[1] = Subject /\ c[2] \in {"state", "due"}
  BY <1>1, UpdateShape
<1>3. /\ \A c \in Change(k, "status", "completed") : c[1] = k /\ c[2] = "status" /\ c[3] = "completed"
      /\ db[k].status = "completed" \/ Writes(Change(k, "status", "completed"), k, "status")
  BY ChangeShape
<1>4. db[k].status # "completed" /\ Here(k)
  BY DEF Actionable
<1>5. Writes(w, k, "status") /\ \A c \in w : c[1] = k => c[2] = "status" /\ c[3] = "completed"
  BY <1>2, <1>3, <1>4, SubjectColumns DEF Writes
<1>6. Update(Subject, columns) \subseteq w /\ \A c \in w : c[1] = Subject => c \in Update(Subject, columns)
  BY <1>3, SubjectColumns
<1>7. \A c \in w : c[1] \in {k, Subject}
  BY <1>2, <1>3
<1> HIDE DEF w
<1>8. k \in DOMAIN db /\ DOMAIN db[k] = {"is", "type", "status", "export"}
  BY SubjectColumns
<1>9. Subject \in DOMAIN db /\ DOMAIN db[Subject] = {"is", "state", "due"}
  BY SubjectColumns
<1>10. T[Subject].state = columns["state"] /\ T[Subject].due = columns["due"]
  <2>1. \A column \in DOMAIN columns : Written(w)[Subject][column] = columns[column]
    <3> SUFFICES ASSUME NEW column \in DOMAIN columns PROVE Written(w)[Subject][column] = columns[column]
      OBVIOUS
    <3>1. column \in DOMAIN db[Subject]
      BY <1>1, <1>9
    <3> QED BY <1>6, <1>9, <3>1, UpdateIsWritten
  <2> QED BY <1>0, <1>1, <2>1
<1>11. \A j \in DataRequests : j # k => T[j] = db[j]
  BY <1>0, <1>7, DataIsKept, SubjectColumns
<1>12. ~Writes(w, k, "is") /\ ~Writes(w, k, "export")
  BY <1>5 DEF Writes
<1>13. T[k].is = db[k].is /\ T[k].export = db[k].export
  BY <1>0, <1>8, <1>12, WrittenKeeps
<1>14. db[k].is # "none" /\ ~db[k].export
  BY <1>4 DEF Here, HonouredIn
<1>15. T[Subject].state = "deactivated" /\ T[Subject].due
  BY <1>0, <1>1, <1>10
<1>16. T[k].is # "none" /\ ~T[k].export
  BY <1>13, <1>14, Zenon
<1>17. \A j \in DataRequests : j # k =>
         /\ T[j].is = "none" => T[j].status = "pending" /\ ~T[j].export
         /\ T[j].export => T[j].status = "completed" /\ j \in outside.exports
  BY <1>11 DEF HonouredIn
<1> QED BY <1>15, <1>16, <1>17 DEF HonouredIn

LEMMA SubjectIsMoved ==
  ASSUME ComplianceTyped, topic = "compliance", HonouredIn(db), MoreExports, outside'.back,
         NEW w, \A c \in w : c[1] = Subject, NEW T, T = Written(w)
  PROVE  HonouredIn(T)'
<1>1. \A j \in DataRequests : T[j] = db[j]
  BY DataIsKept, SubjectColumns
<1> QED BY <1>1 DEF HonouredIn, MoreExports

LEMMA SubjectIsDeleted ==
  ASSUME ComplianceTyped, topic = "compliance", HonouredIn(db), UNCHANGED outside, NEW T,
         T = Written(Delete(Subject) \cup UNION {Delete(k) : k \in {r \in DataRequests : Here(r)}})
  PROVE  HonouredIn(T)'
<1> DEFINE w == Delete(Subject) \cup UNION {Delete(k) : k \in {r \in DataRequests : Here(r)}}
<1>1. \A c \in w : c[2] = "is" /\ c[3] = "gone" /\ (c[1] = Subject \/ Here(c[1]))
  BY ChangeShape DEF Delete
<1>2. T = Written(w)
  OBVIOUS
<1> HIDE DEF w
<1>3. \A row : ~Writes(w, row, "state") /\ ~Writes(w, row, "due") /\ ~Writes(w, row, "type")
                /\ ~Writes(w, row, "status") /\ ~Writes(w, row, "export")
  BY <1>1 DEF Writes
<1>4. T[Subject].state = db[Subject].state /\ T[Subject].due = db[Subject].due
  BY <1>2, <1>3, SubjectColumns, WrittenKeeps
<1>5. \A k \in DataRequests :
        T[k].type = db[k].type /\ T[k].status = db[k].status /\ T[k].export = db[k].export
  BY <1>2, <1>3, SubjectColumns, WrittenKeeps
<1>6. ASSUME NEW k \in DataRequests, T[k].is = "none" PROVE db[k].is = "none"
  <2>1. k \in DOMAIN db /\ DOMAIN db[k] = {"is", "type", "status", "export"} /\ k # Subject
    BY SubjectColumns
  <2>2. CASE Writes(w, k, "is")
    <3>1. T[k].is = "gone"
      BY <1>1, <1>2, <2>1, <2>2, WrittenTakes
    <3> QED BY <1>6, <3>1
  <2>3. CASE ~Writes(w, k, "is")
    BY <1>2, <1>6, <2>1, <2>3, WrittenKeeps
  <2> QED BY <2>2, <2>3
<1> QED BY <1>4, <1>5, <1>6 DEF HonouredIn

LEMMA RequestsStay ==
  ASSUME RequestsKept, ComplianceTyped, topic = "compliance", DOMAIN open = Slot \cup Job, OpenAlone,
         ComplianceNext
  PROVE  RequestsKept'
<1>0. DOMAIN outside = {"exports", "late", "back"}
  BY DEF RequestsKept
<1>1. UNCHANGED outside => MoreExports
  BY DEF MoreExports
<1>2. ASSUME NEW k \in DataRequests, NEW type \in {"access", "deletion"}, FileRequest(k, type) PROVE RequestsKept'
  <2>1. Call(Insert(k, [type |-> type])) /\ UNCHANGED outside
    BY <1>2 DEF FileRequest, Request
  <2> QED BY <1>1, <1>2, <2>1, RequestIsFiled, DataCall
<1>3. ASSUME NEW k \in DataRequests, MarkInProgress(k) \/ RejectRequest(k) PROVE RequestsKept'
  <2>1. PICK status \in {"in_progress", "rejected"} : Request(Change(k, "status", status))
    BY <1>3 DEF MarkInProgress, RejectRequest
  <2>2. Call(Change(k, "status", status)) /\ UNCHANGED outside /\ Actionable(k)
    BY <1>3, <2>1 DEF Request, MarkInProgress, RejectRequest
  <2> QED BY <1>1, <2>2, RequestIsMoved, DataCall
<1>4. ASSUME NEW k \in DataRequests, CompleteRequest(k) PROVE RequestsKept'
  <2>1. CASE /\ db[k].type = "access" /\ Actionable(k)
             /\ Call(Update(k, [status |-> "completed", export |-> TRUE]))
             /\ outside' = [outside EXCEPT !.exports = @ \cup {k}]
    <3>1. MoreExports /\ k \in outside'.exports
      BY <1>0, <2>1 DEF MoreExports
    <3> QED BY <2>1, <3>1, ExportIsMade, DataCall
  <2>2. CASE /\ Actionable(k) /\ UNCHANGED outside
             /\ Call(Change(k, "status", "completed") \cup Deactivated)
    BY <1>1, <2>2, DeletionIsMade, DataCall
  <2> QED BY <1>4, <2>1, <2>2 DEF CompleteRequest
<1>5. ASSUME AccountChanges PROVE RequestsKept'
  <2>1. MoreExports /\ outside'.back
    BY <1>0, <1>5 DEF AccountChanges, MoreExports
  <2>2. ASSUME NEW w, Call(w), \A c \in w : c[1] = Subject PROVE RequestsKept'
    BY <2>1, <2>2, SubjectIsMoved, DataCall
  <2>3. \A columns : \A c \in Update(Subject, columns) : c[1] = Subject
    BY UpdateShape
  <2>4. \A column, v : \A c \in Change(Subject, column, v) : c[1] = Subject
    BY ChangeShape
  <2> QED BY <1>5, <2>2, <2>3, <2>4 DEF AccountChanges
<1>6. ASSUME UNCHANGED tables, MoreExports PROVE RequestsKept'
  <2>1. Futures' = Futures /\ topic' = topic /\ overlapped' = overlapped
    BY <1>6, StillFutures DEF tables
  <2> QED BY <1>6, <2>1, StillHonoured DEF RequestsKept, MoreExports
<1>7. ASSUME GraceEnds PROVE RequestsKept'
  <2>1. UNCHANGED tables /\ MoreExports
    BY <1>0, <1>7 DEF GraceEnds, Outside, MoreExports
  <2> QED BY <1>6, <2>1
<1>8. ASSUME NEW t \in Job, DeleteSubject(t) PROVE RequestsKept'
  BY <1>1, <1>8, SubjectIsDeleted, DataCall DEF DeleteSubject
<1>9. ASSUME NEW t \in Slot \cup Job, Commit(t) \/ (RollBack(t) /\ UNCHANGED outside) PROVE RequestsKept'
  <2>1. UNCHANGED overlapped /\ UNCHANGED outside
    BY <1>9 DEF Commit, RollBack
  <2>2. \A T : HonouredIn(T) => HonouredIn(T)'
    BY <1>1, <2>1, StillHonoured
  <2> QED BY <1>9, <2>1, <2>2, EndFutures DEF RequestsKept
<1> QED BY <1>2, <1>3, <1>4, <1>5, <1>7, <1>8, <1>9 DEF ComplianceNext

LEMMA RequestsStart ==
  ASSUME ComplianceInit
  PROVE  RequestsKept
<1>1. Futures = {db} /\ outside = [exports |-> {}, late |-> FALSE, back |-> FALSE]
  BY DEF ComplianceInit, Start, Futures, Opened
<1>2. ASSUME NEW k \in DataRequests PROVE db[k].status = "pending" /\ ~db[k].export
  <2>1. k # Subject
    BY DEF DataRequests, DataRequest, Subject
  <2>2. db[k] = [is |-> "none", type |-> "access", status |-> "pending", export |-> FALSE]
    BY <2>1 DEF ComplianceInit, Start
  <2> QED BY <2>2
<1>3. HonouredIn(db)
  BY <1>2 DEF HonouredIn
<1> QED BY <1>1, <1>3 DEF RequestsKept

LEMMA AllAreHonoured ==
  ASSUME RequestsKept
  PROVE  RequestsAreHonoured
BY DEF RequestsKept, RequestsAreHonoured, Futures, HonouredIn

-----------------------------------------------------------------------------
(* The minutes.                                                            *)
LEMMA MinutesRowIsTyped ==
  ASSUME MinutesTyped, topic = "minutes"
  PROVE  /\ minutes.planned \in Nat \cup {None} /\ minutes.added \in Nat /\ outside.granted \in Nat /\ Minutes \in Nat
         /\ "minutes" \in DOMAIN db /\ {"planned", "added"} \subseteq DOMAIN minutes
         /\ \A t \in DOMAIN open : \A c \in open[t] : c[2] = "added" => c[3] \in Nat
<1>1. minutes \in MinutesRow /\ outside.granted \in Nat /\ "minutes" \in DOMAIN db
  BY DEF MinutesTyped, Typed, MinutesSchema, minutes
<1>2. Minutes \in Nat
  BY ToolsAssumption
<1>3. ASSUME NEW t \in DOMAIN open, NEW c \in open[t], c[2] = "added" PROVE c[3] \in Nat
  <2>1. c[1] = "minutes" /\ [minutes EXCEPT !["added"] = c[3]] \in MinutesRow
    BY <1>3 DEF MinutesTyped, Typed, Fit, FitsAt, MinutesSchema, minutes
  <2> QED BY <1>1, <2>1 DEF MinutesRow
<1> QED BY <1>1, <1>2, <1>3 DEF MinutesRow

Granted(w, total) ==
  \A c \in w :
    /\ c[2] \in {"status", "added"}
    /\ c[2] = "added" /\ minutes.planned # None => minutes.planned + c[3] <= total

LEMMA MinutesCall ==
  ASSUME MinutesKept, MinutesTyped, topic = "minutes", DOMAIN open = Slot \cup Job, NEW w, Call(w),
         outside'.granted \in Nat, outside.granted <= outside'.granted,
         Granted(w, Minutes + outside'.granted)
  PROVE  MinutesKept'
<1>1. PICK t \in Slot : Opens(t, w)
  BY CallOpens
<1>2. minutes' = minutes
  BY <1>1 DEF Opens, minutes
<1>3. minutes.planned # None => minutes.planned + minutes.added <= Minutes + outside'.granted
  BY MinutesRowIsTyped DEF MinutesKept, WithinPlan
<1>4. ASSUME NEW s \in DOMAIN open', NEW c \in open'[s]
      PROVE  /\ c[2] \in {"status", "added"}
             /\ c[2] = "added" /\ minutes.planned # None =>
                  minutes.planned + c[3] <= Minutes + outside'.granted
  <2>1. CASE s = t
    BY <1>1, <1>4, <2>1 DEF Opens, Granted
  <2>2. CASE s # t
    <3>1. s \in DOMAIN open /\ c \in open[s]
      BY <1>1, <1>4, <2>2 DEF Opens
    <3>2. /\ c[2] \in {"status", "added"}
          /\ c[2] = "added" /\ minutes.planned # None =>
               minutes.planned + c[3] <= Minutes + outside.granted
      BY <3>1 DEF MinutesKept
    <3> QED BY <3>1, <3>2, MinutesRowIsTyped
  <2> QED BY <2>1, <2>2
<1> QED BY <1>2, <1>3, <1>4 DEF MinutesKept, WithinPlan

LEMMA MinutesStay ==
  ASSUME MinutesKept, MinutesTyped, topic = "minutes", DOMAIN open = Slot \cup Job, MinutesNext
  PROVE  MinutesKept'
<1>0. minutes.planned \in Nat \cup {None} /\ minutes.added \in Nat /\ outside.granted \in Nat /\ Minutes \in Nat
  BY MinutesRowIsTyped
<1>1. ASSUME GoLive \/ AdminEnd PROVE MinutesKept'
  <2>1. PICK status : Request(Change("minutes", "status", status))
    BY <1>1 DEF GoLive, AdminEnd
  <2>2. Granted(Change("minutes", "status", status), Minutes + outside'.granted)
    BY ChangeShape DEF Granted
  <2> QED BY <1>0, <2>1, <2>2, MinutesCall DEF Request
<1>2. ASSUME NEW n \in 1..2, Extend(n) \/ AdminExtend(n) PROVE MinutesKept'
  <2>1. Call(Change("minutes", "added", minutes.added + n))
    BY <1>2 DEF Extend, AdminExtend, Request
  <2>2. \/ /\ outside' = outside
           /\ minutes.planned # None => minutes.planned + minutes.added + n <= Minutes
        \/ outside'.granted = outside.granted + n
    <3>1. "granted" \in DOMAIN outside
      BY DEF MinutesTyped
    <3> QED BY <1>0, <1>2, <3>1 DEF Extend, AdminExtend, Request, TotalExceedsCap
  <2>3. minutes.planned # None => minutes.planned + minutes.added <= Minutes + outside.granted
    BY DEF MinutesKept, WithinPlan
  <2>4. /\ outside'.granted \in Nat /\ outside.granted <= outside'.granted
        /\ minutes.planned # None => minutes.planned + (minutes.added + n) <= Minutes + outside'.granted
    BY <1>0, <2>2, <2>3
  <2>5. Granted(Change("minutes", "added", minutes.added + n), Minutes + outside'.granted)
    BY <2>4, ChangeShape DEF Granted
  <2> QED BY <2>1, <2>4, <2>5, MinutesCall
<1>3. ASSUME NEW t \in Slot, Commit(t) PROVE MinutesKept'
  <2>1. Closes(t) /\ db' = Written(open[t]) /\ outside' = outside
    BY <1>3, CommitCloses
  <2>2. minutes'.planned = minutes.planned
    <3>1. ~Writes(open[t], "minutes", "planned")
      BY DEF MinutesKept, Writes
    <3> QED BY <2>1, <3>1, MinutesRowIsTyped, WrittenKeeps DEF minutes
  <2>3. minutes.planned # None => minutes.planned + minutes'.added <= Minutes + outside.granted
    <3>1. \/ minutes'.added = minutes.added
          \/ \E c \in open[t] : c[2] = "added" /\ minutes'.added = c[3]
      BY <2>1, MinutesRowIsTyped, CommitColumn DEF minutes
    <3> QED BY <3>1 DEF MinutesKept, WithinPlan
  <2> QED BY <2>1, <2>2, <2>3 DEF MinutesKept, WithinPlan, Closes
<1> QED BY <1>1, <1>2, <1>3 DEF MinutesNext

LEMMA MinutesStart ==
  ASSUME MinutesInit
  PROVE  MinutesKept
<1>1. PICK n \in (1..Minutes + 1) \cup {None} :
        /\ minutes = [is |-> "here", status |-> "scheduled", planned |-> ClampDuration(n), added |-> 0]
        /\ outside.granted = 0 /\ \A t \in DOMAIN open : open[t] = {}
  BY DEF MinutesInit, Start, minutes
<1>2. PICK planned : planned = ClampDuration(n)
  OBVIOUS
<1>3. planned # None => planned \in Nat /\ planned <= Minutes
  BY <1>2, ToolsAssumption DEF ClampDuration
<1>4. minutes.planned = planned /\ minutes.added = 0 /\ outside.granted = 0 /\ \A t \in DOMAIN open : open[t] = {}
  BY <1>1, <1>2
<1>5. WithinPlan
  <2>1. planned # None => planned + 0 <= Minutes + 0
    BY <1>3, ToolsAssumption
  <2> QED BY <1>4, <2>1 DEF WithinPlan
<1> QED BY <1>4, <1>5 DEF MinutesKept

LEMMA MinutesAreWithinPlan ==
  ASSUME MinutesKept
  PROVE  WithinPlan
BY DEF MinutesKept, WithinPlan

-----------------------------------------------------------------------------
(* The room.                                                               *)
(* Nobody comes; or u comes, who was not there, in the row p.              *)
NobodyNew(w) == \A c \in w : c[1] \in Row => c[2] \notin {"is", "user"}
SomebodyNew(w, p, u) ==
  /\ \A c \in w :
       /\ c[1] \in Row /\ c[2] \in {"is", "user"} => c[1] = p
       /\ c[1] = p /\ c[2] = "user" => c[3] = u
  /\ db[p].user = u \/ Writes(w, p, "user")
  /\ u # Guest => \A q \in Row : Here(q) => db[q].user # u

LEMMA RoomColumns ==
  ASSUME RoomTyped, topic = "room", NEW p \in Row
  PROVE  p \in DOMAIN db /\ {"is", "user"} \subseteq DOMAIN db[p]
<1>1. p \in DOMAIN db /\ db[p] \in ParticipantRow
  BY RoomRows DEF RoomTyped, Typed
<1> QED BY <1>1 DEF ParticipantRow

LEMMA PersonsCall ==
  ASSUME PersonsKept, RoomTyped, topic = "room", DOMAIN open = Slot \cup Job, NEW w,
         Call(w) \/ (\E t \in Slot \cup Job : Begin(t, w)),
         NobodyNew(w) \/ \E p \in Row : \E u : SomebodyNew(w, p, u)
  PROVE  PersonsKept'
<1>1. /\ db \in Futures /\ (overlapped => overlapped')
      /\ \A T \in Futures' : T \in Futures \/ T = Written(w)
  BY CallFutures, BeginFutures
<1>2. ASSUME OnePersonIn(db) PROVE OnePersonIn(Written(w))
  <2> DEFINE T == Written(w)
  <2>1. ASSUME NEW q \in Row, \A c \in w : c[1] = q => c[2] \notin {"is", "user"}
        PROVE  IsIn(T, q) = Here(q) /\ T[q].user = db[q].user
    <3>1. ~Writes(w, q, "is") /\ ~Writes(w, q, "user")
      BY <2>1 DEF Writes
    <3> QED BY <3>1, RoomColumns, WrittenKeeps DEF IsIn, Here
  <2> HIDE DEF T
  <2>2. CASE NobodyNew(w)
    <3>1. \A q \in Row : IsIn(T, q) = Here(q) /\ T[q].user = db[q].user
      BY <2>1, <2>2 DEF NobodyNew
    <3> QED BY <1>2, <3>1 DEF OnePersonIn, T, IsIn, Here
  <2>3. ASSUME NEW p \in Row, NEW u, SomebodyNew(w, p, u) PROVE OnePersonIn(T)
    <3>1. \A q \in Row \ {p} : IsIn(T, q) = Here(q) /\ T[q].user = db[q].user
      BY <2>1, <2>3 DEF SomebodyNew
    <3>2. T[p].user = u
      BY <2>3, RoomColumns, WrittenValue DEF SomebodyNew, T
    <3>3. \A q \in Row \ {p} : IsIn(T, q) /\ u # Guest => T[q].user # u
      BY <2>3, <3>1 DEF SomebodyNew
    <3> QED BY <1>2, <3>1, <3>2, <3>3 DEF OnePersonIn, IsIn, Here
  <2> QED BY <2>2, <2>3 DEF T
<1> QED BY <1>1, <1>2 DEF PersonsKept, OnePersonIn, IsIn

LEMMA ArrivalIsNew ==
  ASSUME NEW p \in Row, NEW u, NEW role, NEW admission, NEW w,
         u # Guest => \A q \in Row : Here(q) => db[q].user # u,
         \A c \in w : c[1] \in Row => c[1] = p /\ c[2] \notin {"is", "user"}
  PROVE  SomebodyNew(Arrival(p, u, role, admission) \cup w, p, u)
<1> DEFINE columns == [user |-> u, role |-> role, admission |-> admission]
           v == Insert(p, columns)
<1>1. DOMAIN columns = {"user", "role", "admission"} /\ columns["user"] = u
  OBVIOUS
<1> HIDE DEF columns
<1>2. /\ \A c \in v : c[1] = p /\ ((c[2] = "is" /\ c[3] = "here") \/ c \in Update(p, columns))
      /\ Update(p, columns) \subseteq v
  BY InsertShape
<1>3. \A c \in Update(p, columns) : c[3] = columns[c[2]]
  BY UpdateShape
<1>4. \A c \in v : c[2] = "user" => c[3] = u
  BY <1>1, <1>2, <1>3
<1>5. db[p].user = u \/ Writes(Update(p, columns), p, "user")
  BY <1>1, UpdateShape
<1>6. db[p].user = u \/ Writes(v \cup w, p, "user")
  BY <1>2, <1>5 DEF Writes
<1>7. v = Arrival(p, u, role, admission)
  BY DEF Arrival, columns
<1> HIDE DEF v
<1>8. SomebodyNew(v \cup w, p, u)
  BY <1>2, <1>4, <1>6 DEF SomebodyNew
<1> QED BY <1>7, <1>8

LEMMA PersonsStay ==
  ASSUME PersonsKept, RoomTyped, topic = "room", DOMAIN open = Slot \cup Job, OpenAlone, MeetingsNext
  PROVE  PersonsKept'
<1>0. Meeting \notin Row
  BY MeetingsAssumption
<1>1. ASSUME NEW w, Call(w), NobodyNew(w) PROVE PersonsKept'
  BY <1>1, PersonsCall
<1>2. ASSUME UNCHANGED tables PROVE PersonsKept'
  BY <1>2, StillFutures DEF PersonsKept, OnePersonIn, IsIn, tables
<1>3. ASSUME NEW row, NEW column, NEW v, row = Meeting \/ column \notin {"is", "user"}
      PROVE  NobodyNew(Change(row, column, v))
  BY <1>0, <1>3, ChangeShape DEF NobodyNew
<1>4. \A v, w : NobodyNew(v) /\ NobodyNew(w) => NobodyNew(v \cup w)
  BY DEF NobodyNew
<1>5. \A p : NobodyNew(Present(p) \cup MarkLive) /\ NobodyNew({})
  BY <1>0, RoomChanges DEF NobodyNew
<1>6. ASSUME NEW u, NEW p \in Row, JoinAgain(u, p) PROVE PersonsKept'
  BY <1>1, <1>5, <1>6 DEF JoinAgain
<1>7. ASSUME NEW u, NEW p \in Row, Enter(p, u), u # Guest => RowsOf(u) = {} PROVE PersonsKept'
  <2>1. u # Guest => \A q \in Row : Here(q) => db[q].user # u
    BY <1>7 DEF Enter, Joinable, Exists, RowsOf, In, Participant
  <2>2. CASE Call(Arrival(p, u, "participant", "waiting"))
    <3>1. SomebodyNew(Arrival(p, u, "participant", "waiting") \cup {}, p, u)
      BY <2>1, ArrivalIsNew
    <3>2. \A x : x \cup {} = x
      OBVIOUS
    <3>3. SomebodyNew(Arrival(p, u, "participant", "waiting"), p, u)
      BY <3>1, <3>2
    <3> QED BY <2>2, <3>3, PersonsCall
  <2>3. CASE Call(Arrival(p, u, "participant", "admitted") \cup (Present(p) \cup MarkLive))
    <3>1. \A c \in Present(p) \cup MarkLive : c[1] \in Row => c[1] = p /\ c[2] \notin {"is", "user"}
      BY <1>0, RoomChanges
    <3>2. SomebodyNew(Arrival(p, u, "participant", "admitted") \cup (Present(p) \cup MarkLive), p, u)
      BY <2>1, <3>1, ArrivalIsNew
    <3> QED BY <2>3, <3>2, PersonsCall
  <2>4. \A x, y, z : x \cup y \cup z = x \cup (y \cup z)
    OBVIOUS
  <2> QED BY <1>7, <2>2, <2>3, <2>4 DEF Enter
<1>8. Entrances => PersonsKept'
  <2>1. \A p \in Row : GetParticipantStatus(p) => UNCHANGED tables
    BY DEF GetParticipantStatus, Outside
  <2> QED BY <1>2, <1>6, <1>7, <2>1 DEF Entrances, HostPinJoin, Join, GuestJoin, Participant
<1>9. ASSUME NEW p \in Row, Leave(p) PROVE PersonsKept'
  BY <1>1, <1>2, <1>3, <1>9 DEF Leave
<1>10. ASSUME End \/ DeleteMeeting PROVE PersonsKept'
  BY <1>1, <1>3, <1>10 DEF End, DeleteMeeting, Delete, Request
<1>11. ASSUME NEW u \in User, NEW p \in Row, InviteCoHost(u, p) PROVE PersonsKept'
  <2>1. CASE Request(Change(p, "role", "co_host"))
    BY <1>1, <1>3, <2>1 DEF Request
  <2>2. CASE RowsOf(u) = {} /\ Exists /\ Request(Arrival(p, u, "co_host", "admitted"))
    <3>1. \A q \in Row : Here(q) => db[q].user # u
      BY <2>2 DEF RowsOf, In, Participant
    <3>2. SomebodyNew(Arrival(p, u, "co_host", "admitted") \cup {}, p, u)
      BY <3>1, ArrivalIsNew
    <3>3. \A x : x \cup {} = x
      OBVIOUS
    <3>4. SomebodyNew(Arrival(p, u, "co_host", "admitted"), p, u)
      BY <3>2, <3>3
    <3> QED BY <2>2, <3>4, PersonsCall DEF Request
  <2> QED BY <1>11, <2>1, <2>2 DEF InviteCoHost
<1>12. Moderation => PersonsKept'
  <2>1. ASSUME NEW p \in Row, Admit(p) \/ Remove(p) \/ Promote(p) PROVE PersonsKept'
    BY <1>1, <1>3, <1>4, <2>1 DEF Admit, Remove, Promote, Request
  <2>2. ASSUME NEW on, SetLocked(on) \/ SetWaitingRoom(on) PROVE PersonsKept'
    BY <1>1, <1>3, <2>2 DEF SetLocked, SetWaitingRoom, Request
  <2> QED BY <2>1, <2>2 DEF Moderation, Participant
<1>13. Pages \/ Tick => PersonsKept'
  BY <1>2 DEF Pages, Connect, Disconnect, Tick, Outside
<1>14. ASSUME NEW j \in Job, AutoPromote(j) PROVE PersonsKept'
  <2>1. NobodyNew(LetEveryoneIn)
    <3>1. ASSUME NEW c \in LetEveryoneIn PROVE c[1] \in Row => c[2] \notin {"is", "user"}
      <4>1. CASE c \in MarkLive
        BY <1>0, <4>1, RoomChanges
      <4>2. CASE \E p \in Row : c \in Change(p, "admission", "admitted")
        BY <4>2, ChangeShape
      <4> QED BY <4>1, <4>2 DEF LetEveryoneIn, Participant
    <3> QED BY <3>1 DEF NobodyNew
  <2>2. Begin(j, LetEveryoneIn)
    BY <1>14 DEF AutoPromote
  <2> QED BY <2>1, <2>2, PersonsCall
<1>15. ASSUME NEW t \in Slot \cup Job, CommitMeeting(t) \/ FailMeeting(t) PROVE PersonsKept'
  <2>1. UNCHANGED overlapped /\ (Commit(t) \/ RollBack(t))
    BY <1>15 DEF CommitMeeting, FailMeeting, Commit, RollBack
  <2> QED BY <2>1, EndFutures DEF PersonsKept, OnePersonIn, IsIn
<1> QED BY <1>8, <1>9, <1>10, <1>11, <1>12, <1>13, <1>14, <1>15 DEF MeetingsNext, Exits, Participant

LEMMA PersonsStart ==
  ASSUME MeetingsInit
  PROVE  PersonsKept
<1>1. Futures = {db}
  BY DEF MeetingsInit, Start, Futures, Opened
<1>2. ASSUME NEW p \in Row, p # HostRow PROVE db[p].is = "none"
  <2>1. db[p] = NoRow
    BY <1>2, MeetingsAssumption DEF MeetingsInit, Start, Participant
  <2> QED BY <2>1 DEF NoRow
<1> QED BY <1>1, <1>2 DEF PersonsKept, OnePersonIn, IsIn

LEMMA OnePerson ==
  ASSUME PersonsKept
  PROVE  OneRowPerUser
<1>1. \A u \in User \cup {Host} : u # Guest
  BY MeetingsAssumption
<1>2. topic = "room" /\ ~overlapped => \A u \in User \cup {Host} : \A p, q \in RowsOf(u) : p = q
  BY <1>1 DEF PersonsKept, Futures, OnePersonIn, IsIn, RowsOf, In, Participant, Here
<1> QED BY <1>2, AtMostOne DEF OneRowPerUser

-----------------------------------------------------------------------------
(* The subscriptions.                                                      *)
LatestIn(T, s) == IsIn(T, s) /\ (s = Sub(1) => ~IsIn(T, Sub(2)))

LEMMA TwoSubscriptions == Subscriptions = {Sub(1), Sub(2)} /\ Sub(1) # Sub(2)
BY DEF Subscriptions, Sub

LEMMA LatestIsLatest ==
  ASSUME NEW s \in Subscriptions
  PROVE  /\ GetLatestSubscription(s) <=> LatestIn(db, s)
         /\ \A r \in Subscriptions : LatestIn(db, s) /\ LatestIn(db, r) => r = s
<1>1. \A n \in 1..2 : s = <<"subscription", n>> <=> s = Sub(n)
  BY DEF Sub
<1>2. \A n, m : Sub(n) = Sub(m) => n = m
  BY DEF Sub
<1>3. GetLatestSubscription(s) <=> Here(s) /\ \E n \in 1..2 : s = Sub(n) /\ \A m \in n + 1..2 : ~Here(Sub(m))
  BY DEF GetLatestSubscription, LatestOf, Sub
<1>4. 1 + 1..2 = {2} /\ 2 + 1..2 = {} /\ 1..2 = {1, 2}
  OBVIOUS
<1>5. GetLatestSubscription(s) <=> LatestIn(db, s)
  BY <1>2, <1>3, <1>4, TwoSubscriptions DEF LatestIn, IsIn, Here
<1> QED BY <1>5, TwoSubscriptions DEF LatestIn

LEMMA VipColumns ==
  ASSUME VipInv, topic = "vip"
  PROVE  /\ \A s \in Subscriptions : s \in DOMAIN db /\ DOMAIN db[s] = {"is", "status", "paid"}
         /\ Face(1) \in DOMAIN db /\ DOMAIN db[Face(1)] = {"is", "status"}
         /\ Subscriber \in DOMAIN db /\ DOMAIN db[Subscriber] = {"is", "tier"}
BY DEF VipInv, Columns

LEMMA SubscriptionIsKept ==
  ASSUME VipInv, topic = "vip", NEW w, NEW s \in Subscriptions, \A c \in w : c[1] # s
  PROVE  /\ IsIn(Written(w), s) = IsIn(db, s)
         /\ Written(w)[s].status = db[s].status /\ Written(w)[s].paid = db[s].paid
<1>1. ~Writes(w, s, "is") /\ ~Writes(w, s, "status") /\ ~Writes(w, s, "paid")
  BY DEF Writes
<1> QED BY <1>1, VipColumns, WrittenKeeps DEF IsIn

LEMMA FaceIsKept ==
  ASSUME VipInv, topic = "vip", NEW w, \A c \in w : c[1] = Face(1) => c[2] # "is"
  PROVE  IsIn(Written(w), Face(1)) = IsIn(db, Face(1))
<1>1. ~Writes(w, Face(1), "is")
  BY DEF Writes
<1> QED BY <1>1, VipColumns, WrittenKeeps DEF IsIn

LEMMA TierIsKept ==
  ASSUME VipInv, topic = "vip", NEW w, \A c \in w : c[1] # Subscriber
  PROVE  Written(w)[Subscriber].tier = db[Subscriber].tier
<1>1. ~Writes(w, Subscriber, "tier")
  BY DEF Writes
<1> QED BY <1>1, VipColumns, WrittenKeeps

SaysKept == \A s \in Subscriptions : says[s] # None => says'[s] = says[s]
PaymentsKnown(w) == \A c \in w : c[2] = "paid" => c[1] \in Subscriptions /\ Decided(c[1], "paid")

LEMMA PaidCall ==
  ASSUME PaidKept, topic = "vip", DOMAIN open = Slot \cup Job, NEW w, Call(w), SaysKept,
         PaymentsKnown(w), ~overlapped /\ ActiveIn(db) => ActiveIn(Written(w))
  PROVE  PaidKept'
<1>1. PICK t \in Slot : Opens(t, w)
  BY CallOpens
<1>2. \A s \in Subscriptions : Decided(s, "paid") => Decided(s, "paid")'
  BY DEF SaysKept, Decided
<1>3. \A s \in Subscriptions : db'[s].paid => Decided(s, "paid")'
  BY <1>1, <1>2 DEF PaidKept, Opens
<1>4. ASSUME NEW s \in DOMAIN open', NEW c \in open'[s], c[2] = "paid"
      PROVE  c[1] \in Subscriptions /\ Decided(c[1], "paid")'
  <2>1. CASE s = t
    BY <1>1, <1>2, <1>4, <2>1 DEF Opens, PaymentsKnown
  <2>2. CASE s # t
    BY <1>1, <1>2, <1>4, <2>2 DEF Opens, PaidKept
  <2> QED BY <2>1, <2>2
<1>5. ~overlapped' => \A T \in Futures' : ActiveIn(T)
  BY CallFutures DEF PaidKept
<1>6. \A T : ActiveIn(T)' = ActiveIn(T)
  BY DEF ActiveIn, IsIn
<1> QED BY <1>3, <1>4, <1>5, <1>6 DEF PaidKept

(* Only what is asked of the identity provider.                            *)
LEMMA KycCall ==
  ASSUME PaidKept, VipInv, topic = "vip", DOMAIN open = Slot \cup Job, NEW w, Call(w), SaysKept,
         \A c \in w : /\ c[1] \in KycDocuments \cup {Face(1)} /\ c[2] # "paid"
                      /\ c[1] = Face(1) /\ c[2] = "is" => RequireAwaitingKyc
  PROVE  PaidKept'
<1> DEFINE T == Written(w)
<1>1. \A s \in Subscriptions : /\ IsIn(T, s) = IsIn(db, s)
                               /\ T[s].status = db[s].status /\ T[s].paid = db[s].paid
  BY SubscriptionIsKept, VipNames
<1>2. T[Subscriber].tier = db[Subscriber].tier
  BY TierIsKept, VipNames
<1>3. IsIn(T, Face(1)) => IsIn(db, Face(1)) \/ RequireAwaitingKyc
  BY FaceIsKept
<1> HIDE DEF T
<1>4. RequireAwaitingKyc => \E s \in Subscriptions : LatestIn(db, s) /\ db[s].paid /\ db[s].status = "awaiting_kyc"
  BY LatestIsLatest DEF RequireAwaitingKyc, VipInv
<1>5. ActiveIn(db) => ActiveIn(T)
  BY <1>1, <1>2, <1>3, <1>4, TwoSubscriptions DEF ActiveIn, LatestIn
<1>6. PaymentsKnown(w)
  BY DEF PaymentsKnown
<1> QED BY <1>5, <1>6, PaidCall DEF T

LEMMA SubscriptionStarts ==
  ASSUME PaidKept, VipInv, topic = "vip", DOMAIN open = Slot \cup Job, NEW k, StartVipUpgrade(k)
  PROVE  PaidKept'
<1> DEFINE w == Insert(k, [status |-> "pending_payment"])
           T == Written(w)
<1>1. Request(w)
  BY DEF StartVipUpgrade, InitiatePayment
<1>2. k \in Subscriptions
  BY NextIsFree DEF StartVipUpgrade, InitiatePayment, Subscriptions, Sub
<1>3. \A c \in w : c[1] = k /\ ((c[2] = "is" /\ c[3] = "here") \/ (c[2] = "status" /\ c[3] = "pending_payment"))
  BY InsertStatus
<1>4. db[k].status = "pending_payment" \/ Writes(w, k, "status")
  <2> DEFINE columns == [status |-> "pending_payment"]
  <2>1. DOMAIN columns = {"status"} /\ columns["status"] = "pending_payment"
    OBVIOUS
  <2> HIDE DEF columns
  <2>2. db[k].status = "pending_payment" \/ Writes(Update(k, columns), k, "status")
    BY <2>1, UpdateShape
  <2>3. Update(k, columns) \subseteq Insert(k, columns)
    BY InsertShape
  <2>4. db[k].status = "pending_payment" \/ Writes(Insert(k, columns), k, "status")
    BY <2>2, <2>3 DEF Writes
  <2> QED BY <2>4 DEF columns
<1> HIDE DEF w
<1>5. T[k].status = "pending_payment"
  BY <1>2, <1>3, <1>4, VipColumns, WrittenValue
<1>6. \A s \in Subscriptions \ {k} : T[s].status = db[s].status /\ T[s].paid = db[s].paid
  BY <1>3, SubscriptionIsKept
<1>7. IsIn(T, Face(1)) = IsIn(db, Face(1))
  BY <1>2, <1>3, FaceIsKept, VipNames
<1> HIDE DEF T
<1>8. ActiveIn(db) => ~IsIn(db, Face(1))
  BY LatestIsLatest DEF ActiveIn, LatestIn, StartVipUpgrade
<1>9. ActiveIn(db) => ActiveIn(T)
  BY <1>5, <1>6, <1>7, <1>8 DEF ActiveIn
<1>10. SaysKept /\ PaymentsKnown(w) /\ Call(w)
  BY <1>1, <1>3 DEF SaysKept, PaymentsKnown, Request, says
<1> QED BY <1>9, <1>10, PaidCall DEF T

LEMMA PaymentIsHandled ==
  ASSUME PaidKept, VipInv, topic = "vip", DOMAIN open = Slot \cup Job, NEW k \in Subscriptions,
         HandleVipPayment(k)
  PROVE  PaidKept'
<1>0. SaysKept /\ says[k] # None /\ Here(k)
  BY DEF HandleVipPayment, Request, SaysKept, says
<1>1. CASE says[k] = "paid"
  <2> DEFINE on == TRUE
             v == Change(k, "paid", on)
             w == Change(k, "status", "awaiting_kyc") \cup v
             T == Written(w)
  <2>1. on /\ Call(w)
    BY <1>1 DEF HandleVipPayment, Request
  <2> HIDE DEF on
  <2>2. /\ \A c \in Change(k, "status", "awaiting_kyc") : c[1] = k /\ c[2] = "status" /\ c[3] = "awaiting_kyc"
        /\ db[k]["status"] = "awaiting_kyc" \/ Writes(Change(k, "status", "awaiting_kyc"), k, "status")
    BY ChangeShape
  <2>3. /\ \A c \in v : c[1] = k /\ c[2] = "paid" /\ c[3] = on
        /\ db[k]["paid"] = on \/ Writes(v, k, "paid")
    BY ChangeShape
  <2>4. \A c \in w : /\ c[1] = k /\ c[2] \in {"status", "paid"}
                     /\ c[2] = "status" => c[3] = "awaiting_kyc"
                     /\ c[2] = "paid" => c[3] = on
    BY <2>2, <2>3
  <2>5. /\ db[k]["status"] = "awaiting_kyc" \/ Writes(w, k, "status")
        /\ db[k]["paid"] = on \/ Writes(w, k, "paid")
    BY <2>2, <2>3 DEF Writes
  <2> HIDE DEF v, w
  <2>6. k \in DOMAIN db /\ DOMAIN db[k] = {"is", "status", "paid"}
    BY VipColumns
  <2>7. T[k].status = "awaiting_kyc"
    BY <2>4, <2>5, <2>6, WrittenValue
  <2>8. T[k].paid = on
    BY <2>4, <2>5, <2>6, WrittenValue
  <2>9. IsIn(T, k) = IsIn(db, k)
    <3>1. ~Writes(w, k, "is")
      BY <2>4 DEF Writes
    <3> QED BY <2>6, <3>1, WrittenKeeps DEF IsIn
  <2>10. \A s \in Subscriptions \ {k} : /\ IsIn(T, s) = IsIn(db, s)
                                        /\ T[s].status = db[s].status /\ T[s].paid = db[s].paid
    BY <2>4, SubscriptionIsKept
  <2>11. IsIn(T, Face(1)) = IsIn(db, Face(1)) /\ T[Subscriber].tier = db[Subscriber].tier
    BY <2>4, FaceIsKept, TierIsKept, VipNames
  <2> HIDE DEF T
  <2>12. T[k].paid
    BY <2>1, <2>8, Zenon
  <2>13. ActiveIn(db) => ActiveIn(T)
    BY <2>7, <2>9, <2>10, <2>11, <2>12, TwoSubscriptions DEF ActiveIn
  <2>14. PaymentsKnown(w)
    BY <1>0, <1>1, <2>4 DEF PaymentsKnown, Decided
  <2> QED BY <1>0, <2>1, <2>13, <2>14, PaidCall DEF T
<1>2. CASE says[k] # "paid"
  <2> DEFINE w == Change(k, "status", "failed")
             T == Written(w)
  <2>1. Call(w)
    BY <1>2 DEF HandleVipPayment, Request
  <2>2. /\ \A c \in w : c[1] = k /\ c[2] = "status" /\ c[3] = "failed"
        /\ db[k]["status"] = "failed" \/ Writes(w, k, "status")
    BY ChangeShape
  <2> HIDE DEF w
  <2>3. k \in DOMAIN db /\ DOMAIN db[k] = {"is", "status", "paid"}
    BY VipColumns
  <2>4. T[k].status = "failed"
    BY <2>2, <2>3, WrittenValue
  <2>5. IsIn(T, k) = IsIn(db, k)
    <3>1. ~Writes(w, k, "is")
      BY <2>2 DEF Writes
    <3> QED BY <2>3, <3>1, WrittenKeeps DEF IsIn
  <2>6. \A s \in Subscriptions \ {k} : /\ IsIn(T, s) = IsIn(db, s)
                                       /\ T[s].status = db[s].status /\ T[s].paid = db[s].paid
    BY <2>2, SubscriptionIsKept
  <2>7. IsIn(T, Face(1)) = IsIn(db, Face(1)) /\ T[Subscriber].tier = db[Subscriber].tier
    BY <2>2, FaceIsKept, TierIsKept, VipNames
  <2> HIDE DEF T
  <2>8. ~db[k].paid
    BY <1>0, <1>2 DEF PaidKept, Decided
  <2>9. ActiveIn(db) => ActiveIn(T)
    <3> SUFFICES ASSUME ActiveIn(db) PROVE ActiveIn(T)
      OBVIOUS
    <3>1. \A s \in Subscriptions : T[s].status = "active" => T[s].paid
      BY <2>4, <2>6 DEF ActiveIn
    <3>2. ASSUME IsIn(T, Face(1))
          PROVE  \E s \in Subscriptions :
                   /\ IsIn(T, s) /\ (s = Sub(1) => ~IsIn(T, Sub(2)))
                   /\ T[s].paid
                   /\ T[s].status = "awaiting_kyc" \/ T[Subscriber].tier = "vip"
      <4>1. PICK s \in Subscriptions :
               /\ IsIn(db, s) /\ (s = Sub(1) => ~IsIn(db, Sub(2))) /\ db[s].paid
               /\ db[s].status = "awaiting_kyc" \/ db[Subscriber].tier = "vip"
        BY <2>7, <3>2 DEF ActiveIn
      <4>2. s # k
        BY <2>8, <4>1
      <4>3. IsIn(T, Sub(2)) = IsIn(db, Sub(2))
        BY <2>5, <2>6, TwoSubscriptions
      <4> QED BY <2>6, <2>7, <4>1, <4>2, <4>3
    <3> QED BY <3>1, <3>2 DEF ActiveIn
  <2>10. PaymentsKnown(w)
    BY <2>2 DEF PaymentsKnown
  <2> QED BY <1>0, <2>1, <2>9, <2>10, PaidCall DEF T
<1> QED BY <1>1, <1>2

LEMMA KycIsAsked ==
  ASSUME PaidKept, VipInv, topic = "vip", DOMAIN open = Slot \cup Job, NEW k,
         StartKycDocument(k) \/ StartKycLiveness(k)
  PROVE  PaidKept'
<1> DEFINE w == Insert(k, [status |-> "pending"])
<1>1. Call(w) /\ SaysKept /\ RequireAwaitingKyc
  BY DEF StartKycDocument, StartKycLiveness, Request, SaysKept, says
<1>2. k \in KycDocuments \cup {Face(1)}
  <2>1. CASE StartKycDocument(k)
    <3>1. \E n \in 1..2 : k = <<"document", n>>
      BY <2>1, NextIsFree DEF StartKycDocument
    <3> QED BY <3>1 DEF KycDocuments, Doc
  <2>2. CASE StartKycLiveness(k)
    <3>1. \E n \in 1..1 : k = <<"face", n>>
      BY <2>2, NextIsFree DEF StartKycLiveness
    <3> QED BY <3>1 DEF Face
  <2> QED BY <2>1, <2>2
<1>3. \A c \in w : c[1] = k /\ c[2] \in {"is", "status"}
  BY InsertStatus
<1> HIDE DEF w
<1> QED BY <1>1, <1>2, <1>3, KycCall

LEMMA KycIsAnswered ==
  ASSUME PaidKept, VipInv, topic = "vip", DOMAIN open = Slot \cup Job, KycWebhooks
  PROVE  PaidKept'
<1>1. ASSUME NEW k \in KycDocuments \cup {Face(1)}, NEW status, Call(Change(k, "status", status)), SaysKept
      PROVE  PaidKept'
  <2> DEFINE w == Change(k, "status", status)
  <2>1. \A c \in w : c[1] = k /\ c[2] = "status"
    BY ChangeShape
  <2> HIDE DEF w
  <2> QED BY <1>1, <2>1, KycCall DEF w
<1>2. ASSUME NEW k \in {Doc(1), Doc(2)}, HandleKycDocumentResult(k) PROVE PaidKept'
  <2>1. SaysKept
    <3>1. outside'.says = outside.says
      BY <1>2 DEF HandleKycDocumentResult, VipInv
    <3> QED BY <3>1 DEF SaysKept, says
  <2> QED BY <1>1, <1>2, <2>1 DEF HandleKycDocumentResult, KycDocuments
<1>3. ASSUME HandleKycLivenessResult(Face(1)) PROVE PaidKept'
  <2>1. CASE says[Face(1)] = "failed"
    BY <1>1, <1>3, <2>1 DEF HandleKycLivenessResult, Request, SaysKept, says
  <2>2. CASE says[Face(1)] # "failed"
    <3>1. PICK s \in Subscriptions :
            /\ GetLatestSubscription(s)
            /\ Request(Change(Face(1), "status", "passed") \cup Change(Subscriber, "tier", "vip")
                       \cup Change(s, "status", "active"))
      BY <1>3, <2>2 DEF HandleKycLivenessResult
    <3>2. Here(Face(1)) /\ SaysKept
      BY <1>3, <3>1 DEF HandleKycLivenessResult, Request, SaysKept, says
    <3> DEFINE f == Change(Face(1), "status", "passed")
               v == Change(Subscriber, "tier", "vip")
               a == Change(s, "status", "active")
               w == f \cup v \cup a
               T == Written(w)
    <3>3. \A c \in f : c[1] = Face(1) /\ c[2] = "status"
      BY ChangeShape
    <3>4. /\ \A c \in v : c[1] = Subscriber /\ c[2] = "tier" /\ c[3] = "vip"
          /\ db[Subscriber]["tier"] = "vip" \/ Writes(v, Subscriber, "tier")
      BY ChangeShape
    <3>5. /\ \A c \in a : c[1] = s /\ c[2] = "status" /\ c[3] = "active"
          /\ db[s]["status"] = "active" \/ Writes(a, s, "status")
      BY ChangeShape
    <3>6. Call(w)
      BY <3>1 DEF Request
    <3> HIDE DEF f, v, a
    <3>7. /\ db[Subscriber]["tier"] = "vip" \/ Writes(w, Subscriber, "tier")
          /\ db[s]["status"] = "active" \/ Writes(w, s, "status")
      BY <3>4, <3>5 DEF Writes
    <3>8. \A c \in w : /\ c[1] \in {Face(1), Subscriber, s} /\ c[2] \in {"status", "tier"}
                       /\ c[1] = Face(1) => c[2] = "status"
                       /\ c[1] = Subscriber => c[2] = "tier" /\ c[3] = "vip"
                       /\ c[1] = s => c[2] = "status" /\ c[3] = "active"
      BY <3>3, <3>4, <3>5, VipNames
    <3> HIDE DEF w
    <3>9. /\ s \in DOMAIN db /\ DOMAIN db[s] = {"is", "status", "paid"}
          /\ Subscriber \in DOMAIN db /\ DOMAIN db[Subscriber] = {"is", "tier"}
      BY VipColumns
    <3>10. T[s].status = "active"
      BY <3>7, <3>8, <3>9, WrittenValue
    <3>11. T[Subscriber].tier = "vip"
      BY <3>7, <3>8, <3>9, WrittenValue
    <3>12. IsIn(T, s) = IsIn(db, s) /\ T[s].paid = db[s].paid
      <4>1. ~Writes(w, s, "is") /\ ~Writes(w, s, "paid")
        BY <3>8 DEF Writes
      <4> QED BY <3>9, <4>1, WrittenKeeps DEF IsIn
    <3>13. \A r \in Subscriptions \ {s} : /\ IsIn(T, r) = IsIn(db, r)
                                          /\ T[r].status = db[r].status /\ T[r].paid = db[r].paid
      BY <3>8, SubscriptionIsKept, VipNames
    <3>14. LatestIn(db, s) /\ \A r \in Subscriptions : LatestIn(db, r) => r = s
      BY <3>1, LatestIsLatest
    <3> HIDE DEF T
    <3>15. ActiveIn(db) => LatestIn(db, s) /\ db[s].paid
      BY <3>2, <3>14 DEF ActiveIn, LatestIn, IsIn, Here
    <3>16. \A r \in Subscriptions : IsIn(T, r) = IsIn(db, r) /\ T[r].paid = db[r].paid
      BY <3>12, <3>13
    <3>17. ActiveIn(db) => ActiveIn(T)
      <4> SUFFICES ASSUME ActiveIn(db) PROVE ActiveIn(T)
        OBVIOUS
      <4>1. \A r \in Subscriptions : T[r].status = "active" => T[r].paid
        BY <3>13, <3>15, <3>16 DEF ActiveIn
      <4>2. IsIn(T, s) /\ (s = Sub(1) => ~IsIn(T, Sub(2))) /\ T[s].paid
        BY <3>15, <3>16, TwoSubscriptions DEF LatestIn
      <4> QED BY <3>11, <4>1, <4>2 DEF ActiveIn
    <3>18. PaymentsKnown(w)
      BY <3>8 DEF PaymentsKnown
    <3> QED BY <3>2, <3>6, <3>17, <3>18, PaidCall DEF T
  <2> QED BY <2>1, <2>2
<1> QED BY <1>2, <1>3 DEF KycWebhooks

LEMMA PaidStays ==
  ASSUME PaidKept, VipInv, topic = "vip", DOMAIN open = Slot \cup Job, OpenAlone, VipNext
  PROVE  PaidKept'
<1>1. ASSUME UNCHANGED tables, SaysKept PROVE PaidKept'
  <2>1. \A s \in Subscriptions : Decided(s, "paid") => Decided(s, "paid")'
    BY <1>1 DEF SaysKept, Decided
  <2> QED BY <1>1, <2>1, StillFutures DEF PaidKept, ActiveIn, IsIn, tables
<1>2. ASSUME NEW k, NEW outcomes, Decide(k, outcomes) PROVE PaidKept'
  <2>1. PICK outcome \in outcomes : Outside([outside EXCEPT !.says[k] = outcome])
    BY <1>2 DEF Decide
  <2> DEFINE answered == [says EXCEPT ![k] = outcome]
  <2>2. outside' = [outside EXCEPT !.says = answered]
    BY <2>1 DEF Outside, says
  <2> HIDE DEF answered
  <2>3. outside'.says = answered
    BY <2>2 DEF VipInv
  <2>4. says[k] = None
    BY <1>2 DEF Decide
  <2>5. \A s : says[s] # None => answered[s] = says[s]
    BY <2>4 DEF answered
  <2>6. SaysKept
    BY <2>3, <2>5 DEF SaysKept, says
  <2> QED BY <1>1, <2>1, <2>6 DEF Outside
<1>3. ASSUME NEW t \in Slot, Commit(t) \/ RollBack(t), UNCHANGED outside PROVE PaidKept'
  <2>1. UNCHANGED overlapped /\ Closes(t) /\ (db' = db \/ db' = Written(open[t]))
    BY <1>3, CommitCloses, RollBackCloses DEF Commit, RollBack
  <2>2. \A s \in Subscriptions : Decided(s, "paid")' = Decided(s, "paid")
    BY <1>3 DEF Decided, says
  <2>3. ASSUME NEW s \in Subscriptions, db'[s].paid PROVE Decided(s, "paid")
    <3>1. s \in DOMAIN db /\ DOMAIN db[s] = {"is", "status", "paid"}
      BY VipColumns
    <3>2. db'[s].paid = db[s].paid \/ \E c \in open[t] : c[1] = s /\ c[2] = "paid"
      BY <2>1, <3>1, CommitColumn
    <3> QED BY <2>3, <3>2 DEF PaidKept
  <2>4. \A u \in DOMAIN open' : u \in DOMAIN open /\ (open'[u] = {} \/ open'[u] = open[u])
    BY <2>1 DEF Closes
  <2>5. ~overlapped' => \A T \in Futures' : ActiveIn(T)
    BY <1>3, <2>1, EndFutures DEF PaidKept
  <2>6. \A T : ActiveIn(T)' = ActiveIn(T)
    BY DEF ActiveIn, IsIn
  <2> QED BY <2>2, <2>3, <2>4, <2>5, <2>6 DEF PaidKept
<1>4. VipUpgrade => PaidKept'
  BY KycIsAsked, SubscriptionStarts DEF VipUpgrade
<1>5. ASSUME NEW t \in Slot, Commit(t) PROVE UNCHANGED outside
  BY <1>5 DEF Commit
<1> QED BY <1>2, <1>3, <1>4, <1>5, KycIsAnswered, PaymentIsHandled DEF VipNext

LEMMA PaidStarts ==
  ASSUME VipInit
  PROVE  PaidKept
<1>1. Futures = {db} /\ \A t \in DOMAIN open : open[t] = {}
  BY DEF VipInit, Start, Futures, Opened
<1>2. ASSUME NEW s \in Subscriptions PROVE db[s].is = "none" /\ db[s].status = "pending_payment" /\ db[s].paid = FALSE
  <2>1. db[s] = [is |-> "none", status |-> "pending_payment", paid |-> FALSE]
    BY VipNames DEF VipInit, Start, VipRows
  <2> QED BY <2>1
<1>3. db[Face(1)].is = "none"
  <2>1. db[Face(1)] = [is |-> "none", status |-> "pending"]
    BY VipNames DEF VipInit, Start, VipRows
  <2> QED BY <2>1
<1> QED BY <1>1, <1>2, <1>3 DEF PaidKept, ActiveIn, IsIn

LEMMA ActivePaid ==
  ASSUME PaidKept
  PROVE  ActiveWasPaid
BY DEF PaidKept, ActiveWasPaid, Futures, ActiveIn
=============================================================================

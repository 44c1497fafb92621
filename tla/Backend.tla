------------------------------ MODULE Backend -------------------------------
(***************************************************************************)
(* The services of the backend that have no module and no run of their own *)
(* elsewhere, put together: a behaviour is about one topic, that is, one   *)
(* group of rows that requests share (module Requests).                    *)
(***************************************************************************)
EXTENDS Meetings, MeetingTools, MeetingFiles, Billing, Accounts, Recovery, Keys, VipChat, Office

Topics ==
  {"room", "records", "stage", "minutes", "attendance", "files", "vip", "plan", "signup",
   "account", "recovery", "login", "keys", "chat", "office", "compliance", "location"}

ASSUME BackendAssumption == Topics \subseteq DOMAIN MaxRequests

Init ==
  \/ MeetingsInit \/ RecordsInit \/ StageInit \/ MinutesInit \/ AttendanceInit \/ FilesInit
  \/ VipInit \/ PlansInit
  \/ SignupInit \/ AccountInit \/ RecoveryInit \/ LoginInit
  \/ KeysInit \/ ChatInit
  \/ OfficeInit \/ ComplianceInit \/ LocationInit

Next ==
  \/ MeetingsNext \/ RecordsNext \/ StageNext \/ MinutesNext \/ AttendanceNext \/ FilesNext
  \/ VipNext \/ PlansNext
  \/ SignupNext \/ AccountNext \/ RecoveryNext \/ LoginNext
  \/ KeysNext \/ ChatNext
  \/ OfficeNext \/ ComplianceNext \/ LocationNext

Spec == Init /\ [][Next]_vars /\ MeetingsFairness
-----------------------------------------------------------------------------
(* The rows of every topic have the columns and values of their tables.    *)
BackendTypeOK ==
  /\ MeetingsTypeOK /\ ToolsTypeOK /\ FilesTypeOK
  /\ BillingTypeOK /\ AccountsTypeOK /\ RecoveryTypeOK
  /\ KeysTypeOK /\ ChatTypeOK /\ OfficeTypeOK

(* Nobody gets what they have not earned: a place in a room, a stage, VIP, *)
(* a plan, an account, a session, a recovery, a token of the office.       *)
NothingUnearned ==
  /\ WaitingHasNoToken /\ AudienceIsSilent
  /\ VipIsPaidAndVerified /\ NoUnpaidPlan
  /\ ActiveHasCode /\ LoginNeedsFace /\ RecoveryIsAnnounced
  /\ MfaBeforeUse

(* There is one of what the code looks up as the one and only.             *)
OneOfEach ==
  /\ OneRowPerUser /\ OneOfAKind /\ OneThreadEach
  /\ OneActivePrice /\ InvitationOnce

(* What is counted, stored or written down about something is true of it.  *)
RecordsAreTrue ==
  /\ UpvotesCounted /\ WithinPlan /\ PeakIsTrue /\ UsageIsWork
  /\ FilesMatchRows /\ PingsWithinShare
  /\ ActiveWasPaid /\ WithinRateLimit /\ RequestsAreHonoured
=============================================================================

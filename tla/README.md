# Ditsala, specified

Ditsala is a messaging, calling and meeting service: a FastAPI backend over
PostgreSQL (`src/backend/app`), a React Native app (`src/apps/mobile`), a web
client for meetings (`src/apps/meet`) and an administrator's console
(`src/apps/admin`). This directory holds TLA+ modules of the parts whose
correctness depends on the order of things, TLC configurations that check them,
and TLAPS proofs about the first six components and every topic of the backend:
each invariant a passing run checks is a theorem.
`PROJECT.json` lists for every
definition the lines of source it stands for, for every property a change to the
model that breaks it, and for every hazard the properties that guard against it.

## 1. The system

### How requests run

Every HTTP request is one transaction at READ COMMITTED (`core/db.py:14-19`); no
handler locks a row. FastAPI commits *after* the response is sent, and
notifications, pushes and text messages leave before the commit. A handler
therefore reads, decides, tells others, answers, and only then makes its writes
visible, or fails to. The app's transport (`apps/mobile/lib/api.ts`) repeats a
request that got no answer, up to three times, whatever the request does. The
scheduler (`tasks/scheduler.py`) runs its sweeps in the process, one instance of
each at a time, in transactions of their own.

That gives nearly every module here the same shape: a request is a step that
takes the reads and keeps what was decided in a slot, and a commit, which applies
it to whatever the tables hold by then. Slots bound how many requests are under
way at once. The modules of the first six components below write each pair out
(`Begin...`, `Commit...`); the later ones share module `Requests`, which has the
transactions once.

### Components

| Component | State | Operations | Hard parts | What makes it correct |
|---|---|---|---|---|
| Sessions and devices (`domain/auth`) | `devices`, `sessions` | log in, refresh with rotation, log out, revoke a device, log out everywhere, recovery's revocation | stale reads, reuse of a rotated token, requests crossing a revocation | a revoked session stays revoked; one usable token per login; revocation reaches the whole login |
| Phone session store (`lib/session.ts`, `lib/api.ts`, log-in and unlock screens) | stored tokens, the call in progress | log in, unlock, log out, retry | lost and late answers | calls end; the phone holds the latest token |
| Circle (`domain/circle`) | `contacts`, `contact_requests`, `blocks`, `identity_keys` | ask, accept, decline, verify, block, unblock, register a key | two people acting on one pair, key changes | one pending request per pair unless both ask at once; mutual acceptance; blocks sever; a replaced key ends trust |
| Messaging (`domain/messaging`) | `messages`, `conversation_members`, `media_objects`, the timer | send, edit, delete, membership, uploads, purge | idempotent resends, edits crossing deletions and sweeps | sent once; expired messages vanish; tombstones stay empty |
| Calls (`domain/calls`, `call-context.tsx`, `call-session.ts`) | `calls`, `call_participants`, each phone's incoming and active call, its peer connection | initiate, answer, decline, end, relay of offers and answers | events, answers and user crossing on two phones; a push before its commit; a phone that acts before it renders; broken sockets | a ring that stays has a known reason; media only between two who took part; an answered call connects |
| SOS (`domain/sos`, `sos-queue.ts`, its screen and sweep) | `sos_events`, the alerts sent, the screen's countdown | trigger with retries, cancel, escalate, sweep | lost answers, failing deliveries, restarts, timer against sweep | every alarm is settled, everyone told, a cancelled one silent; nobody told twice, which is false of the code |
| Login gate (`domain/auth`, `services/ratelimit`) | the limiter's log, liveness checks | first factor, liveness, webhook, second step | counters rolled back with the error, checks of another login | a session has a face behind it; the limit holds in every window |
| Onboarding (`domain/onboarding`) | users, the invitation, KYC jobs, `account_state` | sign up, the steps, webhooks, staff's review | webhooks late, twice, out of order; one invitation used by two | an account in use has finished its onboarding; an invitation lets one person in |
| Account (`domain/account`, `domain/admin`) | `account_state`, the date of deletion | deactivate, take back, force a state, act on reports, the deleting sweep | staff and the sweep on one row | nobody active is deleted |
| Recovery (`domain/recovery`) | requests, codes, liveness jobs | two ways in, the next of kin's link, completion | steps done again, codes of another request, an upgrade in between | no recovery the next of kin have not heard of |
| Billing (`domain/billing`) | subscriptions, KYC results, plans, prices, purchases | both upgrades, webhooks, the catalogue, grants | webhooks late or twice; the latest row is not the paid one | nothing without payment and verification; one price |
| End-to-end keys (`lib/crypto`, key endpoints) | prekeys, envelopes; secrets and sender keys on phones | upload, claim, seal, fetch, open | concurrent claims, uploads whose answer is lost, an app that is closed half-way | what was sent can be opened by whoever was given its key |
| Meetings (`domain/meetings`, `apps/meet`, LiveKit) | the meeting, participants, pages, the room; polls, questions, stage, minutes, recordings, documents | join, wait, admit, remove, promote, end; vote, upvote, speak, extend, record | provider calls before the commit; the job against the host; people who come back | who waits has no token and gets in; an ended meeting stays ended; records are true |
| VIP chat (`domain/vip_chat`, `domain/translation`) | conversations of two, messages, attempts, a day's usage | start, send, translate, retry, interpret | resends at the same time, a first use of a day | one conversation, one row per message, usage is work done |
| Administration (`domain/admin`) | administrators, their tokens | log in, enrol, create, promote, (de)activate | requests with the token of somebody deactivated | somebody is in charge; a second factor before use |
| Compliance (`domain/compliance`) | requests, exports | file, settle, export, delete | two administrators on one request | what is settled was done |
| Location (`domain/location`) | shares, positions, the retention sweep | share, revoke, report, look, purge | a revocation next to a position | positions only within a share, kept as long as promised |
| The rest | - | sockets, providers, screens, deployment | see `PROJECT.json` | - |

They interact through shared tables (blocks and contacts are read by messaging,
sessions by every request), through the WebSocket manager (messaging and calls
push events to a user's devices), and through the scheduler. What is modelled of
one in the module of another is said in that module's head comment.

## 2. The modules

| Module | Stands for | Extends |
|---|---|---|
| `TokenFamilies` | abstract: what token rotation promises | - |
| `Sessions` | `AuthService` over `devices` and `sessions` | - |
| `SessionsRefinement` | the mapping of `Sessions` to `TokenFamilies` | `Sessions` |
| `SessionsInvariant` | the inductive invariants `IInv` and `SerialInv` | `SessionsRefinement` |
| `SessionsProofs` | what holds under any interleaving; what holds for one request at a time; the refinement | `SessionsInvariant` |
| `PhoneSession` | the app's token store and transport over `Sessions` | `Sessions` |
| `PhoneSessionProofs` | types, and that the phone uses the service | `PhoneSession` |
| `Circle` | `CircleService` and the demotion on a new identity key | - |
| `Messages` | messages, uploads and members of a group, the purge, the sending screen | - |
| `Calls` | `CallService`, event delivery, the call state of two phones, their peer connections | - |
| `Sos` | `SosService`, the sweep, the retrying trigger, the screen | - |
| `CircleInvariant`, `MessagesInvariant`, `CallsInvariant`, `SosInvariant` | the inductive invariant of each | the component |
| `CircleProofs`, `MessagesProofs`, `CallsProofs`, `SosProofs` | theorems and their proofs | the invariant |
| `Requests` | transactions of the backend: rows, changes, commit, roll-back; webhooks | - |
| `Meetings` | entering a room: `MeetingService`, its page, the SFU, the job that starts meetings | `Requests` |
| `MeetingTools` | polls, questions, chat, breakout rooms, stage, minutes, attendance report | `Requests` |
| `MeetingFiles` | recordings, documents, transcripts, notes, storage | `Requests` |
| `Billing` | `BillingService`, plans and prices, `ConferenceUpgradeService` | `Requests` |
| `Accounts` | signup, onboarding, an account's states, the deleting job | `Requests` |
| `Recovery` | recovery, and the login gate before `Sessions` | `Requests` |
| `Keys` | prekeys and sender keys, on the backend and on three phones | `Requests` |
| `VipChat` | conversations of two, translated messages, usage | `Requests` |
| `Office` | administrators, requests of data subjects, location sharing | `Requests` |
| `Backend` | all of these put together, and their properties by theme | the nine above |
| `BackendInvariant` | the inductive invariant, in three parts: types, justification, records | `Backend` |
| `BackendProofs` | transactions; justification and types, topic by topic; the records of seven topics | `BackendInvariant` |
| `RecordsProofs` | the records of the others; the theorems about all three parts | `BackendProofs` |

`MC...` modules give the constants names and, where it is sound, symmetry; the
`.cfg` files give them values.

**Sessions.** `sessions[s]` is a row; `revoked_at` and `revoked_reason` are one
field, `status`. A row is found by its refresh token, so `s` names both.
`parent` is not a column: it records which row a row was rotated from. `Begin*`
and `Commit*` pairs stand for the login, refresh, reuse, logout,
device-revocation, logout-everywhere and recovery handlers. `Expire` is the
passing of thirty days.

**PhoneSession** adds the phone's store and the wire: a call goes through up to
three attempts, each of which may be lost before or after it is served.

**Circle** keeps, beside the rows, how many identity keys a user has had, how
many of them there were when a contact verified them (`checked`, the code's
`safety_number_verified_at`) and when one last replaced another (`replaced`).
A handler's writes are a record of rows to insert, update and delete. Sending and
answering a request look at the two contact rows after the rest and one after the
other (`LookAtRow`), each as committed at its own moment, as READ COMMITTED lets
them; the unique pair of a contact row makes the insertion of one that exists by
the commit fail. A verification names a contact and no key, so what its users
compared is not in the model: it is not in the code either.

**Messages** is one group conversation. A draft (`client_message_id`) is sent by
the screen and sent again while no answer was read. The unique column refuses a
second row; `AnswerResend` is the idempotent answer. The purge reads what has
expired and is not deleted, and empties it in its own transaction. A member is a
number of rows, because nothing makes the pair of conversation and user unique.

**Calls** has, per phone, `incoming`, `active` and one peer-connection state per
call, what of the first two was last rendered (`shown`), and a FIFO of events (its
socket), which may break and lose them. Handlers and buttons read what was
rendered, as `incomingCallRef` and the components' closures do. An event is pushed
when its transaction is flushed, the row comes with the commit, and a transaction
may be rolled back between the two (`RollBack`).

**Sos** counts the alerts each person got for each event, so that one too many
or one too few shows.

**Requests** has the database as rows of columns (`db`), a transaction as the set
of column changes it will write (`open`), and everything outside the database
(`outside`): pages, phones, providers, clocks, and history. An UPDATE names only
the columns whose value changed, as SQLAlchemy's do, so two transactions on one
row overwrite each other column by column; one that finds its row deleted cannot
commit. A request that raises is no step unless it has effects outside: what it
wrote is rolled back. That is why failed-code counters, lockouts and the audit
entries of refused logins appear nowhere: they never reach the database.

**Topics.** Requests that have no row in common do not influence each other, so a
behaviour of `Backend` is about one group of rows, its `topic`, and `db` has the
rows of that topic only. The topics: `room` (Meetings); `records`, `stage`,
`minutes`, `attendance` (MeetingTools); `files` (MeetingFiles); `vip`, `plan`
(Billing); `signup`, `account` (Accounts); `recovery`, `login` (Recovery);
`keys`; `chat`; `office`, `compliance`, `location` (Office). Within a topic the
components interact as they do in the code: the identity provider's webhook
serves onboarding and both upgrades, the upgrade to VIP changes what a recovery
asks for, a report that is acted on moves the account a sweep deletes, the job
that starts meetings and the host write the same row.

**Meetings** keeps for each row of `meeting_participants` what the page of that
person shows. A page that holds a token may be in the room; leaving is sent by a
closing page and may arrive late. **MeetingTools** tells the SFU of a change of
stage before the commit, as the code does, and a rollback does not tell it again;
whoever lost the connection comes back with any token they were given. Attendance
keeps apart who is in the meeting from what their row says of it. **MeetingFiles** keeps which
recordings the SFU is making and which objects are in storage; deleting the meeting
takes the rows and neither of these. **Billing,
Accounts and Recovery** keep what a provider has decided (`says`) apart from the
webhook that reports it, which comes at any later time, any number of times.
**Keys** names a sender key by the draft it was made for and a prekey by its
batch; opening a message is fetch, open and keep, in the phone's order, and a reader
whose bundle cannot be had is left out of a key (`SkipDevice`).

### Abstractions made throughout

Identifiers, tokens and contents are model values or members of small sets;
ciphertexts are "first", "edited" or "empty"; times are reduced to whether an
instant has passed. Formatting, logging and look-ups without effect are left out.

## 3. The runs

Runs that pass:

| Run | Instance | Shows |
|---|---|---|
| `sessions_serial` | one user, 2 devices, 3 sessions, one request at a time | the invariant `SerialInv` (with `IInv` in it), `OneLivePerFamily`, `RevocationEndsLogins`, `RecoveryLeavesOneDevice`; the rotation implements `TokenFamilies` |
| `phone_calls` | one phone, 3 sessions, 2 attempts of a call, 2 requests served at once | `CallsEnd`: every call of the app ends; and of the service, under overlapping requests, the invariant `IInv`, `LiveSessionIsLeaf`, `RevokedStaysRevoked` |
| `circle` | 2 users, 2 requests, 2 keys each; two transactions at once while there is at most one request | the invariant `IInv`; whatever overlaps, `OnePendingPerPair` and `TrustIsRenewed`; `NeverHalfAccepted`, `BlockSevers`, `AnswerIsFinal` for requests that did not |
| `messages_group` | 2 users, 2 drafts, one of them sent twice, 1 upload, 2 requests and a sweep at once | the invariant `IInv`; `SentOnce`, `ExpiredVanishes` always; `MediaLinksAgree`, `OneRowPerMember` for requests that did not overlap |
| `calls_overlap` | 2 phones, 1 call, 2 requests served at once and 2 on their way, a callee that acts before it has rendered, one interruption (a commit that fails after its push, a socket that breaks, an admin who ends the call) | the invariant `IInv`; `NoPhantomRing`, `MediaNeedsBothParties`, `ActiveWasAnswered`, `LeftStaysLeft` |
| `sos_serial` | 2 events of one press, 2 recipients, 2 failures, one transaction at a time | the invariant `IInv`; `EveryAlarmIsSettled`, `EscalatedMeansEveryoneTold`, `CancelledIsSilent` |
| `backend_services` | 17 topics; 2 requests and a job at once, 3 to 8 requests of a behaviour (`MCBackend`, `Bounds`) | the nine properties below |

Runs that show where the code and what is said of it part (section `findings` of
`PROJECT.json` quotes the lines):

| Run | Shows |
|---|---|
| `sessions_reuse` | reuse of a rotated token revokes the family and then raises; the error rolls the revocation back |
| `phone_latest` | a biometric unlock refreshes the token and does not store the new one |
| `messages_tombstone` | an edit that reaches a deleted message fills it again, and the purge never looks at it any more |
| `sos_twice` | 1 event, 2 transactions, no failure: the phone asks for the escalation when its countdown ends while the sweep has read the same armed event, and everyone is alerted twice |
| `calls_media` | the offer is relayed while the call rings, before the callee has anything that hears it: an answered call is never negotiated |

### The properties of `backend_services`

Six invariants gather, by theme, the named statements of the modules; every
statement has its own comment there.

| Property | Says |
|---|---|
| `TypedBackendInv` | the rows of each topic have their columns and values (`BackendTypeOK`), and the invariants the proofs rest on (`TypesInv`, `BackendInv`, `RecordsInv`, section 4) |
| `NothingUnearned` | nobody gets a token while waiting (`WaitingHasNoToken`), a voice from the audience (`AudienceIsSilent`, unless `raced`), VIP or a plan without payment and checks (`VipIsPaidAndVerified`, `NoUnpaidPlan`), an account without its onboarding (`ActiveHasCode`), a session without a face (`LoginNeedsFace`), a recovery behind the next of kin's back (`RecoveryIsAnnounced`), the office without a second factor (`MfaBeforeUse`) |
| `OneOfEach` | one row where the code looks up the only one: `OneRowPerUser`, `OneOfAKind`, `OneThreadEach`, `OneActivePrice`, `InvitationOnce` |
| `RecordsAreTrue` | what is counted or written down is so: `UpvotesCounted`, `WithinPlan`, `PeakIsTrue`, `UsageIsWork`, `FilesMatchRows`, `PingsWithinShare`, `ActiveWasPaid`, `WithinRateLimit`, `RequestsAreHonoured` |
| `SentIsReadable` | a message that was sent can be opened by a reader who was not left out of its key, though writers share prekeys, bundles cannot be had and sends fail half-way |
| `SomeoneInCharge` | an active super_admin is left |
| `OverIsOver` | no join and no job brings an ended meeting back, or somebody who was removed |
| `NoActiveDeleted` | the sweep deletes nobody who is in use |
| `WaitingGetsIn` | after the start of a scheduled meeting nobody waits for ever |

Some hold whatever overlaps: `WaitingHasNoToken`, `VipIsPaidAndVerified`,
`NoUnpaidPlan`, `ActiveHasCode` (unless `forced`), `LoginNeedsFace`, `RecoveryIsAnnounced`,
`WithinPlan` (of meetings with a planned length; others have no limit),
`WithinRateLimit`, the unique keys in `OneOfAKind` and `OneThreadEach`, the second
half of `UsageIsWork`, and `WaitingGetsIn`. The others hold of the code only as
long as something did not happen, and say so by a history flag. `overlapped`: two
transactions were open at once (nothing locks, and few columns are unique).
`raced` (stage): the SFU was told something, or somebody connected, while another
request was open; an invitation failed after the SFU was told of it; or somebody
came back with a token from their time on the stage. `blurred` (attendance): two
requests about one person crossed, one failed, somebody left twice, or was admitted
again after a removal, so that a row no longer tells its last stay; `lost`: an
earlier stay was written over by a new one or taken out of the report with whoever
was removed, or was never written because they waited first; then the peak is only
said not to be too high. `failed`, `deleted` (files): a request was rolled back
after its provider was called; the meeting was deleted. `forced`, `moved`
(account): staff chose the state, or moved an account whose deletion was
scheduled. `back` (compliance): the owner took the deactivation back. `undone`,
`ghost` (office): a login was rolled back after its token was answered, or
somebody deactivated acted with a token that still runs. `mishap` (keys): a
roll-back, two first messages of one phone at once, prekeys made over others or
while messages are opened, an app closed between deleting a secret and keeping what
it opened, a message ahead of its envelope; `skipped`: the keys the reader was left
out of. Behaviours of `keys` are not followed further once they overlap or have had
a mishap, those of `attendance` not once they are blurred; all others are.

What these exceptions cost is said at each hazard of `PROJECT.json`: the note of one
whose own case is excepted says "not caught", because the code goes wrong there and
the model with it.

In `circle` and the calls the exceptions are named in the same way. `crossed`: the
pairs whose two users were asking each other at once; two pending requests may stay.
`raced`: the verifications that were open when the contact's key was replaced.
`missed`, `undone`, `unseen`: an event was lost with a socket; the row of a call was
rolled back after its ring had gone out; an end came before the phone had rendered
the ring. These are the only three ways in which a phone is left ringing
(`NoPhantomRing`), and nothing but its user ends such a ring.

### Bounds

Every bound is a constant or a guard with a comment. In the backend `MaxRequests` is
the number of requests and webhooks of a behaviour, by topic (`MCBackend`, `Bounds`:
3 for the room and the stage, 4 for records, minutes, attendance, an account, chat and
location, 5 for files, plans, signup and data requests, 6 for recovery and keys, 7
for the office, 8 for the upgrade to VIP). A scheduled meeting starts with its
waiting room on, another one with it off (`MCInit`); a request turns it over. Each lets a topic go through its life, or from
each state of it some way on, and cross that with the repeated or late steps its
hazards name; clocks, phones and what providers decide cost none. The faulty
variants of `PROJECT.json` are found within the same bounds. Two users, two slots
and one or two of each other thing are the smallest instances in which every pair of
actors and every pair of overlapping requests occurs; three sessions give a
chain of two rotations next to a login, or two refreshes of one token that overlap. `MaxOverlap` (Circle) and `MaxFull` and
`Apart` (Messages) keep apart scenarios that do not read each other's state:
overlaps of the answers to one request from sequences of two requests; two
drafts that share an upload from edits, expiry and member changes; member
changes from changes of messages. `MayRetry`, `MayDrop`, `MayLag`,
`MayCall`, `MayExpire` and `MayAddDevice` name who may do a thing at all;
`MaxTries`, `MaxKeys`, `MaxNotices`, `MaxFailures`, `MaxInterruptions` and
`MaxAttempts` count. `MaxRequests` of the calls is the number of requests of the
phones that are on their way at once.
`CHECK_DEADLOCK FALSE` is given where the bounded system ends: no drafts, calls
or presses are left.

Symmetry is used for safety only, in `circle` and the calls.

### Fairness

Nothing is assumed of users, and nothing of the network except that a request
which was sent is answered, dropped or lost. `PhoneSession`: the transport's
timers run, and the service answers or drops what it got. `Sos`: the clock runs,
the sweep is started again and again (every thirty seconds, `scheduler.py:166`)
and a transaction that began takes its next step. `Messages`: the sweep starts
again and again and does not fail for ever (strong fairness of its commit).
`Meetings`: the clock reaches the start, the job runs again and again and does not
fail for ever (strong fairness of its commit), and a waiting page polls. The
other topics have no fairness: nothing there must happen unless somebody asks.
`Sessions`, `Circle` and `Calls` have no liveness property and no fairness; that
ringing ends, for instance, is false of the code, which has no timeout.

## 4. What is proved

Every theorem below holds for any number of users, rows, requests under way and
so on; the assumptions on constants are the `ASSUME`s of the modules. They say
that `None` is no identifier and that bounds are numbers, and beyond that only:
`Kin \subseteq Person` and somebody is alerted at all (Sos), nobody calls
themselves (Calls: the other party is a member who is not the caller,
`domain/calls/service.py:58`), a finite number of requests at once and
at least one try (Messages), that rows of different tables have different names,
finitely many rows (Backend), and that what a table is called or may hold is not
`None` (the kinds of records and files, drafts).

Of the backend, any number of requests and jobs may be under way, and `Row` and
`User` are any sets: participants, records, files, people who sign up, messages
and administrators are as many as one likes. The rows that a definition numbers
are as many as it says: two subscriptions, plans, purchases, recovery requests,
data requests, shares and positions, three prices, conversations and attempts,
and three drafts of two writers whose keys one reader opens.

### Sessions

`SessionsProofs`, whatever overlaps:

| Theorem | Says |
|---|---|
| `TypeCorrect`, `InvariantHolds` | `[]TypeOK`, `[]IInv` |
| `RotatedSessionsAreDead` | `[]LiveSessionIsLeaf`: a row that was rotated is never live again |
| `RotationKeepsASuccessor` | `[]RotatedHasSuccessor`: a row is marked rotated only with its successor in the table |
| `LoginStaysOnItsDevice` | `[]FamilyOnOneDevice`: all rows of a login have its user and device |
| `RevocationIsFinal` | `RevokedStaysRevoked`: no stale request revives a revoked session |

A commit writes what was decided from an earlier state, so none of these is
inductive. `IInv` adds that rows agree with the row their login began with and
that what an open request has read still names rows: rows are never deleted and a
device never changes hands. `EveryStepHasShape` shows that every action keeps the
rows and at most revokes some, starts a login with a new row, or rotates a row
into a new one; the conjuncts are proved once against these three shapes.

The second part of `SessionsProofs`, under `OneAtATime` (there is one request slot, the
hypothesis without which TLC finds these false):

| Theorem | Says |
|---|---|
| `SerialInvariantHolds` | `[]SerialInv` |
| `OneTokenPerLogin` | `[]OneLivePerFamily` |
| `RevocationIsComplete`, `RecoveryIsComplete` | `RevocationEndsLogins`, `RecoveryLeavesOneDevice`: a revocation leaves no live row of the logins it is about |
| `RotationIsTheProtocol` | `ImplementsTokenFamilies`: the specification implements `TokenFamilies` |

`SerialInv` adds that what the open request has read is still so (`ReadHolds`).
For the refinement, every step of the service keeps the tokens, ends logins,
starts one or rotates one (`EveryStepIsTokenStep`), and each of these is a step
of `TokenFamilies` or a stutter under the mapping (`TokenStepIsAbstract`).

`PhoneSessionProofs`:

| Theorem | Says |
|---|---|
| `PhoneTypesHold` | `[]PhoneTypeOK`: no call is attempted more than `MaxAttempts` times, and what the phone and the wire hold has its type |
| `PhoneUsesTheService` | `PhoneSpec => Spec`: whatever is lost, late or repeated on the wire, the phone does nothing to the service that `Sessions` does not allow, so the theorems above hold under it |

The first needs more than the types (`PhoneInv`): a call under way has attempts
left unless one is on the wire, and whoever unlocks or logs out has a token, which
its messages carry.

### Circle, Messages, Calls, SOS

| Theorem | Says | When |
|---|---|---|
| `ConnectionIsMutual` | `NeverHalfAccepted` | no overlap so far |
| `BlockIsComplete` | `BlockSevers` | no overlap so far |
| `ReplacementEndsTrust` | `TrustIsRenewed`: a replaced key ends the trust of every verification read before it | always, unless the verification was open then |
| `OnlyCrossingDoubles` | `OnePendingPerPair` | always, unless both were asking at once |
| `AnswersAreFinal` | `AnswerIsFinal`: a request that was answered is not answered again | no overlap so far |
| `DraftsAreSentOnce` | `SentOnce`: a draft is stored once, however often it is sent | always |
| `UploadsHaveOneMessage` | `MediaLinksAgree` | no overlap so far |
| `MembersAreListedOnce` | `OneRowPerMember` | no overlap so far |
| `NoPhantomRings` | `NoPhantomRing`: when everything has arrived a phone rings for a call that is over only for one of the three reasons of section 3 | always |
| `MediaHasBothParties` | `MediaNeedsBothParties` | always |
| `ActiveCallsWereAnswered` | `ActiveWasAnswered` | always |
| `CallsAreLeftForGood` | `LeftStaysLeft` | always |
| `EscalationReachesEveryone` | `EscalatedMeansEveryoneTold` | always |
| `CancelComesFirst` | `CancelledIsSilent` | one transaction at a time |

and for each its `...InvariantHolds` and `...TypeCorrect`. "No overlap so far" is
a conjunct of the property itself (`~overlapped`), "one at a time" the hypothesis
`OneAtATime` of the theorem.

The invariants, and why they are needed:

- *Circle.* A handler decides on writes and a commit makes them. As long as no
  two requests were open at once, the writes that are open are those a handler
  would decide on now (`AloneIsFresh`), so a commit can be treated as the handler
  run in one step: `SendEffect` to `UnblockEffect` say what each does to the
  tables, and the properties are proved against these effects. The two that hold
  whatever overlaps have conjuncts of their own: who is asking, unless the other is
  asking too, finds nothing pending at the commit (`PendingAgree`), and a verification
  that is open was read since the last replacement (`OpenTrust`).
- *Messages.* `SentOnce` rests on the unique column (`ClientIsUnique`), which
  needs no hypothesis about overlap. The rest needs that an open request names
  rows, that tries bound copies (`CopiesWereTried`), that the additions under way
  and the rows of a member together stay within the slots (`RowsCounted`), and
  that what a lone request has read still holds.
- *Calls.* A phone that rings for a call which is over, or about to be, has the
  end in its socket behind the ring, or the transaction that ends the call will
  send it (`RingIsEnded`), unless one of the three reasons applies. This needs to know for every request, event, open
  transaction and phone what it implies about the call's parties and joins
  (`RequestsAgree`, `EventsAgree`, `WritesAgree`, `PhonesAgree`, `TablesAgree`).
- *SOS.* What an escalation that is under way has done so far (`ToldSoFar`), and,
  when transactions run one at a time, that the event it read is as it was and that
  nobody is alerted within the window.

### The services of the backend

`BackendProofs` and `RecordsProofs`, about `Backend!Spec`:

| Theorem | Says |
|---|---|
| `BackendInvariantHolds` | `[]BackendInv` |
| `TypesAndJustification` | `[]TypedBackendInv`: `TypesInv`, `BackendInv` and `RecordsInv`, for all seventeen topics |
| `NothingIsUnearned` | `[]NothingUnearned`, all eight statements, each within its own limits (section 3): under any overlap but for the stage (`raced`) and the office (`undone`) |
| `ThereIsOneOfEach` | `[]OneOfEach`, all five |
| `WhatIsRecordedIsTrue` | `[]RecordsAreTrue`, all nine, each within its own limits: five of them for requests that do not overlap |
| `SentStaysReadable` | `[]SentIsReadable`, until requests overlap or a mishap, and but for a reader left out |
| `OfficeIsManned` | `[]SomeoneInCharge`, as long as no requests overlap and nobody acts with the token of an administrator who was deactivated |
| `WhatIsOverStaysOver` | `OverIsOver` |
| `DeletionIsDeserved` | `NoActiveDeleted` |

The inductive invariant has three parts.

`TypesInv`: the tables of the topic have the columns of its schema, each value
is one of its column's, and *so is every change that is still open*. A commit
writes column by column, so the second half is what makes the first inductive:
no overlap can mix two typed transactions into a row that is not. What is outside
the tables and is written back into them later (clocks, what a provider said, what
was read) has its type as well.

`BackendInv` has a part for each of eight topics. Its theme is the same in all:
whatever an open transaction is going to write is justified by the tables and by
the world outside *as they are now*, or by something the same transaction also
writes, and nothing that may commit first takes the justification away. So a plan
about to be applied names a purchase that the provider says is paid and that is
paid in the table or will be by the same commit (`PlanInv`); who is about to be
put in the waiting room has no token, and no other transaction writes that row
(`RoomInv`); an account that is due for deletion is on its way out (`AccountInv`).
Where the statement is only true without overlap, the invariant says what a lone
transaction will do (`OpenAlone`, `OfficeInv`, the last part of `RoomInv`).

`RecordsInv` is about thirteen topics and what their rows say. Most of it is a
statement about a table, true not only of the table as it is but of every one
there may be next: `Futures` is the table and, for each open transaction, what
the table is after its commit; `Outcomes` leaves the present out as long as
something is open (for what is counted when a request begins and written when it
commits: upvotes, keys). Seen so, a request is judged when it begins, by
what it is going to write; its commit only makes one of the futures the present.
So each handler gets one lemma: given a table of which the statement is true, the
one it will write is such a table, too. Without overlap that is all; where a
unique column guards a row (`OneOfAKind`, the client's id of a message) or only
one transaction can touch it (the files, a recording), a part on open
transactions in general is added, and holds whatever overlaps. Three topics need
something of their own:

- *attendance* (`PeakIsTrue`): requests about different people may overlap, so the
  statement is about the table as it will be when all of them are written
  (`Latest`): whoever it has in the meeting at any moment was there, and never more
  than the greatest number there has been; if no stay was lost, that number is
  reached at somebody's arrival, and these are the instants the report looks at;
- *login* (`WithinRateLimit`): what the limiter remembers is the end of the log of
  all tries, what it forgot is too old for any window that is still open, and any
  `LoginLimit + 1` tries in a row are further apart than the window;
- *keys* (`SentIsReadable`): a prekey is given to one draft; its secret is kept
  until an envelope of its writer is opened (`Spent`), be it that of a draft that
  failed later; an envelope holds the key of a draft for which its reader was not
  left out, sealed with that draft's prekey; the key a writer has stored is the one
  in its envelope and in the reader's cache, or one the reader was left out of; and
  a reader who has neither the secret nor the key in store is just opening it.

Sets of rows are counted (usage, upvotes, attendance) with the facts of
`FiniteSetTheorems`, a least or greatest element comes from the well-foundedness
of the numbers.

The first section of `BackendProofs` has the facts about transactions all of this
uses: what `Change`, `Update` and `Insert` put in a transaction, what a commit does
to each column, what a call or a commit does to `open`, and that a transaction open
alone leaves none behind. The `...TableStep` lemmas show that every handler of every
topic begins, commits or rolls back a transaction or leaves the tables alone;
`OfficeStep` to `LoginStep` that a topic's handlers keep its part of `BackendInv`;
the `...Fits` and `...TypesStay` lemmas that what they write fits the schema; the
lemmas that end in `Call` or `Stay` that they keep a part of `RecordsInv`; the
`...Starts` lemmas that all of it holds at first. `BackendSteps`, `TypesStay` and
`RecordsStay` put the topics together.

### How the proofs are laid out

A component's proof goes: type correctness action by action; the shapes a step
can have (`StepCases` and its like); one lemma per conjunct of the invariant
against the shapes; `InitInvariant`, `StepKeepsInvariant`; the theorems, each of
which is the invariant, an implication and a temporal step. Every inductive
invariant but the phone's is also an invariant of a run, so that TLC refutes a
wrong one on a small instance before anything is proved about it.

### Checked and not proved

- Liveness: `CallsEnd`, `EveryAlarmIsSettled`, `ExpiredVanishes`, `WaitingGetsIn`.
  It and `ENABLED` are beyond the back ends (Z3, Zenon, LS4), as is induction over
  data; no module that is proved about has a recursive operator.
- The properties of the runs that find a violation are false of the code. The
  theorems of SOS that hold for one transaction at a time stop where `sos_twice`
  begins.

## 5. Not modelled

Components: the WebSocket endpoint and its hold on a database session (it needs
the pool of connections), the providers themselves, screens whose state ends with
them, migrations, row-level security and deployment, shared types.

Of modelled components:

- Messages: receipts, typing, pins, per-member flags, what the phone shows.
  Calls: `switch_media`, ICE candidates, mute, a second tap on Answer for the same
  call, the awaits inside `start()` between the connection and the offer.
  Circle: reports.
- Billing: entitlements, read by the meetings, whose limits are constants there.
  Office: the permissions of other roles, look-ups. Everywhere: the audit log.
- Compliance: what an export contains. Keys: ciphers, the signed prekey, members
  who join later. VIP chat: texts, languages, pushes.
- Codes: what they are and when they expire; a refused one leaves nothing behind.

Where code and documents part, as far as reading showed, without a run of its own:

- A sender key is not made anew when a member leaves or joins, though
  `docs/DITSALA_MASTER_SPEC.md:195` asks for it: no such step exists in
  `apps/mobile/lib/crypto`, so nothing in `Keys` makes one.
- `domain/messaging/service.py:171-173` marks a one-time prekey consumed; two
  claims at the same time get the same one. `SentIsReadable` excludes overlap.
- The first key of another device costs no trust (`domain/messaging/service.py:132`),
  though `docs/DITSALA_MASTER_SPEC.md:284` counts an added device as a key change.
- A trigger of SOS that is sent again after a late answer arms a second event;
  cancelling the first leaves it armed (`apps/mobile/lib/sos-queue.ts:41`).
- Verifying the phone again puts a recovery request that is further back to an
  earlier status (`domain/recovery/service.py:202`).
- Two users who ask each other at once, or one who asks twice, may leave two pending
  requests: the second looks at the contact rows after the first has committed
  (`domain/circle/service.py:138-139`), so nothing it inserts conflicts. Blocking
  then raises for ever (`get_pending_between` finds two). `OnePendingPerPair` names
  this as the only way.
- `repositories/circle.py:39` and the master spec want a contact whose key changed to
  be re-prompted and never silently trusted. The call that reports a verification
  names no key: two people who compare, one whose key is then replaced, and a report
  after that, make a trust in a key nobody compared. The server cannot tell, and
  `TrustIsRenewed` says only what it can: a replacement ends the trust there is.
- A VIP's recovery is completed from `next_of_kin_flagged` without a face that passed
  (`domain/recovery/service.py:285`), though the message at 288 says "SmartSelfie
  Authentication must pass first": whoever has the next of kin's link sets that status
  from any that is not over, and an upgrade in between makes a VIP of a request that
  was made without liveness. `RecoveryIsAnnounced` does not say more than its name.
- A phone is left ringing by a lost event, by a call whose row was rolled back after
  its ring had gone out, and by an end that arrives before the ring is rendered
  (`lib/call-context.tsx:93`); ringing has no timeout.
- Deleting a meeting leaves its objects in storage, which the docstring says
  (`domain/meetings/service.py:541-544`), and goes on recording, which it does not.
- A member whose device's bundle cannot be had is left out of a sender key for good
  (`lib/crypto/keystore.ts:273`), while the sender stores the key and never gives it again.
- A token made while its owner was on the stage lets them speak when they come back
  from the audience, and an invitation that fails at its commit leaves the microphone on.
- Failed codes and refused logins of administrators are written and rolled back by
  the error that follows.

## 6. Plan

Every invariant and every step property of the passing runs is proved, as far as it
is true of any number of requests (section 4). What is left
is to model more, and to prove it as it comes:

1. What the phone shows of a conversation, against events sent before the commit;
   the last admin of a group, who may leave.
2. `Calls` with `switch_media`, and a call hung up while it waits for the microphone.
3. The WebSocket endpoint with the pool of connections; the guests' count at the
   door of a meeting; a run for the recovery that skips the face (section 5).

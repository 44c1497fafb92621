-------------------------- MODULE BackendInvariant --------------------------
(* The invariant from which the properties of Backend are proved: what the *)
(* open transactions of each topic will write, and what of the tables and  *)
(* of the world outside justifies it.                                      *)
EXTENDS Backend

(* The rows of a topic and their columns.                                  *)
Columns(rows, columns) ==
  rows \subseteq DOMAIN db /\ \A row \in rows : DOMAIN db[row] = columns

Opened == {t \in DOMAIN open : open[t] # {}}

-----------------------------------------------------------------------------
(* The office. The request that is open leaves somebody in charge alone,   *)
(* and nobody has a token without a second factor, if only one that is     *)
(* still to be committed.                                                  *)
InCharge(a) == Here(a) /\ db[a].active /\ db[a].role = "super_admin"
OfficeInv ==
  topic = "office" =>
    /\ Columns(Row, {"is", "role", "active", "enrolled"})
    /\ DOMAIN outside = {"login", "token", "ghost", "undone"} /\ DOMAIN outside.login = Row
    /\ outside.token \subseteq Row
    /\ \A t \in DOMAIN open : \A c \in open[t] :
         c[1] \in Row /\ (c[2] = "enrolled" => c[3] = TRUE)
    /\ ~overlapped /\ ~outside.ghost =>
         /\ \E a \in Row : InCharge(a)
         /\ \A t \in Opened : \E a \in Row :
              InCharge(a) /\ \A c \in open[t] : c[1] = a => c[2] = "enrolled"
    /\ \A a \in outside.token : ~outside.undone =>
         db[a].enrolled \/ \E t \in DOMAIN open : Writes(open[t], a, "enrolled")

-----------------------------------------------------------------------------
(* The room. A row is made by one request, and whoever is to wait has no   *)
(* token by then. What a request that is open alone will do to the meeting *)
(* is no way back, and the job lets in who waits.                          *)
Waits(c) == c[2] = "admission" /\ c[3] = "waiting"
Holds(p) == page[p] \in {"token", "room"}

RoomInv ==
  topic = "room" =>
    /\ Columns({Meeting}, {"is", "status", "locked", "waiting_room", "scheduled"})
    /\ Columns(Row, {"is", "user", "role", "admission", "joined", "left"})
    /\ DOMAIN outside = {"clock", "leaves", "page"} /\ DOMAIN page = Row
    /\ \A p \in Row :
         /\ db[p].is \in {"none", "here"}
         /\ db[p].is = "none" => db[p].admission = "admitted"
         /\ Here(p) /\ db[p].admission = "waiting" => ~Holds(p)
    /\ \A t \in DOMAIN open : \A c \in open[t] :
         /\ c[1] \in Row /\ c[2] = "is" => c[3] = "here"
         /\ c[1] \in Row /\ Waits(c) =>
              /\ db[c[1]].is = "none" /\ ~Holds(c[1])
              /\ \A s \in DOMAIN open \ {t} : \A d \in open[s] : d[1] # c[1]
    /\ ~overlapped => \A t \in DOMAIN open : \A c \in open[t] :
         /\ c[1] = Meeting /\ c[2] = "status" => c[3] = "ended" \/ meeting.status = "scheduled"
         /\ t \in Job /\ c[2] = "admission" => db[c[1]].admission = "waiting"

-----------------------------------------------------------------------------
(* The stage. As long as nothing raced, one request is open at most, and   *)
(* who may speak is on the stage when it is done, or was unmuted.          *)
OnStageAfter(p) ==
  /\ db[p].stage = "on_stage" \/ \E t \in DOMAIN open : Writes(open[t], p, "stage")
  /\ \A t \in DOMAIN open : \A c \in open[t] :
       c[1] = p /\ c[2] = "stage" => c[3] = "on_stage"

StageInv ==
  topic = "stage" =>
    /\ Columns(Row, {"is", "role", "stage"})
    /\ DOMAIN outside = {"connected", "publishes", "tokens", "unmuted", "raced"}
    /\ connected \subseteq Row
    /\ overlapped => outside.raced
    /\ ~outside.raced =>
         \A p \in connected \cap outside.publishes : p \in outside.unmuted \/ OnStageAfter(p)

-----------------------------------------------------------------------------
(* The upgrade to VIP. Each step is justified by the one before it, in the *)
(* tables or in the transaction that writes it.                            *)
Decided(k, outcome) == says[k] # None /\ says[k] = outcome
KycDocuments == {Doc(1), Doc(2)}
Paid == \E s \in Subscriptions : db[s].paid

VipInv ==
  topic = "vip" =>
    /\ Columns(Subscriptions, {"is", "status", "paid"})
    /\ Columns(KycDocuments \cup {Face(1)}, {"is", "status"})
    /\ Columns({Subscriber}, {"is", "tier"})
    /\ DOMAIN outside = {"says", "passed"} /\ DOMAIN says = VipRows
    /\ \A t \in DOMAIN open : \A c \in open[t] :
         /\ c[2] = "is" => c[3] = "here"
         /\ c[2] = "paid" => c[3] = TRUE
         /\ c[1] \in Subscriptions /\ c[2] = "status" /\ c[3] = "awaiting_kyc" =>
              db[c[1]].paid \/ Writes(open[t], c[1], "paid")
         /\ c[1] \in KycDocuments /\ c[2] = "status" /\ c[3] = "passed" => outside.passed
         /\ c[1] = Face(1) => Paid /\ outside.passed
         /\ c[1] = Face(1) /\ c[2] = "status" => Decided(Face(1), c[3])
         /\ c[1] = Subscriber /\ c[2] = "tier" =>
              /\ Here(Face(1)) /\ Decided(Face(1), "passed")
              /\ db[Face(1)].status = "passed" \/ Writes(open[t], Face(1), "status")
    /\ says[Face(1)] \in {None, "passed", "failed"}
    /\ \A s \in Subscriptions : db[s].status = "awaiting_kyc" => db[s].paid
    /\ \A d \in KycDocuments : db[d].status = "passed" => outside.passed
    /\ db[Face(1)].is = "none" \/ Here(Face(1))
    /\ db[Face(1)].is = "none" => db[Face(1)].status = "pending"
    /\ Here(Face(1)) => Paid /\ outside.passed
    /\ db[Face(1)].status = "pending" \/ Decided(Face(1), db[Face(1)].status)
    /\ db[Subscriber].tier = "vip" => Here(Face(1)) /\ db[Face(1)].status = "passed"

-----------------------------------------------------------------------------
(* The conference plan. A plan that is applied was given, or is of a       *)
(* purchase that is paid for, or is so by the same transaction.            *)
Bought(c, k) == Here(k) /\ db[k].plan = c /\ Decided(k, "paid")

PlanInv ==
  topic = "plan" =>
    /\ Columns(Purchases, {"is", "plan", "status"}) /\ Columns({Account}, {"is", "plan"})
    /\ DOMAIN outside = {"says", "given"} /\ DOMAIN says = Purchases
    /\ \A t \in DOMAIN open : \A c \in open[t] :
         /\ c[2] = "is" => c[3] = "here"
         /\ c[1] \in Purchases /\ c[2] = "plan" =>
              /\ db[c[1]].is = "none"
              /\ \A s \in DOMAIN open \ {t} : \A d \in open[s] : d[1] # c[1]
         /\ c[1] \in Purchases /\ c[2] = "status" =>
              says[c[1]] # None /\ (c[3] = "paid" <=> says[c[1]] = "paid")
         /\ c[1] = Account /\ c[2] = "plan" =>
              \/ c[3] \in outside.given
              \/ \E k \in Purchases :
                   /\ Bought(c[3], k)
                   /\ db[k].status = "paid" \/ Writes(open[t], k, "status")
    /\ \/ db[Account].plan \in outside.given
       \/ \E k \in Purchases : Bought(db[Account].plan, k) /\ db[k].status = "paid"

-----------------------------------------------------------------------------
(* The account. Whoever has a session has a code, and what makes the       *)
(* account active rests on that. What is due for deletion, or will be, is  *)
(* deactivated or banned, as long as nobody else moves the account and     *)
(* requests do not overlap.                                                *)
OnTheWayOut == {"deactivated", "banned"}
EndsOut(w) ==
  /\ me.state \in OnTheWayOut \/ Writes(w, Me, "state")
  /\ \A c \in w : c[1] = Me /\ c[2] = "state" => c[3] \in OnTheWayOut
EndsNotDue(w) ==
  /\ me.due = "never" \/ Writes(w, Me, "due")
  /\ \A c \in w : c[1] = Me /\ c[2] = "due" => c[3] = "never"

AccountInv ==
  topic = "account" =>
    /\ Columns({Me}, {"is", "state", "code", "due"})
    /\ DOMAIN outside = {"says", "session", "elapsed", "forced", "moved"}
    /\ outside.session => me.code
    /\ me.state = "active" => me.code \/ outside.forced
    /\ \A t \in DOMAIN open : \A c \in open[t] : c[1] = Me =>
         /\ c[2] = "code" => c[3] = TRUE
         /\ c[2] = "state" /\ c[3] = "active" => me.code \/ outside.forced
    /\ ~overlapped /\ ~outside.moved =>
         /\ me.state \in OnTheWayOut \/ me.due = "never"
         /\ \A t \in DOMAIN open :
              /\ EndsOut(open[t]) \/ EndsNotDue(open[t])
              /\ Writes(open[t], Me, "is") => me.due # "never"

-----------------------------------------------------------------------------
(* A login, and a recovery: what the provider has passed, and whose next   *)
(* of kin have been told.                                                  *)
LoginInv ==
  topic = "login" =>
    /\ Columns(Checks, {"is", "status", "verified"})
    /\ DOMAIN outside = {"says", "now", "hits", "log", "in"} /\ DOMAIN says = Checks
    /\ \A t \in DOMAIN open : \A c \in open[t] :
         c[2] = "status" /\ c[3] = "passed" => c[1] \in Checks /\ Decided(c[1], "passed")
    /\ \A k \in Checks : says[k] \in {None, "passed", "failed"}
    /\ \A k \in Checks : db[k].status = "passed" => Decided(k, "passed")
    /\ \A k \in outside.in : k \in Checks /\ Decided(k, "passed")

Announced == {"phone_verified", "liveness_passed", "next_of_kin_flagged", "completed"}
RecoveryInv ==
  topic = "recovery" =>
    /\ Columns(Asks, {"is", "status", "email", "phone", "job"})
    /\ DOMAIN outside = {"started", "says", "told"}
    /\ \A t \in DOMAIN open : \A c \in open[t] :
         c[2] = "status" /\ c[3] \in Announced => c[1] \in outside.told
    /\ \A r \in Asks : db[r].status \in Announced => r \in outside.told

-----------------------------------------------------------------------------
(* Types. The schema of a topic gives each of its rows the type it has. A  *)
(* change fits if its row with it alone is of its type.                    *)
FitsAt(schema, row, column, value) ==
  /\ row \in DOMAIN schema /\ column \in DOMAIN db[row]
  /\ [db[row] EXCEPT ![column] = value] \in schema[row]
Fit(schema, w) == \A c \in w : FitsAt(schema, c[1], c[2], c[3])
Typed(schema) ==
  /\ DOMAIN db = DOMAIN schema
  /\ \A row \in DOMAIN db : db[row] \in schema[row]
  /\ \A t \in DOMAIN open : Fit(schema, open[t])

RoomSchema == [k \in Row \cup {Meeting} |-> IF k = Meeting THEN MeetingRow ELSE ParticipantRow]
RoomTyped ==
  topic = "room" =>
    /\ Typed(RoomSchema)
    /\ outside \in [clock : {"early", "prep", "due"}, leaves : SUBSET Row,
                    page : [Row -> {"form", "waiting", "token", "room"}]]

RecordSchema == [k \in Row \cup {Poll, Breakout} |-> IF k \in Row THEN RecordRow ELSE OpenRow]
RecordsTyped ==
  topic = "records" =>
    Typed(RecordSchema) /\ outside \in [upvotes : [Row -> Nat], inBreakout : SUBSET User]
StageSchema == [k \in Row |-> StageRow]
StageTyped == topic = "stage" => Typed(StageSchema)
MinutesSchema == [k \in {"minutes"} |-> MinutesRow]
MinutesTyped == topic = "minutes" => Typed(MinutesSchema) /\ outside \in [granted : Nat]
AttendanceSchema == [k \in Row |-> AttendanceRow]
AttendanceTyped ==
  topic = "attendance" =>
    /\ Typed(AttendanceSchema)
    /\ outside \in [now : Nat, there : SUBSET Row, busiest : Nat, lost : BOOLEAN,
                    blurred : BOOLEAN]
FilesSchema == [k \in Row \cup {Occasion} |-> IF k = Occasion THEN [is : Is] ELSE FileRow]
FilesTyped ==
  topic = "files" =>
    /\ Typed(FilesSchema)
    /\ outside \in [egress : SUBSET Row, objects : SUBSET Row, failed : BOOLEAN,
                    deleted : BOOLEAN]

VipSchema ==
  [k \in VipRows \cup {Subscriber} |->
    IF k = Subscriber THEN UserRow ELSE IF k \in Subscriptions THEN SubscriptionRow ELSE KycRow]
VipTyped ==
  topic = "vip" =>
    /\ Typed(VipSchema)
    /\ \A k \in VipRows \ Subscriptions : says[k] \in {None, "passed", "failed"}
PlanSchema ==
  [k \in {Account} \cup Plans \cup Purchases \cup Prices |->
    IF k = Account THEN AccountPlan ELSE IF k \in Plans THEN PlanRow
    ELSE IF k \in Purchases THEN PurchaseRow ELSE PriceRow]
PlanTyped == topic = "plan" => Typed(PlanSchema)

SignupSchema ==
  [k \in Row \cup {Config, Invite} |->
    IF k = Config THEN ConfigRow ELSE IF k = Invite THEN InvitationRow ELSE SignupRow]
SignupTyped == topic = "signup" => Typed(SignupSchema) /\ outside \in [expired : BOOLEAN]
AccountSchema == [k \in Jobs \cup {Me} |-> IF k = Me THEN AccountRow ELSE JobRow]
AccountTyped == topic = "account" => Typed(AccountSchema)

RecoverySchema ==
  [k \in Asks \cup Codes \cup {Owner} |->
    IF k = Owner THEN OwnerRow ELSE IF k \in Codes THEN CodeRow ELSE RecoveryRow]
RecoveryTyped ==
  topic = "recovery" =>
    /\ Typed(RecoverySchema)
    /\ DOMAIN outside = {"started", "says", "told"} /\ outside.started \in 0..2
LoginSchema == [k \in Checks |-> CheckRow]
LoginTyped ==
  topic = "login" =>
    /\ Typed(LoginSchema)
    /\ DOMAIN outside = {"says", "now", "hits", "log", "in"} /\ now \in 0..Horizon

KeysSchema ==
  [k \in Prekeys \cup {Envelope(p) : p \in Phones} |->
    IF k \in Prekeys THEN PrekeyRow ELSE EnvelopeRow]
KeysWorld ==
  [made : 0..2, secret : 0..2, listed : BOOLEAN,
   cached : [Phones -> Drafts \cup {None}], opening : [Drafts -> {"no", "fetched", "opened"}],
   read : [Drafts -> (Drafts \cup {None}) \X (0..2)],
   step : [Drafts -> {"new", "sealed", "uploaded", "sent", "failed"}],
   seal : [Drafts -> 0..2], used : [Drafts -> Drafts \cup {None}],
   saved : [Phones -> Drafts \cup {None}], skipped : SUBSET Drafts, mishap : BOOLEAN]
KeysTyped == topic = "keys" => Typed(KeysSchema) /\ outside \in KeysWorld
ChatSchema ==
  [k \in Row \cup Conversations \cup Attempts \cup {Usage, Preferences} |->
    IF k \in Row THEN VipMessageRow ELSE IF k \in Conversations THEN ConversationRow
    ELSE IF k \in Attempts THEN AttemptRow ELSE IF k = Usage THEN UsageRow ELSE [is : Is]]
ChatTyped == topic = "chat" => Typed(ChatSchema)

OfficeSchema == [k \in Row |-> AdminRow]
OfficeTyped == topic = "office" => Typed(OfficeSchema)
ComplianceSchema ==
  [k \in DataRequests \cup {Subject} |-> IF k = Subject THEN SubjectRow ELSE DataRequestRow]
ComplianceTyped == topic = "compliance" => Typed(ComplianceSchema)
LocationSchema == [k \in Shares \cup Pings |-> IF k \in Shares THEN ShareRow ELSE PingRow]
LocationTyped ==
  topic = "location" =>
    Typed(LocationSchema) /\ outside \in [now : Moments, trusted : BOOLEAN]

TypesInv ==
  /\ topic \in Topics /\ TransactionsOK
  /\ RoomTyped /\ RecordsTyped /\ StageTyped /\ MinutesTyped /\ AttendanceTyped /\ FilesTyped
  /\ VipTyped /\ PlanTyped /\ SignupTyped /\ AccountTyped /\ RecoveryTyped /\ LoginTyped
  /\ KeysTyped /\ ChatTyped /\ OfficeTyped /\ ComplianceTyped /\ LocationTyped

-----------------------------------------------------------------------------
(* What is the one and only, counted, or written down about something.     *)
(* Much of it is true only as long as no two transactions were open at     *)
(* once, and then of every table there may be next: as the tables are, or  *)
(* as the transaction that is open leaves them.                            *)
Futures == {db} \cup {Written(open[t]) : t \in Opened}
(* The tables when nothing is open any more, unless something raises.      *)
Outcomes == IF Quiet THEN {db} ELSE {Written(open[t]) : t \in Opened}

IsIn(T, row) == T[row].is = "here"
(* No other transaction changes the row.                                   *)
Only(t, row) == \A s \in DOMAIN open \ {t} : \A d \in open[s] : d[1] # row

(* The room: a user has one row.                                           *)
OnePersonIn(T) ==
  \A p, q \in Row :
    IsIn(T, p) /\ IsIn(T, q) /\ T[p].user = T[q].user /\ T[p].user # Guest => p = q
PersonsKept == topic = "room" /\ ~overlapped => \A T \in Futures : OnePersonIn(T)

(* Records of a meeting. A row that is made is one person's of one kind    *)
(* from the start. A question has the votes that were given, when the one  *)
(* that is open is counted.                                                *)
MakesRecord(w, r, kind, u) ==
  /\ <<r, "is", "here">> \in w /\ <<r, "kind", kind>> \in w /\ <<r, "who", u>> \in w
  /\ \A c \in w :
       /\ c[1] = r /\ (c[2] = "is" => c[3] = "here")
       /\ (c[2] = "kind" => c[3] = kind) /\ (c[2] = "who" => c[3] = u)
OneBallotIn(T) ==
  \A p, q \in Row :
    /\ IsIn(T, p) /\ IsIn(T, q) /\ T[p].kind = T[q].kind /\ T[p].who = T[q].who
    /\ T[p].kind \in {"vote", "assignment"}
    => p = q
UpvotesIn(T) ==
  \A r \in Row : outside.upvotes[r] = IF T[r].kind = "question" THEN T[r].value ELSE 0
KindsKept ==
  topic = "records" =>
    /\ \A r \in Row :
         /\ db[r].is \in {"none", "here"}
         /\ db[r].is = "none" => db[r].kind = None /\ db[r].who = None /\ db[r].value = 0
    /\ \A t \in DOMAIN open : \A c \in open[t] :
         c[1] \in Row /\ c[2] \in {"is", "kind", "who"} =>
           /\ db[c[1]].is = "none" /\ Only(t, c[1])
           /\ \E kind \in Kinds, u \in User : MakesRecord(open[t], c[1], kind, u)
    /\ \A p, q \in Row :
         /\ Here(p) /\ Here(q) /\ db[p].kind = db[q].kind /\ db[p].who = db[q].who
         /\ db[p].kind \in Unique
         => p = q
    /\ ~overlapped => /\ \A T \in Futures : OneBallotIn(T)
                      /\ \A T \in Outcomes : UpvotesIn(T)

(* The minutes: what will be added is within the plan, too.                *)
MinutesKept ==
  topic = "minutes" =>
    /\ WithinPlan
    /\ \A t \in DOMAIN open : \A c \in open[t] :
         /\ c[2] \in {"status", "added"}
         /\ c[2] = "added" /\ minutes.planned # None =>
              minutes.planned + c[3] <= Minutes + outside.granted

(* The attendance: a table of it as it will be when all that is open has   *)
(* been written, which tells the stay of everybody who is in the report.   *)
Promised(T) ==
  /\ \A t \in DOMAIN open : \A c \in open[t] : T[c[1]][c[2]] = c[3]
  /\ \A p \in Row : \A column \in DOMAIN db[p] :
       (\A t \in DOMAIN open : ~Writes(open[t], p, column)) => T[p][column] = db[p][column]
AttendingIn(T) == {p \in Row : ~T[p].removed /\ T[p].joined # None /\ T[p].left = None}
PresentAt(T, m) ==
  {p \in Row : /\ ~T[p].removed /\ T[p].joined # None /\ T[p].joined <= m
               /\ T[p].left = None \/ T[p].left > m}
AttendanceIn(T) ==
  /\ \A p \in Row :
       /\ T[p].joined # None => T[p].joined \in 1..now
       /\ ~T[p].removed /\ T[p].joined # None /\ T[p].left # None =>
            T[p].joined < T[p].left /\ T[p].left <= now
  /\ AttendingIn(T) \subseteq there /\ Cardinality(there) <= outside.busiest
  /\ \A m \in 0..now : Cardinality(PresentAt(T, m)) <= outside.busiest
  /\ ~outside.lost =>
       /\ AttendingIn(T) = there
       /\ \A p \in Row : ~T[p].removed
       /\ \/ outside.busiest = 0
          \/ \E p \in Row : /\ T[p].joined # None
                            /\ Cardinality(PresentAt(T, T[p].joined)) = outside.busiest
Latest == Written(UNION {open[t] : t \in DOMAIN open})
AttendanceKept ==
  topic = "attendance" /\ ~outside.blurred => Promised(Latest) /\ AttendanceIn(Latest)

(* The files: a recording that is being made is in progress and nothing    *)
(* changes it; one that is stopped or deleted has left storage as its row  *)
(* will say.                                                               *)
FilesKept ==
  topic = "files" /\ ~outside.failed /\ ~outside.deleted =>
    /\ \A r \in Row :
         /\ db[r].is = "none" => db[r].kind = None /\ db[r].status = "ready"
         /\ db[r].kind = "recording" =>
              /\ r \in egress => Here(r) /\ db[r].status = "processing"
              /\ Here(r) /\ db[r].status = "ready" =>
                   r \in objects \/ \E t \in DOMAIN open : <<r, "is", "gone">> \in open[t]
              /\ ~Here(r) => r \notin objects \cup egress
    /\ \A t \in DOMAIN open : \A c \in open[t] :
         /\ c[1] \in Row /\ c[2] \in {"is", "kind", "status"}
         /\ c[2] = "is" => c[3] \in {"here", "gone"} /\ c = <<c[1], "is", c[3]>>
         /\ c[2] = "is" /\ c[3] = "here" =>
              /\ db[c[1]].is = "none" /\ Only(t, c[1])
              /\ \A d \in open[t] : d[1] = c[1] /\ (d[2] = "is" => d[3] = "here")
              /\ (\E d \in open[t] : d[2] = "kind" /\ d[3] = "recording") =>
                   /\ \A d \in open[t] : d[2] = "status" => d[3] = "processing"
                   /\ Writes(open[t], c[1], "status")
         /\ c[2] = "is" /\ c[3] = "gone" =>
              /\ open[t] = {c} /\ db[c[1]].is # "none"
              /\ db[c[1]].kind = "recording" =>
                   c[1] \notin objects \cup egress /\ db[c[1]].status # "processing"
         /\ c[2] = "kind" => <<c[1], "is", "here">> \in open[t]
         /\ c[2] = "status" =>
              \/ <<c[1], "is", "here">> \in open[t]
              \/ /\ open[t] = {c} /\ Here(c[1])
                 /\ db[c[1]].kind = "recording" /\ db[c[1]].status = "processing"
                 /\ c[1] \notin egress /\ (c[3] = "ready" => c[1] \in objects)
                 /\ \A s \in DOMAIN open \ {t} : \A d \in open[s] : ~(d[1] = c[1] /\ d[2] = "status")

(* The subscriptions. The latest one has been paid by the time a face is   *)
(* to be compared, and no other follows it before the tier has changed.    *)
ActiveIn(T) ==
  /\ \A s \in Subscriptions : T[s].status = "active" => T[s].paid
  /\ IsIn(T, Face(1)) =>
       \E s \in Subscriptions :
         /\ IsIn(T, s) /\ (s = Sub(1) => ~IsIn(T, Sub(2)))
         /\ T[s].paid
         /\ T[s].status = "awaiting_kyc" \/ T[Subscriber].tier = "vip"
PaidKept ==
  topic = "vip" =>
    /\ \A s \in Subscriptions : db[s].paid => Decided(s, "paid")
    /\ \A t \in DOMAIN open : \A c \in open[t] :
         c[2] = "paid" => c[1] \in Subscriptions /\ Decided(c[1], "paid")
    /\ ~overlapped => \A T \in Futures : ActiveIn(T)

(* The prices: one is active.                                              *)
OnePriceIn(T) ==
  \A p, q \in Prices :
    IsIn(T, p) /\ IsIn(T, q) /\ T[p].status = "active" /\ T[q].status = "active" => p = q
PriceKept == topic = "plan" /\ ~overlapped => \A T \in Futures : OnePriceIn(T)

(* The invitation: whoever was invited has redeemed it.                    *)
OneGuestIn(T) ==
  /\ \A p, q \in Row : IsIn(T, p) /\ IsIn(T, q) /\ T[p].invited /\ T[q].invited => p = q
  /\ \A p \in Row :
       IsIn(T, p) /\ T[p].invited => IsIn(T, Invite) /\ T[Invite].status = "redeemed"
InviteKept == topic = "signup" /\ ~overlapped => \A T \in Futures : OneGuestIn(T)

(* The login: what is remembered is the end of the log, what is forgotten  *)
(* is too old to matter, and no window has more tries than the limit.      *)
RateKept ==
  topic = "login" =>
    /\ outside.log \in Seq(Nat) /\ outside.hits \in Seq(Nat)
    /\ \A i, j \in DOMAIN outside.log :
         /\ outside.log[i] <= now
         /\ i <= j => outside.log[i] <= outside.log[j]
         /\ j = i + LoginLimit => outside.log[i] + LoginWindow < outside.log[j]
    /\ \E k \in 0..Len(outside.log) :
         /\ Len(outside.log) = k + Len(outside.hits)
         /\ \A i \in DOMAIN outside.hits : outside.hits[i] = outside.log[k + i]
         /\ \A i \in 1..k : outside.log[i] + LoginWindow < now

(* The conversations. A message is made with its client's id; the attempt  *)
(* that completed one is written with it.                                  *)
SendsMessage(w, r, client) ==
  /\ <<r, "is", "here">> \in w /\ <<r, "client", client>> \in w
  /\ \A c \in w : c[1] \in Row => /\ c[1] = r
                                  /\ c[2] = "is" => c[3] = "here"
                                  /\ c[2] = "client" => c[3] = client
MakesAttempt(w, k, r) ==
  /\ <<k, "is", "here">> \in w /\ <<k, "status", "completed">> \in w /\ <<k, "of", r>> \in w
  /\ \A c \in w : c[1] = k => /\ c[2] = "is" => c[3] = "here"
                              /\ c[2] = "status" => c[3] = "completed"
                              /\ c[2] = "of" => c[3] = r
DoneIn(T) == {k \in Attempts : IsIn(T, k) /\ T[k].status = "completed"}
OneThreadIn(T) ==
  \A a, b \in Conversations : IsIn(T, a) /\ IsIn(T, b) /\ T[a].type = T[b].type => a = b
UsageIn(T) ==
  /\ T[Usage].requests = Cardinality(DoneIn(T))
  /\ ~IsIn(T, Usage) => T[Usage].requests = 0
ThreadsKept ==
  topic = "chat" =>
    /\ \A r \in Row :
         /\ db[r].is \in {"none", "here"}
         /\ db[r].is = "none" => db[r].client = 0 /\ db[r].status = "failed"
    /\ \A k \in Attempts :
         /\ db[k].is \in {"none", "here"}
         /\ db[k].is = "none" => db[k].status = "failed" /\ db[k].of = None
    /\ db[Usage].is \in {"none", "here"}
    /\ \A r, m \in Row : Here(r) /\ Here(m) /\ db[r].client = db[m].client => r = m
    /\ \A r \in Row : Here(r) /\ db[r].status = "completed" =>
         \E k \in Attempts : Here(k) /\ db[k].status = "completed" /\ db[k].of = r
    /\ \A t \in DOMAIN open : \A c \in open[t] :
         /\ c[2] = "is" => c[3] = "here"
         /\ c[1] \in Row /\ c[2] \in {"is", "client"} =>
              /\ db[c[1]].is = "none" /\ Only(t, c[1])
              /\ \E client \in ClientIds : SendsMessage(open[t], c[1], client)
         /\ c[1] \in Row /\ c[2] = "status" /\ c[3] = "completed" =>
              \E k \in Attempts : MakesAttempt(open[t], k, c[1])
         /\ c[1] \in Attempts => db[c[1]].is = "none" /\ Only(t, c[1])
    /\ ~overlapped => \A T \in Futures : OneThreadIn(T) /\ UsageIn(T)

(* The requests of a data subject.                                         *)
HonouredIn(T) ==
  \A k \in DataRequests :
    /\ T[k].is = "none" => T[k].status = "pending" /\ ~T[k].export
    /\ T[k].status = "completed" /\ T[k].type = "deletion" /\ ~outside.back =>
         T[Subject].state = "deactivated" /\ T[Subject].due
    /\ T[k].export => T[k].status = "completed" /\ k \in outside.exports
RequestsKept ==
  topic = "compliance" =>
    /\ DOMAIN outside = {"exports", "late", "back"}
    /\ ~overlapped => \A T \in Futures : HonouredIn(T)

(* The positions: a share is there before its positions, and is revoked    *)
(* after them.                                                             *)
PingsIn(T) ==
  \A p \in Pings :
    /\ IsIn(T, p) =>
         /\ T[p].at <= now /\ IsIn(T, T[p].of) /\ T[p].at < T[T[p].of].expires
         /\ T[T[p].of].revoked # None => T[p].at <= T[T[p].of].revoked
    /\ T[p].is = "gone" =>
         /\ now > T[p].at + PingGrace /\ IsIn(T, T[p].of)
         /\ now > T[T[p].of].expires + PingGrace \/ T[T[p].of].revoked # None
PingsKept == topic = "location" /\ ~overlapped => \A T \in Futures : PingsIn(T)

(* The keys. The outcome of a transaction that is open has an envelope for *)
(* what was uploaded; a prekey is given to one draft, and its secret is    *)
(* kept until the envelope that was sealed for it is opened - and that is  *)
(* so for the envelope of a draft that failed as well.                     *)
Sealed(T, p, d) == T[Envelope(p)].key = d /\ T[Envelope(p)].seal = outside.seal[d]
Spent(p) ==
  outside.cached[p] # None \/ \E d \in Drafts : Writer(d) = p /\ outside.opening[d] = "opened"
PrekeysKept ==
  /\ \A n \in Batches : \A T \in Outcomes :
       T[Prekey(n)].is # "none" =>
         /\ n <= outside.made /\ T[Prekey(n)].batch = n
         /\ ~T[Prekey(n)].consumed => outside.secret = n
  /\ \A d \in Drafts : outside.seal[d] # Signed =>
       /\ outside.step[d] # "new" /\ outside.seal[d] <= outside.made
       /\ \A T \in Outcomes : T[Prekey(outside.seal[d])].consumed
       /\ \A e \in Drafts : outside.seal[e] = outside.seal[d] => e = d
       /\ outside.secret = outside.seal[d] \/ Spent(Writer(d))
SendersKept ==
  /\ \A d \in Drafts : Underway(d) =>
       /\ outside.saved[Writer(d)] = None
       /\ \A e \in Drafts : Underway(e) /\ Writer(e) = Writer(d) => e = d
       /\ outside.step[d] = "uploaded" =>
            d \in outside.skipped \/ \A T \in Outcomes : Sealed(T, Writer(d), d)
  /\ \A d \in Drafts : outside.step[d] \in {"new", "sealed"} =>
       d \notin outside.skipped /\ \A T \in Futures : T[Envelope(Writer(d))].key # d
  /\ \A d \in Drafts : outside.step[d] = "sent" =>
       outside.saved[Writer(d)] # None /\ outside.used[d] = outside.saved[Writer(d)]
  /\ \A p \in Phones : outside.saved[p] # None =>
       /\ outside.saved[p] \in Drafts /\ Writer(outside.saved[p]) = p
       /\ outside.step[outside.saved[p]] = "sent"
       /\ outside.saved[p] \in outside.skipped \/ \A T \in Futures : Sealed(T, p, outside.saved[p])
  /\ \A p \in Phones : \A T \in Futures : IsIn(T, Envelope(p)) =>
       LET key == T[Envelope(p)].key IN
       key \in Drafts \ outside.skipped /\ Writer(key) = p /\ Sealed(T, p, key)
ReaderKept ==
  /\ \A p \in Phones : outside.cached[p] # None =>
       /\ outside.saved[p] # None
       /\ outside.saved[p] \in outside.skipped \/ outside.cached[p] = outside.saved[p]
  /\ \A d \in Drafts : outside.opening[d] # "no" =>
       /\ outside.step[d] = "sent"
       /\ LET key == outside.read[d][1] IN
          /\ key \in Drafts \ outside.skipped /\ Writer(key) = Writer(d)
          /\ outside.step[key] # "new"
          /\ outside.saved[Writer(d)] \in outside.skipped \/ key = outside.saved[Writer(d)]
          /\ outside.read[d][2] = outside.seal[key]
          /\ outside.seal[key] # Signed =>
               \/ outside.secret = 0
               \/ outside.secret = outside.seal[key] /\ outside.opening[d] = "fetched"
KeysKept ==
  topic = "keys" /\ ~overlapped /\ ~outside.mishap =>
    PrekeysKept /\ SendersKept /\ ReaderKept

RecordsInv ==
  /\ PersonsKept /\ KindsKept /\ MinutesKept /\ AttendanceKept /\ FilesKept
  /\ PaidKept /\ PriceKept /\ InviteKept /\ RateKept
  /\ ThreadsKept /\ RequestsKept /\ PingsKept /\ KeysKept

-----------------------------------------------------------------------------
BackendInv ==
  /\ DOMAIN open = Slot \cup Job
  /\ OpenAlone
  /\ OfficeInv /\ RoomInv /\ StageInv
  /\ VipInv /\ PlanInv /\ AccountInv /\ LoginInv /\ RecoveryInv

(* The run checks all of it together.                                      *)
TypedBackendInv == BackendTypeOK /\ TypesInv /\ BackendInv /\ RecordsInv
=============================================================================

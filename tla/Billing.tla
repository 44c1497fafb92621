------------------------------ MODULE Billing -------------------------------
(***************************************************************************)
(* What costs money: the VIP upgrade (backend/app/domain/billing/          *)
(* service.py), plans, prices and entitlements (billing/plans.py), and the *)
(* purchase of a conference plan (billing/conference_upgrade.py), behind   *)
(* routers/billing.py and admin_billing.py. Both upgrades are paid by the  *)
(* same provider, whose webhook tries one service and then the other.      *)
(*                                                                         *)
(* External: the payment provider reports one result for a reference, once *)
(* or several times, as late as it likes; the identity provider one result *)
(* for a job, in the same way.                                             *)
(***************************************************************************)
EXTENDS Requests

-----------------------------------------------------------------------------
(* One user who upgrades to VIP. Rows of a kind are numbered in the order  *)
(* of their creation; the latest is the one that is read. outside: what    *)
(* the providers have decided, and whether the two parts were ever done.   *)
Sub(n) == <<"subscription", n>>
Doc(n) == <<"document", n>>
Face(n) == <<"face", n>>
Subscriber == <<"user", 1>>
Subscriptions == {Sub(n) : n \in 1..2}
VipRows == Subscriptions \cup {Doc(n) : n \in 1..2} \cup {Face(1)}
SubscriptionRow ==
  [is : Is, status : {"pending_payment", "awaiting_kyc", "active", "failed"}, paid : BOOLEAN]
KycRow == [is : Is, status : {"pending", "passed", "failed"}]
UserRow == [is : Is, tier : {"normal", "vip"}]
VipInit ==
  Start("vip",
    [k \in VipRows \cup {Subscriber} |->
      CASE k = Subscriber -> [is |-> "here", tier |-> "normal"]
        [] k \in Subscriptions -> [is |-> "none", status |-> "pending_payment", paid |-> FALSE]
        [] OTHER -> [is |-> "none", status |-> "pending"]],
    [says |-> [k \in VipRows |-> None], passed |-> FALSE])

GetLatestSubscription(k) == LatestOf("subscription", 2, k)
(* The provider is asked for a payment with a reference of its own.        *)
InitiatePayment(table, k, columns) == NextOf(table, 2, k) /\ Request(Insert(k, columns))

StartVipUpgrade(k) ==
  /\ db[Subscriber].tier # "vip"
  /\ \A s \in Subscriptions : GetLatestSubscription(s) => db[s].status \notin {"pending_payment", "awaiting_kyc"}
  /\ InitiatePayment("subscription", k, [status |-> "pending_payment"])

HandleVipPayment(k) ==
  /\ says[k] # None /\ Here(k)
  /\ Request(IF says[k] = "paid"
             THEN Change(k, "status", "awaiting_kyc") \cup Change(k, "paid", TRUE)
             ELSE Change(k, "status", "failed"))

RequireAwaitingKyc == \E s \in Subscriptions : GetLatestSubscription(s) /\ db[s].status = "awaiting_kyc"
StartKycDocument(k) ==
  /\ RequireAwaitingKyc
  /\ NextOf("document", 2, k) /\ Request(Insert(k, [status |-> "pending"]))

StartKycLiveness(k) ==
  /\ RequireAwaitingKyc
  /\ \E d \in {Doc(1), Doc(2)} : LatestOf("document", 2, d) /\ db[d].status = "passed"
  /\ NextOf("face", 1, k) /\ Request(Insert(k, [status |-> "pending"]))

HandleKycDocumentResult(k) ==
  /\ says[k] # None /\ Here(k)
  /\ Call(Change(k, "status", says[k]))
  /\ outside' = [outside EXCEPT !.passed = @ \/ says[k] = "passed"]

(* The user and the latest subscription, whichever that is by then.        *)
HandleKycLivenessResult(k) ==
  /\ says[k] # None /\ Here(k)
  /\ IF says[k] = "failed" THEN Request(Change(k, "status", "failed"))
     ELSE \E s \in Subscriptions :
            /\ GetLatestSubscription(s)
            /\ Request(Change(k, "status", "passed") \cup Change(Subscriber, "tier", "vip")
                       \cup Change(s, "status", "active"))

VipUpgrade == \E k \in VipRows : StartVipUpgrade(k) \/ StartKycDocument(k) \/ StartKycLiveness(k)
KycWebhooks ==
  \/ \E k \in {Doc(1), Doc(2)} : HandleKycDocumentResult(k)
  \/ HandleKycLivenessResult(Face(1))

VipNext ==
  topic = "vip" /\
    \/ VipUpgrade \/ KycWebhooks \/ \E k \in Subscriptions : HandleVipPayment(k)
    \/ \E k \in Subscriptions : Decide(k, {"paid", "refused"})
    \/ \E k \in VipRows \ Subscriptions : Decide(k, {"passed", "failed"})
    \/ \E t \in Slot : Commit(t) \/ (RollBack(t) /\ UNCHANGED outside)

-----------------------------------------------------------------------------
(* One user's conference plan, the catalogue of plans, and the prices of   *)
(* one of them. given is what an administrator or a free price gave.       *)
Plan(n) == <<"plan", n>>
Plans == {Plan(1), Plan(2)}
Account == <<"account", 1>>
PlanRow == [is : Is, status : {"active", "archived"}]
PurchaseRow == [is : Is, plan : Plans \cup {None}, status : {"pending_payment", "paid", "failed"}]
PriceRow == [is : Is, status : {"active", "archived"}, amount : 0..2]
AccountPlan == [is : Is, plan : Plans \cup {None}]
Purchases == {<<"purchase", n>> : n \in 1..2}
Prices == {<<"price", n>> : n \in 1..3}
Purchase(n) == <<"purchase", n>>
Price(n) == <<"price", n>>
PlansInit ==
  Start("plan",
    [k \in {Account} \cup Plans \cup Purchases \cup Prices |->
      CASE k = Account -> [is |-> "here", plan |-> None]
        [] k \in Plans -> [is |-> IF k = Plan(1) THEN "here" ELSE "none", status |-> "active"]
        [] k \in Purchases -> [is |-> "none", plan |-> None, status |-> "pending_payment"]
        [] OTHER -> [is |-> "none", status |-> "active", amount |-> 0]],
    [says |-> [k \in Purchases |-> None], given |-> {None}])

(* The price of one plan; others are alike. The latest active one counts. *)
GetActivePrice == {k \in Prices : Here(k) /\ db[k].status = "active"}
LatestPrice(k) == \E n \in 1..3 : k = Price(n) /\ k \in GetActivePrice
                                  /\ \A m \in n + 1..3 : Price(m) \notin GetActivePrice

CreatePlan(c) == db[c].is = "none" /\ ~Pending(c) /\ Request(Insert(c, [status |-> "active"]))
SetPlanStatus(c, status) == Here(c) /\ Request(Change(c, "status", status))

SetPrice(k, amount) ==
  /\ NextOf("price", 3, k)
  /\ Request(Insert(k, [amount |-> amount])
             \cup UNION {Change(p, "status", "archived") : p \in {q \in Prices : LatestPrice(q)}})

IsActivePlan(c) == Here(c) /\ db[c].status = "active"
SetUserConferencePlan(c) ==
  /\ IsActivePlan(c)
  /\ Call(Change(Account, "plan", c))
  /\ outside' = [outside EXCEPT !.given = @ \cup {c}]
ApplyPaidConferencePlan(c) == Change(Account, "plan", c)

(* A free plan is applied at once.                                         *)
StartConferenceUpgrade(c, k) ==
  /\ c \in Plans /\ db[Account].plan # c
  /\ \E p \in Prices :
       /\ LatestPrice(p)
       /\ \/ /\ db[p].amount = 0 /\ IsActivePlan(c)
             /\ Call(ApplyPaidConferencePlan(c))
             /\ outside' = [outside EXCEPT !.given = @ \cup {c}]
          \/ /\ db[p].amount > 0
             /\ \A q \in Purchases :
                  LatestOf("purchase", 2, q) => db[q].status # "pending_payment"
             /\ InitiatePayment("purchase", k, [plan |-> c])

(* What was paid for a plan that is archived meanwhile is not even noted.  *)
HandleConferencePayment(k) ==
  /\ says[k] # None /\ Here(k)
  /\ IF says[k] = "paid"
     THEN /\ IsActivePlan(db[k].plan)
          /\ Request(Change(k, "status", "paid") \cup ApplyPaidConferencePlan(db[k].plan))
     ELSE Request(Change(k, "status", "failed"))

Catalogue ==
  \/ \E c \in Plans :
       \/ CreatePlan(c) \/ SetUserConferencePlan(c)
       \/ \E status \in {"active", "archived"} : SetPlanStatus(c, status)
  \/ \E k \in Prices, amount \in {0, 1} : SetPrice(k, amount)

ConferenceUpgrade == \E c \in Plans, k \in Purchases : StartConferenceUpgrade(c, k)
(* Which of the two services knows the reference depends on it only.       *)
StitchWebhook == \E k \in Purchases : HandleConferencePayment(k)

PlansNext ==
  topic = "plan" /\
    \/ Catalogue \/ ConferenceUpgrade \/ StitchWebhook
    \/ \E k \in Purchases : Decide(k, {"paid", "refused"})
    \/ \E t \in Slot : Commit(t) \/ (RollBack(t) /\ UNCHANGED outside)
-----------------------------------------------------------------------------
BillingTypeOK ==
  /\ topic \in {"vip", "plan"} => TransactionsOK
  /\ topic = "vip" =>
       /\ db[Subscriber] \in UserRow
       /\ \A s \in Subscriptions : db[s] \in SubscriptionRow
       /\ {db[Doc(1)], db[Doc(2)], db[Face(1)]} \subseteq KycRow
  /\ topic = "plan" =>
       /\ db[Account] \in AccountPlan
       /\ \A c \in Plans : db[c] \in PlanRow
       /\ \A k \in Purchases : db[k] \in PurchaseRow
       /\ \A k \in Prices : db[k] \in PriceRow

(* Nobody is a VIP without a payment, a document that passed and a face    *)
(* that passed, however late, twice or out of order the webhooks come and  *)
(* however requests overlap ("Payment first (via Stitch), then the same    *)
(* KYC steps", backend/app/domain/billing/service.py).                     *)
VipIsPaidAndVerified ==
  topic = "vip" /\ db[Subscriber].tier = "vip" =>
    /\ \E s \in Subscriptions : db[s].paid
    /\ outside.passed
    /\ db[Face(1)].status = "passed"

(* As long as no two transactions were open at once, a subscription that   *)
(* is active was paid: the result of the liveness check makes the latest   *)
(* one active, and that is the one that was paid.                          *)
ActiveWasPaid ==
  topic = "vip" /\ ~overlapped =>
    \A s \in Subscriptions : db[s].status = "active" => db[s].paid

(* An account has a conference plan only if a purchase of that plan is     *)
(* paid, or an administrator or a free price gave it.                      *)
NoUnpaidPlan ==
  topic = "plan" =>
    \/ db[Account].plan \in outside.given
    \/ \E k \in Purchases : db[k].plan = db[Account].plan /\ db[k].status = "paid"

(* As long as no two transactions were open at once, a plan has one price  *)
(* ("Archives any existing active price", billing/plans.py).               *)
OneActivePrice ==
  topic = "plan" /\ ~overlapped => Cardinality(GetActivePrice) <= 1
=============================================================================

-------------------------------- MODULE PlanTier --------------------------------
(***************************************************************************)
(* The paid plan of one project.  Stripe runs the Team subscription and     *)
(* tells the backend of it in webhooks, each at least once and in no        *)
(* particular order; the backend keeps the plan and the billing period in   *)
(* the project's row, clamps the settings that a lower plan does not allow, *)
(* and puts what went over the quota on the next invoice.  Meanwhile the    *)
(* customer edits the retention window, uses the product and cancels.       *)
(*                                                                         *)
(* An action is one statement or one request to Stripe; a webhook handler   *)
(* and a request keep what they have read.  Time is the number of the       *)
(* billing period of the newest subscription.  A subscription and the       *)
(* customer Stripe creates with it have the same number.                    *)
(***************************************************************************)
EXTENDS Integers, FiniteSets, FiniteSetsExt, Functions

CONSTANTS Workers,              \* webhooks handled at once
          Included,             \* executions a period of Team includes
          TeamAIAnalysisLimit,  \* analyses a period of Team includes
          BillingCapUSD,        \* the customer's cap; 0 is none
          Windows,              \* retention windows the customer asks for
          MaxSubscriptions,     \* bound: subscriptions ever opened
          MaxPeriod,            \* bound: the last billing period
          MaxUse,               \* bound: executions, and analyses, ever
          MaxRedeliveries,      \* bound: events delivered a second time
          MaxErrors             \* bound: failed statements and calls

ASSUME ConstantsAssumption ==
    /\ {Included, TeamAIAnalysisLimit, BillingCapUSD} \subseteq Nat
    /\ Windows \subseteq 1 .. 3
    /\ {MaxSubscriptions, MaxPeriod} \subseteq Nat \ {0}
    /\ {MaxUse, MaxRedeliveries, MaxErrors} \subseteq Nat

VARIABLES row,          \* the project's row
          worker,       \* what each webhook handler is doing, and what it holds
          setting,      \* POST /settings/retention: what it holds
          analyses,     \* failure groups analysed, by period
          checkouts,    \* Stripe: checkout pages the customer has open
          subscription, \* Stripe: the subscriptions
          pending,      \* Stripe: events to be delivered
          delivered,    \* Stripe: events of this period delivered already
          items,        \* Stripe: the invoice items
          executions,   \* history: executions ever counted
          redeliveries, errors,  \* history: how many so far
          reordered,    \* history: an event was handled after the one that ended its subscription
          loose         \* history: the window on record was saved under a plan gone by
                        \* then, or by a request that named none

stripe  == <<checkouts, subscription, items>>
history == <<executions, redeliveries, errors, reordered, loose>>
vars == <<row, worker, setting, analyses, stripe, pending, delivered, history>>

NULL == 0
Subscriptions == 1 .. MaxSubscriptions
Periods       == 1 .. MaxPeriod

\* Retention windows, shortest first; the last is NULL days, for ever.
HobbyDays  == 1
TeamDays   == 2
Indefinite == 3

Idle == [pc |-> "idle"]

Init ==
    /\ row = [tier |-> "hobby", customer |-> NULL, subscription |-> NULL, start |-> NULL,
              executions |-> 0, retention |-> HobbyDays]
    /\ worker = [w \in Workers |-> Idle]
    /\ setting = Idle
    /\ analyses = [k \in 0 .. MaxPeriod |-> 0]
    /\ checkouts = 0
    /\ subscription = [s \in Subscriptions |->
                        [status |-> "none", period |-> NULL, cancel |-> FALSE, upcoming |-> FALSE]]
    /\ pending = {}
    /\ delivered = {}
    /\ items = {}
    /\ executions = 0
    /\ redeliveries = 0
    /\ errors = 0
    /\ reordered = FALSE
    /\ loose = FALSE

\* A statement or call succeeds, or fails while the budget lasts.
Outcomes == IF errors < MaxErrors THEN BOOLEAN ELSE {TRUE}
CountError(ok) == errors' = IF ok THEN errors ELSE errors + 1

Opened == {s \in Subscriptions : subscription[s].status # "none"}
Month  == Max({0} \union {subscription[s].period : s \in Opened})

-----------------------------------------------------------------------------
(* The store, the tiers and the price of a period.                         *)

TierRetentionCap(tier) == IF tier = "team" THEN TeamDays ELSE HobbyDays

Rank(tier) == IF tier = "team" THEN 2 ELSE 1

\* Mutant: the ranks are compared the other way round.
IsTierUpgrade(from, to) == Rank(from) < Rank(to)

IsTierDowngrade(from, to) == Rank(to) < Rank(from)

\* Mutant: a plan is only ever raised.
UpdateBillingRaiseOnly(r, tier, customer, sub, start) ==
    [r EXCEPT !.tier = IF Rank(tier) > Rank(@) THEN tier ELSE @,
              !.customer = customer, !.subscription = sub, !.start = start]

UpdateProjectBilling(r, tier, customer, sub, start) ==
    [r EXCEPT !.tier = tier, !.customer = customer, !.subscription = sub, !.start = start]

\* Mutant: the bounds move on and the counter does not.
ResetBoundsOnly(r, start) == [r EXCEPT !.start = start]

ResetExecutionsThisPeriod(r, start) == [r EXCEPT !.executions = 0, !.start = start]

Over(n, included) == Max({0, n - included})
Total(f, S) == FoldFunctionOnSet(+, 0, f, S)

\* Analyses since the period began, or in the last month when that is unknown.
AnalysesSince(start) ==
    Total(analyses, {k \in DOMAIN analyses : k >= IF start = NULL THEN Month ELSE start})

\* The executions first against the cap, the analyses against what is left of it.
Cap(execution, analysis) ==
    IF BillingCapUSD > 0
    THEN LET capped == Min({execution, BillingCapUSD})
         IN  [execution |-> capped, analysis |-> Min({analysis, BillingCapUSD - capped})]
    ELSE [execution |-> execution, analysis |-> analysis]

\* What the row owes: one unit of money for an execution and one for an analysis
\* over the quota.
Overage(r) == Cap(Over(r.executions, Included),
                  Over(AnalysesSince(r.start), TeamAIAnalysisLimit))

-----------------------------------------------------------------------------
(* Stripe, as the backend uses it.                                         *)

\* No webhook, request or page is under way: what a day or two settles.
Quiet ==
    /\ pending = {} /\ checkouts = 0
    /\ \A w \in Workers : worker[w].pc = "idle"
    /\ setting.pc = "idle"

Event(kind, s) == [kind |-> kind, subscription |-> s, period |-> subscription'[s].period,
                   cancel |-> subscription'[s].cancel]

Emit(kinds, s) == pending' = pending \union {Event(k, s) : k \in kinds}

\* The customer pays on the checkout page: a new customer, a new subscription.
CompleteCheckout(s) ==
    /\ checkouts > 0
    /\ subscription[s].status = "none" /\ \A t \in Subscriptions : t < s => t \in Opened
    /\ Month < MaxPeriod
    /\ checkouts' = checkouts - 1
    /\ subscription' = [subscription EXCEPT ![s].status = "active", ![s].period = Month + 1]
    /\ Emit({"checkout", "created", "paid"}, s)
    /\ UNCHANGED <<row, worker, setting, analyses, delivered, items, history>>

\* The subscription ends at once: cancelled in the portal, or dunning gave up.
CancelNow(s) ==
    /\ subscription[s].status = "active"
    /\ subscription' = [subscription EXCEPT ![s].status = "canceled"]
    /\ Emit({"deleted"}, s)
    /\ UNCHANGED <<row, worker, setting, analyses, checkouts, delivered, items, history>>

\* An hour before the period ends.
AnnounceInvoice(s) ==
    /\ Quiet
    /\ subscription[s].status = "active" /\ ~subscription[s].upcoming
    /\ subscription' = [subscription EXCEPT ![s].upcoming = TRUE]
    /\ Emit({"upcoming"}, s)
    /\ UNCHANGED <<row, worker, setting, analyses, checkouts, delivered, items, history>>

\* The period ends, with the subscription or with a new period paid for.
EndPeriod(s) ==
    /\ Quiet
    /\ subscription[s].status = "active" /\ subscription[s].upcoming
    /\ IF subscription[s].cancel
       THEN /\ subscription' = [subscription EXCEPT ![s].status = "canceled"]
            /\ Emit({"deleted"}, s)
       ELSE /\ Month < MaxPeriod
            /\ subscription' = [subscription EXCEPT ![s].period = @ + 1, ![s].upcoming = FALSE]
            /\ Emit({"updated", "paid"}, s)
    /\ delivered' = {}
    /\ UNCHANGED <<row, worker, setting, analyses, checkouts, items, history>>

ItemOf(event, kind) == \E i \in items : i.event = event /\ i.kind = kind

\* invoiceitem.New under the key of the event and the kind: the item of an earlier
\* delivery is answered again, and refused when it is asked for another amount.
PushItem(event, kind, amount) ==
    IF amount = 0 \/ ItemOf(event, kind)
    THEN UNCHANGED items
    ELSE items' = items \union {[event |-> event, kind |-> kind, amount |-> amount]}

Refused(event, kind, amount) ==
    amount > 0 /\ \E i \in items : i.event = event /\ i.kind = kind /\ i.amount # amount

-----------------------------------------------------------------------------
(* HandleStripeWebhook and the handlers it dispatches to.  A handler that   *)
(* fails is answered 200 all the same: its event is gone.                   *)

At(w, pc) == worker[w].pc = pc
Goto(w, step) == worker' = [worker EXCEPT ![w] = step]

PlanEvents == {"checkout", "created", "updated"}

Deliver(w, e) ==
    /\ At(w, "idle")
    /\ \/ /\ e \in pending
          /\ UNCHANGED redeliveries
       \/ /\ e \in delivered /\ redeliveries < MaxRedeliveries
          /\ redeliveries' = redeliveries + 1
    /\ pending' = pending \ {e}
    /\ delivered' = delivered \union {e}
    /\ Goto(w, [pc |-> e.kind, event |-> e])
    /\ reordered' = (reordered \/ (/\ e.kind \in PlanEvents
                                   /\ \E d \in delivered : /\ d.kind = "deleted"
                                                           /\ d.subscription = e.subscription))
    /\ UNCHANGED <<row, setting, analyses, stripe, executions, errors, loose>>

\* A subscription checkout makes the project a Team project, bounds unknown; an
\* upgrade never clamps.
HandleCheckoutCompleted(w) ==
    LET s == worker[w].event.subscription IN
    /\ At(w, "checkout")
    /\ \E ok \in Outcomes :
        /\ row' = IF ok THEN UpdateProjectBilling(row, "team", s, s, NULL) ELSE row
        /\ CountError(ok)
    /\ Goto(w, Idle)
    /\ UNCHANGED <<setting, analyses, stripe, pending, delivered, executions, redeliveries, reordered, loose>>

\* The other handlers look the project up by its customer; an unknown one is an error.
GetProjectByStripeCustomerID(w) ==
    LET e == worker[w].event IN
    /\ worker[w].pc \in {"created", "updated", "deleted", "upcoming", "paid"}
    /\ \E ok \in Outcomes :
        /\ Goto(w, IF ok /\ row.customer = e.subscription
                     /\ (e.kind = "upcoming" => row.tier = "team")
                   THEN [pc |-> IF e.kind \in PlanEvents THEN "refresh"
                                ELSE IF e.kind = "deleted" THEN "downgrade"
                                ELSE IF e.kind = "paid" THEN "reset" ELSE "execution",
                         event |-> e, tier |-> row.tier, owed |-> Overage(row)]
                   ELSE Idle)
        /\ CountError(ok)
    /\ UNCHANGED <<row, setting, analyses, stripe, pending, delivered, executions, redeliveries, reordered, loose>>

\* The subscription in the event is active: Team, with the event's bounds.
HandleSubscriptionUpdated(w) ==
    LET e == worker[w].event IN
    /\ At(w, "refresh")
    /\ \E ok \in Outcomes :
        /\ row' = IF ok THEN UpdateProjectBilling(row, "team", e.subscription, e.subscription, e.period)
                        ELSE row
        /\ CountError(ok)
    /\ Goto(w, Idle)
    /\ UNCHANGED <<setting, analyses, stripe, pending, delivered, executions, redeliveries, reordered, loose>>

\* Back to Hobby; the settings are clamped when the row said a higher plan.
HandleSubscriptionDeleted(w) ==
    LET e == worker[w].event IN
    /\ At(w, "downgrade")
    /\ \E ok \in Outcomes :
        /\ row' = IF ok THEN UpdateProjectBilling(row, "hobby", e.subscription, NULL, NULL) ELSE row
        /\ Goto(w, IF ok /\ IsTierDowngrade(worker[w].tier, "hobby")
                   THEN [pc |-> "cascade", event |-> e] ELSE Idle)
        /\ CountError(ok)
    /\ UNCHANGED <<setting, analyses, stripe, pending, delivered, executions, redeliveries, reordered, loose>>

\* applyTierChangeCascade: the window is read.
ReadRetention(w) ==
    /\ At(w, "cascade")
    /\ \E ok \in Outcomes :
        /\ Goto(w, IF ok /\ row.retention > TierRetentionCap("hobby")
                   THEN [pc |-> "clamp", event |-> worker[w].event] ELSE Idle)
        /\ CountError(ok)
    /\ UNCHANGED <<row, setting, analyses, stripe, pending, delivered, executions, redeliveries, reordered, loose>>

\* And cut to what Hobby allows.
ClampRetentionForTier(w) ==
    /\ At(w, "clamp")
    /\ \E ok \in Outcomes :
        /\ row' = IF ok THEN [row EXCEPT !.retention = TierRetentionCap("hobby")] ELSE row
        /\ loose' = (loose /\ ~ok)
        /\ CountError(ok)
    /\ Goto(w, Idle)
    /\ UNCHANGED <<setting, analyses, stripe, pending, delivered, executions, redeliveries, reordered>>

\* A paid invoice begins the period it is for.
HandleInvoicePaid(w) ==
    /\ At(w, "reset")
    /\ \E ok \in Outcomes :
        /\ row' = IF ok THEN ResetExecutionsThisPeriod(row, worker[w].event.period) ELSE row
        /\ CountError(ok)
    /\ Goto(w, Idle)
    /\ UNCHANGED <<setting, analyses, stripe, pending, delivered, executions, redeliveries, reordered, loose>>

\* The overage goes onto the upcoming invoice, the executions first; a refusal or
\* failure ends the handler.
HandleInvoiceUpcoming(w) ==
    LET t == worker[w] IN
    /\ t.pc \in {"execution", "analysis"}
    /\ \E ok \in Outcomes :
        /\ IF ok THEN PushItem(t.event, t.pc, t.owed[t.pc]) ELSE UNCHANGED items
        /\ Goto(w, IF ok /\ t.pc = "execution" /\ ~Refused(t.event, t.pc, t.owed[t.pc])
                   THEN [t EXCEPT !.pc = "analysis"] ELSE Idle)
        /\ CountError(ok)
    /\ UNCHANGED <<row, setting, analyses, checkouts, subscription, pending, delivered, executions, redeliveries, reordered, loose>>

-----------------------------------------------------------------------------
(* The customer.                                                           *)

\* POST /billing/checkout, for a Hobby project.
HandleCreateCheckout ==
    /\ row.tier = "hobby"
    /\ checkouts + Cardinality(Opened) < MaxSubscriptions
    /\ checkouts' = checkouts + 1
    /\ UNCHANGED <<row, worker, setting, analyses, subscription, items, pending, delivered, history>>

\* POST /billing/downgrade: the subscription on file is to end with its period.
HandleDowngradeToHobby ==
    LET s == row.subscription IN
    /\ row.tier = "team" /\ s # NULL
    /\ subscription[s].status = "active" /\ ~subscription[s].cancel
    /\ subscription' = [subscription EXCEPT ![s].cancel = TRUE]
    /\ Emit({"updated"}, s)
    /\ UNCHANGED <<row, worker, setting, analyses, checkouts, delivered, items, history>>

\* The request is held against the plan of the row; one without a window saves NULL.
HandleSetRetention(days) ==
    /\ setting.pc = "idle"
    /\ \/ days <= TierRetentionCap(row.tier)
       \/ days = Indefinite
    /\ setting' = [pc |-> "save", tier |-> row.tier, days |-> days]
    /\ UNCHANGED <<row, worker, analyses, stripe, pending, delivered, history>>

SetProjectRetentionDays ==
    /\ setting.pc = "save"
    /\ row' = [row EXCEPT !.retention = setting.days]
    /\ loose' = (setting.tier # row.tier \/ setting.days = Indefinite)
    /\ setting' = Idle
    /\ UNCHANGED <<worker, analyses, stripe, pending, delivered, executions, redeliveries, errors, reordered>>

\* Ingest counts an execution; whether it may is HobbyBilling's subject.
IncrementExecutionsThisPeriod ==
    /\ executions < MaxUse
    /\ row' = [row EXCEPT !.executions = @ + 1]
    /\ executions' = executions + 1
    /\ UNCHANGED <<worker, setting, analyses, stripe, pending, delivered, redeliveries, errors, reordered, loose>>

\* A failure group is analysed in the month it is.
SaveFailureGroupAnalysis ==
    /\ Total(analyses, DOMAIN analyses) < MaxUse
    /\ analyses' = [analyses EXCEPT ![Month] = @ + 1]
    /\ UNCHANGED <<row, worker, setting, stripe, pending, delivered, history>>

-----------------------------------------------------------------------------

Stripe(s) ==
    \/ CompleteCheckout(s)
    \/ CancelNow(s)
    \/ AnnounceInvoice(s)
    \/ EndPeriod(s)

Webhook(w) ==
    \/ \E e \in pending \union delivered : Deliver(w, e)
    \/ HandleCheckoutCompleted(w)
    \/ GetProjectByStripeCustomerID(w)
    \/ HandleSubscriptionUpdated(w)
    \/ HandleSubscriptionDeleted(w)
    \/ ReadRetention(w)
    \/ ClampRetentionForTier(w)
    \/ HandleInvoicePaid(w)
    \/ HandleInvoiceUpcoming(w)

Customer ==
    \/ HandleCreateCheckout
    \/ HandleDowngradeToHobby
    \/ \E days \in Windows : HandleSetRetention(days)
    \/ SetProjectRetentionDays
    \/ IncrementExecutionsThisPeriod
    \/ SaveFailureGroupAnalysis

Next ==
    \/ \E s \in Subscriptions : Stripe(s)
    \/ \E w \in Workers : Webhook(w)
    \/ Customer

Spec == Init /\ [][Next]_vars

-----------------------------------------------------------------------------
(* Properties.                                                             *)

\* The row, a webhook, what its handler holds, what a settings request holds, and
\* Stripe's books.
RowType == [tier : {"hobby", "team"}, customer : 0 .. MaxSubscriptions,
            subscription : 0 .. MaxSubscriptions, start : 0 .. MaxPeriod,
            executions : Nat, retention : {HobbyDays, TeamDays, Indefinite}]
EventType == [kind : PlanEvents \union {"deleted", "paid", "upcoming"},
              subscription : Subscriptions, period : Periods, cancel : BOOLEAN]
WorkerType ==
    {Idle} \union [pc : PlanEvents \union {"deleted", "paid", "upcoming", "cascade", "clamp"},
                   event : EventType]
    \union [pc : {"refresh", "downgrade", "reset", "execution", "analysis"}, event : EventType,
            tier : {"hobby", "team"}, owed : [execution : Nat, analysis : Nat]]
SettingType == {Idle} \union [pc : {"save"}, tier : {"hobby", "team"}, days : Windows]
SubscriptionType ==
    [status : {"none", "active", "canceled"}, period : 0 .. MaxPeriod,
     cancel : BOOLEAN, upcoming : BOOLEAN]
ItemType == [event : EventType, kind : {"execution", "analysis"}, amount : Nat \ {0}]

\* The row, what is held of it, Stripe's books and the histories are of their types.
TypeOK ==
    /\ row \in RowType
    /\ worker \in [Workers -> WorkerType] /\ setting \in SettingType
    /\ analyses \in [0 .. MaxPeriod -> Nat]
    /\ checkouts \in Nat /\ subscription \in [Subscriptions -> SubscriptionType]
    /\ pending \subseteq EventType /\ delivered \subseteq EventType
    /\ items \subseteq ItemType /\ IsFiniteSet(items)
    /\ executions \in Nat /\ redeliveries \in Nat /\ errors \in 0 .. MaxErrors
    /\ {reordered, loose} \subseteq BOOLEAN

\* While every statement succeeds and webhooks are handled one at a time, in any
\* order and some twice, the retention window fits the plan whenever no clamp is
\* under way, unless the window was saved by a request that named none or that had
\* been held against a plan gone by then.
RetentionFitsTier ==
    errors = 0 /\ ~loose /\ (\A w \in Workers : worker[w].pc \notin {"cascade", "clamp"})
        => row.retention <= TierRetentionCap(row.tier)

\* Once all is handled without a failure, one webhook at a time, a project that has
\* opened a single subscription is on Team exactly when that subscription is active,
\* provided none of its events was handled after the one that ended it.
TierFollowsSubscription ==
    errors = 0 /\ Quiet /\ ~reordered /\ Cardinality(Opened) = 1
        => (row.tier = "team" <=> subscription[1].status = "active")

Amount(S) == Total([i \in S |-> i.amount], S)

\* While every statement succeeds, a project that has opened no more than one
\* subscription is invoiced for no execution and no analysis twice, and the quota of
\* every invoice is free.
OverageInvoicedOnce ==
    errors = 0 /\ Cardinality(Opened) <= 1 =>
        \A kind \in {"execution", "analysis"} :
            LET mine == {i \in items : i.kind = kind}
                free == IF kind = "execution" THEN Included ELSE TeamAIAnalysisLimit
                used == IF kind = "execution" THEN executions ELSE Total(analyses, DOMAIN analyses)
            IN  Amount(mine) + Cardinality(mine) * free <= used

\* An invoice charges no more overage than the cap, ever.
InvoiceWithinCap ==
    BillingCapUSD > 0 => \A i \in items : Amount({j \in items : j.event = i.event}) <= BillingCapUSD

\* Only Enterprise keeps data for ever.
NoIndefinite == row.retention # Indefinite
=============================================================================

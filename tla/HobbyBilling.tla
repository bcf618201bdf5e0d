------------------------------ MODULE HobbyBilling ------------------------------
(***************************************************************************)
(* Pay-per-use billing of one Hobby project.  Ingest counts executions, the *)
(* dashboard runs AI analyses, and a scheduler that wakes once a day closes *)
(* the billing period: it charges the saved card for what went over the    *)
(* free quota and moves the period on, or counts a failure and tries again *)
(* when the retry cadence allows it.  Meanwhile the customer attaches and  *)
(* removes cards.                                                          *)
(*                                                                         *)
(* An action is one statement sent to the database or one request to       *)
(* Stripe; a tick, an HTTP request and a webhook each keep the row they    *)
(* have read and go on using it while the others write.  Times count days: *)
(* which of two instants of a day comes first, and whether two instants as *)
(* many days apart as a duration are that far apart, may fall either way.  *)
(* An execution over the quota costs one unit of money.                    *)
(***************************************************************************)
EXTENDS Integers, Sequences, FiniteSets, FiniteSetsExt

CONSTANTS Schedulers,            \* the scheduler goroutines alive at once
          Requests,              \* ingest requests in flight at once
          Groups,                \* the failure groups that may be analysed
          Included,              \* executions free of charge
          AnalysisPrice,         \* price of one analysis
          HobbyAIAnalysisLimit,  \* analyses a period allows
          MinCharge,             \* the least amount Stripe charges
          BillingCapUSD,         \* the customer's cap; 0 is none
          Period,                \* days of a billing period
          RetryCadence,          \* days between two attempts, at least
          FailureCeiling,        \* failures that cost the customer the card
          KeyLife,               \* days Stripe remembers an idempotency key
          Removals,              \* whether the customer removes cards
          MaxClock,              \* bound: the last day
          MaxCustomers,          \* bound: Stripe customers created
          MaxInFlight,           \* bound: requests and webhooks handled at once
          MaxCrashes,            \* bound: deaths of a process
          MaxErrors              \* bound: failed statements, lost answers

ASSUME ConstantsAssumption ==
    /\ IsFiniteSet(Requests)
    /\ IsFiniteSet(Groups)
    /\ {Included, AnalysisPrice, HobbyAIAnalysisLimit, MinCharge, BillingCapUSD} \subseteq Nat
    /\ {Period, RetryCadence, FailureCeiling, KeyLife} \subseteq Nat \ {0}
    /\ RetryCadence <= Period
    /\ Removals \in BOOLEAN
    /\ {MaxClock, MaxCustomers, MaxInFlight, MaxCrashes, MaxErrors} \subseteq Nat

VARIABLES clock,       \* the day
          project,     \* the row of the project
          analyzedAt,  \* failure_groups.analyzed_at
          request,     \* ingest: whether each request has passed the cap
          analysing,   \* the groups whose analysis the model is writing
          tick,        \* what each scheduler is doing, and what it holds
          setup,       \* POST /billing/payment-method/setup: what it holds
          hook,        \* the webhook setup_intent.succeeded: what it holds
          removal,     \* POST /billing/payment-method/remove: what it holds
          customers,   \* Stripe: how many customers there are
          cards,       \* Stripe: the customers with a card that can be charged
          intents,     \* Stripe: the customers whose card was ever set up
          payments,    \* Stripe: the PaymentIntents it has carried out
          refusals,    \* history: charges refused since the row last recorded a success
          crashes,     \* history: deaths so far
          errors       \* history: failed statements and lost answers so far

stripe   == <<customers, cards, intents, payments>>
handlers == <<setup, hook, removal>>
usage    == <<analyzedAt, request, analysing>>
faults   == <<crashes, errors>>
vars == <<clock, project, usage, tick, handlers, stripe, refusals, faults>>

NULL       == -1     \* an SQL NULL timestamp
NoCustomer == 0      \* an empty stripe_customer_id

NewProject == [executions |-> 0, start |-> NULL, end |-> NULL,
               customer |-> NoCustomer, card |-> FALSE,
               lastAttempt |-> NULL, failures |-> 0]

IdleTick    == [pc |-> "idle", nextAt |-> 0]
IdleHandler == [pc |-> "idle"]

Init ==
    /\ clock = 0
    /\ project = NewProject
    /\ analyzedAt = [g \in Groups |-> NULL]
    /\ request = [r \in Requests |-> "idle"]
    /\ analysing = {}
    /\ tick = [s \in Schedulers |-> IdleTick]
    /\ setup = IdleHandler
    /\ hook = IdleHandler
    /\ removal = IdleHandler
    /\ customers = 0
    /\ cards = {}
    /\ intents = {}
    /\ payments = <<>>
    /\ refusals = 0
    /\ crashes = 0
    /\ errors = 0

\* A statement succeeds, or fails while the budget lasts.
Outcomes == IF errors < MaxErrors THEN BOOLEAN ELSE {TRUE}
CountError(ok) == errors' = IF ok THEN errors ELSE errors + 1

\* What the backend is handling besides the ticks.
InFlight == {r \in Requests : request[r] # "idle"} \union analysing
            \union {h \in {"setup"} : setup.pc # "idle"}
            \union {h \in {"hook"} : hook.pc # "idle"}
            \union {h \in {"removal"} : removal.pc # "idle"}
HasCapacity == Cardinality(InFlight) < MaxInFlight

-----------------------------------------------------------------------------
(* The store's statements, and what the row and the groups cost.           *)

ResetExecutionsThisPeriod(p, start, end) ==
    [p EXCEPT !.executions = 0, !.start = start, !.end = end]

\* Mutant: a failed attempt leaves no timestamp.
UpdateStateUnstamped(p, now, success) ==
    [p EXCEPT !.failures = IF success THEN 0 ELSE @ + 1]

\* Mutant: a failed attempt is not counted.
UpdateStateUncounted(p, now, success) == [p EXCEPT !.lastAttempt = now, !.failures = 0]

UpdateHobbyBillingState(p, now, success) ==
    [p EXCEPT !.lastAttempt = now, !.failures = IF success THEN 0 ELSE @ + 1]

DetachHobbyCardForBillingFailure(p) ==
    [p EXCEPT !.customer = NoCustomer, !.card = FALSE, !.failures = 0, !.lastAttempt = NULL]

OverUnits(p) == Max({0, p.executions - Included})
Capped(cost) == IF BillingCapUSD > 0 THEN Min({cost, BillingCapUSD}) ELSE cost

\* CountAIAnalysesSincePeriodStart: whatever was analysed since, without an end.
AnalysesSince(start) == {<<g, analyzedAt[g]>> : g \in {h \in Groups : analyzedAt[h] >= start}}

\* Mutant: without a card there is no cap.
CapExceededWithCard(p) == p.card /\ BillingCapUSD > 0 /\ OverUnits(p) >= BillingCapUSD

CapExceeded(p) ==
    IF p.card
    THEN BillingCapUSD > 0 /\ OverUnits(p) >= BillingCapUSD
    ELSE OverUnits(p) > 0

-----------------------------------------------------------------------------
(* Usage.                                                                  *)

\* The cap check of HandleCreateExecution; it lets a request pass when the row
\* cannot be read.
AdmitExecution(r) ==
    /\ request[r] = "idle" /\ HasCapacity
    /\ \E ok \in Outcomes :
        /\ ok => ~CapExceeded(project)
        /\ CountError(ok)
    /\ request' = [request EXCEPT ![r] = "admitted"]
    /\ UNCHANGED <<clock, project, analyzedAt, analysing, tick, handlers, stripe, refusals, crashes>>

\* IncrementExecutionsThisPeriod, best effort.
CountExecution(r) ==
    /\ request[r] = "admitted"
    /\ \E ok \in Outcomes :
        /\ project' = IF ok THEN [project EXCEPT !.executions = @ + 1] ELSE project
        /\ CountError(ok)
    /\ request' = [request EXCEPT ![r] = "idle"]
    /\ UNCHANGED <<clock, analyzedAt, analysing, tick, handlers, stripe, refusals, crashes>>

\* HandleAnalyzeFailureGroup up to the call of the model.  The row and the count
\* are read in one step; without bounds the window is the last month.
HandleAnalyzeFailureGroup(g) ==
    /\ g \notin analysing /\ HasCapacity
    /\ project.card
    /\ Cardinality(AnalysesSince(Max({0, project.start}))) < HobbyAIAnalysisLimit
    /\ analysing' = analysing \union {g}
    /\ UNCHANGED <<clock, project, analyzedAt, request, tick, handlers, stripe, refusals, faults>>

\* The model has answered, or has not.
SaveFailureGroupAnalysis(g) ==
    /\ g \in analysing
    /\ \E ok \in Outcomes :
        /\ analyzedAt' = IF ok THEN [analyzedAt EXCEPT ![g] = clock] ELSE analyzedAt
        /\ CountError(ok)
    /\ analysing' = analysing \ {g}
    /\ UNCHANGED <<clock, project, request, tick, handlers, stripe, refusals, crashes>>

-----------------------------------------------------------------------------
(* Stripe.  A key it remembers is answered as the first time, or with an   *)
(* error when the request differs; a new one is carried out.               *)

\* Mutant: the key follows what is charged.
PeriodKeyByUsage(p) == [for |-> "period", anchor |-> p.end, attempt |-> p.executions]

PeriodKey(p)  == [for |-> "period", anchor |-> p.end, attempt |-> p.failures]
RemovalKey(p) == [for |-> "removal", anchor |-> p.start, attempt |-> 0]

Charge(p, analyses) ==
    [customer |-> p.customer,
     amount   |-> Capped(OverUnits(p) + AnalysisPrice * Cardinality(analyses)),
     over     |-> OverUnits(p),
     analyses |-> Cardinality(analyses)]

Answers(key, charge) ==
    LET known     == {i \in DOMAIN payments : payments[i].key = key}
        last      == payments[Max(known)]
        chargable == charge.amount >= MinCharge /\ charge.customer \in cards
    IN  UNION {IF known # {}
               THEN {[ok |-> last.ok /\ last.charge = charge, fresh |-> FALSE]}
               ELSE {},
               IF known = {} \/ clock - last.at >= KeyLife
               THEN {[ok |-> ok, fresh |-> TRUE] : ok \in {FALSE, chargable}}
               ELSE {}}

CarryOut(key, charge, analyses, answer) ==
    payments' = IF answer.fresh
                THEN Append(payments, [key |-> key, charge |-> charge, ok |-> answer.ok,
                                       at |-> clock, covers |-> analyses])
                ELSE payments

\* What the caller sees of an answer, which may be lost.
Seen(answer) == {ok \in BOOLEAN : ok # answer.ok => answer.ok /\ errors < MaxErrors}

-----------------------------------------------------------------------------
(* The scheduler.                                                          *)

At(s, pc) == tick[s].pc = pc
Hold(s, t) == tick' = [tick EXCEPT ![s] = t]
EndTick(s) == Hold(s, [IdleTick EXCEPT !.nextAt = clock + 1])

Due(p) == p.start # NULL /\ p.end # NULL

\* A tick that comes after today's attempt finds whatever that attempt's tick found.
AttemptedToday(p) ==
    \E i \in DOMAIN payments : payments[i].key = PeriodKey(p) /\ payments[i].at = clock

\* tick: one query for every row that is due, which may find this one.  The period
\* that ends on the tick's day may end before it or after it.
ListProjectsForHobbyBillingTick(s) ==
    /\ At(s, "idle") /\ tick[s].nextAt <= clock
    /\ \/ /\ project.start = NULL \/ project.end = NULL \/ project.end <= clock
          /\ Hold(s, [pc |-> "listed", snap |-> project])
       \/ /\ Due(project)
          /\ project.end > clock \/ (project.end = clock /\ ~AttemptedToday(project))
          /\ EndTick(s)
    /\ UNCHANGED <<clock, project, usage, handlers, stripe, refusals, faults>>

\* Whether the last attempt is less than 48 hours old.  It was stamped when Stripe had
\* answered, and the tick's own time was read before it did anything: two ticks of one
\* process that are two days apart find it too soon, and the third day's tick is the
\* first that does not.  After a restart the ticks may come at another time of day.
TooSoon(p) == p.lastAttempt # NULL /\ clock - p.lastAttempt < RetryCadence

MaybeTooSoon(p) ==
    \/ TooSoon(p)
    \/ /\ p.lastAttempt # NULL /\ clock - p.lastAttempt = RetryCadence
       /\ ~AttemptedToday(p)

NewBounds(p) == IF Due(p) THEN <<p.end, p.end + Period>> ELSE <<clock, clock + Period>>

\* ResetExecutionsThisPeriod: the row has no bounds yet, its project has no
\* customer to charge, or the charge is behind it.
Rollover(s) ==
    LET p == tick[s].snap IN
    /\ \/ At(s, "listed") /\ (~Due(p) \/ p.customer = NoCustomer)
       \/ At(s, "rollover")
    /\ \E ok \in Outcomes :
        /\ project' = IF ok
                      THEN ResetExecutionsThisPeriod(project, NewBounds(p)[1], NewBounds(p)[2])
                      ELSE project
        /\ CountError(ok)
    /\ EndTick(s)
    /\ UNCHANGED <<clock, usage, handlers, stripe, refusals, crashes>>

\* The cadence guard, the count of analyses (none when it fails) and the cost.
Price(s) ==
    LET p == tick[s].snap IN
    /\ At(s, "listed") /\ Due(p) /\ p.customer # NoCustomer
    /\ \/ MaybeTooSoon(p) /\ EndTick(s) /\ UNCHANGED errors
       \/ /\ ~TooSoon(p)
          /\ \E ok \in Outcomes :
             LET analyses == IF ok THEN AnalysesSince(p.start) ELSE {}
                 charge   == Charge(p, analyses)
             IN  /\ Hold(s, [pc |-> IF charge.amount = 0 THEN "rollover" ELSE "charge",
                             snap |-> p, charge |-> charge, analyses |-> analyses])
                 /\ CountError(ok)
    /\ UNCHANGED <<clock, project, usage, handlers, stripe, refusals, crashes>>

\* paymentintent.New under the key of the period and its failures so far.
ChargeOffSession(s) ==
    LET t == tick[s] IN
    /\ At(s, "charge")
    /\ \E answer \in Answers(PeriodKey(t.snap), t.charge) :
       \E ok \in Seen(answer) :
        /\ CarryOut(PeriodKey(t.snap), t.charge, t.analyses, answer)
        /\ CountError(ok = answer.ok)
        /\ refusals' = IF ok THEN refusals ELSE refusals + 1
        /\ Hold(s, [pc |-> IF ok THEN "charged" ELSE "refused", snap |-> t.snap])
    /\ UNCHANGED <<clock, project, usage, handlers, customers, cards, intents, crashes>>

\* Mutant: the card goes one failure early.
CeilingNear(p) == p.failures + 2 >= FailureCeiling

CeilingReached(p) == p.failures + 1 >= FailureCeiling

\* UpdateHobbyBillingState, whose error is only logged.  The stamp is the time at which
\* Stripe answered, later on the tick's day.
RecordAttempt(s) ==
    LET p == tick[s].snap IN
    /\ At(s, "charged") \/ At(s, "refused")
    /\ \E ok \in Outcomes :
        /\ project' = IF ok THEN UpdateHobbyBillingState(project, clock, At(s, "charged"))
                            ELSE project
        /\ refusals' = IF ok /\ At(s, "charged") THEN 0 ELSE refusals
        /\ CountError(ok)
    /\ IF At(s, "charged") THEN Hold(s, [pc |-> "rollover", snap |-> p])
       ELSE IF CeilingReached(p) THEN Hold(s, [pc |-> "detach", snap |-> p])
       ELSE EndTick(s)
    /\ UNCHANGED <<clock, usage, handlers, stripe, crashes>>

DetachCard(s) ==
    /\ At(s, "detach")
    /\ \E ok \in Outcomes :
        /\ project' = IF ok THEN DetachHobbyCardForBillingFailure(project) ELSE project
        /\ CountError(ok)
    /\ EndTick(s)
    /\ UNCHANGED <<clock, usage, handlers, stripe, refusals, crashes>>

\* The process dies; the next one ticks a minute after it has started.
Crash(s) ==
    /\ ~At(s, "idle")
    /\ crashes < MaxCrashes
    /\ crashes' = crashes + 1
    /\ Hold(s, [IdleTick EXCEPT !.nextAt = clock])
    /\ UNCHANGED <<clock, project, usage, handlers, stripe, refusals, errors>>

-----------------------------------------------------------------------------
(* The customer's card.                                                    *)

\* HandleCreateSetupCheckout: a project without a customer gets a new one.
HandleCreateSetupCheckout ==
    /\ setup.pc = "idle" /\ HasCapacity
    /\ project.customer = NoCustomer
    /\ customers < MaxCustomers
    /\ customers' = customers + 1
    /\ setup' = [pc |-> "persist", snap |-> project, customer |-> customers + 1]
    /\ UNCHANGED <<clock, project, usage, tick, hook, removal, cards, intents, payments, refusals, faults>>

\* UpdateProjectBilling: it writes the bounds it has read back.
PersistCustomer ==
    /\ setup.pc = "persist"
    /\ \E ok \in Outcomes :
        /\ project' = IF ok
                      THEN [project EXCEPT !.customer = setup.customer,
                                           !.start = setup.snap.start, !.end = setup.snap.end]
                      ELSE project
        /\ CountError(ok)
    /\ setup' = IdleHandler
    /\ UNCHANGED <<clock, usage, tick, hook, removal, stripe, refusals, crashes>>

\* The customer fills in Stripe's form, in a session of the project's customer.
CompleteCheckout(c) ==
    /\ c \in 1 .. customers /\ c \notin intents
    /\ ~(setup.pc = "persist" /\ setup.customer = c)
    /\ cards' = cards \union {c}
    /\ intents' = intents \union {c}
    /\ UNCHANGED <<clock, project, usage, tick, handlers, customers, payments, refusals, faults>>

\* handleSetupIntentSucceeded, delivered any number of times: it looks the
\* project up by its customer, and gives up when there is none.
HandleSetupIntentSucceeded(c) ==
    /\ hook.pc = "idle" /\ HasCapacity
    /\ c \in intents /\ c = project.customer
    /\ hook' = [pc |-> IF Due(project) THEN "mark" ELSE "bootstrap"]
    /\ UNCHANGED <<clock, project, usage, tick, setup, removal, stripe, refusals, faults>>

BootstrapBounds ==
    /\ hook.pc = "bootstrap"
    /\ \E ok \in Outcomes :
        /\ project' = IF ok THEN ResetExecutionsThisPeriod(project, clock, clock + Period)
                            ELSE project
        /\ hook' = IF ok THEN [pc |-> "mark"] ELSE IdleHandler
        /\ CountError(ok)
    /\ UNCHANGED <<clock, usage, tick, setup, removal, stripe, refusals, crashes>>

MarkCardAttached ==
    /\ hook.pc = "mark"
    /\ \E ok \in Outcomes :
        /\ project' = IF ok THEN [project EXCEPT !.card = TRUE] ELSE project
        /\ CountError(ok)
    /\ hook' = IdleHandler
    /\ UNCHANGED <<clock, usage, tick, setup, removal, stripe, refusals, crashes>>

\* HandleRemovePaymentMethod, confirmed: what is pending is charged if Stripe takes
\* such an amount, and waived if not.
HandleRemovePaymentMethod ==
    LET analyses == AnalysesSince(Max({0, project.start}))
        charge   == Charge(project, analyses)
    IN  /\ Removals /\ removal.pc = "idle" /\ HasCapacity
        /\ project.customer # NoCustomer
        /\ removal' = [pc |-> IF charge.amount > 0 /\ charge.amount >= MinCharge
                              THEN "charge" ELSE "detach",
                       snap |-> project, charge |-> charge, analyses |-> analyses]
        /\ UNCHANGED <<clock, project, usage, tick, setup, hook, stripe, refusals, faults>>

\* The settlement; a refusal is a 402 and the card stays.
SettleOnRemoval ==
    /\ removal.pc = "charge"
    /\ \E answer \in Answers(RemovalKey(removal.snap), removal.charge) :
       \E ok \in Seen(answer) :
        /\ CarryOut(RemovalKey(removal.snap), removal.charge, removal.analyses, answer)
        /\ CountError(ok = answer.ok)
        /\ removal' = IF ok THEN [removal EXCEPT !.pc = "detach"] ELSE IdleHandler
    /\ UNCHANGED <<clock, project, usage, tick, setup, hook, customers, cards, intents, refusals, crashes>>

\* paymentmethod.Detach, best effort.
DetachAtStripe ==
    /\ removal.pc = "detach"
    /\ \E ok \in Outcomes :
        /\ cards' = IF ok THEN cards \ {removal.snap.customer} ELSE cards
        /\ CountError(ok)
    /\ removal' = [removal EXCEPT !.pc = "clear"]
    /\ UNCHANGED <<clock, project, usage, tick, setup, hook, customers, intents, payments, refusals, crashes>>

ClearCard ==
    /\ removal.pc = "clear"
    /\ \E ok \in Outcomes :
        /\ project' = IF ok THEN DetachHobbyCardForBillingFailure(project) ELSE project
        /\ removal' = IF ok THEN [removal EXCEPT !.pc = "reset"] ELSE IdleHandler
        /\ CountError(ok)
    /\ UNCHANGED <<clock, usage, tick, setup, hook, stripe, refusals, crashes>>

\* A fresh quota for what is left of the period.
ResetOnRemoval ==
    LET p   == removal.snap
        end == IF p.end > clock THEN p.end ELSE clock + Period
    IN  /\ removal.pc = "reset"
        /\ \E ok \in Outcomes :
            /\ project' = IF ok THEN ResetExecutionsThisPeriod(project, clock, end) ELSE project
            /\ CountError(ok)
        /\ removal' = IdleHandler
        /\ UNCHANGED <<clock, usage, tick, setup, hook, stripe, refusals, crashes>>

-----------------------------------------------------------------------------

\* A tick, a request and a webhook are through on the day they begin, and no
\* day passes without a tick.
Quiet ==
    /\ \A s \in Schedulers : At(s, "idle") /\ tick[s].nextAt > clock
    /\ InFlight = {}

Day ==
    /\ Quiet
    /\ clock < MaxClock
    /\ clock' = clock + 1
    /\ UNCHANGED <<project, usage, tick, handlers, stripe, refusals, faults>>

Use ==
    \/ \E r \in Requests : AdmitExecution(r) \/ CountExecution(r)
    \/ \E g \in Groups : HandleAnalyzeFailureGroup(g) \/ SaveFailureGroupAnalysis(g)

Tick(s) ==
    \/ ListProjectsForHobbyBillingTick(s)
    \/ Rollover(s)
    \/ Price(s)
    \/ ChargeOffSession(s)
    \/ RecordAttempt(s)
    \/ DetachCard(s)

Card ==
    \/ HandleCreateSetupCheckout
    \/ PersistCustomer
    \/ \E c \in 1 .. MaxCustomers : CompleteCheckout(c) \/ HandleSetupIntentSucceeded(c)
    \/ BootstrapBounds
    \/ MarkCardAttached
    \/ HandleRemovePaymentMethod
    \/ SettleOnRemoval
    \/ DetachAtStripe
    \/ ClearCard
    \/ ResetOnRemoval

Next ==
    \/ Day
    \/ Use
    \/ \E s \in Schedulers : Tick(s) \/ Crash(s)
    \/ Card

Spec == Init /\ [][Next]_vars

-----------------------------------------------------------------------------
(* Properties.                                                             *)

Charges == {i \in DOMAIN payments : payments[i].key.for = "period"}
Paid(i) == payments[i].ok

\* What is read, held and kept: a row, whose bounds are set together, the analyses a
\* charge covers, the charge, and the PaymentIntent it became.
Row ==
    {p \in [executions : Nat, start : Nat \union {NULL}, end : Nat \union {NULL},
            customer : 0 .. MaxCustomers, card : BOOLEAN,
            lastAttempt : Nat \union {NULL}, failures : Nat] :
        p.start = NULL <=> p.end = NULL}
Analyses   == SUBSET (Groups \X (Nat \union {NULL}))
ChargeType == [customer : 0 .. MaxCustomers, amount : Nat, over : Nat, analyses : Nat]
KeyType    == [for : {"period", "removal"}, anchor : Nat \union {NULL}, attempt : Nat]
PaymentType ==
    [key : KeyType, charge : ChargeType, ok : BOOLEAN, at : Nat, covers : Analyses]

\* What a tick, an HTTP request or a webhook holds.
TickType ==
    [pc : {"idle"}, nextAt : Nat]
    \union [pc : {"listed", "rollover", "charged", "refused", "detach"}, snap : Row]
    \union [pc : {"rollover", "charge"}, snap : Row, charge : ChargeType, analyses : Analyses]
SetupType == {IdleHandler} \union [pc : {"persist"}, snap : Row, customer : 1 .. MaxCustomers]
HookType  == [pc : {"idle", "bootstrap", "mark"}]
RemovalType ==
    {IdleHandler} \union [pc : {"charge", "detach", "clear", "reset"}, snap : Row,
                          charge : ChargeType, analyses : Analyses]

\* The row, what is held of it, the clock, Stripe and the histories are of their types.
TypeOK ==
    /\ clock \in 0 .. MaxClock
    /\ project \in Row
    /\ analyzedAt \in [Groups -> Nat \union {NULL}]
    /\ request \in [Requests -> {"idle", "admitted"}] /\ analysing \subseteq Groups
    /\ tick \in [Schedulers -> TickType]
    /\ setup \in SetupType /\ hook \in HookType /\ removal \in RemovalType
    /\ customers \in 0 .. MaxCustomers
    /\ cards \subseteq intents /\ intents \subseteq 1 .. customers
    /\ payments \in Seq(PaymentType)
    /\ refusals \in Nat /\ crashes \in 0 .. MaxCrashes /\ errors \in 0 .. MaxErrors

\* While no process dies and no statement or answer fails, a customer is charged at
\* most once for a period that is over, whatever happens to the card meanwhile, by the
\* two schedulers of an overlapping deploy. (By three it may be charged twice: a late
\* checkout undoes one's rollover, and another charges for a period that the third,
\* ahead of it by the rollover, has paid.)
OneChargePerPeriod ==
    crashes = 0 /\ errors = 0 =>
        \A i, j \in Charges :
            /\ Paid(i) /\ Paid(j)
            /\ payments[i].key.anchor = payments[j].key.anchor
            /\ payments[i].charge.customer = payments[j].charge.customer
            => i = j

\* As long as every statement succeeds and every answer arrives, the attempts that
\* Stripe carries out against one customer's card are the retry cadence apart.
\* A process that dies between the attempt and its record does not change that:
\* its successor attempts again under the same key.
AttemptsAreSpaced ==
    errors = 0 =>
        \A i, j \in Charges :
            i < j /\ payments[i].charge.customer = payments[j].charge.customer
                => payments[j].at - payments[i].at >= RetryCadence

\* A lone scheduler that is about to take the card away has met as many refusals
\* as the ceiling says since a charge was last recorded as paid, deaths and failed
\* statements or not.
DetachesOnlyAtCeiling ==
    \A s \in Schedulers : At(s, "detach") => refusals >= FailureCeiling

\* The meter stops: ingest never runs past the cap by more than the requests that
\* were in flight, and past the free quota only for who has ever given a card.
MeterStops ==
    LET slop == Cardinality(Requests) + errors IN
    /\ BillingCapUSD > 0 => project.executions < Included + BillingCapUSD + slop
    /\ intents = {} => project.executions <= Included + slop

\* A period that is over does not stay open: the next day's tick closes it, or its
\* charge goes through, or the card is gone once its attempts are used up, each of
\* them a day after the retry cadence at the latest.  Each new customer starts the
\* attempts over, a day late when recording it undoes a rollover, and so does a
\* death, a failed statement or a lost answer after the charge: the period is
\* charged for again.  (Of a lone scheduler whose attempts fit into a period.)
OverdueIsBounded ==
    LET attempts == FailureCeiling * (RetryCadence + 1) + 1 IN
    project.end # NULL =>
        clock <= project.end + 1 + (customers + crashes + errors) * attempts

\* An analysis is paid for once.
EachAnalysisBilledOnce ==
    \A i, j \in DOMAIN payments :
        Paid(i) /\ Paid(j) /\ i # j => payments[i].covers \intersect payments[j].covers = {}
=============================================================================

--------------------------- MODULE HobbyBillingProofs ---------------------------
(***************************************************************************)
(* What the billing of a Hobby project guarantees for any quota, prices,    *)
(* cap, cadence and ceiling, and any number of customers and requests.     *)
(***************************************************************************)
EXTENDS HobbyBilling, FiniteSetTheorems, WellFoundedInduction, TLAPS

-----------------------------------------------------------------------------
(* The invariants.                                                         *)

Admitted == {r \in Requests : request[r] = "admitted"}

\* What is in flight will be counted, and a card has been set up before the project has it.
MeterInv ==
    /\ TypeOK
    /\ intents = {} => ~project.card /\ hook.pc = "idle"
    /\ BillingCapUSD > 0 =>
            project.executions + Cardinality(Admitted)
                < Included + BillingCapUSD + Cardinality(Requests) + errors
    /\ intents = {} =>
            project.executions + Cardinality(Admitted) <= Included + Cardinality(Requests) + errors

\* The failures of the row, and of what is held of it, have all been refusals.
RefusedInv ==
    /\ TypeOK
    /\ project.failures <= refusals
    /\ \A s \in Schedulers :
        /\ At(s, "listed") \/ At(s, "charge") => tick[s].snap.failures <= refusals
        /\ At(s, "refused") => /\ tick[s].snap.failures < refusals
                               /\ project.failures < refusals
        /\ At(s, "detach") => refusals >= FailureCeiling

-----------------------------------------------------------------------------
(* When the next attempt may come.                                         *)

\* A scheduler is through with its day.
Ended(s) == At(s, "idle") /\ tick[s].nextAt > clock

\* A row there is something to charge for.
Costs(p) ==
    \/ p.executions > Included
    \/ AnalysisPrice > 0 /\ \E g \in Groups : analyzedAt[g] >= p.start

\* The row keeps the next attempt off after charge i: by the last attempt it records, or
\* by the end of a period that is not over yet.
KeptOff(p, i) ==
    \/ p.lastAttempt >= payments[i].at
    \/ p.end >= payments[i].at + RetryCadence

\* Or the same attempt would be made again today, under the same key.
Pending(p, i) ==
    /\ payments[i].at = clock /\ payments[i].key = PeriodKey(p)
    /\ Due(p) /\ p.end <= clock /\ Costs(p) /\ ~TooSoon(p)

\* The charges of a customer.
ChargesOf(c) == {i \in Charges : payments[i].charge.customer = c}

\* Payments are in the order of time, by customers there are.
PaymentsInOrder ==
    /\ \A i \in DOMAIN payments : payments[i].at <= clock
    /\ \A i, j \in DOMAIN payments : i <= j => payments[i].at <= payments[j].at
    /\ \A i \in Charges : payments[i].charge.customer \in 1 .. customers
    /\ \A g \in Groups : analyzedAt[g] <= clock

\* A customer is created for a project that has none, and is new to everybody.
CustomersAreNew ==
    /\ project.customer <= customers
    /\ \A s \in Schedulers : ~At(s, "idle") => tick[s].snap.customer <= customers
    /\ setup.pc = "persist" =>
        /\ project.customer = NoCustomer /\ setup.customer <= customers
        /\ ChargesOf(setup.customer) = {}
        /\ \A s \in Schedulers : ~At(s, "idle") => tick[s].snap.customer # setup.customer

RowKeepsOff ==
    project.customer # NoCustomer =>
        \A i \in ChargesOf(project.customer) :
            \/ KeptOff(project, i)
            \/ Pending(project, i) /\ \E s \in Schedulers : ~Ended(s)

\* What a tick holds is due, and keeps off as the row does.
SnapKeepsOff(s) ==
    At(s, "listed") \/ At(s, "charge") =>
        LET p == tick[s].snap IN
        /\ Due(p) => p.end <= clock
        /\ p.customer # NoCustomer =>
              \A i \in ChargesOf(p.customer) : KeptOff(p, i) \/ Pending(p, i)

\* While the customer is the same, the row is as the tick holds it, but for more usage;
\* or its period has been moved on.
StillHolds(p, q) ==
    /\ p.start = q.start /\ p.end = q.end /\ p.failures = q.failures
    /\ p.executions >= q.executions

TickHoldsRow(s) ==
    LET p == tick[s].snap IN
    /\ At(s, "listed") \/ At(s, "charge") =>
        \/ project.customer # p.customer \/ p.customer = NoCustomer
        \/ /\ project.lastAttempt = p.lastAttempt
           /\ StillHolds(project, p) \/ project.end >= clock + RetryCadence
    /\ At(s, "charge") =>
        /\ Due(p) /\ p.customer # NoCustomer /\ tick[s].charge.customer = p.customer
        /\ ~TooSoon(p) /\ Costs(p)
    /\ At(s, "charged") => Due(p)
    /\ At(s, "rollover") =>
        /\ Due(p)
        /\ project.customer # NoCustomer =>
            \A i \in ChargesOf(project.customer) :
                \/ project.lastAttempt >= payments[i].at
                \/ p.end + Period >= payments[i].at + RetryCadence
    /\ ~At(s, "idle") /\ project.customer \notin {NoCustomer, p.customer} =>
        ChargesOf(project.customer) = {}

\* A removal that has read a period which is not over finds no charge to undo.
RemovalKeepsOff ==
    removal.pc # "idle" /\ removal.snap.end > clock =>
        /\ \A s \in Schedulers : ~Ended(s) =>
            /\ project.end > clock
            /\ setup.pc = "persist" => setup.snap.end > clock
        /\ removal.pc = "reset" /\ project.customer # NoCustomer =>
            /\ ChargesOf(project.customer) = {}
            /\ \A s \in Schedulers : At(s, "listed") \/ At(s, "charge") =>
                    tick[s].snap.customer # project.customer

SpacedFacts ==
    /\ PaymentsInOrder /\ CustomersAreNew
    /\ RowKeepsOff
    /\ \A s \in Schedulers : SnapKeepsOff(s) /\ TickHoldsRow(s)
    /\ RemovalKeepsOff
    /\ AttemptsAreSpaced

SpacedInv ==
    /\ TypeOK
    /\ errors = 0 => SpacedFacts

-----------------------------------------------------------------------------
(* One charge per period.                                                  *)

\* As many schedulers as there are while one process takes over from another.
AtMostTwo == \A p, q, r \in Schedulers : p = q \/ q = r \/ p = r

Active(s)   == ~At(s, "idle")
Unticked(s) == At(s, "idle") /\ tick[s].nextAt <= clock

\* A tick that is on its way to a charge.
MayCharge(s) ==
    LET p == tick[s].snap IN
    \/ At(s, "listed") /\ Due(p) /\ p.customer # NoCustomer /\ ~TooSoon(p)
    \/ At(s, "charge")

PaidBy(c) == {i \in Charges : Paid(i) /\ payments[i].charge.customer = c}
Anchor(i) == payments[i].key.anchor

\* What is charged for is over.
PaidIsOver == \A i \in Charges : Anchor(i) \in Nat /\ Anchor(i) <= payments[i].at

TickIsDue(s) ==
    LET p == tick[s].snap IN
    /\ Active(s) => p.end <= clock
    /\ At(s, "charge") => Due(p) /\ p.customer # NoCustomer /\ tick[s].charge.customer = p.customer

\* While the customer is the same, the row moves on only, and no tick that is still to move
\* it holds a period before one that is paid.
MovesOn(s) ==
    Active(s) =>
        /\ tick[s].snap.customer = project.customer /\ project.customer # NoCustomer
             => project.end >= tick[s].snap.end
        /\ \A i \in PaidBy(project.customer) : tick[s].snap.end >= Anchor(i)

\* What a tick may charge for was not paid before, or today and under the key it will use;
\* and no tick that begins now will use another one.
OneKey(s) ==
    LET p == tick[s].snap IN
    MayCharge(s) =>
        /\ \A i \in PaidBy(p.customer) :
            Anchor(i) = p.end => payments[i].at = clock /\ payments[i].key = PeriodKey(p)
        /\ project.customer = p.customer => project.failures = p.failures \/ TooSoon(project)

\* Two ticks of one day hold the same period.
SamePeriod(r, s) ==
    LET p == tick[r].snap
        q == tick[s].snap
        new == setup.pc = "persist"
    IN  /\ Active(r) /\ Active(s) /\ q.customer = project.customer /\ project.customer # NoCustomer
             => p.end >= q.end
        /\ MayCharge(r) /\ MayCharge(s) /\ p.customer = q.customer => p.failures = q.failures
        /\ Active(r) /\ Unticked(s) =>
             /\ project.end > clock \/ p.end >= project.end
             /\ new => setup.snap.end > clock \/ p.end >= setup.snap.end
        /\ Unticked(r) /\ Unticked(s) /\ new =>
             project.end > clock \/ setup.snap.end > clock \/ project.end >= setup.snap.end

\* A period that is paid is behind the row, or about to be.
PeriodsClose ==
    \A i \in PaidBy(project.customer) :
        \/ project.end > Anchor(i)
        \/ /\ project.end = Anchor(i) /\ payments[i].at = clock
           /\ payments[i].key.attempt = project.failures \/ TooSoon(project)
           /\ \E s \in Schedulers : At(s, "charged") \/ At(s, "rollover")

PaidOnce ==
    \A i, j \in Charges :
        /\ Paid(i) /\ Paid(j) /\ Anchor(i) = Anchor(j)
        /\ payments[i].charge.customer = payments[j].charge.customer
        => i = j

OnceFacts ==
    /\ PaymentsInOrder /\ PaidIsOver /\ CustomersAreNew
    /\ \A s \in Schedulers : TickIsDue(s) /\ MovesOn(s) /\ OneKey(s)
    /\ \A r, s \in Schedulers : r # s => SamePeriod(r, s)
    /\ PeriodsClose
    /\ PaidOnce

OnceInv ==
    /\ TypeOK
    /\ crashes = 0 /\ errors = 0 => OnceFacts

-----------------------------------------------------------------------------
(* How long a period stays open.                                           *)

\* The days from one attempt to the next: the day after the cadence is never too soon.
Spacing == RetryCadence + 1

\* The attempts for a period are over before the next one ends; the code's five, three
\* days apart, take fifteen days of a month.
AttemptsFit == FailureCeiling * Spacing <= Period

\* The days that the attempts for a customer, or those that a fault has wasted, may take;
\* what there has been of both; and what a row's failures have used of it.  Failures as many
\* as the ceiling are those of a card that could not be taken away.
Span      == FailureCeiling * Spacing + 1
Allowance == 1 + (customers + crashes + errors) * Span
Waited(p) == IF p.failures < FailureCeiling THEN p.failures * Spacing ELSE 0

\* The period of p ended no more than n days ago; and no more than n days before p's
\* last attempt.
Overdue(p, now, n) == p.end # NULL => now - p.end <= n
Attempted(p, end, n) == p.lastAttempt # NULL /\ end # NULL => p.lastAttempt - end <= n

\* Where a customer may be when the next attempt comes, with an allowance of a days of
\* which the last Span days are this customer's.
Pace(p, a) == a - Span + 1 + Waited(p)

\* The row p is in time on the day now, while its scheduler is at t: an attempt that was
\* recorded leaves time for the next one, and a tick that has ended for a day to come.
RowInTime(p, t, now, a) ==
    /\ p.customer = NoCustomer => Overdue(p, now, a) /\ Attempted(p, p.end, a - Spacing)
    /\ p.customer # NoCustomer =>
        /\ Overdue(p, now, a - Spacing)
        /\ t.pc \notin {"rollover", "detach"} =>
              Overdue(p, now, Pace(p, a)) /\ Attempted(p, p.end, Pace(p, a) - Spacing)
    /\ t.pc = "idle" =>
        /\ t.nextAt <= now + 1
        /\ t.nextAt > now =>
              Overdue(p, now, IF p.customer = NoCustomer THEN a - 1 ELSE Pace(p, a) - 1)

\* And so is what the tick t holds.  The row it works on has another customer since only
\* if the one it has read was lost, with the days that one had left.
TickInTime(p, t, u, now, a) ==
    LET q == t.snap IN
    t.pc # "idle" =>
        /\ q.customer = NoCustomer =>
            /\ t.pc = "listed"
            /\ Overdue(q, now, IF u.pc = "persist" \/ p.customer # NoCustomer THEN a - Span ELSE a)
        /\ q.customer # NoCustomer =>
            /\ Overdue(q, now, a - Spacing)
            /\ u.pc = "persist" => Overdue(u.snap, now, a - Span - Spacing)
            /\ p.customer = NoCustomer => Overdue(p, now, a - Spacing)
            /\ p.customer \notin {NoCustomer, q.customer} => Overdue(p, now, a - Span - Spacing)
            /\ (p.customer = q.customer /\ t.pc \notin {"rollover", "detach"}) =>
                  (p.failures = q.failures /\ p.lastAttempt = q.lastAttempt)

\* A checkout u that is about to give the row a new customer writes a period that has the
\* new customer's days left.
SetupInTime(p, u, now, a) ==
    u.pc = "persist" =>
        /\ Overdue(p, now, a - Span) /\ Overdue(u.snap, now, a - Span)
        /\ Attempted(p, u.snap.end, a - Span - Spacing)

InTime(p, t, u, now, a) == RowInTime(p, t, now, a) /\ TickInTime(p, t, u, now, a) /\ SetupInTime(p, u, now, a)

\* Whose customers are held; a new one is new to everybody.
CustomersKnown ==
    /\ project.customer <= customers /\ project.lastAttempt <= clock
    /\ \A s \in Schedulers : Active(s) => tick[s].snap.customer <= customers
    /\ removal.pc # "idle" => removal.snap.customer \in 1 .. customers
    /\ removal.pc = "reset" => removal.snap.customer # project.customer
    /\ setup.pc = "persist" =>
        /\ project.customer = NoCustomer /\ setup.customer \in 1 .. customers
        /\ \A s \in Schedulers : Active(s) => tick[s].snap.customer # setup.customer
        /\ removal.pc # "idle" => removal.snap.customer # setup.customer

KnownInv == TypeOK /\ CustomersKnown

OverdueInv ==
    /\ KnownInv
    /\ \A s \in Schedulers : InTime(project, tick[s], setup, clock, Allowance)

-----------------------------------------------------------------------------
(* The operators.                                                          *)

LEMMA MinOfTwo == ASSUME NEW x \in Int, NEW y \in Int PROVE Min({x, y}) = IF x <= y THEN x ELSE y
  BY DEF Min

LEMMA MaxOfTwo == ASSUME NEW x \in Int, NEW y \in Int PROVE Max({x, y}) = IF x <= y THEN y ELSE x
  BY DEF Max

\* The largest of finitely many numbers: what is left to a bound has a least element.
LEMMA MaxExists ==
  ASSUME NEW n \in Nat, NEW S, S \subseteq 0 .. n, S # {}
  PROVE  Max(S) \in S /\ \A x \in S : x <= Max(S)
  <1> DEFINE T == {n - x : x \in S}
             R == OpToRel(<, Nat)
  <1>1. T \subseteq Nat /\ T # {}
    <2>1. \A x \in S : n - x \in Nat
      OBVIOUS
    <2> QED
      BY <2>1
  <1>2. \A x, y \in Nat : x < y => <<x, y>> \in R
    BY DEF OpToRel
  <1>3. IsWellFoundedOn(R, Nat)
    BY NatLessThanWellFounded
  <1> HIDE DEF R, T
  <1>4. PICK t \in T : \A y \in T : ~(<<y, t>> \in R)
    BY <1>1, <1>3, WFMin
  <1>5. \A y \in T : t <= y
    <2> SUFFICES ASSUME NEW y \in T PROVE ~(y < t)
      BY <1>1
    <2> QED
      BY <1>1, <1>2, <1>4
  <1>6. PICK m \in S : t = n - m
    BY DEF T
  <1>7. \A x \in S : x <= m
    BY <1>5, <1>6 DEF T
  <1> QED
    BY <1>7 DEF Max

LEMMA Constants ==
  /\ Included \in Nat /\ AnalysisPrice \in Nat /\ MinCharge \in Nat /\ BillingCapUSD \in Nat
  /\ Period \in Nat \ {0} /\ RetryCadence \in Nat \ {0} /\ RetryCadence <= Period
  /\ FailureCeiling \in Nat \ {0} /\ KeyLife \in Nat \ {0}
  /\ MaxClock \in Nat /\ MaxCustomers \in Nat /\ MaxErrors \in Nat /\ MaxCrashes \in Nat
  BY ConstantsAssumption

LEMMA RowFields ==
  ASSUME NEW p \in Row
  PROVE  /\ p.executions \in Nat /\ p.start \in Nat \union {NULL} /\ p.end \in Nat \union {NULL}
         /\ p.customer \in 0 .. MaxCustomers /\ p.card \in BOOLEAN
         /\ p.lastAttempt \in Nat \union {NULL} /\ p.failures \in Nat
         /\ (p.start = NULL <=> p.end = NULL)
  BY DEF Row

\* What each statement writes of the row.
LEMMA ResetRow ==
  ASSUME NEW p \in Row, NEW a \in Nat, NEW b \in Nat,
         NEW q, q = ResetExecutionsThisPeriod(p, a, b)
  PROVE  /\ q \in Row /\ q.executions = 0 /\ q.start = a /\ q.end = b
         /\ q.customer = p.customer /\ q.card = p.card
         /\ q.lastAttempt = p.lastAttempt /\ q.failures = p.failures
  <1>1. /\ q.executions = 0 /\ q.start = a /\ q.end = b
        /\ q.customer = p.customer /\ q.card = p.card
        /\ q.lastAttempt = p.lastAttempt /\ q.failures = p.failures
    BY DEF ResetExecutionsThisPeriod, Row
  <1>2. q \in [executions : Nat, start : Nat \union {NULL}, end : Nat \union {NULL},
               customer : 0 .. MaxCustomers, card : BOOLEAN,
               lastAttempt : Nat \union {NULL}, failures : Nat]
    BY DEF ResetExecutionsThisPeriod, Row
  <1>3. a # NULL /\ b # NULL
    BY DEF NULL
  <1> QED
    BY <1>1, <1>2, <1>3 DEF Row

LEMMA RecordedRow ==
  ASSUME NEW p \in Row, NEW now \in Nat, NEW success \in BOOLEAN,
         NEW q, q = UpdateHobbyBillingState(p, now, success)
  PROVE  /\ q \in Row /\ q.lastAttempt = now
         /\ q.failures = IF success THEN 0 ELSE p.failures + 1
         /\ q.executions = p.executions /\ q.start = p.start /\ q.end = p.end
         /\ q.customer = p.customer /\ q.card = p.card
  <1>1. /\ q.lastAttempt = now /\ q.failures = IF success THEN 0 ELSE p.failures + 1
        /\ q.executions = p.executions /\ q.start = p.start /\ q.end = p.end
        /\ q.customer = p.customer /\ q.card = p.card
    BY DEF UpdateHobbyBillingState, Row
  <1>2. (IF success THEN 0 ELSE p.failures + 1) \in Nat
    BY RowFields
  <1>3. q \in [executions : Nat, start : Nat \union {NULL}, end : Nat \union {NULL},
               customer : 0 .. MaxCustomers, card : BOOLEAN,
               lastAttempt : Nat \union {NULL}, failures : Nat]
    BY <1>2 DEF UpdateHobbyBillingState, Row
  <1> QED
    BY <1>1, <1>3 DEF Row

LEMMA DetachedRow ==
  ASSUME NEW p \in Row, NEW q, q = DetachHobbyCardForBillingFailure(p)
  PROVE  /\ q \in Row /\ q.customer = NoCustomer /\ q.card = FALSE
         /\ q.failures = 0 /\ q.lastAttempt = NULL
         /\ q.executions = p.executions /\ q.start = p.start /\ q.end = p.end
  <1>1. NoCustomer \in 0 .. MaxCustomers
    BY Constants DEF NoCustomer
  <1>2. q \in [executions : Nat, start : Nat \union {NULL}, end : Nat \union {NULL},
               customer : 0 .. MaxCustomers, card : BOOLEAN,
               lastAttempt : Nat \union {NULL}, failures : Nat]
    BY <1>1 DEF DetachHobbyCardForBillingFailure, Row
  <1> QED
    BY <1>2 DEF DetachHobbyCardForBillingFailure, Row

LEMMA CountedRow ==
  ASSUME NEW p \in Row, NEW q, q = [p EXCEPT !.executions = @ + 1]
  PROVE  /\ q \in Row /\ q.executions = p.executions + 1
         /\ q.start = p.start /\ q.end = p.end /\ q.customer = p.customer /\ q.card = p.card
         /\ q.lastAttempt = p.lastAttempt /\ q.failures = p.failures
  <1>1. q.start = p.start /\ q.end = p.end /\ q.executions = p.executions + 1
    BY DEF Row
  <1>2. q \in [executions : Nat, start : Nat \union {NULL}, end : Nat \union {NULL},
               customer : 0 .. MaxCustomers, card : BOOLEAN,
               lastAttempt : Nat \union {NULL}, failures : Nat]
    BY DEF Row
  <1> QED
    BY <1>1, <1>2 DEF Row

LEMMA MarkedRow ==
  ASSUME NEW p \in Row, NEW q, q = [p EXCEPT !.card = TRUE]
  PROVE  /\ q \in Row /\ q.card /\ q.executions = p.executions
         /\ q.start = p.start /\ q.end = p.end /\ q.customer = p.customer
         /\ q.lastAttempt = p.lastAttempt /\ q.failures = p.failures
  BY DEF Row

-----------------------------------------------------------------------------
(* Types.                                                                  *)

\* What a tick holds.
LEMMA TickHeld ==
  ASSUME TypeOK, NEW s \in Schedulers
  PROVE  /\ ~At(s, "idle") => tick[s].snap \in Row
         /\ At(s, "charge") => tick[s].charge \in ChargeType /\ tick[s].analyses \in Analyses
         /\ At(s, "idle") => tick[s].nextAt \in Nat
  <1>1. tick[s] \in TickType
    BY DEF TypeOK
  <1> QED
    BY <1>1 DEF TickType, At

LEMMA TypeNumbers ==
  ASSUME TypeOK
  PROVE  /\ clock \in Nat /\ errors \in Nat /\ crashes \in Nat /\ refusals \in Nat
         /\ customers \in Nat /\ project \in Row
  BY Constants DEF TypeOK

LEMMA Counted ==
  ASSUME errors \in 0 .. MaxErrors, NEW ok \in Outcomes, CountError(ok)
  PROVE  /\ errors' \in 0 .. MaxErrors /\ ok \in BOOLEAN /\ errors <= errors'
         /\ (~ok => errors' = errors + 1) /\ (ok => errors' = errors)
         /\ (errors' = 0 => errors = 0 /\ ok)
  <1>1. ok \in BOOLEAN
    BY DEF Outcomes
  <1>2. CASE ok
    BY <1>1, <1>2 DEF CountError
  <1>3. CASE ~ok
    <2>1. errors < MaxErrors
      BY <1>3 DEF Outcomes
    <2> QED
      BY <1>1, <1>3, <2>1, Constants DEF CountError
  <1> QED
    BY <1>1, <1>2, <1>3

LEMMA AnalysesFinite ==
  ASSUME TypeOK, NEW start
  PROVE  AnalysesSince(start) \in Analyses /\ IsFiniteSet(AnalysesSince(start))
  <1> DEFINE S == {h \in Groups : analyzedAt[h] >= start}
             f == [g \in S |-> <<g, analyzedAt[g]>>]
  <1>1. IsFiniteSet(S)
    BY FS_Subset, ConstantsAssumption
  <1>2. AnalysesSince(start) = {<<g, analyzedAt[g]>> : g \in S}
    BY DEF AnalysesSince
  <1>3. f \in Surjection(S, AnalysesSince(start))
    BY <1>2 DEF Surjection
  <1>4. AnalysesSince(start) \in Analyses
    BY <1>2 DEF Analyses, TypeOK
  <1> QED
    BY <1>1, <1>3, <1>4, FS_Surjection

\* What is over the quota, and what that costs.
LEMMA OverEffect ==
  ASSUME NEW p \in Row
  PROVE  OverUnits(p) \in Nat /\ OverUnits(p) = IF p.executions > Included THEN p.executions - Included ELSE 0
  BY MaxOfTwo, RowFields, Constants DEF OverUnits

LEMMA CappedEffect ==
  ASSUME NEW cost \in Nat
  PROVE  Capped(cost) \in Nat /\ (cost > 0 <=> Capped(cost) > 0)
  BY MinOfTwo, Constants DEF Capped

LEMMA ChargeEffect ==
  ASSUME NEW p \in Row, NEW analyses, IsFiniteSet(analyses)
  PROVE  /\ Charge(p, analyses) \in ChargeType
         /\ Charge(p, analyses).customer = p.customer
         /\ Charge(p, analyses).amount > 0
            <=> p.executions > Included \/ (AnalysisPrice > 0 /\ analyses # {})
  <1> DEFINE n == Cardinality(analyses)
             cost == OverUnits(p) + AnalysisPrice * n
  <1>1. n \in Nat /\ (n = 0 <=> analyses = {})
    BY FS_CardinalityType, FS_EmptySet
  <1>2. OverUnits(p) \in Nat /\ (OverUnits(p) > 0 <=> p.executions > Included)
    BY OverEffect, RowFields, Constants
  <1>3. Charge(p, analyses) = [customer |-> p.customer, amount |-> Capped(cost),
                               over |-> OverUnits(p), analyses |-> n]
    BY DEF Charge
  <1>4. AnalysisPrice * n \in Nat /\ (AnalysisPrice * n > 0 <=> AnalysisPrice > 0 /\ n > 0)
    <2> HIDE DEF n
    <2>1. AnalysisPrice \in Nat
      BY Constants
    <2>2. AnalysisPrice * n \in Nat
      BY <1>1, <2>1
    <2>3. CASE AnalysisPrice = 0
      BY <1>1, <2>1, <2>3
    <2>4. CASE n = 0
      BY <1>1, <2>1, <2>4
    <2>5. CASE AnalysisPrice > 0 /\ n > 0
      <3>1. AnalysisPrice * n > 0
        BY <1>1, <2>1, <2>5
      <3> QED
        BY <2>2, <2>5, <3>1
    <2> QED
      BY <1>1, <2>1, <2>2, <2>3, <2>4, <2>5
  <1> HIDE DEF n
  <1>5. cost \in Nat /\ (cost > 0 <=> OverUnits(p) > 0 \/ (AnalysisPrice > 0 /\ n > 0))
    <2> DEFINE x == AnalysisPrice * n
    <2>1. x \in Nat /\ (x > 0 <=> AnalysisPrice > 0 /\ n > 0)
      BY <1>4
    <2>2. cost = OverUnits(p) + x
      OBVIOUS
    <2> HIDE DEF x, cost
    <2> QED
      BY <1>2, <2>1, <2>2
  <1> HIDE DEF cost
  <1>6. Capped(cost) \in Nat /\ (cost > 0 <=> Capped(cost) > 0)
    BY <1>5, CappedEffect
  <1>7. Charge(p, analyses) \in ChargeType
    BY <1>1, <1>2, <1>3, <1>6, RowFields DEF ChargeType
  <1>8. Charge(p, analyses).customer = p.customer /\ Charge(p, analyses).amount = Capped(cost)
    BY <1>3
  <1> QED
    BY <1>1, <1>2, <1>5, <1>6, <1>7, <1>8

\* What Stripe answers: what it knows is answered again, and only what it does not know,
\* or has had time to forget, is carried out.
Known(key) == {i \in DOMAIN payments : payments[i].key = key}

LEMMA AnswerEffect ==
  ASSUME NEW key, NEW charge, NEW answer \in Answers(key, charge)
  PROVE  /\ answer.ok \in BOOLEAN /\ answer.fresh \in BOOLEAN
         /\ answer.fresh => \/ Known(key) = {}
                            \/ clock - payments[Max(Known(key))].at >= KeyLife
  <1> DEFINE last == payments[Max(Known(key))]
             again == [ok |-> last.ok /\ last.charge = charge, fresh |-> FALSE]
             chargable == charge.amount >= MinCharge /\ charge.customer \in cards
  <1>1. \/ answer = again
        \/ /\ Known(key) = {} \/ clock - last.at >= KeyLife
           /\ \E ok \in {FALSE, chargable} : answer = [ok |-> ok, fresh |-> TRUE]
    BY DEF Answers, Known
  <1>2. again.ok \in BOOLEAN /\ again.fresh = FALSE
    OBVIOUS
  <1>3. chargable \in BOOLEAN
    OBVIOUS
  <1> HIDE DEF again, chargable, last
  <1>4. CASE answer = again
    BY <1>2, <1>4
  <1>5. CASE answer # again
    <2>1. PICK ok \in {FALSE, chargable} : answer = [ok |-> ok, fresh |-> TRUE]
      BY <1>1, <1>5
    <2>2. answer.ok = ok /\ answer.fresh = TRUE
      BY <2>1
    <2>3. ok \in BOOLEAN
      BY <1>3
    <2>4. Known(key) = {} \/ clock - last.at >= KeyLife
      BY <1>1, <1>5
    <2> QED
      BY <2>2, <2>3, <2>4 DEF last
  <1> QED
    BY <1>4, <1>5

LEMMA SeenEffect ==
  ASSUME errors \in 0 .. MaxErrors, NEW answer, answer.ok \in BOOLEAN, NEW ok \in Seen(answer),
         CountError(ok = answer.ok)
  PROVE  /\ ok \in BOOLEAN /\ errors' \in 0 .. MaxErrors /\ errors <= errors'
         /\ (errors' = 0 => errors = 0 /\ ok = answer.ok)
  <1>1. ok \in BOOLEAN
    BY DEF Seen
  <1>2. CASE ok = answer.ok
    BY <1>1, <1>2 DEF CountError
  <1>3. CASE ok # answer.ok
    BY <1>1, <1>3, Constants DEF CountError, Seen
  <1> QED
    BY <1>1, <1>2, <1>3

LEMMA CarryOutEffect ==
  ASSUME TypeOK, NEW key \in KeyType, NEW charge \in ChargeType, NEW covers \in Analyses, NEW answer,
         answer.ok \in BOOLEAN, answer.fresh \in BOOLEAN, CarryOut(key, charge, covers, answer)
  PROVE  /\ payments' \in Seq(PaymentType)
         /\ ~answer.fresh => payments' = payments
         /\ answer.fresh =>
              /\ Len(payments') = Len(payments) + 1
              /\ \A i \in 1 .. Len(payments) : payments'[i] = payments[i]
              /\ payments'[Len(payments) + 1].key = key
              /\ payments'[Len(payments) + 1].charge = charge
              /\ payments'[Len(payments) + 1].at = clock
              /\ payments'[Len(payments) + 1].ok = answer.ok
  <1> DEFINE new == [key |-> key, charge |-> charge, ok |-> answer.ok, at |-> clock, covers |-> covers]
  <1>1. new \in PaymentType
    BY TypeNumbers DEF PaymentType
  <1>2. payments' = IF answer.fresh THEN Append(payments, new) ELSE payments
    BY DEF CarryOut
  <1>3. new.key = key /\ new.charge = charge /\ new.at = clock /\ new.ok = answer.ok
    OBVIOUS
  <1> HIDE DEF new
  <1>4. payments \in Seq(PaymentType)
    BY DEF TypeOK
  <1>5. CASE answer.fresh
    <2>1. payments' = Append(payments, new)
      BY <1>2, <1>5
    <2>2. /\ Append(payments, new) \in Seq(PaymentType)
          /\ Len(Append(payments, new)) = Len(payments) + 1
          /\ \A i \in 1 .. Len(payments) : Append(payments, new)[i] = payments[i]
          /\ Append(payments, new)[Len(payments) + 1] = new
      BY <1>1, <1>4
    <2> QED
      BY <1>3, <1>5, <2>1, <2>2
  <1>6. CASE ~answer.fresh
    BY <1>2, <1>4, <1>6
  <1> QED
    BY <1>5, <1>6

LEMMA PeriodKeyType ==
  ASSUME NEW p \in Row
  PROVE  PeriodKey(p) \in KeyType /\ RemovalKey(p) \in KeyType
         /\ PeriodKey(p).for = "period" /\ RemovalKey(p).for = "removal"
  BY RowFields DEF PeriodKey, RemovalKey, KeyType

LEMMA HoldEffect ==
  ASSUME TypeOK, NEW s \in Schedulers, NEW t \in TickType, Hold(s, t)
  PROVE  /\ tick'[s] = t /\ \A r \in Schedulers : r # s => tick'[r] = tick[r]
         /\ tick' \in [Schedulers -> TickType]
  BY DEF TypeOK, Hold

\* A tick that is over for the day.
LEMMA EndTickEffect ==
  ASSUME TypeOK, NEW s \in Schedulers, EndTick(s)
  PROVE  /\ tick'[s].pc = "idle" /\ tick'[s].nextAt = clock + 1
         /\ \A r \in Schedulers : r # s => tick'[r] = tick[r]
         /\ tick' \in [Schedulers -> TickType]
  <1> DEFINE t == [IdleTick EXCEPT !.nextAt = clock + 1]
  <1>1. t = [pc |-> "idle", nextAt |-> clock + 1]
    BY DEF IdleTick
  <1>2. t \in TickType
    BY <1>1, TypeNumbers DEF TickType
  <1>3. Hold(s, t)
    BY DEF EndTick
  <1>4. t.pc = "idle" /\ t.nextAt = clock + 1
    BY <1>1
  <1> HIDE DEF t
  <1> QED
    BY <1>2, <1>3, <1>4, HoldEffect

\* A step of a tick that goes on with the row it has read.
LEMMA HeldTickType ==
  ASSUME NEW p \in Row, NEW pc \in {"listed", "rollover", "charged", "refused", "detach"}
  PROVE  [pc |-> pc, snap |-> p] \in TickType
  BY DEF TickType

\* The period moves on from what the tick has read.
LEMMA RolloverEffect ==
  ASSUME TypeOK, NEW s \in Schedulers, Rollover(s)
  PROVE  /\ tick[s].snap \in Row /\ EndTick(s) /\ (At(s, "listed") \/ At(s, "rollover"))
         /\ \E ok \in Outcomes : CountError(ok) /\ (~ok => project' = project)
         /\ project' = project
            \/ /\ project' \in Row /\ project'.executions = 0
               /\ project'.customer = project.customer /\ project'.card = project.card
               /\ project'.lastAttempt = project.lastAttempt /\ project'.failures = project.failures
               /\ project'.start \in Nat
               /\ project'.end = IF Due(tick[s].snap) THEN tick[s].snap.end + Period ELSE clock + Period
         /\ project' \in Row
  <1> DEFINE p == tick[s].snap
             a == IF Due(p) THEN p.end ELSE clock
             b == IF Due(p) THEN p.end + Period ELSE clock + Period
  <1>1. p \in Row /\ EndTick(s) /\ (At(s, "listed") \/ At(s, "rollover"))
    BY TickHeld DEF Rollover, At
  <1>2. NewBounds(p)[1] = a /\ NewBounds(p)[2] = b
    BY DEF NewBounds
  <1>3. a \in Nat /\ b \in Nat
    BY <1>1, RowFields, TypeNumbers, Constants DEF Due
  <1> HIDE DEF a
  <1>4. \E ok \in Outcomes :
          /\ project' = IF ok THEN ResetExecutionsThisPeriod(project, a, b) ELSE project
          /\ CountError(ok)
    BY <1>2 DEF Rollover
  <1>5. project \in Row
    BY TypeNumbers
  <1> HIDE DEF b
  <1>6. CASE project' = ResetExecutionsThisPeriod(project, a, b)
    <2> DEFINE q == ResetExecutionsThisPeriod(project, a, b)
    <2>1. /\ q \in Row /\ q.executions = 0 /\ q.start = a /\ q.end = b
          /\ q.customer = project.customer /\ q.card = project.card
          /\ q.lastAttempt = project.lastAttempt /\ q.failures = project.failures
      BY <1>3, <1>5, ResetRow
    <2>2. project' = q
      BY <1>6
    <2> HIDE DEF q
    <2> QED
      BY <1>1, <1>3, <1>4, <2>1, <2>2 DEF b
  <1>7. CASE project' = project
    BY <1>1, <1>4, <1>5, <1>7
  <1> QED
    BY <1>4, <1>6, <1>7

\* Nothing is charged too soon, or for nothing.
LEMMA PriceEffect ==
  ASSUME TypeOK, NEW s \in Schedulers, Price(s)
  PROVE  /\ tick[s].snap \in Row /\ At(s, "listed")
         /\ Due(tick[s].snap) /\ tick[s].snap.customer # NoCustomer
         /\ \/ MaybeTooSoon(tick[s].snap) /\ EndTick(s) /\ errors' = errors
            \/ /\ ~TooSoon(tick[s].snap)
               /\ \E ok \in Outcomes, t \in TickType :
                    /\ CountError(ok) /\ Hold(s, t) /\ t.snap = tick[s].snap
                    /\ \/ t.pc = "rollover" /\ (ok => ~Costs(tick[s].snap))
                       \/ /\ t.pc = "charge" /\ t.charge.customer = tick[s].snap.customer
                          /\ Costs(tick[s].snap)
  <1> DEFINE p == tick[s].snap
  <1>1. /\ p \in Row /\ At(s, "listed") /\ Due(p) /\ p.customer # NoCustomer
    BY TickHeld DEF Price, At
  <1>2. CASE MaybeTooSoon(p) /\ EndTick(s) /\ UNCHANGED errors
    BY <1>1, <1>2
  <1>3. CASE ~(MaybeTooSoon(p) /\ EndTick(s) /\ UNCHANGED errors)
    <2>0. ~TooSoon(p)
      BY <1>3 DEF Price
    <2>1. PICK ok \in Outcomes :
            LET analyses == IF ok THEN AnalysesSince(p.start) ELSE {}
                charge   == Charge(p, analyses)
            IN  /\ Hold(s, [pc |-> IF charge.amount = 0 THEN "rollover" ELSE "charge",
                            snap |-> p, charge |-> charge, analyses |-> analyses])
                /\ CountError(ok)
      BY <1>3 DEF Price
    <2> DEFINE analyses == IF ok THEN AnalysesSince(p.start) ELSE {}
               charge == Charge(p, analyses)
               pc == IF charge.amount = 0 THEN "rollover" ELSE "charge"
               t == [pc |-> pc, snap |-> p, charge |-> charge, analyses |-> analyses]
    <2>2. analyses \in Analyses /\ IsFiniteSet(analyses)
      BY AnalysesFinite, FS_EmptySet DEF Analyses
    <2>3. ok => analyses = AnalysesSince(p.start)
      OBVIOUS
    <2>4. ~ok => analyses = {}
      OBVIOUS
    <2>5. Hold(s, t) /\ CountError(ok)
      BY <2>1
    <2> HIDE DEF analyses
    <2>6. /\ charge \in ChargeType /\ charge.customer = p.customer
          /\ charge.amount > 0 <=> p.executions > Included \/ (AnalysisPrice > 0 /\ analyses # {})
      BY <1>1, <2>2, ChargeEffect
    <2> HIDE DEF charge
    <2>7. charge.amount \in Nat
      BY <2>6 DEF ChargeType
    <2>8. t \in TickType
      BY <1>1, <2>2, <2>6 DEF TickType
    <2>9. t.pc = pc /\ t.snap = p /\ t.charge = charge
      OBVIOUS
    <2>10. AnalysesSince(p.start) # {} <=> \E g \in Groups : analyzedAt[g] >= p.start
      BY DEF AnalysesSince
    <2>11. ok /\ pc = "rollover" => ~Costs(p)
      BY <2>3, <2>6, <2>7, <2>10 DEF Costs
    <2>12. pc = "charge" => Costs(p)
      BY <2>3, <2>4, <2>6, <2>7, <2>10 DEF Costs
    <2>13. pc \in {"rollover", "charge"}
      OBVIOUS
    <2> HIDE DEF pc, t
    <2> QED
      BY <1>1, <2>0, <2>5, <2>6, <2>8, <2>9, <2>11, <2>12, <2>13
  <1> QED
    BY <1>2, <1>3

\* The charge is carried out, or answered as it was before; the tick knows one of two things.
LEMMA ChargeOffSessionEffect ==
  ASSUME TypeOK, NEW s \in Schedulers, ChargeOffSession(s)
  PROVE  /\ tick[s].snap \in Row /\ At(s, "charge")
         /\ \E t \in TickType :
              /\ Hold(s, t) /\ t.snap = tick[s].snap
              /\ \/ t.pc = "charged" /\ refusals' = refusals
                 \/ t.pc = "refused" /\ refusals' = refusals + 1
         /\ errors' \in 0 .. MaxErrors /\ errors <= errors' /\ (errors' = 0 => errors = 0)
         /\ payments' \in Seq(PaymentType)
         /\ \/ payments' = payments
            \/ /\ \/ Known(PeriodKey(tick[s].snap)) = {}
                  \/ clock - payments[Max(Known(PeriodKey(tick[s].snap)))].at >= KeyLife
               /\ Len(payments') = Len(payments) + 1
               /\ \A i \in 1 .. Len(payments) : payments'[i] = payments[i]
               /\ payments'[Len(payments) + 1].key = PeriodKey(tick[s].snap)
               /\ payments'[Len(payments) + 1].charge = tick[s].charge
               /\ payments'[Len(payments) + 1].at = clock
               /\ errors' = 0 /\ payments'[Len(payments) + 1].ok => tick'[s].pc = "charged"
  <1> DEFINE t == tick[s]
             key == PeriodKey(t.snap)
  <1>1. t.snap \in Row /\ At(s, "charge") /\ t.charge \in ChargeType /\ t.analyses \in Analyses
    BY TickHeld DEF ChargeOffSession, At
  <1>2. PICK answer \in Answers(key, t.charge) : \E ok \in Seen(answer) :
          /\ CarryOut(key, t.charge, t.analyses, answer)
          /\ CountError(ok = answer.ok)
          /\ refusals' = IF ok THEN refusals ELSE refusals + 1
          /\ Hold(s, [pc |-> IF ok THEN "charged" ELSE "refused", snap |-> t.snap])
    BY DEF ChargeOffSession
  <1>3. PICK ok \in Seen(answer) :
          /\ CarryOut(key, t.charge, t.analyses, answer)
          /\ CountError(ok = answer.ok)
          /\ refusals' = IF ok THEN refusals ELSE refusals + 1
          /\ Hold(s, [pc |-> IF ok THEN "charged" ELSE "refused", snap |-> t.snap])
    BY <1>2
  <1> HIDE DEF key
  <1>4. /\ answer.ok \in BOOLEAN /\ answer.fresh \in BOOLEAN
        /\ answer.fresh => Known(key) = {} \/ clock - payments[Max(Known(key))].at >= KeyLife
    BY AnswerEffect
  <1>5. /\ ok \in BOOLEAN /\ errors' \in 0 .. MaxErrors /\ errors <= errors'
        /\ (errors' = 0 => errors = 0 /\ ok = answer.ok)
    BY <1>3, <1>4, SeenEffect DEF TypeOK
  <1>6. key \in KeyType
    BY <1>1, PeriodKeyType DEF key
  <1>7. /\ payments' \in Seq(PaymentType)
        /\ ~answer.fresh => payments' = payments
        /\ answer.fresh =>
              /\ Len(payments') = Len(payments) + 1
              /\ \A i \in 1 .. Len(payments) : payments'[i] = payments[i]
              /\ payments'[Len(payments) + 1].key = key
              /\ payments'[Len(payments) + 1].charge = t.charge
              /\ payments'[Len(payments) + 1].at = clock
              /\ payments'[Len(payments) + 1].ok = answer.ok
    BY <1>1, <1>3, <1>4, <1>6, CarryOutEffect
  <1> DEFINE pc == IF ok THEN "charged" ELSE "refused"
             u == [pc |-> pc, snap |-> t.snap]
  <1>8. u \in TickType /\ u.pc = pc /\ u.snap = t.snap /\ Hold(s, u)
    BY <1>1, <1>3, HeldTickType
  <1>9. /\ \/ pc = "charged" /\ refusals' = refusals
           \/ pc = "refused" /\ refusals' = refusals + 1
        /\ ok => pc = "charged"
    BY <1>3
  <1> HIDE DEF u, pc
  <1>10. \E v \in TickType :
              /\ Hold(s, v) /\ v.snap = tick[s].snap
              /\ \/ v.pc = "charged" /\ refusals' = refusals
                 \/ v.pc = "refused" /\ refusals' = refusals + 1
    BY <1>8, <1>9
  <1>11. errors' = 0 /\ answer.ok => tick'[s].pc = "charged"
    BY <1>5, <1>8, <1>9, HoldEffect
  <1> QED
    BY <1>1, <1>4, <1>5, <1>7, <1>10, <1>11 DEF key

\* The attempt is recorded; the row says so unless the statement failed.
LEMMA RecordAttemptEffect ==
  ASSUME TypeOK, NEW s \in Schedulers, RecordAttempt(s)
  PROVE  /\ tick[s].snap \in Row /\ (At(s, "charged") \/ At(s, "refused"))
         /\ \E ok \in Outcomes :
              /\ CountError(ok)
              /\ ~ok => project' = project /\ refusals' = refusals
              /\ ok => /\ project'.lastAttempt = clock
                       /\ At(s, "charged") => project'.failures = 0 /\ refusals' = 0
                       /\ At(s, "refused") => project'.failures = project.failures + 1
                                              /\ refusals' = refusals
         /\ project' \in Row
         /\ project'.executions = project.executions /\ project'.start = project.start
         /\ project'.end = project.end /\ project'.customer = project.customer
         /\ project'.card = project.card
         /\ \/ /\ EndTick(s) /\ At(s, "refused")
            \/ \E t \in TickType :
                  /\ Hold(s, t) /\ t.snap = tick[s].snap
                  /\ \/ t.pc = "rollover" /\ At(s, "charged")
                     \/ t.pc = "detach" /\ At(s, "refused") /\ CeilingReached(tick[s].snap)
  <1>1. tick[s].snap \in Row /\ (At(s, "charged") \/ At(s, "refused"))
        /\ ~(At(s, "charged") /\ At(s, "refused"))
    BY TickHeld DEF RecordAttempt, At
  <1>2. PICK ok \in Outcomes :
          /\ project' = IF ok THEN UpdateHobbyBillingState(project, clock, At(s, "charged")) ELSE project
          /\ refusals' = IF ok /\ At(s, "charged") THEN 0 ELSE refusals
          /\ CountError(ok)
    BY DEF RecordAttempt
  <1>3. ok \in BOOLEAN /\ project \in Row /\ clock \in Nat /\ At(s, "charged") \in BOOLEAN
    BY TypeNumbers DEF Outcomes, At
  <1>4. /\ project' \in Row
        /\ project'.executions = project.executions /\ project'.start = project.start
        /\ project'.end = project.end /\ project'.customer = project.customer
        /\ project'.card = project.card
        /\ ~ok => project' = project
        /\ ok => project'.lastAttempt = clock
                 /\ project'.failures = IF At(s, "charged") THEN 0 ELSE project.failures + 1
    <2>1. CASE ok
      <3>1. project' = UpdateHobbyBillingState(project, clock, At(s, "charged"))
        BY <1>2, <2>1
      <3> QED
        BY <1>3, <2>1, <3>1, RecordedRow
    <2>2. CASE ~ok
      BY <1>2, <1>3, <2>2
    <2> QED
      BY <1>3, <2>1, <2>2
  <1>5. \/ /\ EndTick(s) /\ At(s, "refused")
        \/ \E t \in TickType :
              /\ Hold(s, t) /\ t.snap = tick[s].snap
              /\ \/ t.pc = "rollover" /\ At(s, "charged")
                 \/ t.pc = "detach" /\ At(s, "refused") /\ CeilingReached(tick[s].snap)
    <2> DEFINE u(pc) == [pc |-> pc, snap |-> tick[s].snap]
    <2>1. /\ u("rollover") \in TickType /\ u("detach") \in TickType
          /\ u("rollover").pc = "rollover" /\ u("detach").pc = "detach"
          /\ u("rollover").snap = tick[s].snap /\ u("detach").snap = tick[s].snap
      BY <1>1, HeldTickType
    <2>2. \/ EndTick(s) /\ ~At(s, "charged")
          \/ Hold(s, u("rollover")) /\ At(s, "charged")
          \/ Hold(s, u("detach")) /\ ~At(s, "charged") /\ CeilingReached(tick[s].snap)
      BY DEF RecordAttempt
    <2> HIDE DEF u
    <2> QED
      BY <1>1, <2>1, <2>2
  <1> QED
    BY <1>1, <1>2, <1>3, <1>4, <1>5

\* A tick begins with a row that is due.
LEMMA ListEffect ==
  ASSUME TypeOK, NEW s \in Schedulers, ListProjectsForHobbyBillingTick(s)
  PROVE  /\ At(s, "idle") /\ tick[s].nextAt <= clock
         /\ \/ /\ EndTick(s) /\ Due(project) /\ project.end >= clock
               /\ project.end > clock \/ ~AttemptedToday(project)
            \/ \E t \in TickType :
                  /\ Hold(s, t) /\ t.pc = "listed" /\ t.snap = project
                  /\ Due(project) => project.end <= clock
  <1> DEFINE t == [pc |-> "listed", snap |-> project]
  <1>1. t \in TickType /\ t.pc = "listed" /\ t.snap = project
    BY TypeNumbers, HeldTickType
  <1>2. /\ At(s, "idle") /\ tick[s].nextAt <= clock
        /\ \/ /\ EndTick(s) /\ Due(project)
              /\ project.end > clock \/ (project.end = clock /\ ~AttemptedToday(project))
           \/ Hold(s, t) /\ (project.start = NULL \/ project.end = NULL \/ project.end <= clock)
    BY DEF ListProjectsForHobbyBillingTick
  <1> HIDE DEF t
  <1>3. Due(project) => project.end \in Nat /\ clock \in Nat
    BY TypeNumbers, RowFields DEF Due
  <1> QED
    BY <1>1, <1>2, <1>3 DEF Due

LEMMA DetachCardEffect ==
  ASSUME TypeOK, NEW s \in Schedulers, DetachCard(s)
  PROVE  /\ At(s, "detach") /\ EndTick(s) /\ project' \in Row
         /\ \E ok \in Outcomes :
              /\ CountError(ok)
              /\ ok => project' = DetachHobbyCardForBillingFailure(project)
              /\ ~ok => project' = project
  <1>1. PICK ok \in Outcomes :
          /\ project' = IF ok THEN DetachHobbyCardForBillingFailure(project) ELSE project
          /\ CountError(ok)
    BY DEF DetachCard
  <1>2. project' \in Row
    BY <1>1, TypeNumbers, DetachedRow
  <1> QED
    BY <1>1, <1>2 DEF DetachCard

LEMMA CrashEffect ==
  ASSUME TypeOK, NEW s \in Schedulers, Crash(s)
  PROVE  /\ ~At(s, "idle") /\ crashes' \in 0 .. MaxCrashes /\ errors' = errors
         /\ \E t \in TickType : Hold(s, t) /\ t.pc = "idle" /\ t.nextAt = clock
  <1> DEFINE t == [IdleTick EXCEPT !.nextAt = clock]
  <1>1. t = [pc |-> "idle", nextAt |-> clock]
    BY DEF IdleTick
  <1>2. t \in TickType /\ t.pc = "idle" /\ t.nextAt = clock
    BY <1>1, TypeNumbers DEF TickType
  <1>3. Hold(s, t)
    BY DEF Crash
  <1> HIDE DEF t
  <1>4. crashes' \in 0 .. MaxCrashes
    <2>1. crashes \in 0 .. MaxCrashes
      BY DEF TypeOK
    <2>2. crashes < MaxCrashes /\ crashes' = crashes + 1
      BY DEF Crash
    <2> QED
      BY <2>1, <2>2, Constants
  <1> QED
    BY <1>2, <1>3, <1>4 DEF Crash

\* What a handler holds.
LEMMA HandlersHeld ==
  ASSUME TypeOK
  PROVE  /\ setup.pc = "persist" => setup.snap \in Row /\ setup.customer \in 1 .. MaxCustomers
         /\ removal.pc # "idle" => /\ removal.snap \in Row /\ removal.charge \in ChargeType
                                   /\ removal.analyses \in Analyses
                                   /\ removal.pc \in {"charge", "detach", "clear", "reset"}
         /\ setup.pc \in {"idle", "persist"}
  BY DEF TypeOK, SetupType, RemovalType, IdleHandler

LEMMA CreateSetupEffect ==
  ASSUME TypeOK, HandleCreateSetupCheckout
  PROVE  /\ project.customer = NoCustomer /\ customers' = customers + 1
         /\ customers' \in 0 .. MaxCustomers /\ setup' \in SetupType
         /\ setup.pc = "idle" /\ setup'.pc = "persist" /\ setup'.snap = project
         /\ setup'.customer = customers + 1
  <1>1. customers + 1 \in 1 .. MaxCustomers
    BY Constants DEF TypeOK, HandleCreateSetupCheckout
  <1>2. setup' = [pc |-> "persist", snap |-> project, customer |-> customers + 1]
    BY DEF HandleCreateSetupCheckout
  <1>3. setup' \in SetupType
    BY <1>1, <1>2, TypeNumbers DEF SetupType
  <1> QED
    BY <1>1, <1>2, <1>3, Constants DEF HandleCreateSetupCheckout

LEMMA PersistEffect ==
  ASSUME TypeOK, PersistCustomer
  PROVE  /\ setup.pc = "persist" /\ setup' = IdleHandler /\ project' \in Row
         /\ setup.snap \in Row /\ setup.customer \in 1 .. MaxCustomers
         /\ \E ok \in Outcomes :
              /\ CountError(ok) /\ (~ok => project' = project)
              /\ ok => /\ project'.customer = setup.customer
                       /\ project'.start = setup.snap.start /\ project'.end = setup.snap.end
         /\ project'.executions = project.executions /\ project'.card = project.card
         /\ project'.lastAttempt = project.lastAttempt /\ project'.failures = project.failures
  <1> DEFINE c == setup.customer
             r == setup.snap
             q == [project EXCEPT !.customer = c, !.start = r.start, !.end = r.end]
  <1>1. /\ setup.pc = "persist" /\ setup' = IdleHandler
        /\ r \in Row /\ c \in 0 .. MaxCustomers /\ c \in 1 .. MaxCustomers /\ project \in Row
    BY HandlersHeld, TypeNumbers, Constants DEF PersistCustomer
  <1>2. PICK ok \in Outcomes : project' = (IF ok THEN q ELSE project) /\ CountError(ok)
    BY DEF PersistCustomer
  <1> HIDE DEF c, r
  <1>3. /\ q \in Row /\ q.customer = c /\ q.start = r.start /\ q.end = r.end
        /\ q.executions = project.executions /\ q.card = project.card
        /\ q.lastAttempt = project.lastAttempt /\ q.failures = project.failures
    <2>1. /\ q.customer = c /\ q.start = r.start /\ q.end = r.end
          /\ q.executions = project.executions /\ q.card = project.card
          /\ q.lastAttempt = project.lastAttempt /\ q.failures = project.failures
      BY <1>1 DEF Row
    <2>2. q \in [executions : Nat, start : Nat \union {NULL}, end : Nat \union {NULL},
                 customer : 0 .. MaxCustomers, card : BOOLEAN,
                 lastAttempt : Nat \union {NULL}, failures : Nat]
      BY <1>1, RowFields DEF Row
    <2>3. r.start = NULL <=> r.end = NULL
      BY <1>1, RowFields
    <2> HIDE DEF q
    <2> QED
      BY <2>1, <2>2, <2>3 DEF Row
  <1> HIDE DEF q
  <1> QED
    BY <1>1, <1>2, <1>3 DEF c, r

LEMMA BootstrapEffect ==
  ASSUME TypeOK, BootstrapBounds
  PROVE  /\ hook.pc = "bootstrap" /\ hook' \in HookType /\ project' \in Row
         /\ \E ok \in Outcomes :
              /\ CountError(ok) /\ (~ok => project' = project)
              /\ ok => project'.executions = 0 /\ project'.end = clock + Period
         /\ project'.customer = project.customer /\ project'.card = project.card
         /\ project'.lastAttempt = project.lastAttempt /\ project'.failures = project.failures
  <1> DEFINE e == clock + Period
             q == ResetExecutionsThisPeriod(project, clock, e)
  <1>1. PICK ok \in Outcomes : /\ project' = IF ok THEN q ELSE project
                               /\ hook' = IF ok THEN [pc |-> "mark"] ELSE IdleHandler
                               /\ CountError(ok)
    BY DEF BootstrapBounds
  <1>2. hook' \in HookType
    BY <1>1 DEF HookType, IdleHandler
  <1>3. clock \in Nat /\ e \in Nat /\ project \in Row
    BY TypeNumbers, Constants
  <1> HIDE DEF e
  <1>4. /\ q \in Row /\ q.executions = 0 /\ q.end = e
        /\ q.customer = project.customer /\ q.card = project.card
        /\ q.lastAttempt = project.lastAttempt /\ q.failures = project.failures
    BY <1>3, ResetRow
  <1> HIDE DEF q
  <1> QED
    BY <1>1, <1>2, <1>3, <1>4 DEF BootstrapBounds, e

LEMMA RemoveEffect ==
  ASSUME TypeOK, HandleRemovePaymentMethod
  PROVE  /\ Removals /\ removal.pc = "idle" /\ project.customer # NoCustomer
         /\ removal' \in RemovalType /\ removal'.snap = project
         /\ removal'.pc \in {"charge", "detach"}
  <1> DEFINE analyses == AnalysesSince(Max({0, project.start}))
             charge == Charge(project, analyses)
             pc == IF charge.amount > 0 /\ charge.amount >= MinCharge THEN "charge" ELSE "detach"
  <1>1. analyses \in Analyses /\ IsFiniteSet(analyses) /\ project \in Row
    BY AnalysesFinite, TypeNumbers
  <1>2. removal' = [pc |-> pc, snap |-> project, charge |-> charge, analyses |-> analyses]
    BY DEF HandleRemovePaymentMethod
  <1> HIDE DEF analyses
  <1>3. charge \in ChargeType
    BY <1>1, ChargeEffect
  <1>4. pc \in {"charge", "detach"}
    OBVIOUS
  <1> HIDE DEF charge, pc
  <1>5. removal' \in RemovalType /\ removal'.snap = project /\ removal'.pc = pc
    BY <1>1, <1>2, <1>3, <1>4 DEF RemovalType
  <1> QED
    BY <1>4, <1>5 DEF HandleRemovePaymentMethod

LEMMA SettleEffect ==
  ASSUME TypeOK, SettleOnRemoval
  PROVE  /\ removal.pc = "charge" /\ removal.snap \in Row /\ removal' \in RemovalType
         /\ errors' \in 0 .. MaxErrors /\ errors <= errors' /\ (errors' = 0 => errors = 0)
         /\ removal'.pc \in {"detach", "idle"}
         /\ removal'.pc = "detach" => removal'.snap = removal.snap
         /\ payments' \in Seq(PaymentType)
         /\ \/ payments' = payments
            \/ /\ Len(payments') = Len(payments) + 1
               /\ \A i \in 1 .. Len(payments) : payments'[i] = payments[i]
               /\ payments'[Len(payments) + 1].key.for = "removal"
               /\ payments'[Len(payments) + 1].at = clock
  <1> DEFINE key == RemovalKey(removal.snap)
  <1>1. PICK answer \in Answers(key, removal.charge) : \E ok \in Seen(answer) :
          /\ CarryOut(key, removal.charge, removal.analyses, answer)
          /\ CountError(ok = answer.ok)
          /\ removal' = IF ok THEN [removal EXCEPT !.pc = "detach"] ELSE IdleHandler
    BY DEF SettleOnRemoval
  <1>2. PICK ok \in Seen(answer) :
          /\ CarryOut(key, removal.charge, removal.analyses, answer)
          /\ CountError(ok = answer.ok)
          /\ removal' = IF ok THEN [removal EXCEPT !.pc = "detach"] ELSE IdleHandler
    BY <1>1
  <1>3. /\ removal.pc = "charge" /\ removal.snap \in Row /\ removal.charge \in ChargeType
        /\ removal.analyses \in Analyses
    BY HandlersHeld DEF SettleOnRemoval
  <1>4. key \in KeyType /\ key.for = "removal"
    BY <1>3, PeriodKeyType
  <1> HIDE DEF key
  <1>5. answer.ok \in BOOLEAN /\ answer.fresh \in BOOLEAN
    BY AnswerEffect
  <1>6. /\ errors' \in 0 .. MaxErrors /\ errors <= errors' /\ (errors' = 0 => errors = 0)
    BY <1>2, <1>5, SeenEffect DEF TypeOK
  <1>7. /\ payments' \in Seq(PaymentType)
        /\ ~answer.fresh => payments' = payments
        /\ answer.fresh =>
              /\ Len(payments') = Len(payments) + 1
              /\ \A i \in 1 .. Len(payments) : payments'[i] = payments[i]
              /\ payments'[Len(payments) + 1].key = key
              /\ payments'[Len(payments) + 1].charge = removal.charge
              /\ payments'[Len(payments) + 1].at = clock
    BY <1>2, <1>3, <1>4, <1>5, CarryOutEffect
  <1>8. /\ removal' \in RemovalType /\ removal'.pc \in {"detach", "idle"}
        /\ removal'.pc = "detach" => removal'.snap = removal.snap
    <2>1. removal \in [pc : {"charge", "detach", "clear", "reset"}, snap : Row,
                       charge : ChargeType, analyses : Analyses]
      BY <1>3 DEF TypeOK, RemovalType, IdleHandler
    <2>2. CASE removal' = [removal EXCEPT !.pc = "detach"]
      BY <2>1, <2>2 DEF RemovalType
    <2>3. CASE removal' = IdleHandler
      BY <2>3 DEF RemovalType, IdleHandler
    <2> QED
      BY <1>2, <2>2, <2>3
  <1> QED
    BY <1>3, <1>4, <1>5, <1>6, <1>7, <1>8

\* The next step of a removal.
LEMMA RemovalGoesOn ==
  ASSUME TypeOK, removal.pc # "idle", NEW pc \in {"clear", "reset"},
         removal' = [removal EXCEPT !.pc = pc]
  PROVE  removal' \in RemovalType /\ removal'.pc = pc /\ removal'.snap = removal.snap
  <1>1. removal \in [pc : {"charge", "detach", "clear", "reset"}, snap : Row,
                     charge : ChargeType, analyses : Analyses]
    BY DEF TypeOK, RemovalType, IdleHandler
  <1> QED
    BY <1>1 DEF RemovalType

LEMMA ClearEffect ==
  ASSUME TypeOK, ClearCard
  PROVE  /\ removal.pc = "clear" /\ removal' \in RemovalType /\ project' \in Row
         /\ \E ok \in Outcomes :
              /\ CountError(ok)
              /\ ok => /\ project' = DetachHobbyCardForBillingFailure(project)
                       /\ removal'.pc = "reset" /\ removal'.snap = removal.snap
              /\ ~ok => project' = project /\ removal'.pc = "idle"
  <1>1. PICK ok \in Outcomes :
          /\ project' = IF ok THEN DetachHobbyCardForBillingFailure(project) ELSE project
          /\ removal' = IF ok THEN [removal EXCEPT !.pc = "reset"] ELSE IdleHandler
          /\ CountError(ok)
    BY DEF ClearCard
  <1>2. project' \in Row
    BY <1>1, TypeNumbers, DetachedRow
  <1>3. removal.pc = "clear"
    BY DEF ClearCard
  <1>4. CASE ok
    BY <1>1, <1>2, <1>3, <1>4, RemovalGoesOn
  <1>5. CASE ~ok
    BY <1>1, <1>2, <1>3, <1>5 DEF RemovalType, IdleHandler
  <1> QED
    BY <1>4, <1>5

LEMMA ResetEffect ==
  ASSUME TypeOK, ResetOnRemoval
  PROVE  /\ removal.pc = "reset" /\ removal.snap \in Row /\ removal' = IdleHandler /\ project' \in Row
         /\ \E ok \in Outcomes :
              /\ CountError(ok) /\ (~ok => project' = project)
              /\ ok => /\ project'.executions = 0 /\ project'.start = clock
                       /\ project'.end = IF removal.snap.end > clock
                                         THEN removal.snap.end ELSE clock + Period
         /\ project'.customer = project.customer /\ project'.card = project.card
         /\ project'.lastAttempt = project.lastAttempt /\ project'.failures = project.failures
  <1> DEFINE e == IF removal.snap.end > clock THEN removal.snap.end ELSE clock + Period
             q == ResetExecutionsThisPeriod(project, clock, e)
  <1>1. PICK ok \in Outcomes : project' = (IF ok THEN q ELSE project) /\ CountError(ok)
    BY DEF ResetOnRemoval
  <1>2. removal.pc = "reset" /\ removal.snap \in Row /\ removal' = IdleHandler
    BY HandlersHeld DEF ResetOnRemoval
  <1>3. clock \in Nat /\ e \in Nat /\ project \in Row
    <2>1. clock \in Nat /\ Period \in Nat /\ removal.snap.end \in Nat \union {-1}
      BY <1>2, TypeNumbers, Constants, RowFields DEF NULL
    <2>2. project \in Row
      BY TypeNumbers
    <2> QED
      BY <2>1, <2>2
  <1> HIDE DEF e
  <1>4. /\ q \in Row /\ q.executions = 0 /\ q.start = clock /\ q.end = e
        /\ q.customer = project.customer /\ q.card = project.card
        /\ q.lastAttempt = project.lastAttempt /\ q.failures = project.failures
    BY <1>3, ResetRow
  <1> HIDE DEF q
  <1>5. project' \in Row
    BY <1>1, <1>3, <1>4
  <1> QED
    BY <1>1, <1>2, <1>4, <1>5 DEF e

LEMMA InitTypes == Init => TypeOK
  <1> SUFFICES ASSUME Init PROVE TypeOK
    OBVIOUS
  <1>1. 0 \in 0 .. MaxClock /\ 0 \in 0 .. MaxCustomers /\ 0 \in 0 .. MaxCrashes /\ 0 \in 0 .. MaxErrors
    BY Constants
  <1>2. NewProject \in Row
    BY <1>1 DEF NewProject, Row, NULL, NoCustomer
  <1>3. IdleTick \in TickType /\ IdleHandler \in SetupType /\ IdleHandler \in HookType
        /\ IdleHandler \in RemovalType
    BY DEF IdleTick, IdleHandler, TickType, SetupType, HookType, RemovalType
  <1>4. analyzedAt \in [Groups -> Nat \union {NULL}] /\ request \in [Requests -> {"idle", "admitted"}]
        /\ tick \in [Schedulers -> TickType]
    BY <1>3 DEF Init
  <1>5. payments \in Seq(PaymentType)
    BY DEF Init
  <1>6. refusals \in Nat /\ cards \subseteq intents /\ intents \subseteq 1 .. customers
        /\ analysing \subseteq Groups
    BY DEF Init
  <1>7. /\ clock \in 0 .. MaxClock /\ customers \in 0 .. MaxCustomers
        /\ crashes \in 0 .. MaxCrashes /\ errors \in 0 .. MaxErrors
    BY <1>1 DEF Init
  <1>8. project \in Row /\ setup \in SetupType /\ hook \in HookType /\ removal \in RemovalType
    BY <1>2, <1>3 DEF Init
  <1> QED
    BY <1>4, <1>5, <1>6, <1>7, <1>8 DEF TypeOK

\* A step of a tick writes the row, its own state, the payments and the histories.
LEMMA TickTypes ==
  ASSUME TypeOK, NEW s \in Schedulers, Tick(s) \/ Crash(s)
  PROVE  TypeOK'
  <1>1. tick' \in [Schedulers -> TickType]
    <2>1. CASE ListProjectsForHobbyBillingTick(s)
      BY <2>1, ListEffect, HoldEffect, EndTickEffect
    <2>2. CASE Rollover(s)
      BY <2>2, RolloverEffect, EndTickEffect
    <2>3. CASE Price(s)
      BY <2>3, PriceEffect, HoldEffect, EndTickEffect
    <2>4. CASE ChargeOffSession(s)
      BY <2>4, ChargeOffSessionEffect, HoldEffect
    <2>5. CASE RecordAttempt(s)
      BY <2>5, RecordAttemptEffect, HoldEffect, EndTickEffect
    <2>6. CASE DetachCard(s)
      BY <2>6, DetachCardEffect, EndTickEffect
    <2>7. CASE Crash(s)
      BY <2>7, CrashEffect, HoldEffect
    <2> QED
      BY <2>1, <2>2, <2>3, <2>4, <2>5, <2>6, <2>7 DEF Tick
  <1>2. project' \in Row
    <2>1. CASE project' = project
      BY <2>1, TypeNumbers
    <2>2. CASE Rollover(s) \/ RecordAttempt(s) \/ DetachCard(s)
      BY <2>2, RolloverEffect, RecordAttemptEffect, DetachCardEffect
    <2> QED
      BY <2>1, <2>2 DEF Tick, Crash, ListProjectsForHobbyBillingTick, Price, ChargeOffSession
  <1>3. errors \in 0 .. MaxErrors /\ refusals \in Nat /\ crashes \in 0 .. MaxCrashes
        /\ payments \in Seq(PaymentType)
    BY DEF TypeOK
  <1>4. errors' \in 0 .. MaxErrors
    <2>1. CASE Rollover(s) \/ DetachCard(s) \/ RecordAttempt(s)
      BY <1>3, <2>1, RolloverEffect, DetachCardEffect, RecordAttemptEffect, Counted
    <2>2. CASE Price(s)
      BY <1>3, <2>2, PriceEffect, Counted
    <2>3. CASE ChargeOffSession(s)
      BY <2>3, ChargeOffSessionEffect
    <2>4. CASE ListProjectsForHobbyBillingTick(s) \/ Crash(s)
      BY <1>3, <2>4 DEF ListProjectsForHobbyBillingTick, Crash, faults
    <2> QED
      BY <2>1, <2>2, <2>3, <2>4 DEF Tick
  <1>5. refusals' \in Nat
    <2>1. CASE refusals' = refusals
      BY <1>3, <2>1
    <2>2. CASE ChargeOffSession(s)
      BY <1>3, <2>2, ChargeOffSessionEffect
    <2>3. CASE RecordAttempt(s)
      BY <1>3, <2>3 DEF RecordAttempt
    <2> QED
      BY <2>1, <2>2, <2>3
         DEF Tick, Crash, ListProjectsForHobbyBillingTick, Rollover, Price, DetachCard
  <1>6. crashes' \in 0 .. MaxCrashes
    BY <1>3, CrashEffect
       DEF Tick, ListProjectsForHobbyBillingTick, Rollover, Price, ChargeOffSession, RecordAttempt,
           DetachCard, faults
  <1>7. payments' \in Seq(PaymentType)
    BY <1>3, ChargeOffSessionEffect
       DEF Tick, Crash, ListProjectsForHobbyBillingTick, Rollover, Price, RecordAttempt,
           DetachCard, stripe
  <1>8. UNCHANGED <<clock, usage, handlers, customers, cards, intents>>
    BY DEF Tick, Crash, ListProjectsForHobbyBillingTick, Rollover, Price, ChargeOffSession,
           RecordAttempt, DetachCard, stripe
  <1> QED
    BY <1>1, <1>2, <1>4, <1>5, <1>6, <1>7, <1>8 DEF TypeOK, usage, handlers

LEMMA UseTypes == ASSUME TypeOK, Use PROVE TypeOK'
  <1>1. errors \in 0 .. MaxErrors
    BY DEF TypeOK
  <1>2. ASSUME NEW r \in Requests, AdmitExecution(r) PROVE TypeOK'
    <2>1. PICK ok \in Outcomes : CountError(ok)
      BY <1>2 DEF AdmitExecution
    <2>2. errors' \in 0 .. MaxErrors
      BY <1>1, <2>1, Counted
    <2>3. request' \in [Requests -> {"idle", "admitted"}]
      BY <1>2 DEF AdmitExecution, TypeOK
    <2> QED
      BY <1>2, <2>2, <2>3 DEF AdmitExecution, TypeOK, handlers, stripe
  <1>3. ASSUME NEW r \in Requests, CountExecution(r) PROVE TypeOK'
    <2>1. PICK ok \in Outcomes :
            /\ project' = IF ok THEN [project EXCEPT !.executions = @ + 1] ELSE project
            /\ CountError(ok)
      BY <1>3 DEF CountExecution
    <2>2. errors' \in 0 .. MaxErrors
      BY <1>1, <2>1, Counted
    <2>3. request' \in [Requests -> {"idle", "admitted"}]
      BY <1>3 DEF CountExecution, TypeOK
    <2>4. project' \in Row
      BY <2>1, TypeNumbers, CountedRow
    <2> QED
      BY <1>3, <2>2, <2>3, <2>4 DEF CountExecution, TypeOK, handlers, stripe
  <1>4. ASSUME NEW g \in Groups, HandleAnalyzeFailureGroup(g) PROVE TypeOK'
    <2>1. analysing' \subseteq Groups
      BY <1>4 DEF HandleAnalyzeFailureGroup, TypeOK
    <2> QED
      BY <1>4, <2>1 DEF HandleAnalyzeFailureGroup, TypeOK, handlers, stripe, faults
  <1>5. ASSUME NEW g \in Groups, SaveFailureGroupAnalysis(g) PROVE TypeOK'
    <2>1. PICK ok \in Outcomes :
            /\ analyzedAt' = IF ok THEN [analyzedAt EXCEPT ![g] = clock] ELSE analyzedAt
            /\ CountError(ok)
      BY <1>5 DEF SaveFailureGroupAnalysis
    <2>2. errors' \in 0 .. MaxErrors
      BY <1>1, <2>1, Counted
    <2>3. analyzedAt' \in [Groups -> Nat \union {NULL}]
      BY <2>1, TypeNumbers DEF TypeOK
    <2>4. analysing' \subseteq Groups
      BY <1>5 DEF SaveFailureGroupAnalysis, TypeOK
    <2> QED
      BY <1>5, <2>2, <2>3, <2>4 DEF SaveFailureGroupAnalysis, TypeOK, handlers, stripe
  <1> QED
    BY <1>2, <1>3, <1>4, <1>5 DEF Use

LEMMA CardTypes == ASSUME TypeOK, Card PROVE TypeOK'
  <1>1. errors \in 0 .. MaxErrors /\ IdleHandler \in SetupType /\ IdleHandler \in HookType
        /\ IdleHandler \in RemovalType /\ [pc |-> "mark"] \in HookType
        /\ [pc |-> "bootstrap"] \in HookType
    BY DEF TypeOK, SetupType, HookType, RemovalType, IdleHandler
  <1>2. CASE HandleCreateSetupCheckout
    <2>1. /\ customers' \in 0 .. MaxCustomers /\ setup' \in SetupType /\ customers' = customers + 1
      BY <1>2, CreateSetupEffect
    <2>2. 1 .. customers \subseteq 1 .. customers'
      BY <2>1, TypeNumbers
    <2> QED
      BY <1>2, <2>1, <2>2 DEF HandleCreateSetupCheckout, TypeOK, usage, faults
  <1>3. CASE PersistCustomer
    <2>1. setup' \in SetupType /\ project' \in Row /\ errors' \in 0 .. MaxErrors
      BY <1>1, <1>3, PersistEffect, Counted
    <2> QED
      BY <1>3, <2>1 DEF PersistCustomer, TypeOK, usage, stripe
  <1>4. ASSUME NEW c \in 1 .. MaxCustomers, CompleteCheckout(c) PROVE TypeOK'
    <2>1. cards' \subseteq intents' /\ intents' \subseteq 1 .. customers
      BY <1>4 DEF CompleteCheckout, TypeOK
    <2> QED
      BY <1>4, <2>1 DEF CompleteCheckout, TypeOK, usage, handlers, faults
  <1>5. ASSUME NEW c \in 1 .. MaxCustomers, HandleSetupIntentSucceeded(c) PROVE TypeOK'
    <2>1. hook' \in HookType
      BY <1>1, <1>5 DEF HandleSetupIntentSucceeded
    <2> QED
      BY <1>5, <2>1 DEF HandleSetupIntentSucceeded, TypeOK, usage, stripe, faults
  <1>6. CASE BootstrapBounds
    <2>1. hook' \in HookType /\ project' \in Row /\ errors' \in 0 .. MaxErrors
      BY <1>1, <1>6, BootstrapEffect, Counted
    <2> QED
      BY <1>6, <2>1 DEF BootstrapBounds, TypeOK, usage, stripe
  <1>7. CASE MarkCardAttached
    <2>1. PICK ok \in Outcomes :
            project' = (IF ok THEN [project EXCEPT !.card = TRUE] ELSE project) /\ CountError(ok)
      BY <1>7 DEF MarkCardAttached
    <2>2. project' \in Row /\ errors' \in 0 .. MaxErrors
      BY <1>1, <2>1, MarkedRow, TypeNumbers, Counted
    <2>3. hook' \in HookType
      BY <1>1, <1>7 DEF MarkCardAttached
    <2> QED
      BY <1>7, <2>2, <2>3 DEF MarkCardAttached, TypeOK, usage, stripe
  <1>8. CASE HandleRemovePaymentMethod
    <2>1. removal' \in RemovalType
      BY <1>8, RemoveEffect
    <2> QED
      BY <1>8, <2>1 DEF HandleRemovePaymentMethod, TypeOK, usage, stripe, faults
  <1>9. CASE SettleOnRemoval
    <2>1. removal' \in RemovalType /\ errors' \in 0 .. MaxErrors /\ payments' \in Seq(PaymentType)
      BY <1>9, SettleEffect
    <2> QED
      BY <1>9, <2>1 DEF SettleOnRemoval, TypeOK, usage
  <1>10. CASE DetachAtStripe
    <2>1. PICK ok \in Outcomes :
            cards' = (IF ok THEN cards \ {removal.snap.customer} ELSE cards) /\ CountError(ok)
      BY <1>10 DEF DetachAtStripe
    <2>2. errors' \in 0 .. MaxErrors
      BY <1>1, <2>1, Counted
    <2>3. removal' \in RemovalType
      <3>1. removal.pc # "idle" /\ removal' = [removal EXCEPT !.pc = "clear"]
        BY <1>10 DEF DetachAtStripe
      <3> QED
        BY <3>1, RemovalGoesOn
    <2>4. cards' \subseteq intents
      BY <2>1 DEF TypeOK
    <2> QED
      BY <1>10, <2>2, <2>3, <2>4 DEF DetachAtStripe, TypeOK, usage
  <1>11. CASE ClearCard
    <2>1. removal' \in RemovalType /\ project' \in Row /\ errors' \in 0 .. MaxErrors
      BY <1>1, <1>11, ClearEffect, Counted
    <2> QED
      BY <1>11, <2>1 DEF ClearCard, TypeOK, usage, stripe
  <1>12. CASE ResetOnRemoval
    <2>1. removal' \in RemovalType /\ project' \in Row /\ errors' \in 0 .. MaxErrors
      BY <1>1, <1>12, ResetEffect, Counted
    <2> QED
      BY <1>12, <2>1 DEF ResetOnRemoval, TypeOK, usage, stripe
  <1> QED
    BY <1>2, <1>3, <1>4, <1>5, <1>6, <1>7, <1>8, <1>9, <1>10, <1>11, <1>12 DEF Card

LEMMA NextTypes == TypeOK /\ [Next]_vars => TypeOK'
  <1> SUFFICES ASSUME TypeOK, [Next]_vars PROVE TypeOK'
    OBVIOUS
  <1>1. CASE Day
    <2>1. clock' \in 0 .. MaxClock
      BY <1>1, Constants DEF Day, TypeOK
    <2> QED
      BY <1>1, <2>1 DEF Day, TypeOK, usage, handlers, stripe, faults
  <1>2. CASE UNCHANGED vars
    BY <1>2 DEF vars, TypeOK, usage, handlers, stripe, faults
  <1> QED
    BY <1>1, <1>2, UseTypes, TickTypes, CardTypes DEF Next

\* The row, what ticks, requests and webhooks hold of it, and what Stripe keeps are always
\* of their types.
THEOREM BillingTypes == Spec => []TypeOK
  <1> QED
    BY InitTypes, NextTypes, PTL DEF Spec

-----------------------------------------------------------------------------
(* The meter stops.                                                        *)

LEMMA AdmittedFinite ==
  /\ IsFiniteSet(Admitted) /\ Cardinality(Admitted) \in Nat
  /\ Cardinality(Requests) \in Nat /\ Cardinality(Admitted) <= Cardinality(Requests)
  <1>1. Admitted \subseteq Requests
    BY DEF Admitted
  <1> QED
    BY <1>1, ConstantsAssumption, FS_Subset, FS_CardinalityType

\* A step that admits nobody and counts nothing.
LEMMA MeterKept ==
  ASSUME MeterInv, TypeOK', UNCHANGED request, errors <= errors',
         project'.executions \in {project.executions, 0},
         intents' = {} => intents = {} /\ (project'.card => project.card) /\ hook'.pc = hook.pc
  PROVE  MeterInv'
  <1>1. Admitted' = Admitted
    BY DEF Admitted
  <1> DEFINE n == Cardinality(Admitted)
             R == Cardinality(Requests)
  <1>2. n \in Nat /\ R \in Nat /\ n <= R
    BY AdmittedFinite
  <1>3. /\ project.executions \in Nat /\ Included \in Nat /\ BillingCapUSD \in Nat
        /\ errors \in Nat /\ errors' \in Nat
    <2>1. TypeOK /\ errors' \in 0 .. MaxErrors
      BY DEF MeterInv, TypeOK
    <2> QED
      BY <2>1, TypeNumbers, RowFields, Constants
  <1>4. /\ BillingCapUSD > 0 => project.executions + n < Included + BillingCapUSD + R + errors
        /\ intents = {} => project.executions + n <= Included + R + errors
    BY DEF MeterInv
  <1> HIDE DEF n, R
  <1>5. /\ BillingCapUSD > 0 => project'.executions + n < Included + BillingCapUSD + R + errors'
        /\ intents = {} => project'.executions + n <= Included + R + errors'
    <2>1. CASE project'.executions = 0
      BY <1>2, <1>3, <2>1
    <2>2. CASE project'.executions = project.executions
      BY <1>2, <1>3, <1>4, <2>2
    <2> QED
      BY <2>1, <2>2
  <1>6. intents' = {} => ~project'.card /\ hook'.pc = "idle"
    BY DEF MeterInv
  <1> QED
    BY <1>1, <1>5, <1>6 DEF MeterInv, n, R

LEMMA Sums ==
  ASSUME NEW e \in Nat, NEW n \in Nat, NEW R \in Nat, NEW x \in Nat, NEW a \in Nat, NEW b \in Nat,
         n + 1 <= R
  PROVE  /\ e < a + b => e + (n + 1) < a + b + R + x
         /\ e <= a => e + (n + 1) <= a + R + x
  OBVIOUS

LEMMA MeterAdmits ==
  ASSUME MeterInv, TypeOK', NEW r \in Requests, AdmitExecution(r)
  PROVE  MeterInv'
  <1> DEFINE n == Cardinality(Admitted)
             R == Cardinality(Requests)
             e == project.executions
  <1>1. r \notin Admitted /\ Admitted' = Admitted \union {r}
    BY DEF AdmitExecution, Admitted, MeterInv, TypeOK
  <1>2. n \in Nat /\ R \in Nat /\ Cardinality(Admitted') = n + 1
    BY <1>1, AdmittedFinite, FS_AddElement
  <1>3. Cardinality(Admitted') <= R
    <2>1. Admitted' \subseteq Requests
      BY DEF Admitted
    <2> QED
      BY <2>1, ConstantsAssumption, FS_Subset
  <1>4. /\ e \in Nat /\ Included \in Nat /\ BillingCapUSD \in Nat /\ errors \in Nat /\ project \in Row
        /\ project.card \in BOOLEAN
    BY TypeNumbers, RowFields, Constants DEF MeterInv
  <1>5. /\ BillingCapUSD > 0 => e + n < Included + BillingCapUSD + R + errors
        /\ intents = {} => e + n <= Included + R + errors
        /\ intents = {} => ~project.card /\ hook.pc = "idle"
    BY DEF MeterInv
  <1>6. PICK ok \in Outcomes : (ok => ~CapExceeded(project)) /\ CountError(ok)
    BY DEF AdmitExecution
  <1>7. errors' \in Nat /\ errors <= errors' /\ (~ok => errors' = errors + 1) /\ ok \in BOOLEAN
    <2>1. errors \in 0 .. MaxErrors
      BY DEF MeterInv, TypeOK
    <2> QED
      BY <1>4, <1>6, <2>1, Counted, Constants
  <1>8. ok => /\ BillingCapUSD > 0 => e < Included + BillingCapUSD
              /\ ~project.card => e <= Included
    BY <1>4, <1>6, OverEffect DEF CapExceeded
  <1>9. UNCHANGED <<project, intents, hook>>
    BY DEF AdmitExecution, handlers, stripe
  <1> HIDE DEF n, R, e
  <1>10. /\ BillingCapUSD > 0 => e + (n + 1) < Included + BillingCapUSD + R + errors'
         /\ intents = {} => e + (n + 1) <= Included + R + errors'
    <2>1. CASE ok
      <3>1. n + 1 <= R
        BY <1>2, <1>3
      <3>2. intents = {} => e <= Included
        BY <1>5, <1>8, <2>1
      <3>3. BillingCapUSD > 0 => e < Included + BillingCapUSD
        BY <1>8, <2>1
      <3> QED
        BY <1>2, <1>4, <1>7, <3>1, <3>2, <3>3, Sums
    <2>2. CASE ~ok
      BY <1>2, <1>4, <1>5, <1>7, <2>2
    <2> QED
      BY <2>1, <2>2
  <1> QED
    BY <1>2, <1>5, <1>9, <1>10 DEF MeterInv, R, e

LEMMA MeterCounts ==
  ASSUME MeterInv, TypeOK', NEW r \in Requests, CountExecution(r)
  PROVE  MeterInv'
  <1> DEFINE n == Cardinality(Admitted)
             R == Cardinality(Requests)
             e == project.executions
  <1>1. r \in Admitted /\ Admitted' = Admitted \ {r}
    BY DEF CountExecution, Admitted, MeterInv, TypeOK
  <1>2. n \in Nat /\ R \in Nat /\ n \in Nat \ {0} /\ Cardinality(Admitted') = n - 1
    <2>1. n \in Nat /\ R \in Nat /\ Cardinality(Admitted') = n - 1
      BY <1>1, AdmittedFinite, FS_RemoveElement
    <2>2. n # 0
      BY <1>1, AdmittedFinite, FS_EmptySet
    <2> QED
      BY <2>1, <2>2
  <1>3. /\ e \in Nat /\ Included \in Nat /\ BillingCapUSD \in Nat /\ errors \in Nat /\ project \in Row
    BY TypeNumbers, RowFields, Constants DEF MeterInv
  <1>4. /\ BillingCapUSD > 0 => e + n < Included + BillingCapUSD + R + errors
        /\ intents = {} => e + n <= Included + R + errors
        /\ intents = {} => ~project.card /\ hook.pc = "idle"
    BY DEF MeterInv
  <1>5. PICK ok \in Outcomes :
          /\ project' = IF ok THEN [project EXCEPT !.executions = @ + 1] ELSE project
          /\ CountError(ok)
    BY DEF CountExecution
  <1>6. errors' \in Nat /\ errors <= errors'
    <2>1. errors \in 0 .. MaxErrors
      BY DEF MeterInv, TypeOK
    <2> QED
      BY <1>3, <1>5, <2>1, Counted, Constants
  <1>7. project'.executions \in {e, e + 1} /\ project'.card = project.card
    BY <1>3, <1>5, CountedRow
  <1>8. UNCHANGED <<intents, hook>>
    BY DEF CountExecution, handlers, stripe
  <1> HIDE DEF n, R, e
  <1>9. /\ BillingCapUSD > 0 => project'.executions + (n - 1) < Included + BillingCapUSD + R + errors'
        /\ intents = {} => project'.executions + (n - 1) <= Included + R + errors'
    BY <1>2, <1>3, <1>4, <1>6, <1>7
  <1> QED
    BY <1>2, <1>4, <1>7, <1>8, <1>9 DEF MeterInv, R

\* No failed statement is taken back.
LEMMA ErrorsGrow ==
  ASSUME TypeOK, [Next]_vars
  PROVE  errors <= errors'
  <1> DEFINE Same == errors' = errors
             Counts == \E ok \in Outcomes : CountError(ok)
  <1>1. errors \in 0 .. MaxErrors /\ errors \in Nat
    BY TypeNumbers DEF TypeOK
  <1>2. CASE Same
    BY <1>1, <1>2
  <1>3. CASE Counts
    BY <1>1, <1>3, Counted
  <1>4. CASE Day \/ UNCHANGED vars
    <2>1. Same
      BY <1>4 DEF Day, vars, faults
    <2> QED
      BY <1>2, <2>1
  <1>5. CASE Use
    <2>1. Same \/ Counts
      BY <1>5 DEF Use, AdmitExecution, CountExecution, HandleAnalyzeFailureGroup,
                  SaveFailureGroupAnalysis, faults
    <2> QED
      BY <1>2, <1>3, <2>1
  <1>6. ASSUME NEW s \in Schedulers, Tick(s) \/ Crash(s) PROVE errors <= errors'
    <2>1. CASE ListProjectsForHobbyBillingTick(s) \/ Crash(s)
      <3>1. Same
        BY <2>1 DEF ListProjectsForHobbyBillingTick, Crash, faults
      <3> QED
        BY <1>2, <3>1
    <2>2. CASE Price(s)
      <3>1. Same \/ Counts
        BY <2>2, PriceEffect
      <3> QED
        BY <1>2, <1>3, <3>1
    <2>3. CASE Rollover(s) \/ RecordAttempt(s) \/ DetachCard(s)
      <3>1. Counts
        BY <2>3, RolloverEffect, RecordAttemptEffect, DetachCardEffect
      <3> QED
        BY <1>3, <3>1
    <2>4. CASE ChargeOffSession(s)
      BY <2>4, ChargeOffSessionEffect
    <2> QED
      BY <1>6, <2>1, <2>2, <2>3, <2>4 DEF Tick
  <1>7. CASE Card
    <2>1. CASE SettleOnRemoval
      BY <2>1, SettleEffect
    <2>2. CASE ~SettleOnRemoval
      <3>1. Same \/ Counts
        BY <1>7, <2>2 DEF Card, HandleCreateSetupCheckout, PersistCustomer, CompleteCheckout,
             HandleSetupIntentSucceeded, BootstrapBounds, MarkCardAttached,
             HandleRemovePaymentMethod, DetachAtStripe, ClearCard, ResetOnRemoval, faults
      <3> QED
        BY <1>2, <1>3, <3>1
    <2> QED
      BY <2>1, <2>2
  <1> QED
    BY <1>4, <1>5, <1>6, <1>7 DEF Next

LEMMA MeterStep == MeterInv /\ [Next]_vars => MeterInv'
  <1> SUFFICES ASSUME MeterInv, [Next]_vars PROVE MeterInv'
    OBVIOUS
  <1>1. TypeOK /\ TypeOK' /\ errors <= errors'
    BY NextTypes, ErrorsGrow DEF MeterInv
  <1>2. project \in Row /\ (intents = {} => ~project.card /\ hook.pc = "idle")
    BY <1>1, TypeNumbers DEF MeterInv
  <1> DEFINE Same == /\ UNCHANGED <<request, intents, hook>>
                     /\ project'.executions \in {project.executions, 0}
                     /\ project'.card => project.card
  <1>3. CASE Same
    BY <1>1, <1>3, MeterKept
  <1>4. CASE Day \/ UNCHANGED vars
    <2>1. Same
      BY <1>4 DEF Day, vars, usage, handlers, stripe
    <2> QED
      BY <1>3, <2>1
  <1>5. CASE Use
    <2>1. ASSUME NEW g \in Groups, HandleAnalyzeFailureGroup(g) \/ SaveFailureGroupAnalysis(g)
          PROVE  MeterInv'
      <3>1. Same
        BY <2>1 DEF HandleAnalyzeFailureGroup, SaveFailureGroupAnalysis, handlers, stripe
      <3> QED
        BY <1>3, <3>1
    <2> QED
      BY <1>1, <1>5, <2>1, MeterAdmits, MeterCounts DEF Use
  <1>6. ASSUME NEW s \in Schedulers, Tick(s) \/ Crash(s) PROVE MeterInv'
    <2>1. UNCHANGED <<request, intents, hook>>
      BY <1>6 DEF Tick, Crash, ListProjectsForHobbyBillingTick, Rollover, Price, ChargeOffSession,
                  RecordAttempt, DetachCard, usage, handlers, stripe
    <2>2. project'.executions \in {project.executions, 0} /\ (project'.card => project.card)
      <3>1. CASE Rollover(s)
        BY <1>1, <3>1, RolloverEffect
      <3>2. CASE RecordAttempt(s)
        BY <1>1, <3>2, RecordAttemptEffect
      <3>3. CASE DetachCard(s)
        BY <1>1, <1>2, <3>3, DetachCardEffect, DetachedRow
      <3>4. CASE project' = project
        BY <3>4
      <3> QED
        BY <1>6, <3>1, <3>2, <3>3, <3>4
           DEF Tick, Crash, ListProjectsForHobbyBillingTick, Price, ChargeOffSession
    <2> QED
      BY <1>3, <2>1, <2>2
  <1>7. CASE HandleCreateSetupCheckout
    <2>1. Same
      BY <1>7 DEF HandleCreateSetupCheckout, usage
    <2> QED
      BY <1>3, <2>1
  <1>8. CASE PersistCustomer
    <2>1. Same
      BY <1>1, <1>8, PersistEffect DEF PersistCustomer, usage, stripe
    <2> QED
      BY <1>3, <2>1
  <1>9. ASSUME NEW c \in 1 .. MaxCustomers, CompleteCheckout(c) \/ HandleSetupIntentSucceeded(c)
        PROVE  MeterInv'
    <2>1. UNCHANGED <<project, request>> /\ intents' # {}
      BY <1>9 DEF CompleteCheckout, HandleSetupIntentSucceeded, usage, stripe
    <2> QED
      BY <1>1, <2>1, MeterKept
  <1>10. CASE BootstrapBounds \/ MarkCardAttached
    <2>1. intents # {} /\ UNCHANGED <<request, intents>>
      BY <1>2, <1>10 DEF BootstrapBounds, MarkCardAttached, usage, stripe
    <2>2. project'.executions \in {project.executions, 0}
      <3>1. CASE BootstrapBounds
        BY <1>1, <3>1, BootstrapEffect
      <3>2. CASE MarkCardAttached
        BY <1>2, <3>2, MarkedRow DEF MarkCardAttached
      <3> QED
        BY <1>10, <3>1, <3>2
    <2> QED
      BY <1>1, <2>1, <2>2, MeterKept
  <1>11. CASE HandleRemovePaymentMethod \/ SettleOnRemoval \/ DetachAtStripe
    <2>1. Same
      BY <1>11 DEF HandleRemovePaymentMethod, SettleOnRemoval, DetachAtStripe, usage, stripe
    <2> QED
      BY <1>3, <2>1
  <1>12. CASE ClearCard
    <2>1. Same
      BY <1>1, <1>2, <1>12, ClearEffect, DetachedRow DEF ClearCard, usage, stripe
    <2> QED
      BY <1>3, <2>1
  <1>13. CASE ResetOnRemoval
    <2>1. Same
      BY <1>1, <1>13, ResetEffect DEF ResetOnRemoval, usage, stripe
    <2> QED
      BY <1>3, <2>1
  <1> QED
    BY <1>4, <1>5, <1>6, <1>7, <1>8, <1>9, <1>10, <1>11, <1>12, <1>13 DEF Next, Card

LEMMA MeterInit == Init => MeterInv
  <1> SUFFICES ASSUME Init PROVE MeterInv
    OBVIOUS
  <1>1. TypeOK
    BY InitTypes
  <1>2. Admitted = {} /\ Cardinality(Admitted) = 0
    BY FS_EmptySet DEF Init, Admitted
  <1>3. /\ Included \in Nat /\ BillingCapUSD \in Nat /\ Cardinality(Requests) \in Nat
    BY Constants, AdmittedFinite
  <1>4. /\ project.executions = 0 /\ ~project.card /\ hook.pc = "idle" /\ errors = 0
    BY DEF Init, NewProject, IdleHandler
  <1> QED
    BY <1>1, <1>2, <1>3, <1>4 DEF MeterInv

\* However many requests pass the check side by side, ingest runs past the cap by no more than
\* those in flight and the statements that failed, and past the free quota only for a project
\* whose owner has set up a card.
THEOREM MeteringStops == Spec => []MeterStops
  <1>1. MeterInv => MeterStops
    <2> SUFFICES ASSUME MeterInv PROVE MeterStops
      OBVIOUS
    <2> DEFINE n == Cardinality(Admitted)
               R == Cardinality(Requests)
    <2>1. n \in Nat /\ R \in Nat
      BY AdmittedFinite
    <2>2. /\ project.executions \in Nat /\ Included \in Nat /\ BillingCapUSD \in Nat /\ errors \in Nat
      BY TypeNumbers, RowFields, Constants DEF MeterInv
    <2>3. /\ BillingCapUSD > 0 => project.executions + n < Included + BillingCapUSD + R + errors
          /\ intents = {} => project.executions + n <= Included + R + errors
      BY DEF MeterInv
    <2> HIDE DEF n, R
    <2>4. /\ BillingCapUSD > 0 => project.executions < Included + BillingCapUSD + (R + errors)
          /\ intents = {} => project.executions <= Included + (R + errors)
      BY <2>1, <2>2, <2>3
    <2> QED
      BY <2>4 DEF MeterStops, R
  <1> QED
    BY <1>1, MeterInit, MeterStep, PTL DEF Spec

-----------------------------------------------------------------------------
(* The ceiling, for a lone scheduler: with two, one refusal can be counted   *)
(* by both of them.                                                        *)

LoneScheduler == \A p, q \in Schedulers : p = q

\* What happens beside the ticks adds no failure.
LEMMA FailuresBeside ==
  ASSUME TypeOK, Day \/ Use \/ Card \/ UNCHANGED vars
  PROVE  /\ UNCHANGED <<tick, refusals>>
         /\ project'.failures \in {project.failures, 0}
  <1>1. project \in Row
    BY TypeNumbers
  <1>2. CASE Day \/ UNCHANGED vars
    BY <1>2 DEF Day, vars
  <1>3. CASE Use
    BY <1>1, <1>3, CountedRow
       DEF Use, AdmitExecution, CountExecution, HandleAnalyzeFailureGroup, SaveFailureGroupAnalysis
  <1>4. CASE Card
    <2>1. CASE PersistCustomer
      BY <2>1, PersistEffect DEF PersistCustomer
    <2>2. CASE BootstrapBounds
      BY <2>2, BootstrapEffect DEF BootstrapBounds
    <2>3. CASE MarkCardAttached
      BY <1>1, <2>3, MarkedRow DEF MarkCardAttached
    <2>4. CASE ClearCard
      BY <1>1, <2>4, ClearEffect, DetachedRow DEF ClearCard
    <2>5. CASE ResetOnRemoval
      BY <2>5, ResetEffect DEF ResetOnRemoval
    <2>6. CASE HandleCreateSetupCheckout \/ HandleRemovePaymentMethod \/ SettleOnRemoval \/ DetachAtStripe
      BY <2>6 DEF HandleCreateSetupCheckout, HandleRemovePaymentMethod, SettleOnRemoval, DetachAtStripe
    <2>7. CASE \E c \in 1 .. MaxCustomers : CompleteCheckout(c) \/ HandleSetupIntentSucceeded(c)
      BY <2>7 DEF CompleteCheckout, HandleSetupIntentSucceeded
    <2> QED
      BY <1>4, <2>1, <2>2, <2>3, <2>4, <2>5, <2>6, <2>7 DEF Card
  <1> QED
    BY <1>2, <1>3, <1>4

\* A step of the only tick there is.
LEMMA RefusedTick ==
  ASSUME RefusedInv, TypeOK', NEW s \in Schedulers, LoneScheduler, Tick(s) \/ Crash(s)
  PROVE  RefusedInv'
  <1>1. /\ TypeOK /\ refusals \in Nat /\ project.failures \in Nat /\ project.failures <= refusals
        /\ project \in Row /\ FailureCeiling \in Nat
    BY TypeNumbers, RowFields, Constants DEF RefusedInv
  <1>2. \A t \in Schedulers : t = s
    BY DEF LoneScheduler
  <1> DEFINE Fits(t, f, n) == /\ t.pc \in {"listed", "charge"} => t.snap.failures <= n
                              /\ t.pc = "refused" => t.snap.failures < n /\ f < n
                              /\ t.pc = "detach" => n >= FailureCeiling
  <1>3. Fits(tick[s], project.failures, refusals)
    BY DEF RefusedInv, At
  <1>4. SUFFICES project'.failures <= refusals' /\ Fits(tick'[s], project'.failures, refusals')
    BY <1>2 DEF RefusedInv, At
  <1>5. CASE ListProjectsForHobbyBillingTick(s)
    <2>1. project' = project /\ refusals' = refusals
      BY <1>5 DEF ListProjectsForHobbyBillingTick
    <2>2. CASE EndTick(s)
      BY <1>1, <2>1, <2>2, EndTickEffect
    <2>3. CASE ~EndTick(s)
      <3>1. PICK t \in TickType : Hold(s, t) /\ t.pc = "listed" /\ t.snap = project
        BY <1>1, <1>5, <2>3, ListEffect
      <3> QED
        BY <1>1, <2>1, <3>1, HoldEffect
    <2> QED
      BY <2>2, <2>3
  <1>6. CASE Rollover(s)
    <2>1. project'.failures = project.failures /\ refusals' = refusals
      BY <1>1, <1>6, RolloverEffect DEF Rollover
    <2>2. EndTick(s)
      BY <1>6 DEF Rollover
    <2> QED
      BY <1>1, <2>1, <2>2, EndTickEffect
  <1>7. CASE Price(s)
    <2>1. project' = project /\ refusals' = refusals
      BY <1>7 DEF Price
    <2>2. At(s, "listed") /\ tick[s].snap \in Row
      BY <1>1, <1>7, PriceEffect
    <2>3. CASE EndTick(s)
      BY <1>1, <2>1, <2>3, EndTickEffect
    <2>4. CASE ~EndTick(s)
      <3>1. PICK t \in TickType : Hold(s, t) /\ t.snap = tick[s].snap /\ t.pc \in {"rollover", "charge"}
        BY <1>1, <1>7, <2>4, PriceEffect
      <3>2. tick'[s] = t
        BY <1>1, <3>1, HoldEffect
      <3> QED
        BY <1>1, <1>3, <2>1, <2>2, <3>1, <3>2 DEF At
    <2> QED
      BY <2>3, <2>4
  <1>8. CASE ChargeOffSession(s)
    <2>1. project' = project
      BY <1>8 DEF ChargeOffSession
    <2>2. At(s, "charge") /\ tick[s].snap \in Row
      BY <1>1, <1>8, ChargeOffSessionEffect
    <2>3. PICK t \in TickType :
            /\ Hold(s, t) /\ t.snap = tick[s].snap
            /\ \/ t.pc = "charged" /\ refusals' = refusals
               \/ t.pc = "refused" /\ refusals' = refusals + 1
      BY <1>1, <1>8, ChargeOffSessionEffect
    <2>4. tick'[s] = t
      BY <1>1, <2>3, HoldEffect
    <2>5. t.snap.failures \in Nat /\ t.snap.failures <= refusals
      BY <1>3, <2>2, <2>3, RowFields DEF At
    <2> QED
      BY <1>1, <2>1, <2>3, <2>4, <2>5
  <1>9. CASE RecordAttempt(s)
    <2>1. PICK ok \in Outcomes :
              /\ ~ok => project' = project /\ refusals' = refusals
              /\ ok => /\ At(s, "charged") => project'.failures = 0 /\ refusals' = 0
                       /\ At(s, "refused") => project'.failures = project.failures + 1
                                              /\ refusals' = refusals
      BY <1>1, <1>9, RecordAttemptEffect
    <2>2. ok \in BOOLEAN
      BY DEF Outcomes
    <2>3. CASE At(s, "charged")
      <3>1. PICK t \in TickType : Hold(s, t) /\ t.pc = "rollover"
        BY <1>1, <1>9, <2>3, RecordAttemptEffect DEF At
      <3>2. tick'[s] = t
        BY <1>1, <3>1, HoldEffect
      <3>3. project'.failures <= refusals'
        BY <1>1, <2>1, <2>2, <2>3
      <3> QED
        BY <3>1, <3>2, <3>3
    <2>4. CASE At(s, "refused")
      <3>1. /\ tick[s].snap.failures \in Nat /\ tick[s].snap.failures < refusals
            /\ project.failures < refusals
        BY <1>1, <1>3, <1>9, <2>4, RecordAttemptEffect, RowFields DEF At
      <3>2. project'.failures <= refusals' /\ refusals' = refusals
        BY <1>1, <2>1, <2>2, <2>4, <3>1
      <3>3. CASE EndTick(s)
        BY <1>1, <3>2, <3>3, EndTickEffect
      <3>4. CASE ~EndTick(s)
        <4>1. PICK t \in TickType : Hold(s, t) /\ t.pc = "detach" /\ CeilingReached(tick[s].snap)
          BY <1>1, <1>9, <2>4, <3>4, RecordAttemptEffect DEF At
        <4>2. tick'[s] = t
          BY <1>1, <4>1, HoldEffect
        <4>3. refusals >= FailureCeiling
          BY <1>1, <3>1, <4>1 DEF CeilingReached
        <4> QED
          BY <3>2, <4>1, <4>2, <4>3
      <3> QED
        BY <3>3, <3>4
    <2> QED
      BY <1>1, <1>9, <2>3, <2>4, RecordAttemptEffect
  <1>10. CASE DetachCard(s)
    <2>1. EndTick(s) /\ refusals' = refusals
      BY <1>10 DEF DetachCard
    <2>2. project'.failures <= refusals
      <3>1. project' = project \/ project' = DetachHobbyCardForBillingFailure(project)
        BY <1>1, <1>10, DetachCardEffect DEF Outcomes
      <3>2. CASE project' = DetachHobbyCardForBillingFailure(project)
        <4>1. project'.failures = 0
          BY <1>1, <3>2, DetachedRow
        <4> QED
          BY <1>1, <4>1
      <3> QED
        BY <1>1, <3>1, <3>2
    <2> QED
      BY <1>1, <2>1, <2>2, EndTickEffect
  <1>11. CASE Crash(s)
    <2>1. project' = project /\ refusals' = refusals
      BY <1>11 DEF Crash
    <2>2. PICK t \in TickType : Hold(s, t) /\ t.pc = "idle"
      BY <1>1, <1>11, CrashEffect
    <2>3. tick'[s] = t
      BY <1>1, <2>2, HoldEffect
    <2> QED
      BY <1>1, <2>1, <2>2, <2>3
  <1> QED
    BY <1>5, <1>6, <1>7, <1>8, <1>9, <1>10, <1>11 DEF Tick

LEMMA RefusedStep == ASSUME LoneScheduler PROVE RefusedInv /\ [Next]_vars => RefusedInv'
  <1> SUFFICES ASSUME RefusedInv, [Next]_vars PROVE RefusedInv'
    OBVIOUS
  <1>1. TypeOK /\ TypeOK'
    BY NextTypes DEF RefusedInv
  <1>2. CASE Day \/ Use \/ Card \/ UNCHANGED vars
    <2>1. /\ UNCHANGED <<tick, refusals>> /\ project'.failures \in {project.failures, 0}
      BY <1>1, <1>2, FailuresBeside
    <2>2. project.failures \in Nat /\ refusals \in Nat /\ project.failures <= refusals
      BY <1>1, TypeNumbers, RowFields DEF RefusedInv
    <2>3. project'.failures <= refusals /\ project'.failures <= project.failures
          /\ project'.failures \in Nat
      BY <2>1, <2>2
    <2>4. \A s \in Schedulers :
            /\ At(s, "listed") \/ At(s, "charge") => tick[s].snap.failures <= refusals
            /\ At(s, "refused") => /\ tick[s].snap.failures < refusals
                                   /\ project'.failures < refusals
            /\ At(s, "detach") => refusals >= FailureCeiling
      BY <2>2, <2>3 DEF RefusedInv
    <2> QED
      BY <1>1, <2>1, <2>3, <2>4 DEF RefusedInv, At
  <1> QED
    BY <1>1, <1>2, RefusedTick DEF Next

\* A scheduler that works alone takes a card away only after as many refusals as the ceiling
\* says since a charge was last recorded as paid, whatever fails and whichever process dies.
THEOREM CeilingIsReached == ASSUME LoneScheduler PROVE Spec => []DetachesOnlyAtCeiling
  <1>1. Init => RefusedInv
    <2> SUFFICES ASSUME Init PROVE RefusedInv
      OBVIOUS
    <2>1. TypeOK
      BY InitTypes
    <2>2. project.failures = 0 /\ refusals = 0 /\ \A s \in Schedulers : tick[s].pc = "idle"
      BY DEF Init, NewProject, IdleTick
    <2> QED
      BY <2>1, <2>2 DEF RefusedInv, At
  <1>2. RefusedInv => DetachesOnlyAtCeiling
    BY DEF RefusedInv, DetachesOnlyAtCeiling
  <1> QED
    BY <1>1, <1>2, RefusedStep, PTL DEF Spec

-----------------------------------------------------------------------------
(* The cadence, for a lone scheduler: with two, one may be refused with the  *)
(* row the other has yet to record its attempt in.                         *)

LEMMA PaymentFields ==
  ASSUME TypeOK
  PROVE  /\ DOMAIN payments = 1 .. Len(payments) /\ Len(payments) \in Nat
         /\ Charges \subseteq 1 .. Len(payments)
         /\ \A i \in 1 .. Len(payments) : /\ payments[i] \in PaymentType
                                          /\ payments[i].at \in Nat
                                          /\ payments[i].charge.customer \in Nat
  <1>1. payments \in Seq(PaymentType)
    BY DEF TypeOK
  <1>2. DOMAIN payments = 1 .. Len(payments) /\ Len(payments) \in Nat
    BY <1>1
  <1>3. \A i \in 1 .. Len(payments) : payments[i] \in PaymentType
    BY <1>1
  <1>4. \A i \in 1 .. Len(payments) : payments[i].at \in Nat /\ payments[i].charge \in ChargeType
    BY <1>3 DEF PaymentType
  <1>5. \A i \in 1 .. Len(payments) : payments[i].charge.customer \in Nat
    BY <1>4, Constants DEF ChargeType
  <1>6. Charges \subseteq 1 .. Len(payments)
    BY <1>2 DEF Charges
  <1> QED
    BY <1>2, <1>3, <1>4, <1>5, <1>6

\* What a step beside the ticks may do to the row: take its customer, bring one who is new to
\* the ticks and was never charged, or keep it and how far its next attempt is off.
RowStep ==
    \/ project'.customer = NoCustomer
    \/ /\ ChargesOf(project'.customer) = {}
       /\ \A s \in Schedulers : At(s, "listed") \/ At(s, "charge") =>
                tick[s].snap.customer # project'.customer
    \/ /\ project'.customer = project.customer /\ project'.lastAttempt = project.lastAttempt
       /\ StillHolds(project', project) \/ project'.end >= clock + RetryCadence

LEMMA SpacedBeside ==
  ASSUME TypeOK, TypeOK', errors = 0, SpacedFacts, UNCHANGED <<clock, tick>>,
         Charges' = Charges, \A i \in Charges : payments'[i] = payments[i],
         \A g \in Groups : analyzedAt'[g] >= analyzedAt[g],
         RowStep
  PROVE  /\ RowKeepsOff' /\ AttemptsAreSpaced'
         /\ \A s \in Schedulers : SnapKeepsOff(s)' /\ TickHoldsRow(s)'
  <1>1. /\ clock \in Nat /\ project \in Row /\ project' \in Row /\ RetryCadence \in Nat
        /\ \A i \in Charges : payments[i].at \in Nat
        /\ \A g \in Groups : analyzedAt[g] \in Int /\ analyzedAt'[g] \in Int
    <2>1. \A g \in Groups : analyzedAt[g] \in Nat \union {-1} /\ analyzedAt'[g] \in Nat \union {-1}
      BY DEF TypeOK, NULL
    <2>2. \A g \in Groups : analyzedAt[g] \in Int /\ analyzedAt'[g] \in Int
      BY <2>1
    <2>3. project' \in Row
      BY DEF TypeOK
    <2> QED
      BY <2>2, <2>3, TypeNumbers, Constants, PaymentFields
  <1>2. \A c : ChargesOf(c)' = ChargesOf(c)
    BY DEF ChargesOf
  <1>3. \A p \in Row : /\ p.start \in Int /\ p.end \in Int /\ p.lastAttempt \in Int
                       /\ p.executions \in Nat /\ p.customer \in Nat
    <2> SUFFICES ASSUME NEW p \in Row
                 PROVE  /\ p.start \in Int /\ p.end \in Int /\ p.lastAttempt \in Int
                        /\ p.executions \in Nat /\ p.customer \in Nat
      OBVIOUS
    <2>1. p.start \in Nat \union {-1} /\ p.end \in Nat \union {-1} /\ p.lastAttempt \in Nat \union {-1}
          /\ p.executions \in Nat /\ p.customer \in 0 .. MaxCustomers
      BY RowFields DEF NULL
    <2> QED
      BY <2>1, Constants
  <1>4. \A p, q \in Row : p.start = q.start /\ p.executions >= q.executions /\ Costs(q) => Costs(p)'
    BY <1>1, <1>3, Constants DEF Costs
  <1>5. \A s \in Schedulers : ~At(s, "idle") => tick[s].snap \in Row
    BY TickHeld
  <1>6. ASSUME NEW s \in Schedulers PROVE SnapKeepsOff(s)'
    <2>1. CASE ~(At(s, "listed") \/ At(s, "charge"))
      BY <2>1 DEF SnapKeepsOff, At
    <2>2. CASE At(s, "listed") \/ At(s, "charge")
      <3> DEFINE p == tick[s].snap
      <3>1. p \in Row
        BY <1>5, <2>2 DEF At
      <3>2. /\ Due(p) => p.end <= clock
            /\ p.customer # NoCustomer =>
                  \A i \in ChargesOf(p.customer) : KeptOff(p, i) \/ Pending(p, i)
        BY <2>2 DEF SpacedFacts, SnapKeepsOff
      <3>3. Costs(p) => Costs(p)'
        BY <1>3, <1>4, <3>1
      <3>4. \A i \in ChargesOf(p.customer) : payments'[i] = payments[i]
        BY DEF ChargesOf
      <3>5. p' = p /\ clock' = clock
        OBVIOUS
      <3>6. \A i \in ChargesOf(p.customer) : Pending(p, i) => Pending(p, i)'
        BY <3>3, <3>4, <3>5 DEF Pending, PeriodKey, Due, TooSoon
      <3>7. \A i \in ChargesOf(p.customer) : KeptOff(p, i) => KeptOff(p, i)'
        BY <3>4, <3>5 DEF KeptOff
      <3>8. ChargesOf(p.customer)' = ChargesOf(p.customer)
        BY DEF ChargesOf
      <3>9. /\ Due(p)' => p'.end <= clock'
        BY <3>2, <3>5 DEF Due
      <3>10. p'.customer # NoCustomer =>
                 \A i \in ChargesOf(p.customer)' : KeptOff(p, i)' \/ Pending(p, i)'
        BY <3>2, <3>5, <3>6, <3>7, <3>8
      <3> QED
        BY <3>9, <3>10 DEF SnapKeepsOff
    <2> QED
      BY <2>1, <2>2
  <1>7. ASSUME NEW s \in Schedulers PROVE TickHoldsRow(s)'
    <2> DEFINE p == tick[s].snap
    <2>1. /\ tick' = tick /\ clock' = clock
      OBVIOUS
    <2>2. /\ At(s, "listed") \/ At(s, "charge") =>
              \/ project.customer # p.customer \/ p.customer = NoCustomer
              \/ /\ project.lastAttempt = p.lastAttempt
                 /\ StillHolds(project, p) \/ project.end >= clock + RetryCadence
          /\ At(s, "charge") =>
              /\ Due(p) /\ p.customer # NoCustomer /\ tick[s].charge.customer = p.customer
              /\ ~TooSoon(p) /\ Costs(p)
          /\ At(s, "charged") => Due(p)
          /\ At(s, "rollover") =>
              /\ Due(p)
              /\ project.customer # NoCustomer =>
                  \A i \in ChargesOf(project.customer) :
                      \/ project.lastAttempt >= payments[i].at
                      \/ p.end + Period >= payments[i].at + RetryCadence
          /\ ~At(s, "idle") /\ project.customer \notin {NoCustomer, p.customer} =>
              ChargesOf(project.customer) = {}
      BY DEF SpacedFacts, TickHoldsRow
    <2>3. ~At(s, "idle") => p \in Row
      BY <1>5
    <2>4. At(s, "listed") \/ At(s, "charge") =>
              \/ project'.customer # p.customer \/ p.customer = NoCustomer
              \/ /\ project'.lastAttempt = p.lastAttempt
                 /\ StillHolds(project', p) \/ project'.end >= clock + RetryCadence
      <3>1. CASE ~(At(s, "listed") \/ At(s, "charge"))
        BY <3>1
      <3>2. CASE project'.customer = NoCustomer
        BY <3>2
      <3>3. CASE /\ At(s, "listed") \/ At(s, "charge")
                 /\ p.customer # project'.customer
        BY <3>3
      <3>4. CASE /\ At(s, "listed") \/ At(s, "charge")
                 /\ project'.customer = project.customer /\ project'.lastAttempt = project.lastAttempt
                 /\ StillHolds(project', project) \/ project'.end >= clock + RetryCadence
        <4>1. p \in Row
          BY <2>3, <3>4 DEF At
        <4>2. StillHolds(project', project) /\ StillHolds(project, p) => StillHolds(project', p)
          BY <1>1, <1>3, <4>1 DEF StillHolds
        <4>3. StillHolds(project', project) => project'.end = project.end
          BY DEF StillHolds
        <4> QED
          BY <2>2, <3>4, <4>2, <4>3
      <3> QED
        BY <3>1, <3>2, <3>3, <3>4 DEF RowStep
    <2>5. At(s, "charge") => Costs(p)'
      <3> SUFFICES ASSUME At(s, "charge") PROVE Costs(p)'
        OBVIOUS
      <3>1. p \in Row
        BY <2>3 DEF At
      <3> QED
        BY <1>3, <1>4, <2>2, <3>1
    <2>6. project'.customer # NoCustomer =>
              \/ ChargesOf(project'.customer) = {}
              \/ project'.customer = project.customer /\ project'.lastAttempt = project.lastAttempt
      BY DEF RowStep
    <2>7. At(s, "rollover") /\ project'.customer # NoCustomer =>
                  \A i \in ChargesOf(project.customer)' :
                      \/ project'.lastAttempt >= payments'[i].at
                      \/ p.end + Period >= payments'[i].at + RetryCadence
      <3> SUFFICES ASSUME At(s, "rollover"), project'.customer # NoCustomer,
                          NEW i \in ChargesOf(project.customer)'
                   PROVE  \/ project'.lastAttempt >= payments'[i].at
                          \/ p.end + Period >= payments'[i].at + RetryCadence
        OBVIOUS
      <3>1. i \in ChargesOf(project'.customer)
        BY DEF ChargesOf
      <3>2. project'.customer = project.customer /\ project'.lastAttempt = project.lastAttempt
        BY <2>6, <3>1
      <3>3. payments'[i] = payments[i]
        BY <3>1 DEF ChargesOf
      <3> QED
        BY <2>2, <3>1, <3>2, <3>3
    <2>8. ~At(s, "idle") /\ project'.customer \notin {NoCustomer, p.customer} =>
              ChargesOf(project.customer)' = {}
      <3>1. ChargesOf(project.customer)' = ChargesOf(project'.customer)
        BY DEF ChargesOf
      <3> QED
        BY <2>2, <2>6, <3>1
    <2>9. \A pc : At(s, pc)' = At(s, pc)
      BY <2>1 DEF At
    <2>10. p' = p
      BY <2>1
    <2>11. At(s, "charge") => ~TooSoon(p)'
      BY <2>1, <2>2 DEF TooSoon
    <2> HIDE DEF p
    <2> QED
      BY <2>1, <2>2, <2>4, <2>5, <2>7, <2>8, <2>9, <2>10, <2>11 DEF TickHoldsRow, p, At
  <1>8. RowKeepsOff'
    <2> SUFFICES ASSUME project'.customer # NoCustomer, NEW i \in ChargesOf(project.customer)'
                 PROVE  \/ KeptOff(project, i)'
                        \/ Pending(project, i)' /\ \E s \in Schedulers : ~Ended(s)'
      BY DEF RowKeepsOff
    <2>1. i \in ChargesOf(project'.customer) /\ payments'[i] = payments[i] /\ i \in Charges
      BY DEF ChargesOf
    <2>2. project'.customer = project.customer /\ project'.lastAttempt = project.lastAttempt
          /\ (StillHolds(project', project) \/ project'.end >= clock + RetryCadence)
      BY <2>1 DEF RowStep
    <2>3. \/ KeptOff(project, i)
          \/ Pending(project, i) /\ \E s \in Schedulers : ~Ended(s)
      BY <2>1, <2>2 DEF SpacedFacts, RowKeepsOff
    <2>4. payments[i].at \in Nat /\ payments[i].at <= clock
      BY <1>1, <2>1 DEF SpacedFacts, PaymentsInOrder, Charges
    <2>5. CASE project'.end >= clock + RetryCadence
      <3>1. project'.end \in Int
        BY <1>1, <1>3
      <3> QED
        BY <1>1, <2>1, <2>4, <2>5, <3>1 DEF KeptOff
    <2>6. CASE KeptOff(project, i) /\ StillHolds(project', project)
      BY <2>1, <2>2, <2>6 DEF KeptOff, StillHolds
    <2>7. CASE Pending(project, i) /\ (\E s \in Schedulers : ~Ended(s)) /\ StillHolds(project', project)
      <3>1. Costs(project)'
        <4>1. project'.start = project.start /\ project'.executions >= project.executions /\ Costs(project)
          BY <2>7 DEF StillHolds, Pending
        <4>2. Costs(project)'
          BY <1>1, <1>3, <4>1, Constants DEF Costs
        <4> QED
          BY <4>2
      <3>2. Pending(project, i)'
        BY <2>1, <2>2, <2>7, <3>1 DEF Pending, PeriodKey, Due, TooSoon, StillHolds
      <3>3. \E s \in Schedulers : ~Ended(s)'
        BY <2>7 DEF Ended, At
      <3> QED
        BY <3>2, <3>3
    <2> QED
      BY <2>2, <2>3, <2>5, <2>6, <2>7
  <1>9. AttemptsAreSpaced'
    <2>1. \A i, j \in Charges :
            i < j /\ payments[i].charge.customer = payments[j].charge.customer
                => payments[j].at - payments[i].at >= RetryCadence
      BY DEF SpacedFacts, AttemptsAreSpaced
    <2> QED
      BY <2>1 DEF AttemptsAreSpaced
  <1> QED
    BY <1>6, <1>7, <1>8, <1>9

\* The other facts, where nothing they speak of changes for the worse.
LEMMA CustomersKept ==
  ASSUME TypeOK, CustomersAreNew, UNCHANGED <<tick, setup, customers>>,
         Charges' = Charges, \A i \in Charges : payments'[i] = payments[i],
         project'.customer \in {project.customer, NoCustomer}
  PROVE  CustomersAreNew'
  <1>1. \A c : ChargesOf(c)' = ChargesOf(c)
    BY DEF ChargesOf
  <1>2. project'.customer <= customers
    BY TypeNumbers, RowFields DEF CustomersAreNew, NoCustomer
  <1>3. \A s \in Schedulers : ~At(s, "idle") => tick[s].snap.customer <= customers
    BY DEF CustomersAreNew
  <1>4. setup.pc = "persist" =>
          /\ project'.customer = NoCustomer /\ setup.customer <= customers
          /\ ChargesOf(setup.customer) = {}
          /\ \A s \in Schedulers : ~At(s, "idle") => tick[s].snap.customer # setup.customer
    BY DEF CustomersAreNew
  <1>5. ChargesOf(setup.customer)' = ChargesOf(setup.customer)
    BY <1>1 DEF ChargesOf
  <1> QED
    BY <1>2, <1>3, <1>4, <1>5 DEF CustomersAreNew, At

LEMMA RemovalKept ==
  ASSUME TypeOK, RemovalKeepsOff, UNCHANGED <<clock, tick>>,
         Charges' = Charges, \A i \in Charges : payments'[i] = payments[i],
         project'.customer \in {project.customer, NoCustomer},
         project'.end = project.end \/ project'.end > clock,
         removal'.pc # "idle" => /\ removal.pc # "idle" /\ removal'.snap = removal.snap
                                 /\ removal'.pc = "reset" => \/ removal.pc = "reset"
                                                            \/ project'.customer = NoCustomer,
         setup'.pc = "persist" => setup.pc = "persist" /\ setup'.snap = setup.snap
  PROVE  RemovalKeepsOff'
  <1> SUFFICES ASSUME removal'.pc # "idle", removal'.snap.end > clock'
               PROVE  /\ \A s \in Schedulers : ~Ended(s)' =>
                           /\ project'.end > clock
                           /\ setup'.pc = "persist" => setup'.snap.end > clock
                      /\ removal'.pc = "reset" /\ project'.customer # NoCustomer =>
                           /\ ChargesOf(project.customer)' = {}
                           /\ \A s \in Schedulers : At(s, "listed")' \/ At(s, "charge")' =>
                                   tick'[s].snap.customer # project'.customer
    BY DEF RemovalKeepsOff
  <1>1. removal.pc # "idle" /\ removal.snap.end > clock
    OBVIOUS
  <1>2. \A s \in Schedulers : Ended(s)' = Ended(s)
    BY DEF Ended, At
  <1>3. \A s \in Schedulers : ~Ended(s) =>
            /\ project.end > clock
            /\ setup.pc = "persist" => setup.snap.end > clock
    BY <1>1 DEF RemovalKeepsOff
  <1>4. removal.pc = "reset" /\ project.customer # NoCustomer =>
            /\ ChargesOf(project.customer) = {}
            /\ \A s \in Schedulers : At(s, "listed") \/ At(s, "charge") =>
                    tick[s].snap.customer # project.customer
    BY <1>1 DEF RemovalKeepsOff
  <1>5. \A s \in Schedulers : ~Ended(s)' =>
            /\ project'.end > clock
            /\ setup'.pc = "persist" => setup'.snap.end > clock
    BY <1>2, <1>3
  <1>6. ASSUME removal'.pc = "reset", project'.customer # NoCustomer
        PROVE  /\ ChargesOf(project.customer)' = {}
               /\ \A s \in Schedulers : At(s, "listed")' \/ At(s, "charge")' =>
                      tick'[s].snap.customer # project'.customer
    <2>1. removal.pc = "reset" /\ project'.customer = project.customer
      BY <1>6
    <2>2. ChargesOf(project.customer)' = ChargesOf(project.customer)
      BY <2>1 DEF ChargesOf
    <2> QED
      BY <1>4, <1>6, <2>1, <2>2 DEF At
  <1> QED
    BY <1>5, <1>6

LEMMA PaymentsKept ==
  ASSUME TypeOK, TypeOK', PaymentsInOrder, payments' = payments, clock' >= clock, customers' >= customers,
         \A g \in Groups : analyzedAt'[g] <= clock'
  PROVE  PaymentsInOrder'
  <1>1. clock \in Nat /\ clock' \in Nat /\ customers \in Nat /\ customers' \in Nat
    BY Constants DEF TypeOK
  <1>2. DOMAIN payments = 1 .. Len(payments) /\ \A i \in 1 .. Len(payments) : payments[i].at \in Nat
    BY PaymentFields
  <1>3. \A i \in DOMAIN payments : payments[i].at <= clock'
    BY <1>1, <1>2 DEF PaymentsInOrder
  <1>4. \A i \in Charges : payments[i].charge.customer \in 1 .. customers'
    BY <1>1 DEF PaymentsInOrder
  <1>5. Charges' = Charges
    BY DEF Charges
  <1>6. \A i, j \in DOMAIN payments : i <= j => payments[i].at <= payments[j].at
    BY DEF PaymentsInOrder
  <1> QED
    BY <1>3, <1>4, <1>5, <1>6 DEF PaymentsInOrder

LEMMA AnalysesGrow ==
  ASSUME TypeOK, TypeOK', PaymentsInOrder, UNCHANGED clock,
         \/ analyzedAt' = analyzedAt
         \/ \E g \in Groups : analyzedAt' = [analyzedAt EXCEPT ![g] = clock]
  PROVE  /\ \A g \in Groups : analyzedAt'[g] >= analyzedAt[g]
         /\ \A g \in Groups : analyzedAt'[g] <= clock'
  <1>1. clock \in Nat /\ analyzedAt \in [Groups -> Nat \union {-1}]
    BY TypeNumbers DEF TypeOK, NULL
  <1>2. \A g \in Groups : analyzedAt[g] <= clock /\ analyzedAt[g] \in Int
    BY <1>1 DEF PaymentsInOrder
  <1>3. CASE analyzedAt' = analyzedAt
    BY <1>1, <1>2, <1>3
  <1>4. ASSUME NEW g \in Groups, analyzedAt' = [analyzedAt EXCEPT ![g] = clock]
        PROVE  \A h \in Groups : analyzedAt'[h] >= analyzedAt[h] /\ analyzedAt'[h] <= clock'
    BY <1>1, <1>2, <1>4
  <1> QED
    BY <1>3, <1>4

\* Where the row, the handlers and Stripe stand still but for usage, or the row only moves on.
LEMMA SpacedStill ==
  ASSUME TypeOK, TypeOK', errors = 0, SpacedFacts, UNCHANGED <<clock, tick, setup, customers, payments>>,
         \/ analyzedAt' = analyzedAt
         \/ \E g \in Groups : analyzedAt' = [analyzedAt EXCEPT ![g] = clock],
         RowStep, project'.customer \in {project.customer, NoCustomer},
         project'.end = project.end \/ project'.end > clock,
         removal'.pc # "idle" => /\ removal.pc # "idle" /\ removal'.snap = removal.snap
                                 /\ removal'.pc = "reset" => \/ removal.pc = "reset"
                                                            \/ project'.customer = NoCustomer
  PROVE  SpacedFacts'
  <1>1. PaymentsInOrder /\ CustomersAreNew /\ RemovalKeepsOff
    BY DEF SpacedFacts
  <1>2. Charges' = Charges /\ \A i \in Charges : payments'[i] = payments[i]
    BY DEF Charges
  <1>3. (\A g \in Groups : analyzedAt'[g] >= analyzedAt[g])
        /\ (\A g \in Groups : analyzedAt'[g] <= clock')
    BY <1>1, AnalysesGrow
  <1>4. clock' >= clock /\ customers' >= customers
    BY TypeNumbers
  <1>5. PaymentsInOrder'
    BY <1>1, <1>3, <1>4, PaymentsKept
  <1>6. CustomersAreNew'
    BY <1>1, <1>2, CustomersKept
  <1>7. RemovalKeepsOff'
    BY <1>1, <1>2, RemovalKept
  <1>8. /\ RowKeepsOff' /\ AttemptsAreSpaced'
        /\ \A s \in Schedulers : SnapKeepsOff(s)' /\ TickHoldsRow(s)'
    BY <1>2, <1>3, SpacedBeside
  <1> QED
    BY <1>5, <1>6, <1>7, <1>8 DEF SpacedFacts

LEMMA SpacedUse ==
  ASSUME TypeOK, TypeOK', errors = 0, SpacedFacts, Use
  PROVE  SpacedFacts'
  <1>1. UNCHANGED <<clock, tick, setup, removal, customers, payments>>
    BY DEF Use, AdmitExecution, CountExecution, HandleAnalyzeFailureGroup, SaveFailureGroupAnalysis,
           handlers, stripe
  <1>2. \/ analyzedAt' = analyzedAt
        \/ \E g \in Groups : analyzedAt' = [analyzedAt EXCEPT ![g] = clock]
    BY DEF Use, AdmitExecution, CountExecution, HandleAnalyzeFailureGroup, SaveFailureGroupAnalysis
  <1>3. project' = project \/ project' = [project EXCEPT !.executions = @ + 1]
    BY DEF Use, AdmitExecution, CountExecution, HandleAnalyzeFailureGroup, SaveFailureGroupAnalysis
  <1>4. project \in Row /\ project.executions \in Nat
    BY TypeNumbers, RowFields
  <1>5. /\ project'.customer = project.customer /\ project'.lastAttempt = project.lastAttempt
        /\ project'.end = project.end /\ StillHolds(project', project)
    <2>1. CASE project' = project
      BY <1>4, <2>1 DEF StillHolds
    <2>2. CASE project' = [project EXCEPT !.executions = @ + 1]
      <3>1. /\ project'.executions = project.executions + 1
            /\ project'.start = project.start /\ project'.end = project.end
            /\ project'.customer = project.customer
            /\ project'.lastAttempt = project.lastAttempt /\ project'.failures = project.failures
        BY <1>4, <2>2, CountedRow
      <3> QED
        BY <1>4, <3>1 DEF StillHolds
    <2> QED
      BY <1>3, <2>1, <2>2
  <1>6. RowStep
    BY <1>5 DEF RowStep
  <1> QED
    BY <1>1, <1>2, <1>5, <1>6, SpacedStill

\* A new customer is new to everybody, and to Stripe's charges.
LEMMA NewCustomerIsNew ==
  ASSUME TypeOK, TypeOK', PaymentsInOrder, CustomersAreNew, HandleCreateSetupCheckout
  PROVE  PaymentsInOrder' /\ CustomersAreNew'
  <1>1. /\ project.customer = NoCustomer /\ customers' = customers + 1
        /\ setup.pc = "idle" /\ setup'.pc = "persist" /\ setup'.snap = project
        /\ setup'.customer = customers + 1
    BY CreateSetupEffect
  <1>2. UNCHANGED <<clock, project, analyzedAt, tick, payments>>
    BY DEF HandleCreateSetupCheckout, usage
  <1>3. customers \in Nat /\ clock \in Nat /\ project \in Row
    BY TypeNumbers
  <1>4. Charges' = Charges /\ \A i \in Charges : payments'[i] = payments[i]
    BY <1>2 DEF Charges
  <1>5. PaymentsInOrder'
    <2>1. (\A g \in Groups : analyzedAt'[g] <= clock') /\ clock' >= clock /\ customers' >= customers
      BY <1>1, <1>2, <1>3 DEF PaymentsInOrder
    <2> QED
      BY <1>2, <2>1, PaymentsKept
  <1>6. CustomersAreNew'
    <2>1. project.customer <= customers + 1
      BY <1>1, <1>3 DEF NoCustomer
    <2>2. \A s \in Schedulers : ~At(s, "idle") =>
             /\ tick[s].snap.customer \in Nat /\ tick[s].snap.customer <= customers
      BY TickHeld, RowFields, Constants DEF CustomersAreNew
    <2>3. ChargesOf(customers + 1) = {}
      <3>1. \A i \in Charges : payments[i].charge.customer \in 1 .. customers
        BY DEF PaymentsInOrder
      <3> QED
        BY <1>3, <3>1 DEF ChargesOf
    <2>4. ChargesOf(setup.customer)' = {}
      BY <1>1, <1>2, <1>4, <2>3 DEF ChargesOf
    <2>5. \A s \in Schedulers : ~At(s, "idle") =>
             /\ tick[s].snap.customer <= customers + 1
             /\ tick[s].snap.customer # customers + 1
      BY <1>3, <2>2
    <2>6. customers + 1 <= customers + 1
      BY <1>3
    <2> QED
      BY <1>1, <1>2, <2>1, <2>4, <2>5, <2>6 DEF CustomersAreNew, At
  <1> QED
    BY <1>5, <1>6

LEMMA SpacedCreate ==
  ASSUME TypeOK, TypeOK', errors = 0, SpacedFacts, HandleCreateSetupCheckout
  PROVE  SpacedFacts'
  <1>1. /\ project.customer = NoCustomer /\ customers' = customers + 1
        /\ setup.pc = "idle" /\ setup'.pc = "persist" /\ setup'.snap = project
        /\ setup'.customer = customers + 1
    BY CreateSetupEffect
  <1>2. UNCHANGED <<clock, project, analyzedAt, tick, hook, removal, payments>>
    BY DEF HandleCreateSetupCheckout, usage
  <1>3. PaymentsInOrder /\ CustomersAreNew /\ RemovalKeepsOff
    BY DEF SpacedFacts
  <1>4. customers \in Nat /\ clock \in Nat /\ project \in Row
    BY TypeNumbers
  <1>5. Charges' = Charges /\ \A i \in Charges : payments'[i] = payments[i]
    BY <1>2 DEF Charges
  <1>6. PaymentsInOrder' /\ CustomersAreNew'
    BY <1>3, NewCustomerIsNew
  <1>7. RemovalKeepsOff'
    <2> SUFFICES ASSUME removal.pc # "idle", removal.snap.end > clock
                 PROVE  /\ \A s \in Schedulers : ~Ended(s)' =>
                             project.end > clock /\ setup'.snap.end > clock
                        /\ removal.pc = "reset" /\ project.customer # NoCustomer =>
                             /\ ChargesOf(project.customer)' = {}
                             /\ \A s \in Schedulers : At(s, "listed")' \/ At(s, "charge")' =>
                                     tick'[s].snap.customer # project'.customer
      BY <1>2 DEF RemovalKeepsOff
    <2>1. \A s \in Schedulers : Ended(s)' = Ended(s)
      BY <1>2 DEF Ended, At
    <2>2. \A s \in Schedulers : ~Ended(s) => project.end > clock
      BY <1>3 DEF RemovalKeepsOff
    <2> QED
      BY <1>1, <2>1, <2>2
  <1>8. RowStep
    <2>1. StillHolds(project', project)
      BY <1>2, <1>4, RowFields DEF StillHolds
    <2> QED
      BY <1>2, <2>1 DEF RowStep
  <1>9. \A g \in Groups : analyzedAt'[g] >= analyzedAt[g]
    BY <1>2, <1>3, AnalysesGrow
  <1>10. /\ RowKeepsOff' /\ AttemptsAreSpaced'
         /\ \A s \in Schedulers : SnapKeepsOff(s)' /\ TickHoldsRow(s)'
    BY <1>2, <1>5, <1>8, <1>9, SpacedBeside
  <1> QED
    BY <1>6, <1>7, <1>10 DEF SpacedFacts

\* Neither the ticks nor Stripe's charges know whom the row gets.
LEMMA SpacedPersist ==
  ASSUME TypeOK, TypeOK', errors = 0, errors' = 0, SpacedFacts, PersistCustomer
  PROVE  SpacedFacts'
  <1>1. /\ setup.pc = "persist" /\ setup' = IdleHandler
        /\ project'.customer = setup.customer /\ project'.end = setup.snap.end
        /\ setup.customer \in 1 .. MaxCustomers
    <2>1. PICK ok \in Outcomes :
              /\ CountError(ok)
              /\ ok => /\ project'.customer = setup.customer
                       /\ project'.start = setup.snap.start /\ project'.end = setup.snap.end
      BY PersistEffect
    <2>2. errors \in 0 .. MaxErrors
      BY DEF TypeOK
    <2>3. ok
      BY <2>1, <2>2, Counted
    <2> QED
      BY <2>1, <2>3, PersistEffect
  <1>2. UNCHANGED <<clock, analyzedAt, tick, removal, customers, payments>>
    BY DEF PersistCustomer, usage, stripe
  <1>3. PaymentsInOrder /\ CustomersAreNew /\ RemovalKeepsOff
    BY DEF SpacedFacts
  <1>4. clock \in Nat /\ customers \in Nat
    BY TypeNumbers
  <1>5. Charges' = Charges /\ \A i \in Charges : payments'[i] = payments[i]
    BY <1>2 DEF Charges
  <1>6. /\ setup.customer <= customers /\ ChargesOf(setup.customer) = {}
        /\ \A s \in Schedulers : ~At(s, "idle") => tick[s].snap.customer # setup.customer
        /\ \A s \in Schedulers : ~At(s, "idle") => tick[s].snap.customer <= customers
    BY <1>1, <1>3 DEF CustomersAreNew
  <1>7. setup'.pc = "idle"
    BY <1>1 DEF IdleHandler
  <1>8. PaymentsInOrder'
    <2>1. (\A g \in Groups : analyzedAt'[g] <= clock') /\ clock' >= clock /\ customers' >= customers
      BY <1>2, <1>3, <1>4 DEF PaymentsInOrder
    <2> QED
      BY <1>2, <1>3, <2>1, PaymentsKept
  <1>9. CustomersAreNew'
    BY <1>1, <1>2, <1>6, <1>7 DEF CustomersAreNew, At
  <1>10. ChargesOf(project.customer)' = {}
    BY <1>1, <1>5, <1>6 DEF ChargesOf
  <1>11. RemovalKeepsOff'
    <2> SUFFICES ASSUME removal.pc # "idle", removal.snap.end > clock
                 PROVE  /\ \A s \in Schedulers : ~Ended(s)' => project'.end > clock
                        /\ removal.pc = "reset" /\ project'.customer # NoCustomer =>
                             /\ ChargesOf(project.customer)' = {}
                             /\ \A s \in Schedulers : At(s, "listed")' \/ At(s, "charge")' =>
                                     tick'[s].snap.customer # project'.customer
      BY <1>2, <1>7 DEF RemovalKeepsOff
    <2>1. \A s \in Schedulers : Ended(s)' = Ended(s)
      BY <1>2 DEF Ended, At
    <2>2. \A s \in Schedulers : ~Ended(s) => setup.snap.end > clock
      BY <1>1, <1>3 DEF RemovalKeepsOff
    <2> QED
      BY <1>1, <1>2, <1>6, <1>10, <2>1, <2>2 DEF At
  <1>12. RowStep
    BY <1>1, <1>6 DEF RowStep, At
  <1>13. \A g \in Groups : analyzedAt'[g] >= analyzedAt[g]
    BY <1>2, <1>3, AnalysesGrow
  <1>14. /\ RowKeepsOff' /\ AttemptsAreSpaced'
         /\ \A s \in Schedulers : SnapKeepsOff(s)' /\ TickHoldsRow(s)'
    BY <1>2, <1>5, <1>12, <1>13, SpacedBeside
  <1> QED
    BY <1>8, <1>9, <1>11, <1>14 DEF SpacedFacts

\* What reads the row without writing it.
LEMMA SpacedReads ==
  ASSUME TypeOK, TypeOK', errors = 0, SpacedFacts,
         UNCHANGED <<clock, project, analyzedAt, tick, setup, customers, payments>>,
         removal'.pc # "idle" => /\ removal.pc # "idle" /\ removal'.snap = removal.snap
                                 /\ removal'.pc = "reset" => removal.pc = "reset"
  PROVE  SpacedFacts'
  <1>1. RowStep
    BY TypeNumbers, RowFields DEF RowStep, StillHolds
  <1> QED
    BY <1>1, SpacedStill

\* A removal begins with the row as it is.
LEMMA SpacedRemove ==
  ASSUME TypeOK, TypeOK', errors = 0, SpacedFacts, HandleRemovePaymentMethod
  PROVE  SpacedFacts'
  <1>1. /\ project.customer # NoCustomer /\ removal'.snap = project
        /\ removal'.pc \in {"charge", "detach"}
    BY RemoveEffect
  <1>2. UNCHANGED <<clock, project, analyzedAt, tick, setup, customers, payments>>
    BY DEF HandleRemovePaymentMethod, usage, stripe
  <1>3. PaymentsInOrder /\ CustomersAreNew
    BY DEF SpacedFacts
  <1>4. clock \in Nat /\ customers \in Nat
    BY TypeNumbers
  <1>5. Charges' = Charges /\ \A i \in Charges : payments'[i] = payments[i]
    BY <1>2 DEF Charges
  <1>6. PaymentsInOrder'
    <2>1. (\A g \in Groups : analyzedAt'[g] <= clock') /\ clock' >= clock /\ customers' >= customers
      BY <1>2, <1>3, <1>4 DEF PaymentsInOrder
    <2> QED
      BY <1>2, <1>3, <2>1, PaymentsKept
  <1>7. CustomersAreNew'
    BY <1>2, <1>3, <1>5, CustomersKept
  <1>8. setup.pc # "persist"
    BY <1>1, <1>3 DEF CustomersAreNew
  <1>9. RemovalKeepsOff'
    BY <1>1, <1>2, <1>8 DEF RemovalKeepsOff
  <1>10. RowStep
    BY <1>2, TypeNumbers, RowFields DEF RowStep, StillHolds
  <1>11. \A g \in Groups : analyzedAt'[g] >= analyzedAt[g]
    BY <1>2, <1>3, AnalysesGrow
  <1>12. /\ RowKeepsOff' /\ AttemptsAreSpaced'
         /\ \A s \in Schedulers : SnapKeepsOff(s)' /\ TickHoldsRow(s)'
    BY <1>2, <1>5, <1>10, <1>11, SpacedBeside
  <1> QED
    BY <1>6, <1>7, <1>9, <1>12 DEF SpacedFacts

\* A settlement is no charge of a period.
LEMMA SettledAside ==
  ASSUME TypeOK, TypeOK', PaymentsInOrder, SettleOnRemoval
  PROVE  /\ PaymentsInOrder' /\ Charges' = Charges
         /\ \A i \in Charges : payments'[i] = payments[i]
  <1>1. \/ payments' = payments
        \/ /\ Len(payments') = Len(payments) + 1
           /\ \A i \in 1 .. Len(payments) : payments'[i] = payments[i]
           /\ payments'[Len(payments) + 1].key.for = "removal"
           /\ payments'[Len(payments) + 1].at = clock
    BY SettleEffect
  <1>2. UNCHANGED <<clock, analyzedAt, customers>>
    BY DEF SettleOnRemoval, usage
  <1>3. CASE payments' = payments
    <2>1. Charges' = Charges /\ \A i \in Charges : payments'[i] = payments[i]
      BY <1>3 DEF Charges
    <2>2. (\A g \in Groups : analyzedAt'[g] <= clock') /\ clock' >= clock /\ customers' >= customers
      BY <1>2, TypeNumbers DEF PaymentsInOrder
    <2> QED
      BY <1>2, <1>3, <2>1, <2>2, PaymentsKept
  <1>4. CASE payments' # payments
    <2> DEFINE n == Len(payments)
    <2>1. /\ Len(payments') = n + 1
          /\ \A i \in 1 .. n : payments'[i] = payments[i]
          /\ payments'[n + 1].key.for = "removal"
          /\ payments'[n + 1].at = clock
      BY <1>1, <1>4
    <2>2. DOMAIN payments = 1 .. n /\ n \in Nat /\ Charges \subseteq 1 .. n
          /\ \A i \in 1 .. n : payments[i].at \in Nat
      BY PaymentFields
    <2>3. DOMAIN payments' = 1 .. (n + 1)
      <3>1. DOMAIN payments' = 1 .. Len(payments')
        BY DEF TypeOK
      <3> QED
        BY <2>1, <3>1
    <2> HIDE DEF n
    <2>4. Charges' = Charges /\ \A i \in Charges : payments'[i] = payments[i]
      <3>1. \A i \in 1 .. (n + 1) : i \in 1 .. n \/ i = n + 1
        BY <2>2
      <3>2. \A i : i \in Charges' <=> i \in Charges
        BY <2>1, <2>2, <2>3, <3>1 DEF Charges
      <3> QED
        BY <2>1, <2>2, <3>2
    <2>5. PaymentsInOrder'
      <3>1. clock \in Nat
        BY TypeNumbers
      <3>2. \A i \in 1 .. (n + 1) : payments'[i].at <= clock
        BY <2>1, <2>2, <3>1 DEF PaymentsInOrder
      <3>3. \A i, j \in 1 .. (n + 1) : i <= j => payments'[i].at <= payments'[j].at
        <4> SUFFICES ASSUME NEW i \in 1 .. (n + 1), NEW j \in 1 .. (n + 1), i <= j
                     PROVE  payments'[i].at <= payments'[j].at
          OBVIOUS
        <4>1. CASE j = n + 1
          BY <2>1, <3>2, <4>1
        <4>2. CASE j # n + 1
          <5>1. i \in 1 .. n /\ j \in 1 .. n
            BY <2>2, <4>2
          <5> QED
            BY <2>1, <2>2, <5>1 DEF PaymentsInOrder
        <4> QED
          BY <4>1, <4>2
      <3>4. \A i \in Charges' : payments'[i].charge.customer \in 1 .. customers
        BY <2>4 DEF PaymentsInOrder
      <3>5. \A g \in Groups : analyzedAt[g] <= clock
        BY DEF PaymentsInOrder
      <3> QED
        BY <1>2, <2>3, <3>2, <3>3, <3>4, <3>5 DEF PaymentsInOrder
    <2> QED
      BY <2>4, <2>5
  <1> QED
    BY <1>3, <1>4

LEMMA SpacedSettle ==
  ASSUME TypeOK, TypeOK', errors = 0, SpacedFacts, SettleOnRemoval
  PROVE  SpacedFacts'
  <1>1. /\ removal.pc = "charge" /\ removal'.pc \in {"detach", "idle"}
        /\ removal'.pc = "detach" => removal'.snap = removal.snap
    BY SettleEffect
  <1>2. UNCHANGED <<clock, project, analyzedAt, tick, setup, customers>>
    BY DEF SettleOnRemoval, usage
  <1>3. PaymentsInOrder /\ CustomersAreNew /\ RemovalKeepsOff
    BY DEF SpacedFacts
  <1>4. /\ PaymentsInOrder' /\ Charges' = Charges
        /\ \A i \in Charges : payments'[i] = payments[i]
    BY <1>3, SettledAside
  <1>5. CustomersAreNew'
    BY <1>2, <1>3, <1>4, CustomersKept
  <1>6. RemovalKeepsOff'
    BY <1>1, <1>2, <1>3, <1>4, RemovalKept
  <1>7. RowStep
    BY <1>2, TypeNumbers, RowFields DEF RowStep, StillHolds
  <1>8. \A g \in Groups : analyzedAt'[g] >= analyzedAt[g]
    BY <1>2, <1>3, AnalysesGrow
  <1>9. /\ RowKeepsOff' /\ AttemptsAreSpaced'
        /\ \A s \in Schedulers : SnapKeepsOff(s)' /\ TickHoldsRow(s)'
    BY <1>2, <1>4, <1>7, <1>8, SpacedBeside
  <1> QED
    BY <1>4, <1>5, <1>6, <1>9 DEF SpacedFacts

\* A row that is read as it is kept, or without a customer, or with bounds of its own.
LEMMA SpacedBootstrap ==
  ASSUME TypeOK, TypeOK', errors = 0, errors' = 0, SpacedFacts, BootstrapBounds
  PROVE  SpacedFacts'
  <1>1. UNCHANGED <<clock, analyzedAt, tick, setup, removal, customers, payments>>
    BY DEF BootstrapBounds, usage, stripe
  <1>2. PICK ok \in Outcomes :
          /\ CountError(ok)
          /\ ok => project'.executions = 0 /\ project'.end = clock + Period
    BY BootstrapEffect
  <1>3. ok
    <2>1. errors \in 0 .. MaxErrors
      BY DEF TypeOK
    <2> QED
      BY <1>2, <2>1, Counted
  <1>4. project'.customer = project.customer /\ project'.lastAttempt = project.lastAttempt
    BY BootstrapEffect
  <1>5. project'.end >= clock + RetryCadence /\ project'.end > clock
    BY <1>2, <1>3, TypeNumbers, Constants
  <1>6. RowStep
    BY <1>4, <1>5 DEF RowStep
  <1> QED
    BY <1>1, <1>4, <1>5, <1>6, SpacedStill

LEMMA SpacedMark ==
  ASSUME TypeOK, TypeOK', errors = 0, SpacedFacts, MarkCardAttached
  PROVE  SpacedFacts'
  <1>1. UNCHANGED <<clock, analyzedAt, tick, setup, removal, customers, payments>>
    BY DEF MarkCardAttached, usage, stripe
  <1>2. project' = project \/ project' = [project EXCEPT !.card = TRUE]
    BY DEF MarkCardAttached
  <1>3. project \in Row
    BY TypeNumbers
  <1>4. /\ project'.customer = project.customer /\ project'.lastAttempt = project.lastAttempt
        /\ project'.end = project.end /\ project'.start = project.start
        /\ project'.failures = project.failures /\ project'.executions = project.executions
    BY <1>2, <1>3, MarkedRow
  <1>5. RowStep
    BY <1>3, <1>4, RowFields DEF RowStep, StillHolds
  <1> QED
    BY <1>1, <1>4, <1>5, SpacedStill

LEMMA SpacedClear ==
  ASSUME TypeOK, TypeOK', errors = 0, errors' = 0, SpacedFacts, ClearCard
  PROVE  SpacedFacts'
  <1>1. UNCHANGED <<clock, analyzedAt, tick, setup, customers, payments>>
    BY DEF ClearCard, usage, stripe
  <1>2. PICK ok \in Outcomes :
          /\ CountError(ok)
          /\ ok => /\ project' = DetachHobbyCardForBillingFailure(project)
                   /\ removal'.pc = "reset" /\ removal'.snap = removal.snap
    BY ClearEffect
  <1>3. ok
    <2>1. errors \in 0 .. MaxErrors
      BY DEF TypeOK
    <2> QED
      BY <1>2, <2>1, Counted
  <1>4. project'.customer = NoCustomer /\ project'.end = project.end
    BY <1>2, <1>3, TypeNumbers, DetachedRow
  <1>5. removal.pc = "clear" /\ removal'.snap = removal.snap
    BY <1>2, <1>3, ClearEffect
  <1>6. RowStep
    BY <1>4 DEF RowStep
  <1> QED
    BY <1>1, <1>4, <1>5, <1>6, SpacedStill

LEMMA SpacedReset ==
  ASSUME TypeOK, TypeOK', errors = 0, errors' = 0, SpacedFacts, ResetOnRemoval
  PROVE  SpacedFacts'
  <1>1. UNCHANGED <<clock, analyzedAt, tick, setup, customers, payments>>
    BY DEF ResetOnRemoval, usage, stripe
  <1>2. PICK ok \in Outcomes :
          /\ CountError(ok)
          /\ ok => project'.end = IF removal.snap.end > clock THEN removal.snap.end ELSE clock + Period
    BY ResetEffect
  <1>3. ok
    <2>1. errors \in 0 .. MaxErrors
      BY DEF TypeOK
    <2> QED
      BY <1>2, <2>1, Counted
  <1>4. /\ project'.customer = project.customer /\ project'.lastAttempt = project.lastAttempt
        /\ removal.pc = "reset" /\ removal' = IdleHandler /\ removal.snap \in Row
    BY ResetEffect
  <1>5. removal'.pc = "idle"
    BY <1>4 DEF IdleHandler
  <1>6. clock \in Nat /\ Period \in Nat \ {0} /\ RetryCadence \in Nat /\ RetryCadence <= Period
    BY TypeNumbers, Constants
  <1>7. RowStep /\ project'.end > clock
    <2>1. CASE removal.snap.end > clock
      <3>1. removal.pc = "reset" /\ project.customer # NoCustomer =>
            /\ ChargesOf(project.customer) = {}
            /\ \A s \in Schedulers : At(s, "listed") \/ At(s, "charge") =>
                    tick[s].snap.customer # project.customer
        BY <1>4, <2>1 DEF SpacedFacts, RemovalKeepsOff
      <3> QED
        BY <1>2, <1>3, <1>4, <2>1, <3>1 DEF RowStep
    <2>2. CASE ~(removal.snap.end > clock)
      <3>1. project'.end = clock + Period
        BY <1>2, <1>3, <2>2
      <3>2. project'.end > clock /\ project'.end >= clock + RetryCadence
        BY <1>6, <3>1
      <3> QED
        BY <1>4, <3>2 DEF RowStep
    <2> QED
      BY <2>1, <2>2
  <1> QED
    BY <1>1, <1>4, <1>5, <1>7, SpacedStill

LEMMA SpacedCard ==
  ASSUME TypeOK, TypeOK', errors = 0, errors' = 0, SpacedFacts, Card
  PROVE  SpacedFacts'
  <1>1. CASE \E c \in 1 .. MaxCustomers : CompleteCheckout(c) \/ HandleSetupIntentSucceeded(c)
    <2>1. UNCHANGED <<clock, project, analyzedAt, tick, setup, removal, customers, payments>>
      BY <1>1 DEF CompleteCheckout, HandleSetupIntentSucceeded, usage, handlers, stripe
    <2> QED
      BY <2>1, SpacedReads
  <1>2. CASE DetachAtStripe
    <2>1. UNCHANGED <<clock, project, analyzedAt, tick, setup, customers, payments>>
      BY <1>2 DEF DetachAtStripe, usage
    <2>2. removal.pc # "idle" /\ removal' = [removal EXCEPT !.pc = "clear"]
      BY <1>2 DEF DetachAtStripe
    <2>3. removal'.pc = "clear" /\ removal'.snap = removal.snap
      BY <2>2, RemovalGoesOn
    <2> QED
      BY <2>1, <2>2, <2>3, SpacedReads
  <1> QED
    BY <1>1, <1>2, SpacedCreate, SpacedPersist, SpacedBootstrap, SpacedMark, SpacedRemove,
       SpacedSettle, SpacedClear, SpacedReset DEF Card

\* When everybody is through with the day, nothing is pending.
LEMMA SpacedDay ==
  ASSUME TypeOK, TypeOK', errors = 0, SpacedFacts, Day
  PROVE  SpacedFacts'
  <1>1. /\ clock' = clock + 1 /\ clock \in Nat
        /\ UNCHANGED <<project, analyzedAt, tick, setup, removal, customers, payments>>
    BY TypeNumbers DEF Day, usage, handlers, stripe
  <1>2. \A s \in Schedulers : Ended(s) /\ At(s, "idle")
    BY DEF Day, Quiet, Ended
  <1>3. removal.pc = "idle"
    BY DEF Day, Quiet, InFlight
  <1>4. PaymentsInOrder /\ CustomersAreNew /\ RowKeepsOff /\ AttemptsAreSpaced
    BY DEF SpacedFacts
  <1>5. Charges' = Charges /\ \A c : ChargesOf(c)' = ChargesOf(c)
    BY <1>1 DEF Charges, ChargesOf
  <1>6. PaymentsInOrder'
    <2>1. \A g \in Groups : analyzedAt[g] \in Nat \union {-1} /\ analyzedAt[g] <= clock
      BY <1>4 DEF TypeOK, NULL, PaymentsInOrder
    <2>2. \A g \in Groups : analyzedAt'[g] <= clock'
      BY <1>1, <2>1
    <2>3. customers' >= customers /\ clock' >= clock
      BY <1>1, TypeNumbers
    <2> QED
      BY <1>1, <1>4, <2>2, <2>3, PaymentsKept
  <1>7. CustomersAreNew'
    BY <1>1, <1>4, <1>5, CustomersKept
  <1>8. RowKeepsOff'
    <2>1. project.customer # NoCustomer =>
            \A i \in ChargesOf(project.customer) : KeptOff(project, i)
      BY <1>2, <1>4 DEF RowKeepsOff
    <2> QED
      BY <1>1, <2>1 DEF RowKeepsOff, KeptOff, ChargesOf, Charges
  <1>9. \A s \in Schedulers : SnapKeepsOff(s)' /\ TickHoldsRow(s)'
    BY <1>1, <1>2 DEF SnapKeepsOff, TickHoldsRow, At
  <1>10. RemovalKeepsOff'
    BY <1>1, <1>3 DEF RemovalKeepsOff
  <1>11. AttemptsAreSpaced'
    <2>1. \A i, j \in Charges :
            i < j /\ payments[i].charge.customer = payments[j].charge.customer
                => payments[j].at - payments[i].at >= RetryCadence
      BY <1>4 DEF AttemptsAreSpaced
    <2> QED
      BY <1>1, <1>5, <2>1 DEF AttemptsAreSpaced
  <1> QED
    BY <1>6, <1>7, <1>8, <1>9, <1>10, <1>11 DEF SpacedFacts

\* As long as no charge is made, the payments stay as they are and apart.
LEMMA SpacedUnpaid ==
  ASSUME TypeOK, TypeOK', SpacedFacts, errors = 0, UNCHANGED <<clock, analyzedAt, customers, payments>>
  PROVE  /\ PaymentsInOrder' /\ AttemptsAreSpaced'
         /\ Charges' = Charges /\ \A c : ChargesOf(c)' = ChargesOf(c)
         /\ \A c, i : i \in ChargesOf(c) => i \in Charges /\ payments[i].at \in Nat
                                           /\ payments[i].at <= clock
  <1>1. PaymentsInOrder /\ AttemptsAreSpaced
    BY DEF SpacedFacts
  <1>2. Charges' = Charges /\ \A c : ChargesOf(c)' = ChargesOf(c)
    BY DEF Charges, ChargesOf
  <1>3. PaymentsInOrder'
    <2>1. (\A g \in Groups : analyzedAt'[g] <= clock') /\ clock' >= clock /\ customers' >= customers
      BY <1>1, TypeNumbers DEF PaymentsInOrder
    <2> QED
      BY <1>1, <2>1, PaymentsKept
  <1>4. AttemptsAreSpaced'
    <2>1. \A i, j \in Charges :
            i < j /\ payments[i].charge.customer = payments[j].charge.customer
                => payments[j].at - payments[i].at >= RetryCadence
      BY <1>1 DEF AttemptsAreSpaced
    <2> QED
      BY <1>2, <2>1 DEF AttemptsAreSpaced
  <1>5. \A c, i : i \in ChargesOf(c) => i \in Charges /\ payments[i].at \in Nat
                                        /\ payments[i].at <= clock
    BY <1>1, PaymentFields DEF ChargesOf, Charges, PaymentsInOrder
  <1> QED
    BY <1>2, <1>3, <1>4, <1>5

\* A tick that is through with its day leaves nothing pending.
LEMMA SpacedEnd ==
  ASSUME TypeOK, TypeOK', SpacedFacts, errors = 0, LoneScheduler, NEW s \in Schedulers,
         UNCHANGED <<clock, analyzedAt, customers, payments, setup, removal>>, EndTick(s),
         project'.customer \in {project.customer, NoCustomer},
         project'.customer # NoCustomer =>
            \A i \in ChargesOf(project.customer) :
                \/ project'.lastAttempt >= payments[i].at
                \/ project'.end >= payments[i].at + RetryCadence
  PROVE  SpacedFacts'
  <1>1. \A t \in Schedulers : t = s
    BY DEF LoneScheduler
  <1>2. tick'[s].pc = "idle" /\ tick'[s].nextAt > clock
    BY TypeNumbers, EndTickEffect
  <1>3. /\ PaymentsInOrder' /\ AttemptsAreSpaced'
        /\ \A c : ChargesOf(c)' = ChargesOf(c)
    BY SpacedUnpaid
  <1>4. CustomersAreNew /\ RemovalKeepsOff
    BY DEF SpacedFacts
  <1>5. CustomersAreNew'
    <2>1. project'.customer <= customers
      BY <1>4, TypeNumbers DEF CustomersAreNew, NoCustomer
    <2>2. setup.pc = "persist" =>
            /\ project'.customer = NoCustomer /\ setup.customer <= customers
            /\ ChargesOf(setup.customer) = {}
      BY <1>4 DEF CustomersAreNew
    <2>3. ChargesOf(setup.customer)' = ChargesOf(setup.customer)
      BY DEF ChargesOf, Charges
    <2> QED
      BY <1>1, <1>2, <2>1, <2>2, <2>3 DEF CustomersAreNew, At
  <1>6. RowKeepsOff'
    <2> SUFFICES ASSUME project'.customer # NoCustomer, NEW i \in ChargesOf(project.customer)'
                 PROVE  KeptOff(project, i)'
      BY DEF RowKeepsOff
    <2>1. i \in ChargesOf(project.customer)
      BY DEF ChargesOf, Charges
    <2> QED
      BY <2>1 DEF KeptOff
  <1>7. SnapKeepsOff(s)' /\ TickHoldsRow(s)'
    BY <1>2 DEF SnapKeepsOff, TickHoldsRow, At
  <1>8. RemovalKeepsOff'
    <2> SUFFICES ASSUME removal.pc = "reset", removal.snap.end > clock, project'.customer # NoCustomer
                 PROVE  ChargesOf(project.customer)' = {}
      BY <1>1, <1>2 DEF RemovalKeepsOff, Ended, At
    <2>1. project'.customer = project.customer
      OBVIOUS
    <2>2. ChargesOf(project.customer) = {}
      BY <1>4, <2>1 DEF RemovalKeepsOff
    <2> QED
      BY <2>1, <2>2 DEF ChargesOf, Charges
  <1> QED
    BY <1>1, <1>3, <1>5, <1>6, <1>7, <1>8 DEF SpacedFacts

\* A tick that goes on, with what it has read before or with the row.
LEMMA SpacedHold ==
  ASSUME TypeOK, TypeOK', SpacedFacts, errors = 0, LoneScheduler, NEW s \in Schedulers,
         UNCHANGED <<clock, analyzedAt, customers, payments, setup, removal>>,
         project'.customer = project.customer, project'.end = project.end,
         ~Ended(s), tick'[s].pc # "idle",
         \/ ~At(s, "idle") /\ tick'[s].snap = tick[s].snap
         \/ tick'[s].snap = project,
         tick'[s].pc \in {"listed", "charge"} =>
            \/ At(s, "listed") /\ tick'[s].snap = tick[s].snap
            \/ ~(project.end > clock),
         project.customer # NoCustomer =>
            \A i \in ChargesOf(project.customer) :
                \/ project'.lastAttempt >= payments[i].at
                \/ project'.end >= payments[i].at + RetryCadence
                \/ Pending(project, i)',
         SnapKeepsOff(s)', TickHoldsRow(s)'
  PROVE  SpacedFacts'
  <1>1. \A t \in Schedulers : t = s
    BY DEF LoneScheduler
  <1>2. /\ PaymentsInOrder' /\ AttemptsAreSpaced'
        /\ \A c : ChargesOf(c)' = ChargesOf(c)
    BY SpacedUnpaid
  <1>3. CustomersAreNew /\ RemovalKeepsOff
    BY DEF SpacedFacts
  <1>4. CustomersAreNew'
    <2>1. project'.customer <= customers /\ tick'[s].snap.customer <= customers
      BY <1>3 DEF CustomersAreNew
    <2>2. setup.pc = "persist" =>
            /\ project'.customer = NoCustomer /\ setup.customer <= customers
            /\ ChargesOf(setup.customer) = {}
      BY <1>3 DEF CustomersAreNew
    <2>3. setup.pc = "persist" => tick'[s].snap.customer # setup.customer
      <3> SUFFICES ASSUME setup.pc = "persist" PROVE tick'[s].snap.customer # setup.customer
        OBVIOUS
      <3>1. setup.customer # NoCustomer
        BY HandlersHeld, Constants DEF NoCustomer
      <3> QED
        BY <1>3, <3>1 DEF CustomersAreNew
    <2>4. ChargesOf(setup.customer)' = ChargesOf(setup.customer)
      BY DEF ChargesOf, Charges
    <2> QED
      BY <1>1, <2>1, <2>2, <2>3, <2>4 DEF CustomersAreNew, At
  <1>5. RowKeepsOff'
    <2> SUFFICES ASSUME project'.customer # NoCustomer, NEW i \in ChargesOf(project.customer)'
                 PROVE  KeptOff(project, i)' \/ (Pending(project, i)' /\ ~Ended(s)')
      BY DEF RowKeepsOff
    <2>1. i \in ChargesOf(project.customer)
      BY DEF ChargesOf, Charges
    <2>2. ~Ended(s)'
      BY DEF Ended, At
    <2> QED
      BY <2>1, <2>2 DEF KeptOff
  <1>6. RemovalKeepsOff'
    <2> SUFFICES ASSUME removal.pc # "idle", removal.snap.end > clock
                 PROVE  /\ project'.end > clock
                        /\ setup.pc = "persist" => setup.snap.end > clock
                        /\ removal.pc = "reset" /\ project'.customer # NoCustomer =>
                            /\ ChargesOf(project.customer)' = {}
                            /\ tick'[s].pc \in {"listed", "charge"} =>
                                    tick'[s].snap.customer # project'.customer
      BY <1>1 DEF RemovalKeepsOff, At
    <2>1. project.end > clock /\ (setup.pc = "persist" => setup.snap.end > clock)
      BY <1>3 DEF RemovalKeepsOff
    <2>2. ASSUME removal.pc = "reset", project'.customer # NoCustomer
          PROVE  /\ ChargesOf(project.customer)' = {}
                 /\ tick'[s].pc \in {"listed", "charge"} =>
                        tick'[s].snap.customer # project'.customer
      <3>1. /\ ChargesOf(project.customer) = {}
            /\ At(s, "listed") => tick[s].snap.customer # project.customer
        BY <1>3, <2>2 DEF RemovalKeepsOff
      <3>2. ChargesOf(project.customer)' = ChargesOf(project.customer)
        BY DEF ChargesOf, Charges
      <3> QED
        BY <2>1, <3>1, <3>2
    <2> QED
      BY <2>1, <2>2
  <1> QED
    BY <1>1, <1>2, <1>4, <1>5, <1>6 DEF SpacedFacts

LEMMA RowNumbers ==
  ASSUME NEW p \in Row
  PROVE  /\ p.start \in Int /\ p.end \in Int /\ p.lastAttempt \in Int
         /\ p.executions \in Nat /\ p.customer \in Nat /\ p.failures \in Nat
  <1>1. p.start \in Nat \union {-1} /\ p.end \in Nat \union {-1} /\ p.lastAttempt \in Nat \union {-1}
        /\ p.executions \in Nat /\ p.customer \in 0 .. MaxCustomers /\ p.failures \in Nat
    BY RowFields DEF NULL
  <1> QED
    BY <1>1, Constants

\* What is pending stays so while nothing it speaks of changes.
LEMMA PendingStays ==
  ASSUME UNCHANGED <<clock, analyzedAt, payments, project>>, NEW i, Pending(project, i)
  PROVE  Pending(project, i)'
  BY DEF Pending, PeriodKey, Due, Costs, TooSoon

LEMMA SpacedList ==
  ASSUME TypeOK, TypeOK', errors = 0, SpacedFacts, LoneScheduler, NEW s \in Schedulers,
         ListProjectsForHobbyBillingTick(s)
  PROVE  SpacedFacts'
  <1>1. UNCHANGED <<clock, project, analyzedAt, customers, payments, setup, removal>>
    BY DEF ListProjectsForHobbyBillingTick, usage, handlers, stripe
  <1>2. At(s, "idle") /\ tick[s].nextAt <= clock
    BY ListEffect
  <1>3. /\ project \in Row /\ clock \in Nat /\ tick[s].nextAt \in Nat
        /\ RowKeepsOff
    BY <1>2, TypeNumbers, TickHeld DEF SpacedFacts
  <1>4. ~Ended(s)
    BY <1>2, <1>3 DEF Ended
  <1>5. project.customer # NoCustomer =>
          \A i \in ChargesOf(project.customer) : KeptOff(project, i) \/ Pending(project, i)
    BY <1>3 DEF RowKeepsOff
  <1>6. CASE EndTick(s) /\ (project.end > clock \/ ~AttemptedToday(project))
    <2>1. \A i \in ChargesOf(project.customer) : ~Pending(project, i)
      BY <1>3, <1>6, RowNumbers DEF Pending, AttemptedToday, ChargesOf, Charges
    <2> QED
      BY <1>1, <1>5, <1>6, <2>1, SpacedEnd DEF KeptOff
  <1>7. CASE ~(EndTick(s) /\ (project.end > clock \/ ~AttemptedToday(project)))
    <2>1. PICK t \in TickType :
            /\ Hold(s, t) /\ t.pc = "listed" /\ t.snap = project
            /\ Due(project) => project.end <= clock
      BY <1>7, ListEffect
    <2>2. tick'[s].pc = "listed" /\ tick'[s].snap = project
      BY <2>1, HoldEffect
    <2>3. ~(project.end > clock)
      <3> SUFFICES ASSUME project.end > clock PROVE FALSE
        OBVIOUS
      <3>1. project.start # NULL /\ project.end # NULL
        BY <1>3, RowFields, RowNumbers DEF NULL
      <3>2. project.end <= clock
        BY <2>1, <3>1 DEF Due
      <3> QED
        BY <1>3, <3>2, RowNumbers
    <2>4. \A i : Pending(project, i) => Pending(project, i)'
      BY <1>1, PendingStays
    <2>5. SnapKeepsOff(s)'
      <3>1. /\ Due(project) => project.end <= clock
            /\ project.customer # NoCustomer =>
                 \A i \in ChargesOf(project.customer) : KeptOff(project, i) \/ Pending(project, i)
        BY <1>5, <2>1
      <3> QED
        BY <1>1, <2>2, <3>1
           DEF SnapKeepsOff, ChargesOf, Charges, KeptOff, Pending, PeriodKey, Due, Costs, TooSoon
    <2>6. TickHoldsRow(s)'
      <3>1. StillHolds(project, project)
        BY <1>3, RowNumbers DEF StillHolds
      <3> QED
        BY <1>1, <2>2, <3>1 DEF TickHoldsRow, At, StillHolds
    <2>7. project.customer # NoCustomer =>
            \A i \in ChargesOf(project.customer) :
                \/ project'.lastAttempt >= payments[i].at
                \/ project'.end >= payments[i].at + RetryCadence
                \/ Pending(project, i)'
      BY <1>1, <1>5, <2>4 DEF KeptOff
    <2> QED
      BY <1>1, <1>4, <2>2, <2>3, <2>5, <2>6, <2>7, SpacedHold
  <1> QED
    BY <1>6, <1>7

LEMMA SpacedRollover ==
  ASSUME TypeOK, TypeOK', errors = 0, errors' = 0, SpacedFacts, LoneScheduler, NEW s \in Schedulers,
         Rollover(s)
  PROVE  SpacedFacts'
  <1> DEFINE p == tick[s].snap
  <1>1. UNCHANGED <<clock, analyzedAt, customers, payments, setup, removal>> /\ EndTick(s)
    BY DEF Rollover, usage, handlers, stripe
  <1>2. p \in Row /\ (At(s, "listed") \/ At(s, "rollover")) /\ ~At(s, "idle")
    BY RolloverEffect DEF At
  <1>3. /\ clock \in Nat /\ Period \in Nat \ {0} /\ RetryCadence \in Nat /\ RetryCadence <= Period
        /\ project \in Row /\ TickHoldsRow(s) /\ errors \in 0 .. MaxErrors
    BY TypeNumbers, Constants DEF SpacedFacts, TypeOK
  <1>4. /\ project'.customer = project.customer /\ project'.lastAttempt = project.lastAttempt
        /\ project'.end = IF Due(p) THEN p.end + Period ELSE clock + Period
    <2>1. PICK ok \in Outcomes :
            /\ project' = IF ok
                          THEN ResetExecutionsThisPeriod(project, NewBounds(p)[1], NewBounds(p)[2])
                          ELSE project
            /\ CountError(ok)
      BY DEF Rollover
    <2>2. ok
      BY <1>3, <2>1, Counted
    <2> DEFINE a == NewBounds(p)[1]
               b == NewBounds(p)[2]
    <2>3. /\ a = IF Due(p) THEN p.end ELSE clock
          /\ b = IF Due(p) THEN p.end + Period ELSE clock + Period
      BY DEF NewBounds
    <2>4. a \in Nat /\ b \in Nat
      <3>1. Due(p) => p.end \in Nat
        BY <1>2, RowFields DEF Due
      <3> QED
        BY <1>3, <2>3, <3>1
    <2>5. project' = ResetExecutionsThisPeriod(project, a, b)
      BY <2>1, <2>2
    <2> HIDE DEF a, b
    <2> DEFINE q == ResetExecutionsThisPeriod(project, a, b)
    <2>6. q.end = b /\ q.customer = project.customer /\ q.lastAttempt = project.lastAttempt
      BY <1>3, <2>4, ResetRow
    <2> QED
      BY <2>3, <2>5, <2>6
  <1>5. \A i \in ChargesOf(project.customer) : payments[i].at \in Nat /\ payments[i].at <= clock
    BY <1>1, SpacedUnpaid
  <1>6. ASSUME project.customer # NoCustomer, NEW i \in ChargesOf(project.customer)
        PROVE  \/ project'.lastAttempt >= payments[i].at
               \/ project'.end >= payments[i].at + RetryCadence
    <2>1. CASE ~Due(p)
      BY <1>3, <1>4, <1>5, <2>1
    <2>2. CASE At(s, "rollover") /\ Due(p)
      BY <1>3, <1>4, <1>6, <2>2 DEF TickHoldsRow
    <2>3. CASE At(s, "listed") /\ Due(p)
      <3>1. p.customer = NoCustomer
        BY <2>3 DEF Rollover, At
      <3>2. ChargesOf(project.customer) = {}
        BY <1>2, <1>3, <1>6, <3>1 DEF TickHoldsRow
      <3> QED
        BY <3>2
    <2> QED
      BY <1>2, <2>1, <2>2, <2>3
  <1> QED
    BY <1>1, <1>4, <1>6, SpacedEnd

LEMMA SpacedDetach ==
  ASSUME TypeOK, TypeOK', errors = 0, errors' = 0, SpacedFacts, LoneScheduler, NEW s \in Schedulers,
         DetachCard(s)
  PROVE  SpacedFacts'
  <1>1. UNCHANGED <<clock, analyzedAt, customers, payments, setup, removal>> /\ EndTick(s)
    BY DEF DetachCard, usage, handlers, stripe
  <1>2. project'.customer = NoCustomer
    <2>1. PICK ok \in Outcomes : CountError(ok) /\ (ok => project' = DetachHobbyCardForBillingFailure(project))
      BY DetachCardEffect
    <2>2. ok
      <3>1. errors \in 0 .. MaxErrors
        BY DEF TypeOK
      <3> QED
        BY <2>1, <3>1, Counted
    <2> QED
      BY <2>1, <2>2, TypeNumbers, DetachedRow
  <1> QED
    BY <1>1, <1>2, SpacedEnd

LEMMA SpacedRecord ==
  ASSUME TypeOK, TypeOK', errors = 0, errors' = 0, SpacedFacts, LoneScheduler, NEW s \in Schedulers,
         RecordAttempt(s)
  PROVE  SpacedFacts'
  <1>1. UNCHANGED <<clock, analyzedAt, customers, payments, setup, removal>>
    BY DEF RecordAttempt, usage, handlers, stripe
  <1>2. /\ At(s, "charged") \/ At(s, "refused")
        /\ project'.end = project.end /\ project'.customer = project.customer
    BY RecordAttemptEffect
  <1>3. project'.lastAttempt = clock
    <2>1. PICK ok \in Outcomes : CountError(ok) /\ (ok => project'.lastAttempt = clock)
      BY RecordAttemptEffect
    <2>2. errors \in 0 .. MaxErrors
      BY DEF TypeOK
    <2>3. ok
      BY <2>1, <2>2, Counted
    <2> QED
      BY <2>1, <2>3
  <1>4. \A i \in ChargesOf(project.customer) : payments[i].at \in Nat /\ payments[i].at <= clock
    BY <1>1, SpacedUnpaid
  <1>5. \A i \in ChargesOf(project.customer) : project'.lastAttempt >= payments[i].at
    BY <1>3, <1>4, TypeNumbers
  <1>6. CASE EndTick(s)
    BY <1>1, <1>2, <1>5, <1>6, SpacedEnd
  <1>7. CASE ~EndTick(s)
    <2>1. PICK t \in TickType :
            /\ Hold(s, t) /\ t.snap = tick[s].snap
            /\ \/ t.pc = "rollover" /\ At(s, "charged")
               \/ t.pc = "detach" /\ At(s, "refused")
      BY <1>7, RecordAttemptEffect
    <2>2. tick'[s] = t
      BY <2>1, HoldEffect
    <2>3. ~At(s, "idle") /\ ~Ended(s)
      BY <1>2 DEF At, Ended
    <2>4. SnapKeepsOff(s)'
      BY <2>1, <2>2 DEF SnapKeepsOff, At
    <2>5. TickHoldsRow(s)'
      <3>1. /\ At(s, "charged") => Due(tick[s].snap)
            /\ project.customer \notin {NoCustomer, tick[s].snap.customer} =>
                  ChargesOf(project.customer) = {}
        BY <2>3 DEF SpacedFacts, TickHoldsRow
      <3>2. ChargesOf(project.customer)' = ChargesOf(project.customer)
        BY <1>1, <1>2 DEF ChargesOf, Charges
      <3>3. \A i \in ChargesOf(project.customer)' : project'.lastAttempt >= payments'[i].at
        BY <1>1, <1>5, <3>2
      <3>4. tick'[s].snap = tick[s].snap
        BY <2>1, <2>2
      <3> QED
        BY <1>2, <2>1, <2>2, <3>1, <3>2, <3>3, <3>4 DEF TickHoldsRow, At, Due
    <2> QED
      BY <1>1, <1>2, <1>5, <2>1, <2>2, <2>3, <2>4, <2>5, SpacedHold
  <1> QED
    BY <1>6, <1>7

\* What dies after a charge is taken up again the same day.
LEMMA SpacedCrash ==
  ASSUME TypeOK, TypeOK', errors = 0, SpacedFacts, LoneScheduler, NEW s \in Schedulers, Crash(s)
  PROVE  SpacedFacts'
  <1>1. UNCHANGED <<clock, project, analyzedAt, customers, payments, setup, removal>>
    BY DEF Crash, usage, handlers, stripe
  <1>2. \A t \in Schedulers : t = s
    BY DEF LoneScheduler
  <1>3. ~At(s, "idle") /\ ~Ended(s)
    BY CrashEffect DEF Ended
  <1>4. tick'[s].pc = "idle" /\ ~Ended(s)'
    <2>1. PICK t \in TickType : Hold(s, t) /\ t.pc = "idle" /\ t.nextAt = clock
      BY CrashEffect
    <2>2. tick'[s] = t
      BY <2>1, HoldEffect
    <2>3. clock \in Nat
      BY TypeNumbers
    <2> QED
      BY <1>1, <2>1, <2>2, <2>3 DEF Ended, At
  <1>5. /\ PaymentsInOrder' /\ AttemptsAreSpaced'
        /\ \A c : ChargesOf(c)' = ChargesOf(c)
    BY <1>1, SpacedUnpaid
  <1>6. CustomersAreNew /\ RemovalKeepsOff /\ RowKeepsOff
    BY DEF SpacedFacts
  <1>7. CustomersAreNew'
    BY <1>1, <1>2, <1>4, <1>6 DEF CustomersAreNew, At, ChargesOf, Charges
  <1>8. RowKeepsOff'
    <2> SUFFICES ASSUME project.customer # NoCustomer, NEW i \in ChargesOf(project.customer)'
                 PROVE  KeptOff(project, i)' \/ Pending(project, i)'
      BY <1>1, <1>4 DEF RowKeepsOff
    <2>1. i \in ChargesOf(project.customer)
      BY <1>1 DEF ChargesOf, Charges
    <2>2. KeptOff(project, i) \/ Pending(project, i)
      BY <1>6, <2>1 DEF RowKeepsOff
    <2> QED
      BY <1>1, <2>2, PendingStays DEF KeptOff
  <1>9. SnapKeepsOff(s)' /\ TickHoldsRow(s)'
    BY <1>4 DEF SnapKeepsOff, TickHoldsRow, At
  <1>10. RemovalKeepsOff'
    <2> SUFFICES ASSUME removal.pc # "idle", removal.snap.end > clock
                 PROVE  /\ project.end > clock
                        /\ setup.pc = "persist" => setup.snap.end > clock
                        /\ removal.pc = "reset" /\ project.customer # NoCustomer =>
                              ChargesOf(project.customer)' = {}
      BY <1>1, <1>2, <1>4 DEF RemovalKeepsOff, At
    <2> QED
      BY <1>1, <1>3, <1>6 DEF RemovalKeepsOff, ChargesOf, Charges
  <1> QED
    BY <1>2, <1>5, <1>7, <1>8, <1>9, <1>10 DEF SpacedFacts

LEMMA SpacedPrice ==
  ASSUME TypeOK, TypeOK', errors = 0, errors' = 0, SpacedFacts, LoneScheduler, NEW s \in Schedulers,
         Price(s)
  PROVE  SpacedFacts'
  <1> DEFINE p == tick[s].snap
  <1>1. UNCHANGED <<clock, project, analyzedAt, customers, payments, setup, removal>>
    BY DEF Price, usage, handlers, stripe
  <1>2. p \in Row /\ At(s, "listed") /\ Due(p) /\ p.customer # NoCustomer /\ ~At(s, "idle") /\ ~Ended(s)
    BY PriceEffect DEF At, Ended
  <1>3. SnapKeepsOff(s) /\ TickHoldsRow(s) /\ RowKeepsOff
    BY DEF SpacedFacts
  <1>4. \/ ChargesOf(project.customer) = {}
        \/ project.customer = NoCustomer
        \/ project.customer = p.customer /\ project.lastAttempt = p.lastAttempt
    BY <1>2, <1>3 DEF TickHoldsRow
  <1>5. project.customer # NoCustomer =>
          \A i \in ChargesOf(project.customer) : KeptOff(project, i) \/ Pending(project, i)
    BY <1>3 DEF RowKeepsOff
  <1>6. CASE MaybeTooSoon(p) /\ EndTick(s)
    <2>1. ASSUME project.customer # NoCustomer, NEW i \in ChargesOf(project.customer),
                 Pending(project, i)
          PROVE  FALSE
      <3>1. project.customer = p.customer /\ project.lastAttempt = p.lastAttempt
        BY <1>4, <2>1
      <3>2. ~TooSoon(p)
        BY <2>1, <3>1 DEF Pending, TooSoon
      <3>3. clock \in Nat /\ project.end \in Int /\ RetryCadence \in Nat \ {0}
        BY TypeNumbers, RowNumbers, Constants
      <3>4. StillHolds(project, p)
        BY <1>2, <1>3, <2>1, <3>1, <3>3 DEF TickHoldsRow, Pending
      <3>5. AttemptedToday(p)
        BY <2>1, <3>4 DEF Pending, AttemptedToday, StillHolds, PeriodKey, ChargesOf, Charges
      <3> QED
        BY <1>6, <3>2, <3>5 DEF MaybeTooSoon
    <2> QED
      BY <1>1, <1>5, <1>6, <2>1, SpacedEnd DEF KeptOff
  <1>7. CASE ~(MaybeTooSoon(p) /\ EndTick(s))
    <2>1. PICK ok \in Outcomes, t \in TickType :
            /\ ~TooSoon(p) /\ CountError(ok) /\ Hold(s, t) /\ t.snap = p
            /\ \/ t.pc = "rollover" /\ (ok => ~Costs(p))
               \/ /\ t.pc = "charge" /\ t.charge.customer = p.customer /\ Costs(p)
      BY <1>7, PriceEffect
    <2>2. ok
      <3>1. errors \in 0 .. MaxErrors
        BY DEF TypeOK
      <3> QED
        BY <2>1, <3>1, Counted
    <2>3. tick'[s] = t
      BY <2>1, HoldEffect
    <2>4. project.customer # NoCustomer =>
            \A i \in ChargesOf(project.customer) :
                \/ project'.lastAttempt >= payments[i].at
                \/ project'.end >= payments[i].at + RetryCadence
                \/ Pending(project, i)'
      BY <1>1, <1>5, PendingStays DEF KeptOff
    <2>5. CASE t.pc = "rollover" /\ ~Costs(p)
      <3>1. SnapKeepsOff(s)'
        BY <2>3, <2>5 DEF SnapKeepsOff, At
      <3>2. project.customer # NoCustomer =>
              \A i \in ChargesOf(project.customer) :
                  \/ project.lastAttempt >= payments[i].at
                  \/ p.end + Period >= payments[i].at + RetryCadence
        <4> SUFFICES ASSUME project.customer # NoCustomer, NEW i \in ChargesOf(project.customer)
                     PROVE  \/ project.lastAttempt >= payments[i].at
                            \/ p.end + Period >= payments[i].at + RetryCadence
          OBVIOUS
        <4>1. project.customer = p.customer /\ project.lastAttempt = p.lastAttempt
          BY <1>4
        <4>2. KeptOff(p, i)
          BY <1>2, <1>3, <2>5, <4>1 DEF SnapKeepsOff, Pending
        <4>3. p.end \in Int /\ payments[i].at \in Nat /\ Period \in Nat /\ RetryCadence \in Nat
          BY <1>1, <1>2, RowNumbers, SpacedUnpaid, Constants
        <4> QED
          BY <4>1, <4>2, <4>3 DEF KeptOff
      <3>3. TickHoldsRow(s)'
        <4>1. project.customer \notin {NoCustomer, p.customer} => ChargesOf(project.customer) = {}
          BY <1>4
        <4>2. tick'[s].pc = "rollover" /\ tick'[s].snap = p
          BY <2>1, <2>3, <2>5
        <4> HIDE DEF p
        <4> QED
          BY <1>1, <1>2, <3>2, <4>1, <4>2 DEF TickHoldsRow, At, ChargesOf, Charges, Due
      <3> QED
        BY <1>1, <1>2, <2>1, <2>3, <2>4, <2>5, <3>1, <3>3, SpacedHold
    <2>6. CASE t.pc = "charge" /\ t.charge.customer = p.customer /\ Costs(p)
      <3>1. tick'[s].pc = "charge" /\ tick'[s].snap = p /\ tick'[s].charge.customer = p.customer
        BY <2>1, <2>3, <2>6
      <3>2. SnapKeepsOff(s)'
        <4>1. /\ Due(p) => p.end <= clock
              /\ p.customer # NoCustomer =>
                    \A i \in ChargesOf(p.customer) : KeptOff(p, i) \/ Pending(p, i)
          BY <1>2, <1>3 DEF SnapKeepsOff
        <4> HIDE DEF p
        <4> QED
          BY <1>1, <3>1, <4>1
             DEF SnapKeepsOff, At, ChargesOf, Charges, KeptOff, Pending, PeriodKey, Due, Costs, TooSoon
      <3>3. TickHoldsRow(s)'
        <4>1. /\ \/ project.customer # p.customer \/ p.customer = NoCustomer
                 \/ /\ project.lastAttempt = p.lastAttempt
                    /\ StillHolds(project, p) \/ project.end >= clock + RetryCadence
              /\ project.customer \notin {NoCustomer, p.customer} => ChargesOf(project.customer) = {}
          BY <1>2, <1>3 DEF TickHoldsRow
        <4>2. ~TooSoon(p) /\ Costs(p)
          BY <2>1, <2>6
        <4> HIDE DEF p
        <4> QED
          BY <1>1, <1>2, <3>1, <4>1, <4>2
             DEF TickHoldsRow, At, ChargesOf, Charges, Due, Costs, TooSoon, StillHolds
      <3> QED
        BY <1>1, <1>2, <2>4, <3>1, <3>2, <3>3, SpacedHold
    <2> QED
      BY <2>1, <2>2, <2>5, <2>6
  <1> QED
    BY <1>6, <1>7

\* A charge that Stripe knows of today is not made again under its key.
LEMMA NotTwiceToday ==
  ASSUME TypeOK, PaymentsInOrder, NEW key, NEW i \in DOMAIN payments,
         payments[i].key = key, payments[i].at = clock
  PROVE  Known(key) # {} /\ ~(clock - payments[Max(Known(key))].at >= KeyLife)
  <1> DEFINE m == Max(Known(key))
             n == Len(payments)
  <1>1. DOMAIN payments = 1 .. n /\ n \in Nat /\ \A j \in 1 .. n : payments[j].at \in Nat
    BY PaymentFields
  <1>2. i \in Known(key) /\ Known(key) \subseteq DOMAIN payments
    BY DEF Known
  <1>3. Known(key) \subseteq 0 .. n
    BY <1>1, <1>2
  <1>4. m \in Known(key) /\ i <= m
    BY <1>1, <1>2, <1>3, MaxExists
  <1> HIDE DEF m, n
  <1>5. m \in DOMAIN payments
    BY <1>2, <1>4
  <1>6. payments[i].at <= payments[m].at /\ payments[m].at <= clock
    BY <1>4, <1>5 DEF PaymentsInOrder
  <1>7. payments[m].at = clock /\ clock \in Nat
    BY <1>1, <1>5, <1>6, TypeNumbers
  <1> QED
    BY <1>2, <1>7, Constants DEF m

\* What a charge that is carried out leaves at Stripe.
LEMMA FreshCharge ==
  ASSUME TypeOK, TypeOK', PaymentsInOrder, CustomersAreNew, NEW s \in Schedulers, ChargeOffSession(s),
         payments' # payments, tick[s].snap.customer # NoCustomer,
         tick[s].charge.customer = tick[s].snap.customer, NEW new, new = Len(payments) + 1
  PROVE  /\ \/ Known(PeriodKey(tick[s].snap)) = {}
            \/ clock - payments[Max(Known(PeriodKey(tick[s].snap)))].at >= KeyLife
         /\ new \in Nat /\ payments'[new].charge.customer = tick[s].snap.customer
         /\ payments'[new].at = clock /\ payments'[new].key = PeriodKey(tick[s].snap)
         /\ errors' = 0 /\ payments'[new].ok => tick'[s].pc = "charged"
         /\ Charges' = Charges \union {new} /\ new \notin Charges
         /\ \A i \in Charges : payments'[i] = payments[i] /\ payments[i].at \in Nat
                             /\ payments[i].at <= clock /\ i < new
         /\ PaymentsInOrder' /\ CustomersAreNew'
  <1> DEFINE p == tick[s].snap
             n == Len(payments)
  <1>1. UNCHANGED <<clock, project, analyzedAt, customers, setup>>
    BY DEF ChargeOffSession, usage, handlers
  <1>2. p \in Row /\ At(s, "charge") /\ ~At(s, "idle")
    BY ChargeOffSessionEffect DEF At
  <1>3. /\ tick'[s].snap = p /\ tick'[s].pc \in {"charged", "refused"}
        /\ \A r \in Schedulers : r # s => tick'[r] = tick[r]
    <2>1. PICK t \in TickType : Hold(s, t) /\ t.snap = p /\ t.pc \in {"charged", "refused"}
      BY ChargeOffSessionEffect
    <2> QED
      BY <2>1, HoldEffect
  <1>4. /\ \/ Known(PeriodKey(p)) = {}
           \/ clock - payments[Max(Known(PeriodKey(p)))].at >= KeyLife
        /\ Len(payments') = new
        /\ \A i \in 1 .. n : payments'[i] = payments[i]
        /\ payments'[new].key = PeriodKey(p)
        /\ payments'[new].charge = tick[s].charge
        /\ payments'[new].at = clock
        /\ errors' = 0 /\ payments'[new].ok => tick'[s].pc = "charged"
    BY ChargeOffSessionEffect
  <1>5. /\ DOMAIN payments = 1 .. n /\ n \in Nat /\ Charges \subseteq 1 .. n
        /\ \A i \in 1 .. n : payments[i].at \in Nat
    BY PaymentFields
  <1>6. DOMAIN payments' = 1 .. new
    <2>1. DOMAIN payments' = 1 .. Len(payments')
      BY DEF TypeOK
    <2> QED
      BY <1>4, <2>1
  <1>7. clock \in Nat /\ customers \in Nat /\ p.customer \in Nat
    BY <1>2, TypeNumbers, RowNumbers
  <1>8. p.customer <= customers /\ p.customer \in 1 .. customers
    BY <1>2, <1>7 DEF CustomersAreNew, NoCustomer
  <1>9. /\ payments'[new].charge.customer = p.customer
        /\ new \in Nat /\ \A i \in 1 .. n : i < new
    BY <1>4, <1>5
  <1>10. PeriodKey(p).for = "period"
    BY <1>2, PeriodKeyType
  <1> HIDE DEF p
  <1>11. /\ \A i \in 1 .. new : i \in 1 .. n \/ i = new
         /\ new \in 1 .. new /\ new \notin 1 .. n /\ 1 .. n \subseteq 1 .. new
    BY <1>5
  <1>12. /\ Charges' = Charges \union {new} /\ new \notin Charges
         /\ \A i \in Charges : payments'[i] = payments[i] /\ payments[i].at \in Nat
                             /\ payments[i].at <= clock /\ i < new
    <2>1. \A i \in Charges : payments[i].at <= clock
      BY DEF PaymentsInOrder, Charges
    <2> HIDE DEF n
    <2>2. \A i : i \in Charges' <=> i \in Charges \/ i = new
      BY <1>4, <1>5, <1>6, <1>10, <1>11 DEF Charges
    <2> QED
      BY <1>4, <1>5, <1>9, <1>11, <2>1, <2>2
  <1>13. PaymentsInOrder'
    <2>1. \A i \in 1 .. new : payments'[i].at <= clock
      BY <1>4, <1>5, <1>7, <1>11 DEF PaymentsInOrder
    <2>2. ASSUME NEW i \in 1 .. new, NEW j \in 1 .. new, i <= j
          PROVE  payments'[i].at <= payments'[j].at
      <3>1. CASE j = new
        BY <1>4, <2>1, <3>1
      <3>2. CASE j # new
        <4>1. i \in 1 .. n /\ j \in 1 .. n
          BY <1>5, <2>2, <3>2
        <4> QED
          BY <1>4, <1>5, <2>2, <4>1 DEF PaymentsInOrder
      <3> QED
        BY <3>1, <3>2
    <2>3. \A i \in Charges' : payments'[i].charge.customer \in 1 .. customers
      BY <1>8, <1>9, <1>12 DEF PaymentsInOrder
    <2>4. \A g \in Groups : analyzedAt[g] <= clock
      BY DEF PaymentsInOrder
    <2> QED
      BY <1>1, <1>6, <2>1, <2>2, <2>3, <2>4 DEF PaymentsInOrder
  <1>14. CustomersAreNew'
    <2>1. ASSUME setup.pc = "persist"
          PROVE  /\ project.customer = NoCustomer /\ setup.customer <= customers
                 /\ ChargesOf(setup.customer)' = {}
                 /\ \A r \in Schedulers : ~At(r, "idle") => tick[r].snap.customer # setup.customer
      <3>1. /\ project.customer = NoCustomer /\ setup.customer <= customers
            /\ ChargesOf(setup.customer) = {}
            /\ \A r \in Schedulers : ~At(r, "idle") => tick[r].snap.customer # setup.customer
        BY <2>1 DEF CustomersAreNew
      <3>2. p.customer # setup.customer
        BY <1>2, <3>1 DEF p
      <3>3. ChargesOf(setup.customer)' = ChargesOf(setup.customer)
        BY <1>1, <1>9, <1>12, <3>2 DEF ChargesOf
      <3> QED
        BY <3>1, <3>3
    <2>2. /\ project.customer <= customers
          /\ \A r \in Schedulers : ~At(r, "idle") => tick[r].snap.customer <= customers
      BY DEF CustomersAreNew
    <2>3. \A r \in Schedulers : tick'[r].pc # "idle" =>
              ~At(r, "idle") /\ tick'[r].snap = tick[r].snap
      BY <1>2, <1>3 DEF At, p
    <2> QED
      BY <1>1, <2>1, <2>2, <2>3 DEF CustomersAreNew, At
  <1> QED
    BY <1>4, <1>9, <1>12, <1>13, <1>14 DEF p

LEMMA SpacedCharge ==
  ASSUME TypeOK, TypeOK', errors = 0, errors' = 0, SpacedFacts, LoneScheduler, NEW s \in Schedulers,
         ChargeOffSession(s)
  PROVE  SpacedFacts'
  <1> DEFINE p == tick[s].snap
             n == Len(payments)
  <1>1. UNCHANGED <<clock, project, analyzedAt, customers, setup, removal>>
    BY DEF ChargeOffSession, usage, handlers
  <1>2. p \in Row /\ At(s, "charge") /\ ~At(s, "idle") /\ ~Ended(s)
    BY ChargeOffSessionEffect DEF At, Ended
  <1>3. \A t \in Schedulers : t = s
    BY DEF LoneScheduler
  <1>4. /\ PaymentsInOrder /\ CustomersAreNew /\ RowKeepsOff /\ RemovalKeepsOff /\ AttemptsAreSpaced
        /\ SnapKeepsOff(s) /\ TickHoldsRow(s)
    BY DEF SpacedFacts
  <1>5. /\ Due(p) /\ p.customer # NoCustomer /\ tick[s].charge.customer = p.customer
        /\ ~TooSoon(p) /\ Costs(p) /\ p.end <= clock
        /\ \A i \in ChargesOf(p.customer) : KeptOff(p, i) \/ Pending(p, i)
        /\ project.customer \notin {NoCustomer, p.customer} => ChargesOf(project.customer) = {}
        /\ project.customer = p.customer =>
              /\ project.lastAttempt = p.lastAttempt
              /\ StillHolds(project, p) \/ project.end >= clock + RetryCadence
    BY <1>2, <1>4 DEF SnapKeepsOff, TickHoldsRow
  <1>6. /\ tick'[s].snap = p /\ tick'[s].pc \in {"charged", "refused"}
    <2>1. PICK t \in TickType : Hold(s, t) /\ t.snap = p /\ t.pc \in {"charged", "refused"}
      BY ChargeOffSessionEffect
    <2> QED
      BY <2>1, HoldEffect
  <1>7. ~Ended(s)'
    BY <1>6 DEF Ended, At
  <1>8. SnapKeepsOff(s)'
    BY <1>6 DEF SnapKeepsOff, At
  <1>9. CASE payments' = payments
    <2>1. project.customer # NoCustomer =>
            \A i \in ChargesOf(project.customer) :
                \/ project'.lastAttempt >= payments[i].at
                \/ project'.end >= payments[i].at + RetryCadence
                \/ Pending(project, i)'
      BY <1>1, <1>4, <1>9, PendingStays DEF RowKeepsOff, KeptOff
    <2>2. TickHoldsRow(s)'
      <3> HIDE DEF p
      <3> QED
        BY <1>1, <1>5, <1>6, <1>9 DEF TickHoldsRow, At, Due, ChargesOf, Charges
    <2> QED
      BY <1>1, <1>2, <1>6, <1>8, <1>9, <2>1, <2>2, SpacedHold
  <1>10. CASE payments' # payments
    <2> DEFINE new == n + 1
    <2>1. /\ \/ Known(PeriodKey(p)) = {}
             \/ clock - payments[Max(Known(PeriodKey(p)))].at >= KeyLife
          /\ new \in Nat /\ payments'[new].charge.customer = p.customer
          /\ payments'[new].at = clock /\ payments'[new].key = PeriodKey(p)
          /\ Charges' = Charges \union {new} /\ new \notin Charges
          /\ \A i \in Charges : payments'[i] = payments[i] /\ payments[i].at \in Nat
                              /\ payments[i].at <= clock /\ i < new
          /\ PaymentsInOrder' /\ CustomersAreNew'
      BY <1>4, <1>5, <1>10, FreshCharge
    <2>2. Charges \subseteq DOMAIN payments /\ Charges \subseteq Nat
      BY PaymentFields DEF Charges
    <2>3. /\ clock \in Nat /\ RetryCadence \in Nat
          /\ p.end \in Int /\ p.lastAttempt \in Int
      BY <1>2, TypeNumbers, RowNumbers, Constants
    <2> HIDE DEF new, n
    <2> HIDE DEF p
    <2>4. AttemptsAreSpaced'
      <3>1. \A i, j \in Charges :
              i < j /\ payments[i].charge.customer = payments[j].charge.customer
                  => payments[j].at - payments[i].at >= RetryCadence
        BY <1>4 DEF AttemptsAreSpaced
      <3>2. ASSUME NEW i \in Charges, payments[i].charge.customer = p.customer
            PROVE  clock - payments[i].at >= RetryCadence
        <4>1. i \in ChargesOf(p.customer) /\ i \in DOMAIN payments
          BY <2>2, <3>2 DEF ChargesOf
        <4>2. ~Pending(p, i)
          BY <1>4, <2>1, <4>1, NotTwiceToday DEF Pending
        <4>3. KeptOff(p, i)
          BY <1>5, <4>1, <4>2
        <4>4. CASE p.end >= payments[i].at + RetryCadence
          BY <1>5, <2>1, <2>3, <4>4
        <4>5. CASE p.lastAttempt >= payments[i].at
          BY <1>5, <2>1, <2>3, <4>5 DEF TooSoon, NULL
        <4> QED
          BY <4>3, <4>4, <4>5 DEF KeptOff
      <3> SUFFICES ASSUME NEW i \in Charges', NEW j \in Charges', i < j,
                          payments'[i].charge.customer = payments'[j].charge.customer
                   PROVE  payments'[j].at - payments'[i].at >= RetryCadence
        BY DEF AttemptsAreSpaced
      <3>3. CASE j = new
        <4>1. i \in Charges
          BY <2>1, <3>3
        <4> QED
          BY <2>1, <3>2, <3>3, <4>1
      <3>4. CASE j # new
        <4>1. j \in Charges
          BY <2>1, <3>4
        <4>2. i \in Charges
          <5>1. i # new
            BY <2>1, <2>2, <4>1
          <5> QED
            BY <2>1, <5>1
        <4> QED
          BY <2>1, <3>1, <4>1, <4>2
      <3> QED
        BY <3>3, <3>4
    <2>5. RowKeepsOff'
      <3> SUFFICES ASSUME project.customer # NoCustomer, NEW i \in ChargesOf(project.customer)'
                   PROVE  KeptOff(project, i)' \/ Pending(project, i)'
        BY <1>1, <1>7 DEF RowKeepsOff
      <3>1. CASE i # new
        <4>1. i \in ChargesOf(project.customer) /\ payments'[i] = payments[i]
          BY <1>1, <2>1, <3>1 DEF ChargesOf
        <4>2. KeptOff(project, i) \/ Pending(project, i)
          BY <1>4, <4>1 DEF RowKeepsOff
        <4> QED
          BY <1>1, <4>1, <4>2 DEF KeptOff, Pending, PeriodKey, Due, Costs, TooSoon
      <3>2. CASE i = new
        <4>1. project.customer = p.customer
          BY <1>1, <2>1, <3>2 DEF ChargesOf
        <4>2. CASE project.end >= clock + RetryCadence
          BY <1>1, <2>1, <3>2, <4>2 DEF KeptOff
        <4>3. CASE StillHolds(project, p)
          <5>1. /\ PeriodKey(project) = PeriodKey(p) /\ Due(project) /\ project.end <= clock
                /\ ~TooSoon(project)
            BY <1>5, <4>1, <4>3 DEF StillHolds, PeriodKey, Due, TooSoon
          <5>2. Costs(project)
            <6>1. project.executions \in Nat /\ p.executions \in Nat /\ Included \in Nat
              BY <1>2, RowNumbers, TypeNumbers, Constants DEF p
            <6>2. project.executions >= p.executions /\ project.start = p.start
              BY <4>3 DEF StillHolds
            <6> QED
              BY <1>5, <6>1, <6>2 DEF Costs
          <5> QED
            BY <1>1, <2>1, <3>2, <5>1, <5>2 DEF Pending, PeriodKey, Due, Costs, TooSoon
        <4> QED
          BY <1>5, <4>1, <4>2, <4>3
      <3> QED
        BY <3>1, <3>2
    <2>6. TickHoldsRow(s)'
      <3>1. project.customer \notin {NoCustomer, p.customer} => ChargesOf(project.customer)' = {}
        <4> SUFFICES ASSUME project.customer \notin {NoCustomer, p.customer}
                     PROVE  ChargesOf(project.customer)' = {}
          OBVIOUS
        <4>1. ChargesOf(project.customer) = {}
          BY <1>5
        <4> QED
          BY <1>1, <2>1, <4>1 DEF ChargesOf
      <3> QED
        BY <1>1, <1>5, <1>6, <3>1 DEF TickHoldsRow, At, Due
    <2>7. RemovalKeepsOff'
      <3> SUFFICES ASSUME removal.pc # "idle", removal.snap.end > clock
                   PROVE  /\ project.end > clock
                          /\ setup.pc = "persist" => setup.snap.end > clock
                          /\ removal.pc = "reset" /\ project.customer # NoCustomer =>
                                ChargesOf(project.customer)' = {}
        BY <1>1, <1>3, <1>6 DEF RemovalKeepsOff, At
      <3>1. /\ project.end > clock
            /\ setup.pc = "persist" => setup.snap.end > clock
            /\ removal.pc = "reset" /\ project.customer # NoCustomer =>
                  ChargesOf(project.customer) = {} /\ p.customer # project.customer
        BY <1>2, <1>4 DEF RemovalKeepsOff, p
      <3>2. removal.pc = "reset" /\ project.customer # NoCustomer => ChargesOf(project.customer)' = {}
        BY <1>1, <2>1, <3>1 DEF ChargesOf
      <3> QED
        BY <3>1, <3>2
    <2> QED
      BY <1>3, <1>8, <2>1, <2>4, <2>5, <2>6, <2>7 DEF SpacedFacts
  <1> QED
    BY <1>9, <1>10

LEMMA SpacedStep == ASSUME LoneScheduler PROVE SpacedInv /\ [Next]_vars => SpacedInv'
  <1> SUFFICES ASSUME SpacedInv, [Next]_vars PROVE SpacedInv'
    OBVIOUS
  <1>1. TypeOK /\ TypeOK' /\ errors <= errors'
    BY NextTypes, ErrorsGrow DEF SpacedInv
  <1> SUFFICES ASSUME errors' = 0 PROVE SpacedFacts'
    BY <1>1 DEF SpacedInv
  <1>2. errors = 0
    BY <1>1, TypeNumbers
  <1>3. SpacedFacts
    BY <1>2 DEF SpacedInv
  <1>4. CASE UNCHANGED vars
    <2>1. UNCHANGED <<clock, project, analyzedAt, tick, setup, removal, customers, payments>>
      BY <1>4 DEF vars, usage, handlers, stripe
    <2> QED
      BY <1>1, <1>2, <1>3, <2>1, SpacedReads
  <1>5. ASSUME NEW s \in Schedulers, Tick(s) \/ Crash(s) PROVE SpacedFacts'
    BY <1>1, <1>2, <1>3, <1>5, SpacedList, SpacedRollover, SpacedPrice, SpacedCharge, SpacedRecord,
       SpacedDetach, SpacedCrash DEF Tick
  <1> QED
    BY <1>1, <1>2, <1>3, <1>4, <1>5, SpacedDay, SpacedUse, SpacedCard DEF Next

LEMMA SpacedInit == Init => SpacedInv
  <1> SUFFICES ASSUME Init PROVE SpacedInv
    OBVIOUS
  <1>1. TypeOK
    BY InitTypes
  <1>2. /\ clock = 0 /\ customers = 0 /\ payments = <<>> /\ project.customer = NoCustomer
        /\ setup.pc = "idle" /\ removal.pc = "idle"
        /\ \A s \in Schedulers : tick[s].pc = "idle"
        /\ \A g \in Groups : analyzedAt[g] = -1
    BY DEF Init, NewProject, IdleHandler, IdleTick, NULL
  <1>3. Charges = {} /\ DOMAIN payments = {}
    BY <1>2 DEF Charges
  <1>4. PaymentsInOrder
    BY <1>2, <1>3 DEF PaymentsInOrder
  <1>5. CustomersAreNew
    BY <1>2 DEF CustomersAreNew, At, NoCustomer
  <1>6. RowKeepsOff /\ RemovalKeepsOff /\ AttemptsAreSpaced
    BY <1>2, <1>3 DEF RowKeepsOff, RemovalKeepsOff, AttemptsAreSpaced
  <1>7. \A s \in Schedulers : SnapKeepsOff(s) /\ TickHoldsRow(s)
    BY <1>2 DEF SnapKeepsOff, TickHoldsRow, At
  <1> QED
    BY <1>1, <1>4, <1>5, <1>6, <1>7 DEF SpacedInv, SpacedFacts

\* As long as nothing fails, a scheduler that works alone makes the attempts against one customer's
\* card the retry cadence apart, whenever it dies, and whatever the customer does to the card: a
\* fresh charge finds the last one recorded, or its period moved on, or answered under its key.
THEOREM CadenceIsKept == ASSUME LoneScheduler PROVE Spec => []AttemptsAreSpaced
  <1>1. SpacedInv => AttemptsAreSpaced
    BY DEF SpacedInv, SpacedFacts, AttemptsAreSpaced
  <1> QED
    BY <1>1, SpacedInit, SpacedStep, PTL DEF Spec

-----------------------------------------------------------------------------
(* One charge per period, for two schedulers: with a third, one may move the *)
(* row on and another back, past a period the third has charged for.         *)

LEMMA OnceNumbers ==
  ASSUME TypeOK, OnceFacts
  PROVE  /\ clock \in Nat /\ project \in Row /\ project.end \in Int
         /\ \A s \in Schedulers : Active(s) =>
                tick[s].snap \in Row /\ tick[s].snap.end \in Int /\ tick[s].snap.end <= clock
         /\ setup.pc = "persist" => setup.snap.end \in Int
         /\ \A i \in Charges : /\ Anchor(i) \in Nat /\ Anchor(i) <= clock
                               /\ payments[i].at \in Nat /\ payments[i].at <= clock
         /\ PaidBy(NoCustomer) = {}
         /\ \A s \in Schedulers : MayCharge(s) => tick[s].snap.customer # NoCustomer /\ Active(s)
  <1>1. clock \in Nat /\ project \in Row /\ project.end \in Int
    BY TypeNumbers, RowNumbers
  <1>2. \A s \in Schedulers : Active(s) => tick[s].snap \in Row
    BY TickHeld DEF Active
  <1>3. \A s \in Schedulers : Active(s) => tick[s].snap.end \in Int
    BY <1>2, RowNumbers
  <1>4. \A s \in Schedulers : Active(s) => tick[s].snap.end <= clock
    BY DEF OnceFacts, TickIsDue
  <1>5. setup.pc = "persist" => setup.snap.end \in Int
    BY HandlersHeld, RowNumbers
  <1>6. \A i \in Charges : payments[i].at \in Nat /\ payments[i].at <= clock
    BY PaymentFields DEF OnceFacts, PaymentsInOrder, Charges
  <1>7. \A i \in Charges : Anchor(i) \in Nat /\ Anchor(i) <= payments[i].at
    BY DEF OnceFacts, PaidIsOver
  <1>8. \A i \in Charges : Anchor(i) <= clock
    BY <1>1, <1>6, <1>7
  <1>9. PaidBy(NoCustomer) = {}
    BY DEF OnceFacts, PaymentsInOrder, PaidBy, NoCustomer
  <1>10. \A s \in Schedulers : MayCharge(s) => tick[s].snap.customer # NoCustomer /\ Active(s)
    BY DEF OnceFacts, TickIsDue, MayCharge, Active, At
  <1> QED
    BY <1>1, <1>2, <1>3, <1>4, <1>5, <1>6, <1>7, <1>8, <1>9, <1>10

\* What a step beside the ticks may do to the row: take its customer, bring one that is new,
\* keep it and move the period on; and what it may leave a checkout with.
OnceRow ==
    /\ \/ project'.customer = NoCustomer
       \/ /\ ChargesOf(project'.customer) = {}
          /\ \A s \in Schedulers : Active(s) => tick[s].snap.customer # project'.customer
       \/ /\ project'.customer = project.customer /\ project'.failures = project.failures
          /\ project'.lastAttempt = project.lastAttempt
          /\ project'.end = project.end \/ project'.end > clock
    /\ \/ project'.end = project.end
       \/ project'.end > clock
       \/ setup.pc = "persist" /\ project'.end = setup.snap.end /\ setup'.pc # "persist"
OnceSetup ==
    setup'.pc = "persist" =>
        \/ setup.pc = "persist" /\ setup'.snap = setup.snap
        \/ project'.end = project.end /\ setup'.snap.end = project.end

LEMMA OnceBeside ==
  ASSUME TypeOK, TypeOK', OnceFacts, UNCHANGED <<clock, tick>>,
         Charges' = Charges, \A i \in Charges : payments'[i] = payments[i],
         OnceRow, OnceSetup
  PROVE  /\ \A s \in Schedulers : TickIsDue(s)' /\ MovesOn(s)' /\ OneKey(s)'
         /\ \A r, s \in Schedulers : r # s => SamePeriod(r, s)'
         /\ PeriodsClose' /\ PaidIsOver' /\ PaidOnce'
  <1>1. /\ clock \in Nat /\ project \in Row /\ project.end \in Int
        /\ \A s \in Schedulers : Active(s) =>
                tick[s].snap \in Row /\ tick[s].snap.end \in Int /\ tick[s].snap.end <= clock
        /\ setup.pc = "persist" => setup.snap.end \in Int
        /\ \A i \in Charges : /\ Anchor(i) \in Nat /\ Anchor(i) <= clock
                               /\ payments[i].at \in Nat /\ payments[i].at <= clock
        /\ PaidBy(NoCustomer) = {}
        /\ \A s \in Schedulers : MayCharge(s) => tick[s].snap.customer # NoCustomer /\ Active(s)
    BY OnceNumbers
  <1>2. project'.end \in Int
    BY RowNumbers DEF TypeOK
  <1>3. /\ \A c : PaidBy(c)' = PaidBy(c) /\ PaidBy(c) \subseteq ChargesOf(c)
        /\ \A i \in Charges : Anchor(i)' = Anchor(i)
    BY DEF PaidBy, Paid, ChargesOf, Anchor
  <1>4. /\ \A s \in Schedulers : /\ Active(s)' = Active(s) /\ Unticked(s)' = Unticked(s)
                                 /\ MayCharge(s)' = MayCharge(s)
        /\ \A s \in Schedulers, pc \in {"charged", "rollover"} : At(s, pc)' = At(s, pc)
    BY DEF Active, Unticked, MayCharge, At, TooSoon, Due
  <1>5. ASSUME NEW s \in Schedulers PROVE TickIsDue(s)'
    BY DEF OnceFacts, TickIsDue, Active, At, Due
  <1>6. PaidBy(project.customer)' = PaidBy(project'.customer)
    BY <1>3 DEF PaidBy
  <1>7. \/ PaidBy(project'.customer) = {}
        \/ /\ project'.customer = project.customer /\ project'.failures = project.failures
           /\ project'.lastAttempt = project.lastAttempt
           /\ project'.end = project.end \/ project'.end > clock
    BY <1>1, <1>3 DEF OnceRow
  <1>8. \A s \in Schedulers : Active(s) /\ project'.customer = tick[s].snap.customer
                              /\ project'.customer # NoCustomer =>
            /\ project'.customer = project.customer /\ project'.failures = project.failures
            /\ project'.lastAttempt = project.lastAttempt
            /\ project'.end = project.end \/ project'.end > clock
    BY DEF OnceRow
  <1>9. ASSUME NEW s \in Schedulers PROVE MovesOn(s)'
    <2> SUFFICES ASSUME Active(s)
                 PROVE  /\ tick[s].snap.customer = project'.customer /\ project'.customer # NoCustomer
                             => project'.end >= tick[s].snap.end
                        /\ \A i \in PaidBy(project'.customer) : tick[s].snap.end >= Anchor(i)'
      BY <1>4, <1>6 DEF MovesOn
    <2>1. /\ tick[s].snap.customer = project.customer /\ project.customer # NoCustomer
               => project.end >= tick[s].snap.end
          /\ \A i \in PaidBy(project.customer) : tick[s].snap.end >= Anchor(i)
      BY DEF OnceFacts, MovesOn
    <2>2. \A i \in PaidBy(project'.customer) : tick[s].snap.end >= Anchor(i)'
      BY <1>3, <1>7, <2>1 DEF PaidBy
    <2>3. tick[s].snap.customer = project'.customer /\ project'.customer # NoCustomer
               => project'.end >= tick[s].snap.end
      BY <1>1, <1>2, <1>8, <2>1
    <2> QED
      BY <2>2, <2>3
  <1>10. ASSUME NEW s \in Schedulers PROVE OneKey(s)'
    <2> DEFINE p == tick[s].snap
    <2> SUFFICES ASSUME MayCharge(s)
                 PROVE  /\ \A i \in PaidBy(p.customer) :
                             Anchor(i)' = p.end => payments'[i].at = clock /\ payments'[i].key = PeriodKey(p)
                        /\ project'.customer = p.customer => project'.failures = p.failures \/ TooSoon(project)'
      BY <1>3, <1>4 DEF OneKey, PeriodKey
    <2>1. /\ \A i \in PaidBy(p.customer) :
               Anchor(i) = p.end => payments[i].at = clock /\ payments[i].key = PeriodKey(p)
          /\ project.customer = p.customer => project.failures = p.failures \/ TooSoon(project)
      BY DEF OnceFacts, OneKey
    <2>2. \A i \in PaidBy(p.customer) :
               Anchor(i)' = p.end => payments'[i].at = clock /\ payments'[i].key = PeriodKey(p)
      BY <1>3, <2>1 DEF PaidBy
    <2>3. project'.customer = p.customer =>
              project'.customer = project.customer /\ project'.failures = project.failures
              /\ project'.lastAttempt = project.lastAttempt
      BY <1>1, <1>8
    <2>4. project'.lastAttempt = project.lastAttempt => TooSoon(project)' = TooSoon(project)
      BY DEF TooSoon
    <2> QED
      BY <2>1, <2>2, <2>3, <2>4
  <1>11. ASSUME NEW r \in Schedulers, NEW s \in Schedulers, r # s PROVE SamePeriod(r, s)'
    <2> DEFINE p == tick[r].snap
               q == tick[s].snap
    <2>1. /\ Active(r) /\ Active(s) /\ q.customer = project.customer /\ project.customer # NoCustomer
               => p.end >= q.end
          /\ MayCharge(r) /\ MayCharge(s) /\ p.customer = q.customer => p.failures = q.failures
          /\ Active(r) /\ Unticked(s) =>
               /\ project.end > clock \/ p.end >= project.end
               /\ setup.pc = "persist" => setup.snap.end > clock \/ p.end >= setup.snap.end
          /\ Unticked(r) /\ Unticked(s) /\ setup.pc = "persist" =>
               project.end > clock \/ setup.snap.end > clock \/ project.end >= setup.snap.end
      BY <1>11 DEF OnceFacts, SamePeriod
    <2>2. Active(r) /\ Active(s) /\ q.customer = project'.customer /\ project'.customer # NoCustomer
               => p.end >= q.end
      BY <1>8, <2>1
    <2>3. Active(r) /\ Unticked(s) => project'.end > clock \/ p.end >= project'.end
      BY <1>1, <2>1 DEF OnceRow
    <2>4. Active(r) /\ Unticked(s) /\ setup'.pc = "persist" =>
              setup'.snap.end > clock \/ p.end >= setup'.snap.end
      BY <2>1, <2>3 DEF OnceSetup
    <2>5. Unticked(r) /\ Unticked(s) /\ setup'.pc = "persist" =>
               project'.end > clock \/ setup'.snap.end > clock \/ project'.end >= setup'.snap.end
      BY <1>1, <1>2, <2>1 DEF OnceSetup, OnceRow
    <2> QED
      BY <1>4, <2>1, <2>2, <2>3, <2>4, <2>5 DEF SamePeriod
  <1>12. PeriodsClose'
    <2> SUFFICES ASSUME NEW i \in PaidBy(project'.customer)
                 PROVE  \/ project'.end > Anchor(i)
                        \/ /\ project'.end = Anchor(i) /\ payments'[i].at = clock
                           /\ payments'[i].key.attempt = project'.failures \/ TooSoon(project)'
                           /\ \E s \in Schedulers : At(s, "charged")' \/ At(s, "rollover")'
      BY <1>3, <1>6 DEF PeriodsClose, PaidBy
    <2>1. /\ project'.customer = project.customer /\ project'.failures = project.failures
          /\ project'.lastAttempt = project.lastAttempt
          /\ project'.end = project.end \/ project'.end > clock
      BY <1>7
    <2>2. i \in Charges /\ payments'[i] = payments[i] /\ i \in PaidBy(project.customer)
      BY <2>1 DEF PaidBy
    <2>3. \/ project.end > Anchor(i)
          \/ /\ project.end = Anchor(i) /\ payments[i].at = clock
             /\ payments[i].key.attempt = project.failures \/ TooSoon(project)
             /\ \E s \in Schedulers : At(s, "charged") \/ At(s, "rollover")
      BY <2>2 DEF OnceFacts, PeriodsClose
    <2>4. TooSoon(project)' = TooSoon(project)
      BY <2>1 DEF TooSoon
    <2>5. project'.end > clock => project'.end > Anchor(i)
      BY <1>1, <1>2, <2>2
    <2> QED
      BY <1>4, <2>1, <2>2, <2>3, <2>4, <2>5
  <1>13. PaidIsOver'
    BY <1>3 DEF OnceFacts, PaidIsOver
  <1>14. PaidOnce'
    BY <1>3 DEF OnceFacts, PaidOnce, Paid
  <1> QED
    BY <1>5, <1>9, <1>10, <1>11, <1>12, <1>13, <1>14

\* Where no charge is made, and the handlers stand still or go on with what they have.
LEMMA OnceStill ==
  ASSUME TypeOK, TypeOK', OnceFacts, UNCHANGED <<clock, tick, setup, customers, payments>>,
         \/ analyzedAt' = analyzedAt
         \/ \E g \in Groups : analyzedAt' = [analyzedAt EXCEPT ![g] = clock],
         \/ project'.customer = NoCustomer /\ project'.end = project.end
         \/ /\ project'.customer = project.customer /\ project'.failures = project.failures
            /\ project'.lastAttempt = project.lastAttempt
            /\ project'.end = project.end \/ project'.end > clock
  PROVE  OnceFacts'
  <1>1. PaymentsInOrder /\ CustomersAreNew
    BY DEF OnceFacts
  <1>2. Charges' = Charges /\ \A i \in Charges : payments'[i] = payments[i]
    BY DEF Charges
  <1>3. \A g \in Groups : analyzedAt'[g] <= clock'
    BY <1>1, AnalysesGrow
  <1>4. clock' >= clock /\ customers' >= customers
    BY TypeNumbers
  <1>5. PaymentsInOrder'
    BY <1>1, <1>3, <1>4, PaymentsKept
  <1>6. CustomersAreNew'
    BY <1>1, <1>2, CustomersKept
  <1>7. OnceRow /\ OnceSetup
    BY DEF OnceRow, OnceSetup
  <1>8. /\ \A s \in Schedulers : TickIsDue(s)' /\ MovesOn(s)' /\ OneKey(s)'
        /\ \A r, s \in Schedulers : r # s => SamePeriod(r, s)'
        /\ PeriodsClose' /\ PaidIsOver' /\ PaidOnce'
    BY <1>2, <1>7, OnceBeside
  <1> QED
    BY <1>5, <1>6, <1>8 DEF OnceFacts

LEMMA OnceUse ==
  ASSUME TypeOK, TypeOK', OnceFacts, Use
  PROVE  OnceFacts'
  <1>1. UNCHANGED <<clock, tick, setup, customers, payments>>
    BY DEF Use, AdmitExecution, CountExecution, HandleAnalyzeFailureGroup, SaveFailureGroupAnalysis,
           handlers, stripe
  <1>2. \/ analyzedAt' = analyzedAt
        \/ \E g \in Groups : analyzedAt' = [analyzedAt EXCEPT ![g] = clock]
    BY DEF Use, AdmitExecution, CountExecution, HandleAnalyzeFailureGroup, SaveFailureGroupAnalysis
  <1>3. project' = project \/ project' = [project EXCEPT !.executions = @ + 1]
    BY DEF Use, AdmitExecution, CountExecution, HandleAnalyzeFailureGroup, SaveFailureGroupAnalysis
  <1>4. /\ project'.customer = project.customer /\ project'.lastAttempt = project.lastAttempt
        /\ project'.end = project.end /\ project'.failures = project.failures
    BY <1>3, TypeNumbers, CountedRow
  <1> QED
    BY <1>1, <1>2, <1>4, OnceStill

\* A new customer is new to everybody, and to Stripe's charges.
LEMMA OnceCreate ==
  ASSUME TypeOK, TypeOK', OnceFacts, HandleCreateSetupCheckout
  PROVE  OnceFacts'
  <1>1. /\ project.customer = NoCustomer /\ customers' = customers + 1
        /\ setup.pc = "idle" /\ setup'.pc = "persist" /\ setup'.snap = project
        /\ setup'.customer = customers + 1
    BY CreateSetupEffect
  <1>2. UNCHANGED <<clock, project, analyzedAt, tick, payments>>
    BY DEF HandleCreateSetupCheckout, usage
  <1>3. PaymentsInOrder /\ CustomersAreNew
    BY DEF OnceFacts
  <1>4. Charges' = Charges /\ \A i \in Charges : payments'[i] = payments[i]
    BY <1>2 DEF Charges
  <1>5. PaymentsInOrder' /\ CustomersAreNew'
    BY <1>1, <1>2, <1>3, NewCustomerIsNew
  <1>6. OnceRow /\ OnceSetup
    BY <1>1, <1>2 DEF OnceRow, OnceSetup
  <1> QED
    BY <1>2, <1>4, <1>5, <1>6, OnceBeside DEF OnceFacts

LEMMA OncePersist ==
  ASSUME TypeOK, TypeOK', errors = 0, errors' = 0, OnceFacts, PersistCustomer
  PROVE  OnceFacts'
  <1>1. /\ setup.pc = "persist" /\ setup' = IdleHandler
        /\ project'.customer = setup.customer /\ project'.end = setup.snap.end
        /\ setup.customer \in 1 .. MaxCustomers
    <2>1. PICK ok \in Outcomes :
              /\ CountError(ok)
              /\ ok => /\ project'.customer = setup.customer
                       /\ project'.start = setup.snap.start /\ project'.end = setup.snap.end
      BY PersistEffect
    <2>2. errors \in 0 .. MaxErrors
      BY DEF TypeOK
    <2>3. ok
      BY <2>1, <2>2, Counted
    <2> QED
      BY <2>1, <2>3, PersistEffect
  <1>2. UNCHANGED <<clock, analyzedAt, tick, customers, payments>>
    BY DEF PersistCustomer, usage, stripe
  <1>3. PaymentsInOrder /\ CustomersAreNew
    BY DEF OnceFacts
  <1>4. Charges' = Charges /\ \A i \in Charges : payments'[i] = payments[i]
    BY <1>2 DEF Charges
  <1>5. /\ setup.customer <= customers /\ ChargesOf(setup.customer) = {}
        /\ \A s \in Schedulers : ~At(s, "idle") => tick[s].snap.customer # setup.customer
        /\ \A s \in Schedulers : ~At(s, "idle") => tick[s].snap.customer <= customers
    BY <1>1, <1>3 DEF CustomersAreNew
  <1>6. setup'.pc = "idle"
    BY <1>1 DEF IdleHandler
  <1>7. PaymentsInOrder'
    <2>1. (\A g \in Groups : analyzedAt'[g] <= clock') /\ clock' >= clock /\ customers' >= customers
      BY <1>2, <1>3, TypeNumbers DEF PaymentsInOrder
    <2> QED
      BY <1>2, <1>3, <2>1, PaymentsKept
  <1>8. CustomersAreNew'
    BY <1>1, <1>2, <1>5, <1>6 DEF CustomersAreNew, At
  <1>9. OnceRow /\ OnceSetup
    BY <1>1, <1>5, <1>6 DEF OnceRow, OnceSetup, Active
  <1> QED
    BY <1>2, <1>4, <1>7, <1>8, <1>9, OnceBeside DEF OnceFacts

\* The settlement of a removal is none of the charges for a period.
LEMMA OnceSettle ==
  ASSUME TypeOK, TypeOK', OnceFacts, SettleOnRemoval
  PROVE  OnceFacts'
  <1>1. UNCHANGED <<clock, project, analyzedAt, tick, setup, customers>>
    BY DEF SettleOnRemoval, usage
  <1>2. /\ PaymentsInOrder' /\ Charges' = Charges
        /\ \A i \in Charges : payments'[i] = payments[i]
    BY <1>1, SettledAside DEF OnceFacts
  <1>3. CustomersAreNew'
    BY <1>1, <1>2, CustomersKept DEF OnceFacts
  <1>4. OnceRow /\ OnceSetup
    BY <1>1 DEF OnceRow, OnceSetup
  <1> QED
    BY <1>1, <1>2, <1>3, <1>4, OnceBeside DEF OnceFacts

\* What the customer does to the card takes the customer off the row, or keeps it and the period.
LEMMA OnceCard ==
  ASSUME TypeOK, TypeOK', errors = 0, errors' = 0, OnceFacts, Card
  PROVE  OnceFacts'
  <1>1. clock \in Nat /\ Period \in Nat \ {0} /\ project \in Row /\ errors \in 0 .. MaxErrors
    BY TypeNumbers, Constants DEF TypeOK
  <1>2. CASE \E c \in 1 .. MaxCustomers : CompleteCheckout(c) \/ HandleSetupIntentSucceeded(c)
    <2>1. UNCHANGED <<clock, project, analyzedAt, tick, setup, customers, payments>>
      BY <1>2 DEF CompleteCheckout, HandleSetupIntentSucceeded, usage, handlers, stripe
    <2> QED
      BY <2>1, OnceStill
  <1>3. CASE HandleRemovePaymentMethod \/ DetachAtStripe
    <2>1. UNCHANGED <<clock, project, analyzedAt, tick, setup, customers, payments>>
      BY <1>3 DEF HandleRemovePaymentMethod, DetachAtStripe, usage, stripe
    <2> QED
      BY <2>1, OnceStill
  <1>4. CASE BootstrapBounds
    <2>1. UNCHANGED <<clock, analyzedAt, tick, setup, customers, payments>>
      BY <1>4 DEF BootstrapBounds, usage, stripe
    <2>2. project'.end = clock + Period
      BY <1>1, <1>4, BootstrapEffect, Counted
    <2>3. /\ project'.customer = project.customer /\ project'.failures = project.failures
          /\ project'.lastAttempt = project.lastAttempt
      BY <1>4, BootstrapEffect
    <2>4. project'.end > clock
      BY <1>1, <2>2
    <2> QED
      BY <2>1, <2>3, <2>4, OnceStill
  <1>5. CASE MarkCardAttached
    <2>1. UNCHANGED <<clock, analyzedAt, tick, setup, customers, payments>>
      BY <1>5 DEF MarkCardAttached, usage, stripe
    <2>2. project' = project \/ project' = [project EXCEPT !.card = TRUE]
      BY <1>5 DEF MarkCardAttached
    <2>3. /\ project'.customer = project.customer /\ project'.failures = project.failures
          /\ project'.lastAttempt = project.lastAttempt /\ project'.end = project.end
      BY <1>1, <2>2, MarkedRow
    <2> QED
      BY <2>1, <2>3, OnceStill
  <1>6. CASE ClearCard
    <2>1. UNCHANGED <<clock, analyzedAt, tick, setup, customers, payments>>
      BY <1>6 DEF ClearCard, usage, stripe
    <2>2. project' = DetachHobbyCardForBillingFailure(project)
      BY <1>1, <1>6, ClearEffect, Counted
    <2>3. project'.customer = NoCustomer /\ project'.end = project.end
      BY <1>1, <2>2, DetachedRow
    <2> QED
      BY <2>1, <2>3, OnceStill
  <1>7. CASE ResetOnRemoval
    <2>1. UNCHANGED <<clock, analyzedAt, tick, setup, customers, payments>>
      BY <1>7 DEF ResetOnRemoval, usage, stripe
    <2>2. project'.end = IF removal.snap.end > clock THEN removal.snap.end ELSE clock + Period
      BY <1>1, <1>7, ResetEffect, Counted
    <2>3. /\ project'.customer = project.customer /\ project'.failures = project.failures
          /\ project'.lastAttempt = project.lastAttempt
      BY <1>7, ResetEffect
    <2>4. project'.end > clock
      BY <1>1, <2>2
    <2> QED
      BY <2>1, <2>3, <2>4, OnceStill
  <1> QED
    BY <1>2, <1>3, <1>4, <1>5, <1>6, <1>7, OnceCreate, OncePersist, OnceSettle DEF Card

\* At the end of the day nobody is about to move the row on: what is paid is behind it.
LEMMA OnceDay ==
  ASSUME TypeOK, TypeOK', OnceFacts, Day
  PROVE  OnceFacts'
  <1>1. /\ clock' = clock + 1 /\ clock \in Nat
        /\ UNCHANGED <<project, analyzedAt, tick, setup, customers, payments>>
    BY TypeNumbers DEF Day, usage, handlers, stripe
  <1>2. (\A s \in Schedulers : At(s, "idle")) /\ setup.pc # "persist"
    BY DEF Day, Quiet, InFlight
  <1>3. PaymentsInOrder /\ CustomersAreNew /\ PaidIsOver /\ PeriodsClose /\ PaidOnce
    BY DEF OnceFacts
  <1>4. Charges' = Charges /\ PaidBy(project.customer)' = PaidBy(project.customer)
    BY <1>1 DEF Charges, PaidBy, Paid
  <1>5. PaymentsInOrder'
    <2>1. \A g \in Groups : analyzedAt[g] \in Nat \union {-1} /\ analyzedAt[g] <= clock
      BY <1>3 DEF TypeOK, NULL, PaymentsInOrder
    <2>2. \A g \in Groups : analyzedAt'[g] <= clock'
      BY <1>1, <2>1
    <2>3. customers' >= customers /\ clock' >= clock
      BY <1>1, TypeNumbers
    <2> QED
      BY <1>1, <1>3, <2>2, <2>3, PaymentsKept
  <1>6. CustomersAreNew'
    BY <1>1, <1>3, <1>4, CustomersKept
  <1>7. PaidIsOver' /\ PaidOnce'
    BY <1>1, <1>3, <1>4 DEF PaidIsOver, PaidOnce, Anchor, Paid
  <1>8. PeriodsClose'
    <2>1. \A i \in PaidBy(project.customer) : project.end > Anchor(i)
      BY <1>2, <1>3 DEF PeriodsClose, At
    <2> QED
      BY <1>1, <1>4, <2>1 DEF PeriodsClose, Anchor
  <1>9. \A s \in Schedulers : ~Active(s)' /\ ~MayCharge(s)'
    BY <1>1, <1>2 DEF Active, MayCharge, At
  <1>10. \A s \in Schedulers : TickIsDue(s)' /\ MovesOn(s)' /\ OneKey(s)'
    BY <1>9 DEF TickIsDue, MovesOn, OneKey, MayCharge
  <1>11. \A r, s \in Schedulers : SamePeriod(r, s)'
    BY <1>1, <1>2, <1>9 DEF SamePeriod
  <1> QED
    BY <1>5, <1>6, <1>7, <1>8, <1>10, <1>11 DEF OnceFacts

\* Where no charge is made, ticks go on with what they hold or end, and the row moves on or loses
\* its customer.
LEMMA OnceAhead ==
  ASSUME TypeOK, TypeOK', OnceFacts, UNCHANGED <<clock, analyzedAt, setup, customers, payments>>,
         \A r \in Schedulers : Active(r)' => Active(r) /\ tick'[r].snap = tick[r].snap,
         \A r \in Schedulers : MayCharge(r)' => MayCharge(r),
         \/ project'.customer = NoCustomer
         \/ /\ project'.customer = project.customer
            /\ \/ project'.failures = project.failures /\ project'.lastAttempt = project.lastAttempt
               \/ project'.lastAttempt = clock
            /\ \A r \in Schedulers :
                  Active(r)' /\ tick[r].snap.customer = project.customer /\ project.customer # NoCustomer
                      => project'.end >= tick[r].snap.end
  PROVE  /\ PaymentsInOrder' /\ CustomersAreNew' /\ PaidIsOver' /\ PaidOnce'
         /\ \A r \in Schedulers : MovesOn(r)' /\ OneKey(r)'
  <1>1. PaymentsInOrder /\ CustomersAreNew /\ PaidIsOver /\ PaidOnce
    BY DEF OnceFacts
  <1>2. clock \in Nat /\ RetryCadence \in Nat \ {0} /\ PaidBy(NoCustomer) = {} /\ customers \in Nat
    BY OnceNumbers, TypeNumbers, Constants
  <1>3. Charges' = Charges /\ \A c : PaidBy(c)' = PaidBy(c) /\ ChargesOf(c)' = ChargesOf(c)
    BY DEF Charges, PaidBy, ChargesOf, Paid
  <1>4. PaymentsInOrder'
    <2>1. (\A g \in Groups : analyzedAt'[g] <= clock') /\ clock' >= clock /\ customers' >= customers
      BY <1>1, <1>2 DEF PaymentsInOrder
    <2> QED
      BY <1>1, <2>1, PaymentsKept
  <1>5. CustomersAreNew'
    <2>1. project'.customer <= customers
      BY <1>1, <1>2 DEF CustomersAreNew, NoCustomer
    <2>2. \A r \in Schedulers : ~At(r, "idle")' => ~At(r, "idle") /\ tick'[r].snap = tick[r].snap
      BY DEF Active
    <2>3. ChargesOf(setup.customer)' = ChargesOf(setup.customer)
      BY DEF Charges, ChargesOf
    <2>4. setup.pc = "persist" => project'.customer = NoCustomer
      BY <1>1 DEF CustomersAreNew
    <2> QED
      BY <1>1, <2>1, <2>2, <2>3, <2>4 DEF CustomersAreNew
  <1>6. PaidIsOver' /\ PaidOnce'
    BY <1>1, <1>3 DEF PaidIsOver, PaidOnce, Anchor, Paid
  <1>7. ASSUME NEW r \in Schedulers PROVE MovesOn(r)'
    <2> SUFFICES ASSUME Active(r)'
                 PROVE  /\ tick[r].snap.customer = project'.customer /\ project'.customer # NoCustomer
                             => project'.end >= tick[r].snap.end
                        /\ \A i \in PaidBy(project'.customer) : tick[r].snap.end >= Anchor(i)
      BY <1>3 DEF MovesOn, PaidBy, Anchor, Charges, Paid
    <2>1. \A i \in PaidBy(project.customer) : tick[r].snap.end >= Anchor(i)
      BY DEF OnceFacts, MovesOn
    <2> QED
      BY <1>2, <2>1
  <1>8. ASSUME NEW r \in Schedulers PROVE OneKey(r)'
    <2> DEFINE p == tick[r].snap
    <2> SUFFICES ASSUME MayCharge(r)'
                 PROVE  /\ \A i \in PaidBy(p.customer) :
                             Anchor(i) = p.end => payments[i].at = clock /\ payments[i].key = PeriodKey(p)
                        /\ project'.customer = p.customer => project'.failures = p.failures \/ TooSoon(project)'
      <3>1. MayCharge(r)' => tick'[r].snap = p
        BY DEF MayCharge, Active, At
      <3> QED
        BY <1>3, <3>1 DEF OneKey, PeriodKey, PaidBy, Anchor, Charges, Paid
    <2>1. /\ \A i \in PaidBy(p.customer) :
               Anchor(i) = p.end => payments[i].at = clock /\ payments[i].key = PeriodKey(p)
          /\ project.customer = p.customer => project.failures = p.failures \/ TooSoon(project)
      BY DEF OnceFacts, OneKey
    <2>2. p.customer # NoCustomer
      BY OnceNumbers
    <2>3. project'.lastAttempt = project.lastAttempt => TooSoon(project)' = TooSoon(project)
      BY DEF TooSoon
    <2>4. project'.lastAttempt = clock => TooSoon(project)'
      BY <1>2 DEF TooSoon, NULL
    <2> QED
      BY <2>1, <2>2, <2>3, <2>4
  <1> QED
    BY <1>4, <1>5, <1>6, <1>7, <1>8

\* A tick that goes on.
LEMMA OnceHold ==
  ASSUME TypeOK, TypeOK', OnceFacts, UNCHANGED <<clock, analyzedAt, setup, customers, payments>>,
         NEW s \in Schedulers, \A r \in Schedulers : r # s => tick'[r] = tick[r],
         Active(s), tick'[s].snap = tick[s].snap,
         tick'[s].pc \in {"charge", "rollover", "charged", "refused", "detach"},
         tick'[s].pc = "charge" => /\ MayCharge(s) /\ Due(tick[s].snap)
                                   /\ tick'[s].charge.customer = tick[s].snap.customer,
         At(s, "charged") \/ At(s, "rollover") => tick'[s].pc = "rollover",
         project'.customer = project.customer, project'.end = project.end,
         \/ project'.failures = project.failures /\ project'.lastAttempt = project.lastAttempt
         \/ project'.lastAttempt = clock
  PROVE  OnceFacts'
  <1>1. /\ \A r \in Schedulers : Active(r)' = Active(r) /\ (Active(r) => tick'[r].snap = tick[r].snap)
        /\ \A r \in Schedulers : Unticked(r)' => r # s /\ Unticked(r)
    BY DEF Active, Unticked, At
  <1>2. \A r \in Schedulers : MayCharge(r)' => MayCharge(r)
    <2>1. ASSUME NEW r \in Schedulers, r # s PROVE MayCharge(r)' = MayCharge(r)
      BY <2>1 DEF MayCharge, At, Due, TooSoon
    <2>2. MayCharge(s)' => MayCharge(s)
      BY DEF MayCharge, At
    <2> QED
      BY <2>1, <2>2
  <1>3. \A r \in Schedulers : MovesOn(r)
    BY DEF OnceFacts
  <1>4. /\ PaymentsInOrder' /\ CustomersAreNew' /\ PaidIsOver' /\ PaidOnce'
        /\ \A r \in Schedulers : MovesOn(r)' /\ OneKey(r)'
    <2>1. \A r \in Schedulers :
            Active(r)' /\ tick[r].snap.customer = project.customer /\ project.customer # NoCustomer
                => project'.end >= tick[r].snap.end
      BY <1>1, <1>3 DEF MovesOn
    <2> QED
      BY <1>1, <1>2, <2>1, OnceAhead
  <1>5. \A r \in Schedulers : TickIsDue(r)'
    <2>1. ASSUME NEW r \in Schedulers, r # s PROVE TickIsDue(r)'
      BY <2>1 DEF OnceFacts, TickIsDue, Active, At, Due
    <2>2. TickIsDue(s)'
      <3>1. tick'[s].pc = "charge" => tick[s].snap.customer # NoCustomer
        BY OnceNumbers
      <3> QED
        BY <3>1 DEF OnceFacts, TickIsDue, Active, At, Due
    <2> QED
      BY <2>1, <2>2
  <1>6. ASSUME NEW r \in Schedulers, NEW q \in Schedulers, r # q PROVE SamePeriod(r, q)'
    <2>1. SamePeriod(r, q)
      BY <1>6 DEF OnceFacts
    <2>2. MayCharge(r)' => tick'[r].snap = tick[r].snap /\ MayCharge(r)
      BY <1>1, <1>2, OnceNumbers
    <2>3. MayCharge(q)' => tick'[q].snap = tick[q].snap /\ MayCharge(q)
      BY <1>1, <1>2, OnceNumbers
    <2> QED
      BY <1>1, <2>1, <2>2, <2>3 DEF SamePeriod
  <1>7. PeriodsClose'
    <2>1. PaidBy(project.customer)' = PaidBy(project.customer)
      BY DEF PaidBy, Charges, Paid
    <2>2. clock \in Nat /\ RetryCadence \in Nat \ {0}
      BY TypeNumbers, Constants
    <2>3. /\ project'.lastAttempt = project.lastAttempt => TooSoon(project)' = TooSoon(project)
          /\ project'.lastAttempt = clock => TooSoon(project)'
      BY <2>2 DEF TooSoon, NULL
    <2>4. (\E r \in Schedulers : At(r, "charged") \/ At(r, "rollover"))
             => \E r \in Schedulers : (At(r, "charged") \/ At(r, "rollover"))'
      BY DEF At
    <2>5. PeriodsClose
      BY DEF OnceFacts
    <2> QED
      BY <2>1, <2>3, <2>4, <2>5 DEF PeriodsClose, Anchor
  <1> QED
    BY <1>4, <1>5, <1>6, <1>7 DEF OnceFacts

\* A tick that ends; the other one is alone for the rest of the day.
LEMMA OnceEnd ==
  ASSUME TypeOK, TypeOK', AtMostTwo, OnceFacts,
         UNCHANGED <<clock, analyzedAt, setup, customers, payments>>,
         NEW s \in Schedulers, EndTick(s),
         \/ project'.customer = NoCustomer
         \/ /\ project'.customer = project.customer /\ project'.end = project.end
            /\ \/ project'.failures = project.failures /\ project'.lastAttempt = project.lastAttempt
               \/ project'.lastAttempt = clock
            /\ ~At(s, "charged") /\ ~At(s, "rollover")
         \/ /\ project'.customer = project.customer /\ project'.failures = project.failures
            /\ project'.lastAttempt = project.lastAttempt /\ Active(s)
            /\ project'.end = IF Due(tick[s].snap) THEN tick[s].snap.end + Period ELSE clock + Period
  PROVE  OnceFacts'
  <1> DEFINE p == tick[s].snap
             Rolled == project'.end = IF Due(p) THEN p.end + Period ELSE clock + Period
  <1>1. /\ clock \in Nat /\ Period \in Nat \ {0} /\ RetryCadence \in Nat \ {0}
        /\ project.end \in Int /\ project'.end \in Int /\ PaidBy(NoCustomer) = {}
    BY OnceNumbers, Constants, RowNumbers DEF TypeOK
  <1>2. \A r \in Schedulers : Active(r) => tick[r].snap.end \in Int /\ tick[r].snap.end <= clock
    BY OnceNumbers
  <1>3. \A i \in Charges : Anchor(i) \in Nat /\ Anchor(i) <= clock
    BY OnceNumbers
  <1>4. /\ tick'[s].pc = "idle" /\ tick'[s].nextAt = clock + 1
        /\ \A r \in Schedulers : r # s => tick'[r] = tick[r]
    BY EndTickEffect
  <1>5. ~Active(s)' /\ ~Unticked(s)' /\ ~MayCharge(s)'
    BY <1>1, <1>4 DEF Active, Unticked, MayCharge, At
  <1>6. \A r \in Schedulers : Active(r)' => r # s /\ Active(r) /\ tick'[r].snap = tick[r].snap
    BY <1>4, <1>5 DEF Active, At
  <1>7. \A r \in Schedulers : MayCharge(r)' => MayCharge(r)
    <2>1. ASSUME NEW r \in Schedulers, r # s PROVE MayCharge(r)' = MayCharge(r)
      BY <1>4, <2>1 DEF MayCharge, At, Due, TooSoon
    <2> QED
      BY <1>5, <2>1
  <1>8. /\ \A r \in Schedulers : MovesOn(r)
        /\ \A r, q \in Schedulers : r # q => SamePeriod(r, q)
        /\ PeriodsClose
    BY DEF OnceFacts
  <1>9. \/ project'.customer = NoCustomer
        \/ /\ project'.customer = project.customer
           /\ \/ project'.failures = project.failures /\ project'.lastAttempt = project.lastAttempt
              \/ project'.lastAttempt = clock
           /\ \A r \in Schedulers :
                 Active(r)' /\ tick[r].snap.customer = project.customer /\ project.customer # NoCustomer
                     => project'.end >= tick[r].snap.end
    <2>1. CASE project'.customer = NoCustomer
      BY <2>1
    <2>2. CASE project'.customer = project.customer /\ project'.end = project.end
      BY <1>6, <1>8, <2>2 DEF MovesOn
    <2>3. CASE project'.customer = project.customer /\ Active(s) /\ Rolled
      <3>1. ASSUME NEW r \in Schedulers, Active(r)', tick[r].snap.customer = project.customer,
                   project.customer # NoCustomer
            PROVE  project'.end >= tick[r].snap.end
        <4>1. r # s /\ Active(r) /\ tick[r].snap.end \in Int /\ tick[r].snap.end <= clock
          BY <1>2, <1>6, <3>1
        <4>2. p.end >= tick[r].snap.end /\ p.end \in Int
          BY <1>2, <1>8, <2>3, <3>1, <4>1 DEF SamePeriod
        <4> QED
          BY <1>1, <2>3, <4>1, <4>2
      <3> QED
        BY <2>3, <3>1
    <2> QED
      BY <2>1, <2>2, <2>3
  <1>10. /\ PaymentsInOrder' /\ CustomersAreNew' /\ PaidIsOver' /\ PaidOnce'
         /\ \A r \in Schedulers : MovesOn(r)' /\ OneKey(r)'
    BY <1>6, <1>7, <1>9, OnceAhead
  <1>11. ASSUME NEW r \in Schedulers PROVE TickIsDue(r)'
    <2>1. CASE r = s
      BY <1>4, <2>1 DEF TickIsDue, Active, At
    <2>2. CASE r # s
      BY <1>4, <2>2 DEF OnceFacts, TickIsDue, Active, At, Due
    <2> QED
      BY <2>1, <2>2
  <1>12. ASSUME NEW r \in Schedulers, NEW q \in Schedulers, r # q PROVE SamePeriod(r, q)'
    <2>1. r = s \/ q = s
      BY <1>12 DEF AtMostTwo
    <2> QED
      BY <1>5, <2>1 DEF SamePeriod
  <1>13. PeriodsClose'
    <2>1. PaidBy(project.customer)' = PaidBy(project'.customer)
          /\ \A i \in Charges : Anchor(i)' = Anchor(i)
      BY DEF PaidBy, Charges, Paid, Anchor
    <2>2. CASE project'.customer = NoCustomer
      BY <1>1, <2>1, <2>2 DEF PeriodsClose
    <2>3. CASE /\ project'.customer = project.customer /\ project'.end = project.end
               /\ ~At(s, "charged") /\ ~At(s, "rollover")
               /\ \/ project'.failures = project.failures /\ project'.lastAttempt = project.lastAttempt
                  \/ project'.lastAttempt = clock
      <3>1. /\ project'.lastAttempt = project.lastAttempt => TooSoon(project)' = TooSoon(project)
            /\ project'.lastAttempt = clock => TooSoon(project)'
        BY <1>1 DEF TooSoon, NULL
      <3>2. (\E r \in Schedulers : At(r, "charged") \/ At(r, "rollover"))
               => \E r \in Schedulers : (At(r, "charged") \/ At(r, "rollover"))'
        BY <1>4, <2>3 DEF At
      <3> QED
        BY <1>8, <2>1, <2>3, <3>1, <3>2 DEF PeriodsClose, Anchor
    <2>4. CASE project'.customer = project.customer /\ Active(s) /\ Rolled
      <3>1. ASSUME NEW i \in PaidBy(project.customer) PROVE project'.end > Anchor(i)
        <4>1. p.end >= Anchor(i) /\ p.end \in Int /\ Anchor(i) \in Nat /\ Anchor(i) <= clock
          BY <1>2, <1>3, <1>8, <2>4 DEF MovesOn, PaidBy
        <4> QED
          BY <1>1, <2>4, <4>1
      <3> QED
        BY <2>1, <2>4, <3>1 DEF PeriodsClose, PaidBy
    <2> QED
      BY <2>2, <2>3, <2>4
  <1> QED
    BY <1>10, <1>11, <1>12, <1>13 DEF OnceFacts

\* A tick that begins reads the period the other one holds, and whose charge, if it was paid
\* already, has the key it would use itself.
LEMMA OnceList ==
  ASSUME TypeOK, TypeOK', AtMostTwo, OnceFacts, NEW s \in Schedulers,
         ListProjectsForHobbyBillingTick(s)
  PROVE  OnceFacts'
  <1>1. UNCHANGED <<clock, project, analyzedAt, setup, customers, payments>>
    BY DEF ListProjectsForHobbyBillingTick, usage, handlers, stripe
  <1>2. At(s, "idle") /\ tick[s].nextAt <= clock
    BY ListEffect
  <1>3. CASE EndTick(s)
    BY <1>1, <1>2, <1>3, OnceEnd DEF At
  <1>4. CASE \E t \in TickType :
                  /\ Hold(s, t) /\ t.pc = "listed" /\ t.snap = project
                  /\ Due(project) => project.end <= clock
    <2>1. /\ tick'[s].pc = "listed" /\ tick'[s].snap = project
          /\ Due(project) => project.end <= clock
          /\ \A r \in Schedulers : r # s => tick'[r] = tick[r]
      BY <1>4, HoldEffect
    <2>2. /\ clock \in Nat /\ project \in Row /\ project.end \in Int /\ PaidBy(NoCustomer) = {}
          /\ (setup.pc = "persist" => setup.snap.end \in Int)
      BY OnceNumbers
    <2>3. project.end <= clock
      BY <2>1, <2>2, RowFields DEF Due, NULL
    <2>4. Active(s)' /\ ~Unticked(s)' /\ ~Active(s) /\ Unticked(s)
      BY <1>2, <2>1 DEF Active, Unticked, At
    <2>5. \A r \in Schedulers : r # s =>
             /\ Active(r)' = Active(r) /\ Unticked(r)' = Unticked(r) /\ MayCharge(r)' = MayCharge(r)
      BY <1>1, <2>1 DEF Active, Unticked, MayCharge, At, Due, TooSoon
    <2>6. MayCharge(s)' => Due(project) /\ project.customer # NoCustomer /\ ~TooSoon(project)
      BY <1>1, <2>1 DEF MayCharge, At, Due, TooSoon
    <2>7. /\ PaymentsInOrder /\ CustomersAreNew /\ PaidIsOver /\ PaidOnce /\ PeriodsClose
          /\ \A r \in Schedulers : TickIsDue(r) /\ MovesOn(r) /\ OneKey(r)
          /\ \A r, q \in Schedulers : r # q => SamePeriod(r, q)
      BY DEF OnceFacts
    <2>8. /\ Charges' = Charges /\ \A c : PaidBy(c)' = PaidBy(c)
          /\ ChargesOf(setup.customer)' = ChargesOf(setup.customer)
      BY <1>1 DEF Charges, PaidBy, Paid, ChargesOf
    <2>9. PaymentsInOrder'
      BY <1>1, <2>7 DEF PaymentsInOrder, Charges
    <2>10. CustomersAreNew'
      <3>1. setup.pc = "persist" => project.customer # setup.customer
        BY <2>7, HandlersHeld DEF CustomersAreNew, NoCustomer
      <3> QED
        BY <1>1, <2>1, <2>7, <2>8, <3>1 DEF CustomersAreNew, At
    <2>11. PaidIsOver' /\ PaidOnce'
      BY <1>1, <2>7, <2>8 DEF PaidIsOver, PaidOnce, Anchor, Paid
    <2>12. ASSUME NEW r \in Schedulers PROVE TickIsDue(r)'
      <3>1. CASE r = s
        BY <1>1, <2>1, <2>3, <3>1 DEF TickIsDue, At
      <3>2. CASE r # s
        BY <1>1, <2>1, <2>7, <3>2 DEF TickIsDue, Active, At, Due
      <3> QED
        BY <3>1, <3>2
    <2>13. \A i \in PaidBy(project.customer) : Anchor(i) \in Nat /\ project.end >= Anchor(i)
      <3>1. \A i \in PaidBy(project.customer) : Anchor(i) \in Nat
        BY OnceNumbers DEF PaidBy
      <3> QED
        BY <2>2, <2>7, <3>1 DEF PeriodsClose
    <2>14. ASSUME NEW r \in Schedulers PROVE MovesOn(r)'
      <3>1. CASE r = s
        BY <1>1, <2>1, <2>2, <2>8, <2>13, <3>1 DEF MovesOn, Anchor
      <3>2. CASE r # s
        BY <1>1, <2>1, <2>5, <2>7, <2>8, <3>2 DEF MovesOn, Anchor
      <3> QED
        BY <3>1, <3>2
    <2>15. ASSUME NEW r \in Schedulers PROVE OneKey(r)'
      <3>1. CASE r = s
        <4>1. ASSUME MayCharge(s)', NEW i \in PaidBy(project.customer), Anchor(i) = project.end
              PROVE  payments[i].at = clock /\ payments[i].key = PeriodKey(project)
          <5>1. payments[i].at = clock /\ payments[i].key.attempt = project.failures
            BY <2>2, <2>6, <2>7, <4>1 DEF PeriodsClose
          <5>2. payments[i].key.for = "period" /\ payments[i].key \in KeyType
            BY PaymentFields DEF PaidBy, Charges, PaymentType
          <5>3. payments[i].key =
                   [for |-> payments[i].key.for, anchor |-> payments[i].key.anchor,
                    attempt |-> payments[i].key.attempt]
            BY <5>2 DEF KeyType
          <5> QED
            BY <4>1, <5>1, <5>2, <5>3 DEF PeriodKey, Anchor
        <4> QED
          BY <1>1, <2>1, <2>8, <3>1, <4>1 DEF OneKey, Anchor, PeriodKey
      <3>2. CASE r # s
        BY <1>1, <2>1, <2>5, <2>7, <2>8, <3>2 DEF OneKey, Anchor, PeriodKey, TooSoon
      <3> QED
        BY <3>1, <3>2
    <2>16. ASSUME NEW r \in Schedulers, r # s PROVE SamePeriod(r, s)' /\ SamePeriod(s, r)'
      <3> DEFINE q == tick[r].snap
      <3>1. tick'[r].snap = q
        BY <2>1, <2>16
      <3>2. /\ Active(r) => project.end > clock \/ q.end >= project.end
            /\ Unticked(r) /\ setup.pc = "persist" =>
                  project.end > clock \/ setup.snap.end > clock \/ project.end >= setup.snap.end
        BY <2>4, <2>7, <2>16 DEF SamePeriod
      <3>3. MayCharge(r) /\ MayCharge(s)' /\ q.customer = project.customer => q.failures = project.failures
        BY <2>6, <2>7 DEF OneKey
      <3>4. Active(r) => q.end \in Int /\ q.end <= clock
        BY OnceNumbers
      <3>5. Active(r) /\ q.customer = project.customer /\ project.customer # NoCustomer
               => project.end >= q.end
        BY <2>7 DEF MovesOn
      <3>6. SamePeriod(r, s)'
        BY <1>1, <2>1, <2>2, <2>3, <2>4, <2>5, <2>16, <3>1, <3>2, <3>3, <3>4 DEF SamePeriod
      <3>7. SamePeriod(s, r)'
        BY <1>1, <2>1, <2>2, <2>3, <2>4, <2>5, <2>16, <3>1, <3>2, <3>3, <3>5 DEF SamePeriod
      <3> QED
        BY <3>6, <3>7
    <2>17. ASSUME NEW r \in Schedulers, NEW q \in Schedulers, r # q PROVE SamePeriod(r, q)'
      <3>1. r = s \/ q = s
        BY <2>17 DEF AtMostTwo
      <3> QED
        BY <2>16, <2>17, <3>1
    <2>18. PeriodsClose'
      <3>1. (\E r \in Schedulers : At(r, "charged") \/ At(r, "rollover"))
               => \E r \in Schedulers : (At(r, "charged") \/ At(r, "rollover"))'
        BY <1>2, <2>1 DEF At
      <3>2. TooSoon(project)' = TooSoon(project)
        BY <1>1 DEF TooSoon
      <3> QED
        BY <1>1, <2>7, <2>8, <3>1, <3>2 DEF PeriodsClose, Anchor
    <2> QED
      BY <2>9, <2>10, <2>11, <2>12, <2>14, <2>15, <2>17, <2>18 DEF OnceFacts
  <1> QED
    BY <1>3, <1>4, ListEffect

\* A charge that goes through is the first for its period: a paid one would have been answered.
LEMMA OnceCharge ==
  ASSUME TypeOK, TypeOK', errors' = 0, OnceFacts, NEW s \in Schedulers, ChargeOffSession(s)
  PROVE  OnceFacts'
  <1> DEFINE p == tick[s].snap
  <1>1. UNCHANGED <<clock, project, analyzedAt, setup, customers>>
    BY DEF ChargeOffSession, usage, handlers
  <1>2. p \in Row /\ At(s, "charge") /\ Active(s) /\ MayCharge(s)
    BY ChargeOffSessionEffect DEF Active, MayCharge, At
  <1>3. /\ tick'[s].snap = p /\ tick'[s].pc \in {"charged", "refused"}
        /\ \A r \in Schedulers : r # s => tick'[r] = tick[r]
    <2>1. PICK t \in TickType : Hold(s, t) /\ t.snap = p /\ t.pc \in {"charged", "refused"}
      BY ChargeOffSessionEffect
    <2> QED
      BY <2>1, HoldEffect
  <1>4. CASE payments' = payments
    <2>1. ~At(s, "charged") /\ ~At(s, "rollover") /\ tick'[s].pc # "charge"
      BY <1>2, <1>3 DEF At
    <2> QED
      BY <1>1, <1>2, <1>3, <1>4, <2>1, OnceHold
  <1>5. CASE payments' # payments
    <2>1. /\ PaymentsInOrder /\ CustomersAreNew /\ PaidIsOver /\ PaidOnce /\ PeriodsClose
          /\ \A r \in Schedulers : TickIsDue(r) /\ MovesOn(r) /\ OneKey(r)
          /\ \A r, q \in Schedulers : r # q => SamePeriod(r, q)
      BY DEF OnceFacts
    <2>2. /\ Due(p) /\ p.customer # NoCustomer /\ tick[s].charge.customer = p.customer
          /\ p.end <= clock
      BY <1>2, <2>1 DEF TickIsDue
    <2> PICK new : new = Len(payments) + 1
      OBVIOUS
    <2>3. /\ \/ Known(PeriodKey(p)) = {}
             \/ clock - payments[Max(Known(PeriodKey(p)))].at >= KeyLife
          /\ new \in Nat /\ payments'[new].charge.customer = p.customer
          /\ payments'[new].at = clock /\ payments'[new].key = PeriodKey(p)
          /\ payments'[new].ok => tick'[s].pc = "charged"
          /\ Charges' = Charges \union {new} /\ new \notin Charges
          /\ \A i \in Charges : payments'[i] = payments[i]
          /\ PaymentsInOrder' /\ CustomersAreNew'
      BY <1>5, <2>1, <2>2, FreshCharge
    <2>4. p.end \in Nat /\ clock \in Nat /\ project.end \in Int
      BY <1>2, <2>2, RowFields, OnceNumbers DEF Due
    <2>5. /\ Anchor(new)' = p.end /\ payments'[new].key.attempt = p.failures
          /\ \A i \in Charges : Anchor(i)' = Anchor(i) /\ Paid(i)' = Paid(i)
      BY <2>3 DEF Anchor, Paid, PeriodKey
    <2> HIDE DEF p
    <2>6. \A c, i : i \in PaidBy(c)' =>
              \/ i \in PaidBy(c) /\ payments'[i] = payments[i]
              \/ i = new /\ c = p.customer /\ tick'[s].pc = "charged"
      BY <2>3, <2>5 DEF PaidBy, Paid
    <2>7. PaidIsOver'
      BY <2>1, <2>2, <2>3, <2>4, <2>5 DEF PaidIsOver
    <2>8. PaidOnce'
      <3>1. ASSUME NEW i \in Charges, Paid(i), Anchor(i) = p.end,
                   payments[i].charge.customer = p.customer
            PROVE  FALSE
        <4>1. i \in PaidBy(p.customer) /\ i \in DOMAIN payments
          BY <3>1 DEF PaidBy, Charges
        <4>2. payments[i].at = clock /\ payments[i].key = PeriodKey(p)
          BY <1>2, <2>1, <3>1, <4>1 DEF OneKey, p
        <4> QED
          BY <2>1, <2>3, <4>1, <4>2, NotTwiceToday
      <3> SUFFICES ASSUME NEW i \in Charges', NEW j \in Charges', Paid(i)', Paid(j)',
                          Anchor(i)' = Anchor(j)',
                          payments'[i].charge.customer = payments'[j].charge.customer
                   PROVE  i = j
        BY DEF PaidOnce
      <3>2. CASE i = new /\ j # new
        BY <2>3, <2>5, <3>1, <3>2
      <3>3. CASE j = new /\ i # new
        BY <2>3, <2>5, <3>1, <3>3
      <3>4. CASE i # new /\ j # new
        BY <2>1, <2>3, <2>5, <3>4 DEF PaidOnce
      <3> QED
        BY <3>2, <3>3, <3>4
    <2>9. ASSUME NEW r \in Schedulers
          PROVE  /\ Active(r)' = Active(r) /\ tick'[r].snap = tick[r].snap
                 /\ Unticked(r)' = Unticked(r) /\ (MayCharge(r)' => r # s /\ MayCharge(r))
      <3>1. CASE r # s
        BY <1>1, <1>3, <3>1 DEF Active, Unticked, MayCharge, At, Due, TooSoon
      <3>2. CASE r = s
        BY <1>2, <1>3, <3>2 DEF Active, Unticked, MayCharge, At, p
      <3> QED
        BY <3>1, <3>2
    <2>10. ASSUME NEW r \in Schedulers PROVE TickIsDue(r)'
      <3>1. CASE r = s
        BY <1>1, <1>3, <2>2, <3>1 DEF TickIsDue, At
      <3>2. CASE r # s
        BY <1>1, <1>3, <2>1, <3>2 DEF TickIsDue, Active, At, Due
      <3> QED
        BY <3>1, <3>2
    <2>11. ASSUME NEW r \in Schedulers PROVE MovesOn(r)'
      <3> DEFINE q == tick[r].snap
      <3> SUFFICES ASSUME Active(r)
                   PROVE  /\ q.customer = project.customer /\ project.customer # NoCustomer
                               => project.end >= q.end
                          /\ \A i \in PaidBy(project.customer)' : q.end >= Anchor(i)'
        BY <1>1, <2>9 DEF MovesOn
      <3>1. /\ q.customer = project.customer /\ project.customer # NoCustomer => project.end >= q.end
            /\ \A i \in PaidBy(project.customer) : q.end >= Anchor(i)
        BY <2>1 DEF MovesOn
      <3>2. project.customer = p.customer => q.end >= p.end
        <4>1. CASE r = s
          BY <2>4, <4>1 DEF p
        <4>2. CASE r # s
          BY <1>2, <2>1, <2>2, <4>2 DEF SamePeriod, p
        <4> QED
          BY <4>1, <4>2
      <3>3. ASSUME NEW i \in PaidBy(project.customer)' PROVE q.end >= Anchor(i)'
        <4>1. \/ i \in PaidBy(project.customer) /\ payments'[i] = payments[i]
              \/ i = new /\ project.customer = p.customer
          BY <1>1, <2>3, <2>5, <3>3 DEF PaidBy, Paid
        <4> QED
          BY <2>5, <3>1, <3>2, <4>1 DEF Anchor
      <3> QED
        BY <3>1, <3>3
    <2>12. ASSUME NEW r \in Schedulers PROVE OneKey(r)'
      <3> DEFINE q == tick[r].snap
      <3> SUFFICES ASSUME r # s, MayCharge(r)
                   PROVE  /\ \A i \in PaidBy(q.customer)' :
                               Anchor(i)' = q.end => payments'[i].at = clock
                                                     /\ payments'[i].key = PeriodKey(q)
                          /\ project.customer = q.customer => project.failures = q.failures \/ TooSoon(project)
        <4>1. tick'[r].snap = q /\ TooSoon(project)' = TooSoon(project)
          BY <1>1, <2>9 DEF TooSoon
        <4> QED
          BY <1>1, <2>9, <4>1 DEF OneKey, PeriodKey
      <3>1. /\ \A i \in PaidBy(q.customer) :
                 Anchor(i) = q.end => payments[i].at = clock /\ payments[i].key = PeriodKey(q)
            /\ project.customer = q.customer => project.failures = q.failures \/ TooSoon(project)
        BY <2>1 DEF OneKey
      <3>2. ASSUME NEW i \in PaidBy(q.customer)', Anchor(i)' = q.end
            PROVE  payments'[i].at = clock /\ payments'[i].key = PeriodKey(q)
        <4>1. tick'[r].snap = q
          BY <2>9
        <4>2. \/ i \in PaidBy(q.customer) /\ payments'[i] = payments[i]
              \/ i = new /\ q.customer = p.customer
          BY <2>3, <2>5, <3>2, <4>1 DEF PaidBy, Paid
        <4>3. CASE i \in PaidBy(q.customer) /\ payments'[i] = payments[i]
          BY <3>1, <3>2, <4>3 DEF Anchor
        <4>4. CASE i = new /\ q.customer = p.customer
          <5>1. q.failures = p.failures /\ q.end = p.end
            BY <1>2, <2>1, <2>5, <3>2, <4>4 DEF SamePeriod, p
          <5> QED
            BY <2>3, <4>4, <5>1 DEF PeriodKey
        <4> QED
          BY <4>2, <4>3, <4>4
      <3> QED
        BY <3>1, <3>2
    <2>13. ASSUME NEW r \in Schedulers, NEW q \in Schedulers, r # q PROVE SamePeriod(r, q)'
      <3>1. SamePeriod(r, q)
        BY <2>1, <2>13
      <3> QED
        BY <1>1, <2>9, <3>1 DEF SamePeriod
    <2>14. PeriodsClose'
      <3> SUFFICES ASSUME NEW i \in PaidBy(project.customer)'
                   PROVE  \/ project.end > Anchor(i)'
                          \/ /\ project.end = Anchor(i)' /\ payments'[i].at = clock
                             /\ payments'[i].key.attempt = project.failures \/ TooSoon(project)
                             /\ \E r \in Schedulers : At(r, "charged")' \/ At(r, "rollover")'
        BY <1>1 DEF PeriodsClose, TooSoon
      <3>1. \/ i \in PaidBy(project.customer) /\ payments'[i] = payments[i]
            \/ i = new /\ project.customer = p.customer /\ tick'[s].pc = "charged"
        BY <1>1, <2>3, <2>5 DEF PaidBy, Paid
      <3>2. CASE i \in PaidBy(project.customer) /\ payments'[i] = payments[i]
        <4>1. \A r \in Schedulers : At(r, "charged") \/ At(r, "rollover")
                  => At(r, "charged")' \/ At(r, "rollover")'
          BY <1>2, <1>3 DEF At
        <4> QED
          BY <2>1, <3>2, <4>1 DEF PeriodsClose, Anchor
      <3>3. CASE i = new /\ project.customer = p.customer /\ tick'[s].pc = "charged"
        <4>1. project.end >= p.end
          BY <1>2, <2>1, <2>2, <3>3 DEF MovesOn, p
        <4>2. project.failures = p.failures \/ TooSoon(project)
          BY <1>2, <2>1, <3>3 DEF OneKey, p
        <4> QED
          BY <2>3, <2>4, <2>5, <3>3, <4>1, <4>2 DEF At
      <3> QED
        BY <3>1, <3>2, <3>3
    <2> QED
      BY <2>3, <2>7, <2>8, <2>10, <2>11, <2>12, <2>13, <2>14 DEF OnceFacts
  <1> QED
    BY <1>4, <1>5

LEMMA OncePrice ==
  ASSUME TypeOK, TypeOK', AtMostTwo, OnceFacts, NEW s \in Schedulers, Price(s)
  PROVE  OnceFacts'
  <1> DEFINE p == tick[s].snap
  <1>1. UNCHANGED <<clock, project, analyzedAt, setup, customers, payments>>
    BY DEF Price, usage, handlers, stripe
  <1>2. At(s, "listed") /\ Active(s) /\ ~At(s, "charged") /\ ~At(s, "rollover")
    BY PriceEffect DEF Active, At
  <1>3. CASE EndTick(s)
    BY <1>1, <1>2, <1>3, OnceEnd
  <1>4. CASE ~EndTick(s)
    <2>1. Due(p) /\ p.customer # NoCustomer /\ ~TooSoon(p)
      BY <1>4, PriceEffect
    <2>2. PICK t \in TickType :
              /\ Hold(s, t) /\ t.snap = p
              /\ t.pc = "rollover" \/ (t.pc = "charge" /\ t.charge.customer = p.customer)
      BY <1>4, PriceEffect
    <2>3. /\ tick'[s] = t /\ \A r \in Schedulers : r # s => tick'[r] = tick[r]
      BY <2>2, HoldEffect
    <2>4. MayCharge(s)
      BY <1>2, <2>1 DEF MayCharge
    <2> QED
      BY <1>1, <1>2, <2>1, <2>2, <2>3, <2>4, OnceHold
  <1> QED
    BY <1>3, <1>4

LEMMA OnceRecord ==
  ASSUME TypeOK, TypeOK', AtMostTwo, errors = 0, errors' = 0, OnceFacts, NEW s \in Schedulers,
         RecordAttempt(s)
  PROVE  OnceFacts'
  <1> DEFINE p == tick[s].snap
  <1>1. UNCHANGED <<clock, analyzedAt, setup, customers, payments>>
    BY DEF RecordAttempt, usage, handlers, stripe
  <1>2. errors \in 0 .. MaxErrors
    BY DEF TypeOK
  <1>3. project'.lastAttempt = clock /\ project'.end = project.end /\ project'.customer = project.customer
    BY <1>2, RecordAttemptEffect, Counted
  <1>4. (At(s, "charged") \/ At(s, "refused")) /\ Active(s)
    BY RecordAttemptEffect DEF Active, At
  <1>5. CASE EndTick(s) /\ At(s, "refused")
    <2>1. ~At(s, "charged") /\ ~At(s, "rollover")
      BY <1>5 DEF At
    <2> QED
      BY <1>1, <1>3, <1>5, <2>1, OnceEnd
  <1>6. CASE \E t \in TickType :
                  /\ Hold(s, t) /\ t.snap = tick[s].snap
                  /\ \/ t.pc = "rollover" /\ At(s, "charged")
                     \/ t.pc = "detach" /\ At(s, "refused") /\ CeilingReached(tick[s].snap)
    <2>1. PICK t \in TickType :
              /\ Hold(s, t) /\ t.snap = p
              /\ t.pc = "rollover" \/ (t.pc = "detach" /\ At(s, "refused"))
      BY <1>6
    <2>2. /\ tick'[s] = t /\ \A r \in Schedulers : r # s => tick'[r] = tick[r]
      BY <2>1, HoldEffect
    <2>3. At(s, "charged") \/ At(s, "rollover") => t.pc = "rollover"
      BY <2>1 DEF At
    <2> QED
      BY <1>1, <1>3, <1>4, <2>1, <2>2, <2>3, OnceHold
  <1> QED
    BY <1>5, <1>6, RecordAttemptEffect

LEMMA OnceRollover ==
  ASSUME TypeOK, TypeOK', AtMostTwo, errors = 0, errors' = 0, OnceFacts, NEW s \in Schedulers,
         Rollover(s)
  PROVE  OnceFacts'
  <1>1. UNCHANGED <<clock, analyzedAt, setup, customers, payments>>
    BY DEF Rollover, usage, handlers, stripe
  <1>2. EndTick(s) /\ Active(s)
    BY RolloverEffect DEF Active, At
  <1>3. PICK ok \in Outcomes :
          /\ CountError(ok)
          /\ project' = IF ok
                        THEN ResetExecutionsThisPeriod(project, NewBounds(tick[s].snap)[1],
                                                       NewBounds(tick[s].snap)[2])
                        ELSE project
    BY DEF Rollover
  <1>4. ok /\ project \in Row /\ tick[s].snap \in Row /\ clock \in Nat /\ Period \in Nat
    BY <1>3, Counted, TypeNumbers, RolloverEffect, Constants DEF TypeOK
  <1>5. /\ project'.customer = project.customer /\ project'.failures = project.failures
        /\ project'.lastAttempt = project.lastAttempt
        /\ project'.end = IF Due(tick[s].snap) THEN tick[s].snap.end + Period ELSE clock + Period
    <2> DEFINE a == NewBounds(tick[s].snap)[1]
               b == NewBounds(tick[s].snap)[2]
    <2>1. project' = ResetExecutionsThisPeriod(project, a, b)
      BY <1>3, <1>4
    <2>2. a \in Nat /\ b \in Nat
      BY <1>4, RowFields DEF NewBounds, Due, NULL
    <2>3. b = IF Due(tick[s].snap) THEN tick[s].snap.end + Period ELSE clock + Period
      BY DEF NewBounds
    <2> HIDE DEF a, b
    <2> DEFINE q == ResetExecutionsThisPeriod(project, a, b)
    <2>4. /\ q.end = b /\ q.customer = project.customer
          /\ q.lastAttempt = project.lastAttempt /\ q.failures = project.failures
      BY <1>4, <2>2, ResetRow
    <2>5. project' = q
      BY <2>1
    <2> HIDE DEF q
    <2> QED
      BY <2>3, <2>4, <2>5
  <1> QED
    BY <1>1, <1>2, <1>5, OnceEnd

LEMMA OnceDetach ==
  ASSUME TypeOK, TypeOK', AtMostTwo, errors = 0, errors' = 0, OnceFacts, NEW s \in Schedulers,
         DetachCard(s)
  PROVE  OnceFacts'
  <1>1. UNCHANGED <<clock, analyzedAt, setup, customers, payments>>
    BY DEF DetachCard, usage, handlers, stripe
  <1>2. errors \in 0 .. MaxErrors /\ project \in Row
    BY TypeNumbers DEF TypeOK
  <1>3. EndTick(s) /\ project' = DetachHobbyCardForBillingFailure(project)
    BY <1>2, DetachCardEffect, Counted
  <1>4. project'.customer = NoCustomer
    BY <1>2, <1>3, DetachedRow
  <1> QED
    BY <1>1, <1>3, <1>4, OnceEnd

LEMMA CrashesGrow ==
  ASSUME TypeOK, [Next]_vars
  PROVE  crashes \in Nat /\ (crashes' = crashes \/ ((\E s \in Schedulers : Crash(s)) /\ crashes' = crashes + 1))
  <1>1. crashes \in Nat
    BY TypeNumbers
  <1>2. CASE UNCHANGED vars
    BY <1>1, <1>2 DEF vars, faults
  <1>3. CASE Day \/ Use
    BY <1>1, <1>3 DEF Day, Use, AdmitExecution, CountExecution, HandleAnalyzeFailureGroup,
       SaveFailureGroupAnalysis, faults
  <1>4. CASE Card
    BY <1>1, <1>4 DEF Card, HandleCreateSetupCheckout, PersistCustomer, CompleteCheckout,
       HandleSetupIntentSucceeded, BootstrapBounds, MarkCardAttached, HandleRemovePaymentMethod,
       SettleOnRemoval, DetachAtStripe, ClearCard, ResetOnRemoval, faults
  <1>5. ASSUME NEW s \in Schedulers, Tick(s) PROVE crashes' = crashes
    BY <1>5 DEF Tick, ListProjectsForHobbyBillingTick, Rollover, Price, ChargeOffSession, RecordAttempt,
       DetachCard, faults
  <1>6. ASSUME NEW s \in Schedulers, Crash(s) PROVE crashes' = crashes + 1
    BY <1>6 DEF Crash
  <1> QED
    BY <1>1, <1>2, <1>3, <1>4, <1>5, <1>6 DEF Next

LEMMA OnceStep == ASSUME AtMostTwo PROVE OnceInv /\ [Next]_vars => OnceInv'
  <1> SUFFICES ASSUME OnceInv, [Next]_vars PROVE OnceInv'
    OBVIOUS
  <1>1. TypeOK /\ TypeOK' /\ errors <= errors'
    BY NextTypes, ErrorsGrow DEF OnceInv
  <1> SUFFICES ASSUME crashes' = 0, errors' = 0 PROVE OnceFacts'
    BY <1>1 DEF OnceInv
  <1>2. errors = 0 /\ crashes = 0 /\ \A s \in Schedulers : ~Crash(s)
    BY <1>1, TypeNumbers, CrashesGrow DEF Crash
  <1>3. OnceFacts
    BY <1>2 DEF OnceInv
  <1>4. CASE UNCHANGED vars
    <2>1. UNCHANGED <<clock, project, analyzedAt, tick, setup, customers, payments>>
      BY <1>4 DEF vars, usage, handlers, stripe
    <2> QED
      BY <1>1, <1>3, <2>1, OnceStill
  <1>5. ASSUME NEW s \in Schedulers, Tick(s) PROVE OnceFacts'
    BY <1>1, <1>2, <1>3, <1>5, OnceList, OnceRollover, OncePrice, OnceCharge, OnceRecord,
       OnceDetach DEF Tick
  <1> QED
    BY <1>1, <1>2, <1>3, <1>4, <1>5, OnceDay, OnceUse, OnceCard DEF Next

LEMMA OnceInit == Init => OnceInv
  <1> SUFFICES ASSUME Init PROVE OnceInv
    OBVIOUS
  <1>1. TypeOK
    BY InitTypes
  <1>2. /\ clock = 0 /\ customers = 0 /\ payments = <<>> /\ project.customer = NoCustomer
        /\ setup.pc = "idle" /\ \A s \in Schedulers : tick[s].pc = "idle"
        /\ \A g \in Groups : analyzedAt[g] = -1
    BY DEF Init, NewProject, IdleHandler, IdleTick, NULL
  <1>3. Charges = {} /\ DOMAIN payments = {} /\ \A c : PaidBy(c) = {}
    BY <1>2 DEF Charges, PaidBy
  <1>4. PaymentsInOrder /\ PaidIsOver /\ PeriodsClose /\ PaidOnce
    BY <1>2, <1>3 DEF PaymentsInOrder, PaidIsOver, PeriodsClose, PaidOnce
  <1>5. CustomersAreNew
    BY <1>2 DEF CustomersAreNew, At, NoCustomer
  <1>6. \A s \in Schedulers : ~Active(s) /\ ~MayCharge(s)
    BY <1>2 DEF Active, MayCharge, At
  <1>7. /\ \A s \in Schedulers : TickIsDue(s) /\ MovesOn(s) /\ OneKey(s)
        /\ \A r, s \in Schedulers : SamePeriod(r, s)
    BY <1>2, <1>6 DEF TickIsDue, MovesOn, OneKey, SamePeriod, MayCharge
  <1> QED
    BY <1>1, <1>4, <1>5, <1>7 DEF OnceInv, OnceFacts

\* As long as nothing fails, two schedulers that work at once charge a customer once for a period,
\* whatever the customer does to the card: the second finds the period moved on, or is too soon, or
\* asks with the key of the first, whom Stripe has answered on the same day.
THEOREM PeriodsAreChargedOnce == ASSUME AtMostTwo PROVE Spec => []OneChargePerPeriod
  <1>1. OnceInv => OneChargePerPeriod
    BY DEF OnceInv, OnceFacts, PaidOnce, OneChargePerPeriod, Anchor, Paid
  <1> QED
    BY <1>1, OnceInit, OnceStep, PTL DEF Spec

-----------------------------------------------------------------------------
(* Days and allowances.                                                    *)

LEMMA Times ==
  ASSUME NEW x \in Int, NEW y \in Int, NEW r \in Int
  PROVE  (x + y) * r = x * r + y * r /\ x * r \in Int
  OBVIOUS

LEMMA TimesNat == ASSUME NEW x \in Nat, NEW r \in Nat PROVE x * r \in Nat
  OBVIOUS

LEMMA TimesMonotone ==
  ASSUME NEW x \in Int, NEW y \in Int, NEW r \in Nat, x <= y
  PROVE  x * r <= y * r
  <1>1. (y - x) * r >= 0
    OBVIOUS
  <1>2. y * r = (x + (y - x)) * r
    OBVIOUS
  <1>3. y * r = x * r + (y - x) * r /\ x * r \in Int
    BY <1>2, Times
  <1> QED
    BY <1>1, <1>3

LEMMA SpacingBounds ==
  /\ Spacing \in Nat /\ Spacing >= 1 /\ RetryCadence \in Nat
  /\ Spacing = RetryCadence + 1
  BY Constants DEF Spacing

LEMMA SpanBounds == Span \in Nat /\ Spacing \in Nat /\ Spacing >= 1 /\ Spacing + 1 <= Span
  <1>1. FailureCeiling \in Nat /\ FailureCeiling >= 1 /\ Spacing \in Nat /\ Spacing >= 1
    BY Constants, SpacingBounds
  <1>2. 1 * Spacing <= FailureCeiling * Spacing
    BY <1>1, TimesMonotone
  <1>3. FailureCeiling * Spacing \in Int
    BY <1>1, Times
  <1> QED
    BY <1>1, <1>2, <1>3 DEF Span

LEMMA PeriodHoldsAttempts ==
  ASSUME AttemptsFit
  PROVE  Period \in Nat /\ Span <= Period + 1 /\ Spacing <= Period
  <1>1. FailureCeiling * Spacing \in Int /\ Period \in Nat
    BY Constants, SpacingBounds, Times
  <1>2. Spacing \in Nat /\ Spacing + 1 <= Span
    BY SpanBounds
  <1> QED
    BY <1>1, <1>2 DEF AttemptsFit, Span

\* An attempt that is still to come keeps its cadence free.
LEMMA WaitedBounds ==
  ASSUME NEW p \in Row
  PROVE  /\ Waited(p) \in Nat /\ Waited(p) + Spacing + 1 <= Span
         /\ p.failures = 0 => Waited(p) = 0
  <1>1. p.failures \in Nat /\ FailureCeiling \in Nat /\ Spacing \in Nat
    BY RowFields, Constants, SpacingBounds
  <1>2. CASE p.failures < FailureCeiling
    <2>1. /\ (p.failures + 1) * Spacing <= FailureCeiling * Spacing
          /\ 0 * Spacing <= p.failures * Spacing
      BY <1>1, <1>2, TimesMonotone
    <2>2. /\ (p.failures + 1) * Spacing = p.failures * Spacing + Spacing
          /\ p.failures * Spacing \in Int /\ FailureCeiling * Spacing \in Int
      <3>1. (p.failures + 1) * Spacing = p.failures * Spacing + 1 * Spacing
        BY <1>1, Times
      <3> QED
        BY <1>1, <3>1, Times
    <2>3. Waited(p) = p.failures * Spacing
      BY <1>2 DEF Waited
    <2> QED
      BY <1>1, <2>1, <2>2, <2>3 DEF Span
  <1>3. CASE ~(p.failures < FailureCeiling)
    <2>1. Waited(p) = 0
      BY <1>3 DEF Waited
    <2> QED
      BY <2>1, SpanBounds
  <1> QED
    BY <1>2, <1>3

LEMMA WaitedSame ==
  ASSUME NEW p, NEW q, p.failures = q.failures
  PROVE  Waited(p) = Waited(q)
  BY DEF Waited

LEMMA WaitedGrows ==
  ASSUME NEW p \in Row, NEW q \in Row, q.failures = p.failures + 1, q.failures < FailureCeiling
  PROVE  Waited(q) = Waited(p) + Spacing
  <1>1. p.failures \in Nat /\ FailureCeiling \in Nat /\ Spacing \in Nat
    BY RowFields, Constants, SpacingBounds
  <1>2. (p.failures + 1) * Spacing = p.failures * Spacing + 1 * Spacing
    BY <1>1, Times
  <1>3. Waited(p) = p.failures * Spacing /\ Waited(q) = (p.failures + 1) * Spacing
    BY <1>1 DEF Waited
  <1> QED
    BY <1>1, <1>2, <1>3

LEMMA Sum ==
  ASSUME NEW x \in Nat, NEW y \in Nat, NEW z \in Nat
  PROVE  x + y + z \in Nat /\ x + y + z >= x
  OBVIOUS

LEMMA SumMonotone ==
  ASSUME NEW x \in Nat, NEW y \in Nat, NEW z \in Nat,
         NEW a \in Nat, NEW b \in Nat, NEW c \in Nat, a >= x, b >= y, c >= z
  PROVE  x + y + z <= a + b + c
  OBVIOUS

\* Every customer has an allowance.
LEMMA AllowanceBounds ==
  ASSUME TypeOK
  PROVE  /\ Allowance \in Nat /\ Allowance >= 1
         /\ customers >= 1 => Allowance >= Span
         /\ customers >= 2 => Allowance >= Span + Span
  <1> DEFINE k == customers + crashes + errors
  <1>1. k \in Nat /\ k >= customers /\ Span \in Nat /\ Allowance = 1 + k * Span
    BY TypeNumbers, SpanBounds DEF Allowance
  <1>2. k * Span \in Nat
    <2>1. 0 * Span <= k * Span /\ k * Span \in Int
      BY <1>1, TimesMonotone, Times
    <2> QED
      BY <1>1, <2>1
  <1>3. ASSUME customers >= 1 PROVE k * Span >= Span
    <2>1. 1 * Span <= k * Span
      BY <1>1, <1>3, TypeNumbers, TimesMonotone
    <2> QED
      BY <1>1, <2>1
  <1>4. ASSUME customers >= 2 PROVE k * Span >= Span + Span
    <2>1. (1 + 1) * Span <= k * Span
      BY <1>1, <1>4, TypeNumbers, TimesMonotone
    <2>2. (1 + 1) * Span = 1 * Span + 1 * Span
      BY <1>1, Times
    <2> QED
      BY <1>1, <2>1, <2>2
  <1> QED
    BY <1>1, <1>2, <1>3, <1>4

\* A new customer and a fault are worth the days of one.
LEMMA AllowanceGrows ==
  ASSUME TypeOK, TypeOK'
  PROVE  /\ Allowance \in Nat /\ Allowance' \in Nat
         /\ UNCHANGED <<customers, crashes, errors>> => Allowance' = Allowance
         /\ customers' + crashes' + errors' = customers + crashes + errors + 1
               => Allowance' = Allowance + Span
         /\ customers' >= customers /\ crashes' >= crashes /\ errors' >= errors
               => Allowance' >= Allowance
  <1> DEFINE k == customers + crashes + errors
             m == customers' + crashes' + errors'
  <1>0. /\ customers \in Nat /\ crashes \in Nat /\ errors \in Nat
        /\ customers' \in Nat /\ crashes' \in Nat /\ errors' \in Nat
    BY Constants DEF TypeOK
  <1>1. k \in Nat /\ m \in Nat /\ Span \in Nat /\ Allowance = 1 + k * Span /\ Allowance' = 1 + m * Span
    <2>1. k \in Nat /\ m \in Nat /\ Span \in Nat
      BY <1>0, SpanBounds, Sum
    <2>2. Span' = Span
      BY DEF Span
    <2> QED
      BY <2>1, <2>2 DEF Allowance
  <1>2. ASSUME m = k + 1 PROVE m * Span = k * Span + Span
    <2>1. (k + 1) * Span = k * Span + 1 * Span
      BY <1>1, Times
    <2> QED
      BY <1>1, <1>2, <2>1
  <1>3. ASSUME customers' >= customers, crashes' >= crashes, errors' >= errors
        PROVE  k * Span <= m * Span
    <2>1. k <= m
      BY <1>0, <1>3, SumMonotone
    <2> HIDE DEF k, m
    <2> QED
      BY <1>1, <2>1, TimesMonotone
  <1>4. k * Span \in Nat /\ m * Span \in Nat
    BY <1>1, TimesNat
  <1>5. UNCHANGED <<customers, crashes, errors>> => k = m
    OBVIOUS
  <1>6. m = customers' + crashes' + errors' /\ k = customers + crashes + errors
    OBVIOUS
  <1> HIDE DEF k, m
  <1> QED
    BY <1>1, <1>2, <1>3, <1>4, <1>5, <1>6

-----------------------------------------------------------------------------
(* What keeps a row, a tick and a checkout in time.                        *)

Sized(p, t, u, now, a) ==
    /\ now \in Nat /\ a \in Nat
    /\ p \in Row /\ p.end \in Int /\ p.lastAttempt \in Int
    /\ t.pc = "idle" => t.nextAt \in Nat
    /\ t.pc # "idle" => t.snap \in Row /\ t.snap.end \in Int
    /\ u.pc = "persist" => u.snap.end \in Int

\* More days do no harm.
LEMMA InTimeGrows ==
  ASSUME NEW p, NEW t, NEW u, NEW now, NEW a, NEW b \in Nat,
         Sized(p, t, u, now, a), a <= b, InTime(p, t, u, now, a)
  PROVE  InTime(p, t, u, now, b)
  <1>1. Waited(p) \in Nat /\ Span \in Nat /\ Spacing \in Nat
    BY WaitedBounds, SpanBounds DEF Sized
  <1>2. RowInTime(p, t, now, b)
    BY <1>1 DEF Sized, InTime, RowInTime, Overdue, Attempted, Pace
  <1>3. TickInTime(p, t, u, now, b)
    BY <1>1 DEF Sized, InTime, TickInTime, Overdue
  <1>4. SetupInTime(p, u, now, b)
    BY <1>1 DEF Sized, InTime, SetupInTime, Overdue, Attempted
  <1> QED
    BY <1>2, <1>3, <1>4 DEF InTime

\* Usage and the mark of a card are no concern of it.
LEMMA InTimeStays ==
  ASSUME NEW p, NEW r, NEW t, NEW u, NEW now, NEW a, InTime(p, t, u, now, a),
         r.end = p.end, r.customer = p.customer, r.lastAttempt = p.lastAttempt, r.failures = p.failures
  PROVE  InTime(r, t, u, now, a)
  <1>1. Waited(r) = Waited(p)
    BY WaitedSame
  <1> QED
    BY <1>1 DEF InTime, RowInTime, TickInTime, SetupInTime, Overdue, Attempted, Pace

\* A period that is not over.  The last attempt was made for the customer who has the row,
\* and the next one is a cadence off, or there is another customer's allowance.
LEMMA InTimeWhenOpen ==
  ASSUME NEW p, NEW r, NEW t, NEW u, NEW now, NEW a, Sized(p, t, u, now, a), InTime(p, t, u, now, a),
         r \in Row, r.end \in Nat, r.end > now, r.lastAttempt <= now,
         r.customer = p.customer, r.lastAttempt = p.lastAttempt, r.failures = p.failures,
         p.customer # NoCustomer => a >= Span,
         t.pc # "idle" /\ t.snap.customer # NoCustomer => a >= Span,
         t.pc # "idle" /\ t.snap.customer # NoCustomer /\ p.customer \notin {NoCustomer, t.snap.customer}
             => a >= Span + Span,
         u.pc = "persist" => a >= Span,
         r.end >= now + Spacing
             \/ (IF p.customer = NoCustomer THEN a >= Span ELSE a >= Span + Span)
  PROVE  InTime(r, t, u, now, a)
  <1>1. /\ Waited(p) \in Nat /\ Waited(r) = Waited(p)
        /\ Span \in Nat /\ Spacing \in Nat /\ Spacing >= 1 /\ Spacing + 1 <= Span
    BY WaitedBounds, WaitedSame, SpanBounds DEF Sized
  <1>2. RowInTime(r, t, now, a)
    BY <1>1 DEF Sized, InTime, RowInTime, Overdue, Attempted, Pace
  <1>3. TickInTime(r, t, u, now, a)
    BY <1>1 DEF Sized, InTime, TickInTime, Overdue
  <1>4. SetupInTime(r, u, now, a)
    BY <1>1 DEF Sized, InTime, SetupInTime, Overdue, Attempted
  <1> QED
    BY <1>2, <1>3, <1>4 DEF InTime

\* A card is lost with the days its customer had left.
LEMMA InTimeWithoutCard ==
  ASSUME NEW p, NEW r, NEW t, NEW u, NEW now, NEW a, Sized(p, t, u, now, a), InTime(p, t, u, now, a),
         r.end = p.end, r.customer = NoCustomer, r.lastAttempt = NULL
  PROVE  InTime(r, t, u, now, a)
  <1>1. /\ Waited(p) \in Nat /\ Waited(p) + Spacing + 1 <= Span
        /\ Span \in Nat /\ Spacing \in Nat /\ Spacing >= 1
    BY WaitedBounds, SpanBounds DEF Sized
  <1>2. RowInTime(r, t, now, a)
    BY <1>1 DEF Sized, InTime, RowInTime, Overdue, Attempted, Pace
  <1>3. TickInTime(r, t, u, now, a)
    BY <1>1 DEF Sized, InTime, RowInTime, TickInTime, Overdue
  <1>4. SetupInTime(r, u, now, a)
    BY <1>1 DEF Sized, InTime, SetupInTime, Overdue, Attempted
  <1> QED
    BY <1>2, <1>3, <1>4 DEF InTime

\* A new customer brings an allowance,
LEMMA InTimeWithCheckout ==
  ASSUME NEW p, NEW t, NEW u, NEW v, NEW now, NEW a, NEW b \in Nat,
         Sized(p, t, u, now, a), b = a + Span, InTime(p, t, u, now, a),
         p.customer = NoCustomer, v.pc = "persist", v.snap = p
  PROVE  InTime(p, t, v, now, b)
  <1>1. Span \in Nat /\ Spacing \in Nat
    BY SpanBounds
  <1>2. RowInTime(p, t, now, b)
    BY <1>1, InTimeGrows DEF Sized, InTime, RowInTime, Overdue, Attempted
  <1>3. TickInTime(p, t, v, now, b)
    BY <1>1 DEF Sized, InTime, RowInTime, TickInTime, Overdue
  <1>4. SetupInTime(p, v, now, b)
    BY <1>1 DEF Sized, InTime, RowInTime, SetupInTime, Overdue, Attempted
  <1> QED
    BY <1>2, <1>3, <1>4 DEF InTime

\* and starts on it when the row has the customer.
LEMMA InTimeWithCustomer ==
  ASSUME NEW p, NEW r, NEW t, NEW u, NEW v, NEW now, NEW a,
         Sized(p, t, u, now, a), InTime(p, t, u, now, a),
         u.pc = "persist", p.customer = NoCustomer, r \in Row, r.customer # NoCustomer,
         r.end = u.snap.end, r.lastAttempt = p.lastAttempt,
         t.pc # "idle" => t.snap.customer # r.customer, v.pc = "idle"
  PROVE  InTime(r, t, v, now, a)
  <1>1. /\ Waited(r) \in Nat /\ Waited(r) + Spacing + 1 <= Span
        /\ Span \in Nat /\ Spacing \in Nat /\ Spacing >= 1
    BY WaitedBounds, SpanBounds
  <1>2. RowInTime(r, t, now, a)
    BY <1>1 DEF Sized, InTime, RowInTime, SetupInTime, Overdue, Attempted, Pace
  <1>3. TickInTime(r, t, v, now, a)
    BY <1>1 DEF Sized, InTime, TickInTime, Overdue
  <1>4. SetupInTime(r, v, now, a)
    BY DEF SetupInTime
  <1> QED
    BY <1>2, <1>3, <1>4 DEF InTime

LEMMA InTimeWithoutCheckout ==
  ASSUME NEW p, NEW t, NEW u, NEW v, NEW now, NEW a, Sized(p, t, u, now, a), InTime(p, t, u, now, a),
         v.pc = "idle"
  PROVE  InTime(p, t, v, now, a)
  <1>1. Span \in Nat
    BY SpanBounds
  <1> QED
    BY <1>1 DEF Sized, InTime, TickInTime, SetupInTime, Overdue

\* A tick that finds an open period, or one that ends on its day, ends; one that finds another reads the row.
LEMMA InTimeNothingDue ==
  ASSUME NEW p, NEW t, NEW v, NEW u, NEW now, NEW a, Sized(p, t, u, now, a), InTime(p, t, u, now, a),
         t.pc = "idle", v.pc = "idle", v.nextAt = now + 1, p.end >= now,
         a >= 1, p.customer # NoCustomer => a >= Span
  PROVE  InTime(p, v, u, now, a)
  <1>1. Waited(p) \in Nat /\ Span \in Nat /\ Spacing \in Nat
    BY WaitedBounds, SpanBounds DEF Sized
  <1> QED
    BY <1>1 DEF Sized, InTime, RowInTime, TickInTime, SetupInTime, Overdue, Attempted, Pace

LEMMA InTimeListed ==
  ASSUME NEW p, NEW t, NEW v, NEW u, NEW now, NEW a, Sized(p, t, u, now, a), InTime(p, t, u, now, a),
         t.pc = "idle", v.pc = "listed", v.snap = p, u.pc = "persist" => p.customer = NoCustomer
  PROVE  InTime(p, v, u, now, a)
  <1>1. RowInTime(p, v, now, a)
    BY DEF InTime, RowInTime
  <1>2. TickInTime(p, v, u, now, a)
    BY <1>1 DEF InTime, RowInTime, TickInTime, SetupInTime, Overdue
  <1> QED
    BY <1>1, <1>2 DEF InTime

\* A tick that goes on with what it has read.
LEMMA InTimeGoesOn ==
  ASSUME NEW p, NEW t, NEW v, NEW u, NEW now, NEW a, Sized(p, t, u, now, a), InTime(p, t, u, now, a),
         t.pc \notin {"idle", "rollover", "detach"}, v.pc \in {"charge", "charged", "refused", "rollover", "detach"},
         v.snap = t.snap, t.snap.customer # NoCustomer
  PROVE  InTime(p, v, u, now, a)
  <1>1. RowInTime(p, v, now, a)
    BY DEF InTime, RowInTime
  <1>2. TickInTime(p, v, u, now, a)
    BY DEF InTime, TickInTime
  <1> QED
    BY <1>1, <1>2 DEF InTime

\* One that comes too soon ends, with the rest of the cadence left.
LEMMA InTimeTooSoon ==
  ASSUME NEW p, NEW t, NEW v, NEW u, NEW now, NEW a, Sized(p, t, u, now, a), InTime(p, t, u, now, a),
         t.pc = "listed", t.snap.customer # NoCustomer, v.pc = "idle", v.nextAt = now + 1,
         t.snap.lastAttempt \in Int, t.snap.lastAttempt # NULL, now - t.snap.lastAttempt < Spacing
  PROVE  InTime(p, v, u, now, a)
  <1>1. /\ Waited(p) \in Nat /\ Waited(p) + Spacing + 1 <= Span
        /\ Span \in Nat /\ Spacing \in Nat /\ Spacing >= 1
    BY WaitedBounds, SpanBounds DEF Sized
  <1>2. CASE p.customer = NoCustomer
    BY <1>1, <1>2 DEF Sized, InTime, RowInTime, TickInTime, SetupInTime, Overdue, Pace
  <1>3. CASE p.customer \notin {NoCustomer, t.snap.customer}
    BY <1>1, <1>3 DEF Sized, InTime, RowInTime, TickInTime, SetupInTime, Overdue, Pace
  <1>4. CASE p.customer = t.snap.customer
    <2>1. p.lastAttempt = t.snap.lastAttempt
      BY <1>4 DEF InTime, TickInTime
    <2> QED
      BY <1>1, <1>4, <2>1
         DEF Sized, InTime, RowInTime, TickInTime, SetupInTime, Overdue, Attempted, Pace
  <1> QED
    BY <1>2, <1>3, <1>4

\* A tick that fails, before or after its attempt, is paid for by an allowance.
LEMMA InTimeAfterFault ==
  ASSUME NEW p, NEW t, NEW v, NEW u, NEW now, NEW a, NEW b \in Nat,
         Sized(p, t, u, now, a), InTime(p, t, u, now, a), b = a + Span, p.lastAttempt <= now,
         v.pc = "idle", v.nextAt <= now + 1
  PROVE  InTime(p, v, u, now, b)
  <1>1. /\ Waited(p) \in Nat /\ Waited(p) + Spacing + 1 <= Span
        /\ Span \in Nat /\ Spacing \in Nat /\ Spacing >= 1
    BY WaitedBounds, SpanBounds DEF Sized
  <1>2. RowInTime(p, v, now, b)
    BY <1>1 DEF Sized, InTime, RowInTime, Overdue, Attempted, Pace
  <1>3. TickInTime(p, v, u, now, b)
    BY DEF TickInTime
  <1>4. SetupInTime(p, u, now, b)
    BY <1>1 DEF Sized, InTime, SetupInTime, Overdue, Attempted
  <1> QED
    BY <1>2, <1>3, <1>4 DEF InTime

\* The period moves on by as many days as the attempts may have taken.
LEMMA InTimeAfterRollover ==
  ASSUME AttemptsFit,
         NEW p, NEW r, NEW t, NEW v, NEW u, NEW now, NEW a,
         Sized(p, t, u, now, a), InTime(p, t, u, now, a),
         t.pc # "idle", t.pc = "listed" \/ t.snap.customer # NoCustomer, v.pc = "idle", v.nextAt = now + 1,
         r \in Row, r.customer = p.customer, r.lastAttempt = p.lastAttempt, r.failures = p.failures,
         r.end = IF t.snap.end # NULL THEN t.snap.end + Period ELSE now + Period, r.lastAttempt <= now,
         p.customer # NoCustomer => a >= Span, u.pc = "persist" => a >= Span /\ p.customer = NoCustomer
  PROVE  InTime(r, v, u, now, a)
  <1>1. /\ Waited(r) \in Nat /\ Waited(r) + Spacing + 1 <= Span
        /\ Span \in Nat /\ Spacing \in Nat /\ Spacing >= 1
        /\ Period \in Nat /\ Span <= Period + 1 /\ Spacing <= Period
    BY WaitedBounds, SpanBounds, PeriodHoldsAttempts
  <1>2. now - r.end <= -Spacing \/ now - r.end <= a - Period
    BY <1>1 DEF Sized, InTime, TickInTime, Overdue
  <1>3. p.customer # NoCustomer \/ u.pc = "persist" =>
            now - r.end <= -Spacing \/ now - r.end <= a - Spacing - Period \/ now - r.end <= a - Span - Period
    BY <1>1 DEF Sized, InTime, TickInTime, Overdue
  <1>4. RowInTime(r, v, now, a)
    BY <1>1, <1>2, <1>3 DEF Sized, InTime, RowInTime, Overdue, Attempted, Pace
  <1>5. TickInTime(r, v, u, now, a)
    BY DEF TickInTime
  <1>6. SetupInTime(r, u, now, a)
    BY <1>1, <1>3 DEF Sized, InTime, SetupInTime, Overdue, Attempted
  <1> QED
    BY <1>4, <1>5, <1>6 DEF InTime

\* An attempt is recorded on the way to the rollover, or to the loss of the card.
LEMMA InTimeRecorded ==
  ASSUME NEW p, NEW r, NEW t, NEW v, NEW u, NEW now, NEW a,
         Sized(p, t, u, now, a), InTime(p, t, u, now, a),
         t.pc \in {"charged", "refused"}, v.pc \in {"rollover", "detach"}, v.snap = t.snap,
         r.customer = p.customer, r.end = p.end, r.lastAttempt = now
  PROVE  InTime(r, v, u, now, a)
  <1>1. t.snap.customer # NoCustomer
    BY DEF InTime, TickInTime
  <1>2. RowInTime(r, v, now, a)
    BY <1>1 DEF Sized, InTime, RowInTime, TickInTime, Overdue, Attempted
  <1>3. TickInTime(r, v, u, now, a)
    BY DEF Sized, InTime, TickInTime, Overdue
  <1>4. SetupInTime(r, u, now, a)
    BY <1>1 DEF Sized, InTime, TickInTime, SetupInTime, Overdue, Attempted
  <1> QED
    BY <1>2, <1>3, <1>4 DEF InTime

\* A refusal that is not the last one leaves a cadence to the next attempt.
LEMMA InTimeRefused ==
  ASSUME NEW p, NEW r, NEW t, NEW v, NEW u, NEW now, NEW a,
         Sized(p, t, u, now, a), InTime(p, t, u, now, a),
         t.pc = "refused", t.snap.failures + 1 < FailureCeiling, v.pc = "idle", v.nextAt = now + 1,
         r \in Row, r.customer = p.customer, r.end = p.end,
         r.lastAttempt = now, r.failures = p.failures + 1
  PROVE  InTime(r, v, u, now, a)
  <1>1. /\ Waited(p) \in Nat /\ Waited(p) + Spacing + 1 <= Span /\ Waited(r) \in Nat
        /\ Span \in Nat /\ Spacing \in Nat /\ Spacing >= 1
    BY WaitedBounds, SpanBounds DEF Sized
  <1>2. t.snap.customer # NoCustomer
    BY DEF InTime, TickInTime
  <1>3. p.customer = t.snap.customer => Waited(r) = Waited(p) + Spacing
    <2> SUFFICES ASSUME p.customer = t.snap.customer PROVE Waited(r) = Waited(p) + Spacing
      OBVIOUS
    <2>1. p.failures = t.snap.failures /\ p \in Row
      BY DEF InTime, TickInTime, Sized
    <2> QED
      BY <2>1, WaitedGrows
  <1>4. RowInTime(r, v, now, a)
    <2>1. CASE p.customer = NoCustomer
      BY <1>1, <1>2, <2>1 DEF Sized, InTime, TickInTime, RowInTime, Overdue, Attempted
    <2>2. CASE p.customer \notin {NoCustomer, t.snap.customer}
      BY <1>1, <1>2, <2>2 DEF Sized, InTime, TickInTime, RowInTime, Overdue, Attempted, Pace
    <2>3. CASE p.customer = t.snap.customer
      BY <1>1, <1>2, <1>3, <2>3 DEF Sized, InTime, TickInTime, RowInTime, Overdue, Attempted, Pace
    <2> QED
      BY <2>1, <2>2, <2>3
  <1>5. TickInTime(r, v, u, now, a)
    BY DEF TickInTime
  <1>6. SetupInTime(r, u, now, a)
    BY <1>1, <1>2 DEF Sized, InTime, TickInTime, SetupInTime, Overdue, Attempted
  <1> QED
    BY <1>4, <1>5, <1>6 DEF InTime

\* The card is gone, a day before the next tick moves the period on.
LEMMA InTimeDetached ==
  ASSUME NEW p, NEW r, NEW t, NEW v, NEW u, NEW now, NEW a,
         Sized(p, t, u, now, a), InTime(p, t, u, now, a),
         t.pc = "detach", v.pc = "idle", v.nextAt = now + 1,
         r.end = p.end, r.customer = NoCustomer, r.lastAttempt = NULL
  PROVE  InTime(r, v, u, now, a)
  <1>1. Span \in Nat /\ Spacing \in Nat /\ Spacing >= 1
    BY SpanBounds
  <1>2. t.snap.customer # NoCustomer
    BY DEF InTime, TickInTime
  <1>3. RowInTime(r, v, now, a)
    BY <1>1, <1>2 DEF Sized, InTime, TickInTime, RowInTime, Overdue, Attempted
  <1>4. TickInTime(r, v, u, now, a)
    BY DEF TickInTime
  <1>5. SetupInTime(r, u, now, a)
    BY DEF InTime, SetupInTime, Overdue, Attempted
  <1> QED
    BY <1>3, <1>4, <1>5 DEF InTime

\* A day goes by when the tick of the day has ended.
LEMMA InTimeTomorrow ==
  ASSUME NEW p, NEW t, NEW u, NEW now, NEW a, Sized(p, t, u, now, a), InTime(p, t, u, now, a),
         t.pc = "idle", t.nextAt > now, u.pc = "idle"
  PROVE  InTime(p, t, u, now + 1, a)
  <1>1. /\ Waited(p) \in Nat /\ Waited(p) + Spacing + 1 <= Span
        /\ Span \in Nat /\ Spacing \in Nat
    BY WaitedBounds, SpanBounds DEF Sized
  <1>2. RowInTime(p, t, now + 1, a)
    BY <1>1 DEF Sized, InTime, RowInTime, Overdue, Attempted, Pace
  <1> QED
    BY <1>2 DEF InTime, TickInTime, SetupInTime

-----------------------------------------------------------------------------
(* Whose customers are held.                                               *)

LEMMA KnownNumbers ==
  ASSUME TypeOK
  PROVE  /\ customers \in Nat /\ clock \in Nat /\ project \in Row
         /\ project.customer \in Nat /\ project.lastAttempt \in Int
         /\ \A s \in Schedulers : Active(s) => tick[s].snap \in Row /\ tick[s].snap.customer \in Nat
         /\ NoCustomer = 0 /\ NULL = -1
  <1>1. customers \in Nat /\ clock \in Nat /\ project \in Row
    BY TypeNumbers
  <1>2. \A p \in Row : p.customer \in Nat /\ p.lastAttempt \in Int
    BY RowFields, Constants DEF NULL
  <1>3. \A s \in Schedulers : Active(s) => tick[s].snap \in Row
    BY TickHeld DEF Active
  <1> QED
    BY <1>1, <1>2, <1>3 DEF NoCustomer, NULL

\* A step that gives the row no customer, and starts no request.
LEMMA KnownKept ==
  ASSUME TypeOK, TypeOK', CustomersKnown, UNCHANGED customers, clock' >= clock,
         project'.customer \in {project.customer, NoCustomer},
         project'.lastAttempt \in {project.lastAttempt, NULL, clock},
         \A s \in Schedulers : Active(s)' => \/ Active(s) /\ tick'[s].snap = tick[s].snap
                                             \/ tick'[s].snap = project,
         setup' = setup \/ setup'.pc = "idle",
         removal'.pc # "idle" => /\ removal.pc # "idle" /\ removal'.snap = removal.snap
                                 /\ removal'.pc = "reset" => \/ removal.pc = "reset"
                                                            \/ project'.customer = NoCustomer
  PROVE  CustomersKnown'
  <1>1. /\ customers \in Nat /\ clock \in Nat /\ clock' \in Nat /\ project.customer \in Nat
        /\ project.lastAttempt \in Int /\ NoCustomer = 0 /\ NULL = -1
    BY KnownNumbers, Constants DEF TypeOK
  <1>2. project'.customer <= customers /\ project'.lastAttempt <= clock'
    BY <1>1 DEF CustomersKnown
  <1>3. \A s \in Schedulers : Active(s)' => tick'[s].snap.customer <= customers
    BY DEF CustomersKnown
  <1>4. removal'.pc # "idle" => removal'.snap.customer \in 1 .. customers
    BY DEF CustomersKnown
  <1>5. removal'.pc = "reset" => removal'.snap.customer # project'.customer
    BY <1>1 DEF CustomersKnown
  <1>6. ASSUME setup'.pc = "persist"
        PROVE  /\ project'.customer = NoCustomer /\ setup'.customer \in 1 .. customers
               /\ \A s \in Schedulers : Active(s)' => tick'[s].snap.customer # setup'.customer
               /\ removal'.pc # "idle" => removal'.snap.customer # setup'.customer
    BY <1>1, <1>6 DEF CustomersKnown
  <1> QED
    BY <1>2, <1>3, <1>4, <1>5, <1>6 DEF CustomersKnown

LEMMA KnownTick ==
  ASSUME TypeOK, TypeOK', CustomersKnown, NEW s \in Schedulers, Tick(s) \/ Crash(s)
  PROVE  CustomersKnown'
  <1> DEFINE Keeps == \A r \in Schedulers : Active(r)' => \/ Active(r) /\ tick'[r].snap = tick[r].snap
                                                          \/ tick'[r].snap = project
             Row1 == /\ project'.customer \in {project.customer, NoCustomer}
                     /\ project'.lastAttempt \in {project.lastAttempt, NULL, clock}
  <1>1. UNCHANGED <<clock, customers, setup, removal>>
    BY DEF Tick, Crash, ListProjectsForHobbyBillingTick, Rollover, Price, ChargeOffSession,
           RecordAttempt, DetachCard, handlers, stripe
  <1>2. clock' >= clock
    BY <1>1, KnownNumbers
  <1>3. ASSUME Keeps, Row1 PROVE CustomersKnown'
    BY <1>1, <1>2, <1>3, KnownKept DEF CustomersKnown
  <1>4. ASSUME EndTick(s) PROVE Keeps
    BY <1>4, EndTickEffect DEF Active, At
  <1>5. ASSUME NEW t \in TickType, Hold(s, t),
               \/ t.pc = "idle"
               \/ Active(s) /\ t.snap = tick[s].snap
               \/ t.snap = project
        PROVE  Keeps
    BY <1>5, HoldEffect DEF Active, At
  <1> HIDE DEF Keeps
  <1>6. CASE ListProjectsForHobbyBillingTick(s)
    <2>1. Row1
      BY <1>6 DEF ListProjectsForHobbyBillingTick
    <2>2. EndTick(s) \/ \E t \in TickType : Hold(s, t) /\ t.snap = project
      BY <1>6, ListEffect
    <2> QED
      BY <1>3, <1>4, <1>5, <2>1, <2>2
  <1>7. CASE Rollover(s)
    <2>1. EndTick(s) /\ Row1
      BY <1>7, RolloverEffect
    <2> QED
      BY <1>3, <1>4, <2>1
  <1>8. CASE Price(s)
    <2>1. Row1
      BY <1>8 DEF Price
    <2>2. Active(s) /\ (EndTick(s) \/ \E t \in TickType : Hold(s, t) /\ t.snap = tick[s].snap)
      BY <1>8, PriceEffect DEF Active, At
    <2> QED
      BY <1>3, <1>4, <1>5, <2>1, <2>2
  <1>9. CASE ChargeOffSession(s)
    <2>1. Row1
      BY <1>9 DEF ChargeOffSession
    <2>2. Active(s) /\ \E t \in TickType : Hold(s, t) /\ t.snap = tick[s].snap
      BY <1>9, ChargeOffSessionEffect DEF Active, At
    <2> QED
      BY <1>3, <1>5, <2>1, <2>2
  <1>10. CASE RecordAttempt(s)
    <2>1. Row1
      <3>1. project'.customer = project.customer /\ (project' = project \/ project'.lastAttempt = clock)
        BY <1>10, RecordAttemptEffect DEF Outcomes
      <3> QED
        BY <3>1
    <2>2. Active(s) /\ (EndTick(s) \/ \E t \in TickType : Hold(s, t) /\ t.snap = tick[s].snap)
      BY <1>10, RecordAttemptEffect DEF Active, At
    <2> QED
      BY <1>3, <1>4, <1>5, <2>1, <2>2
  <1>11. CASE DetachCard(s)
    <2>1. EndTick(s) /\ (project' = project \/ project' = DetachHobbyCardForBillingFailure(project))
      BY <1>11, DetachCardEffect DEF Outcomes
    <2>2. Row1
      BY <2>1, KnownNumbers, DetachedRow
    <2> QED
      BY <1>3, <1>4, <2>1, <2>2
  <1>12. CASE Crash(s)
    <2>1. Row1
      BY <1>12 DEF Crash
    <2>2. \E t \in TickType : Hold(s, t) /\ t.pc = "idle"
      BY <1>12, CrashEffect
    <2> QED
      BY <1>3, <1>5, <2>1, <2>2
  <1> QED
    BY <1>6, <1>7, <1>8, <1>9, <1>10, <1>11, <1>12 DEF Tick

LEMMA KnownCard ==
  ASSUME TypeOK, TypeOK', CustomersKnown, Card
  PROVE  CustomersKnown'
  <1> USE KnownNumbers
  <1>1. UNCHANGED <<clock, tick>> /\ clock' >= clock
    BY DEF Card, HandleCreateSetupCheckout, PersistCustomer, CompleteCheckout, HandleSetupIntentSucceeded,
           BootstrapBounds, MarkCardAttached, HandleRemovePaymentMethod, SettleOnRemoval, DetachAtStripe,
           ClearCard, ResetOnRemoval
  <1>2. \A s \in Schedulers : Active(s)' => Active(s) /\ tick'[s].snap = tick[s].snap
    BY <1>1 DEF Active, At
  <1> DEFINE Row1 == /\ project'.customer \in {project.customer, NoCustomer}
                     /\ project'.lastAttempt \in {project.lastAttempt, NULL, clock}
             Setup1 == setup' = setup \/ setup'.pc = "idle"
             Removal1 == removal'.pc # "idle" =>
                              /\ removal.pc # "idle" /\ removal'.snap = removal.snap
                              /\ removal'.pc = "reset" => \/ removal.pc = "reset"
                                                         \/ project'.customer = NoCustomer
  <1>3. ASSUME customers' = customers, Row1, Setup1, Removal1 PROVE CustomersKnown'
    BY <1>1, <1>2, <1>3, KnownKept
  <1>4. CASE HandleCreateSetupCheckout
    <2>1. /\ project.customer = NoCustomer /\ customers' = customers + 1
          /\ setup'.pc = "persist" /\ setup'.customer = customers + 1
          /\ UNCHANGED <<project, removal>>
      BY <1>4, CreateSetupEffect DEF HandleCreateSetupCheckout
    <2>2. \A s \in Schedulers : Active(s)' =>
              tick'[s].snap.customer <= customers + 1 /\ tick'[s].snap.customer # customers + 1
      <3> SUFFICES ASSUME NEW s \in Schedulers, Active(s)'
                   PROVE  tick'[s].snap.customer <= customers + 1 /\ tick'[s].snap.customer # customers + 1
        OBVIOUS
      <3>1. tick'[s].snap.customer \in Nat /\ tick'[s].snap.customer <= customers
        BY <1>2 DEF CustomersKnown
      <3> QED
        BY <3>1
    <2>3. removal.pc # "idle" => removal.snap.customer \in 1 .. customers + 1
                                 /\ removal.snap.customer # customers + 1
      BY DEF CustomersKnown
    <2>4. project.customer <= customers + 1 /\ customers + 1 \in 1 .. customers + 1
      BY <2>1
    <2> QED
      BY <1>1, <2>1, <2>2, <2>3, <2>4 DEF CustomersKnown
  <1>5. CASE PersistCustomer
    <2>1. /\ setup.pc = "persist" /\ setup'.pc = "idle" /\ UNCHANGED <<customers, removal>>
          /\ project'.customer \in {project.customer, setup.customer}
          /\ project'.lastAttempt = project.lastAttempt
      BY <1>5, PersistEffect DEF PersistCustomer, stripe, IdleHandler, Outcomes
    <2> QED
      BY <1>1, <1>2, <2>1 DEF CustomersKnown
  <1>6. CASE HandleRemovePaymentMethod
    <2>1. /\ project.customer # NoCustomer /\ removal'.snap = project /\ removal'.pc \in {"charge", "detach"}
          /\ UNCHANGED <<project, customers, setup>>
      BY <1>6, RemoveEffect DEF HandleRemovePaymentMethod, stripe
    <2>2. setup.pc # "persist" /\ project.customer \in 1 .. customers
      BY <2>1 DEF CustomersKnown
    <2> QED
      BY <1>1, <1>2, <2>1, <2>2 DEF CustomersKnown
  <1>7. CASE \E c \in 1 .. MaxCustomers : CompleteCheckout(c) \/ HandleSetupIntentSucceeded(c)
    <2>1. UNCHANGED <<project, customers, setup, removal>>
      BY <1>7 DEF CompleteCheckout, HandleSetupIntentSucceeded, handlers, stripe
    <2> QED
      BY <1>3, <2>1
  <1>8. CASE BootstrapBounds
    <2>1. UNCHANGED <<customers, setup, removal>>
      BY <1>8 DEF BootstrapBounds, stripe
    <2>2. Row1
      BY <1>8, BootstrapEffect
    <2> QED
      BY <1>3, <2>1, <2>2
  <1>9. CASE MarkCardAttached
    <2>1. UNCHANGED <<customers, setup, removal>>
      BY <1>9 DEF MarkCardAttached, stripe
    <2>2. Row1
      BY <1>9, MarkedRow DEF MarkCardAttached
    <2> QED
      BY <1>3, <2>1, <2>2
  <1>10. CASE SettleOnRemoval
    <2>1. UNCHANGED <<customers, setup, project>>
      BY <1>10 DEF SettleOnRemoval
    <2>2. Removal1
      BY <1>10, SettleEffect
    <2> QED
      BY <1>3, <2>1, <2>2
  <1>11. CASE DetachAtStripe
    <2>1. UNCHANGED <<customers, setup, project>>
      BY <1>11 DEF DetachAtStripe
    <2>2. removal.pc = "detach" /\ removal'.pc = "clear" /\ removal'.snap = removal.snap
      BY <1>11, RemovalGoesOn DEF DetachAtStripe
    <2> QED
      BY <1>3, <2>1, <2>2
  <1>12. CASE ClearCard
    <2>1. UNCHANGED <<customers, setup>>
      BY <1>12 DEF ClearCard, stripe
    <2>2. removal.pc = "clear" /\ \/ project' = project /\ removal'.pc = "idle"
                                  \/ /\ project' = DetachHobbyCardForBillingFailure(project)
                                     /\ removal'.snap = removal.snap
      BY <1>12, ClearEffect DEF Outcomes
    <2>3. Row1 /\ Removal1
      BY <2>2, DetachedRow
    <2> QED
      BY <1>3, <2>1, <2>3
  <1>13. CASE ResetOnRemoval
    <2>1. UNCHANGED <<customers, setup>>
      BY <1>13 DEF ResetOnRemoval, stripe
    <2>2. Row1 /\ Removal1
      BY <1>13, ResetEffect DEF IdleHandler
    <2> QED
      BY <1>3, <2>1, <2>2
  <1> QED
    BY <1>4, <1>5, <1>6, <1>7, <1>8, <1>9, <1>10, <1>11, <1>12, <1>13 DEF Card

LEMMA KnownStep == KnownInv /\ [Next]_vars => KnownInv'
  <1> SUFFICES ASSUME KnownInv, [Next]_vars PROVE KnownInv'
    OBVIOUS
  <1>1. TypeOK /\ TypeOK' /\ CustomersKnown
    BY NextTypes DEF KnownInv
  <1>2. CASE Day \/ Use \/ UNCHANGED vars
    <2>1. UNCHANGED <<tick, setup, removal, customers>> /\ clock' \in {clock, clock + 1}
      BY <1>2 DEF Day, Use, AdmitExecution, CountExecution, HandleAnalyzeFailureGroup,
                  SaveFailureGroupAnalysis, vars, handlers, stripe
    <2>2. clock' >= clock
      BY <1>1, <2>1, KnownNumbers
    <2>3. project'.customer = project.customer /\ project'.lastAttempt = project.lastAttempt
      BY <1>1, <1>2, KnownNumbers, CountedRow
         DEF Day, Use, AdmitExecution, CountExecution, HandleAnalyzeFailureGroup,
             SaveFailureGroupAnalysis, vars
    <2>4. \A s \in Schedulers : Active(s)' => Active(s) /\ tick'[s].snap = tick[s].snap
      BY <2>1 DEF Active, At
    <2> QED
      BY <1>1, <2>1, <2>2, <2>3, <2>4, KnownKept DEF KnownInv
  <1> QED
    BY <1>1, <1>2, KnownTick, KnownCard DEF KnownInv, Next

-----------------------------------------------------------------------------
(* Every step keeps the row in time.                                       *)

\* What the rows, the customers and the days are worth.
LEMMA OverdueNumbers ==
  ASSUME KnownInv, NEW s \in Schedulers
  PROVE  /\ Sized(project, tick[s], setup, clock, Allowance) /\ Span \in Nat
         /\ project.lastAttempt <= clock /\ Allowance >= 1
         /\ project.customer # NoCustomer => Allowance >= Span
         /\ tick[s].pc # "idle" /\ tick[s].snap.customer # NoCustomer => Allowance >= Span
         /\ tick[s].pc # "idle" /\ tick[s].snap.customer # NoCustomer
            /\ project.customer \notin {NoCustomer, tick[s].snap.customer} => Allowance >= Span + Span
         /\ removal.pc # "idle" => Allowance >= Span
         /\ removal.pc = "reset" /\ project.customer # NoCustomer => Allowance >= Span + Span
         /\ setup.pc = "persist" => Allowance >= Span /\ project.customer = NoCustomer
  <1>1. TypeOK /\ CustomersKnown
    BY DEF KnownInv
  <1>2. /\ customers \in Nat /\ clock \in Nat /\ project \in Row
        /\ project.customer \in Nat /\ project.lastAttempt \in Int
        /\ tick[s].pc # "idle" => tick[s].snap \in Row /\ tick[s].snap.customer \in Nat
        /\ NoCustomer = 0
    BY <1>1, KnownNumbers DEF Active, At
  <1>3. /\ Allowance \in Nat /\ Span \in Nat /\ Allowance >= 1
        /\ customers >= 1 => Allowance >= Span
        /\ customers >= 2 => Allowance >= Span + Span
    BY <1>1, AllowanceBounds, SpanBounds
  <1>4. \A p \in Row : p.end \in Int
    BY RowFields DEF NULL
  <1>5. Sized(project, tick[s], setup, clock, Allowance)
    BY <1>1, <1>2, <1>3, <1>4, TickHeld, HandlersHeld DEF Sized, At
  <1>6. /\ project.customer <= customers /\ project.lastAttempt <= clock
        /\ tick[s].pc # "idle" => tick[s].snap.customer <= customers
        /\ removal.pc # "idle" => removal.snap.customer \in 1 .. customers
        /\ removal.pc = "reset" => removal.snap.customer # project.customer
        /\ setup.pc = "persist" => project.customer = NoCustomer /\ setup.customer \in 1 .. customers
    BY <1>1 DEF CustomersKnown, Active, At
  <1>7. /\ project.customer # NoCustomer => customers >= 1
        /\ tick[s].pc # "idle" /\ tick[s].snap.customer # NoCustomer => customers >= 1
        /\ tick[s].pc # "idle" /\ tick[s].snap.customer # NoCustomer
           /\ project.customer \notin {NoCustomer, tick[s].snap.customer} => customers >= 2
        /\ removal.pc # "idle" => customers >= 1
        /\ removal.pc = "reset" /\ project.customer # NoCustomer => customers >= 2
        /\ setup.pc = "persist" => customers >= 1
    BY <1>2, <1>6
  <1> QED
    BY <1>3, <1>5, <1>6, <1>7

\* The allowance is as before, or a fault has added to it.
LEMMA AllowanceKept ==
  ASSUME TypeOK, TypeOK', [Next]_vars
  PROVE  Allowance' >= Allowance /\ Allowance \in Nat /\ Allowance' \in Nat
  <1>1. errors' >= errors
    BY ErrorsGrow, TypeNumbers, Constants DEF TypeOK
  <1>2. customers' >= customers /\ crashes' >= crashes
    <2>1. customers' = customers \/ customers' = customers + 1
      BY DEF Next, vars, Day, Use, AdmitExecution, CountExecution, HandleAnalyzeFailureGroup,
             SaveFailureGroupAnalysis, Tick, ListProjectsForHobbyBillingTick, Rollover, Price,
             ChargeOffSession, RecordAttempt, DetachCard, Crash, Card, HandleCreateSetupCheckout,
             PersistCustomer, CompleteCheckout, HandleSetupIntentSucceeded, BootstrapBounds,
             MarkCardAttached, HandleRemovePaymentMethod, SettleOnRemoval, DetachAtStripe, ClearCard,
             ResetOnRemoval, stripe
    <2>2. crashes' = crashes \/ crashes' = crashes + 1
      BY DEF Next, vars, Day, Use, AdmitExecution, CountExecution, HandleAnalyzeFailureGroup,
             SaveFailureGroupAnalysis, Tick, ListProjectsForHobbyBillingTick, Rollover, Price,
             ChargeOffSession, RecordAttempt, DetachCard, Crash, Card, HandleCreateSetupCheckout,
             PersistCustomer, CompleteCheckout, HandleSetupIntentSucceeded, BootstrapBounds,
             MarkCardAttached, HandleRemovePaymentMethod, SettleOnRemoval, DetachAtStripe, ClearCard,
             ResetOnRemoval, faults
    <2> QED
      BY <2>1, <2>2, TypeNumbers
  <1> QED
    BY <1>1, <1>2, AllowanceGrows

\* A statement that fails adds the days of a customer.
LEMMA AllowanceOfFault ==
  ASSUME TypeOK, TypeOK', UNCHANGED customers,
         \/ crashes' = crashes /\ errors' = errors + 1
         \/ crashes' = crashes + 1 /\ errors' = errors
  PROVE  Allowance' = Allowance + Span
  <1>1. customers \in Nat /\ crashes \in Nat /\ errors \in Nat
    BY TypeNumbers
  <1>2. customers' + crashes' + errors' = customers + crashes + errors + 1
    BY <1>1
  <1> QED
    BY <1>2, AllowanceGrows

\* What has been in time still is with the allowance after the step.
LEMMA OverdueBefore ==
  ASSUME OverdueInv, TypeOK', [Next]_vars, NEW s \in Schedulers
  PROVE  /\ Sized(project, tick[s], setup, clock, Allowance')
         /\ InTime(project, tick[s], setup, clock, Allowance')
         /\ project.lastAttempt <= clock /\ Allowance' >= 1
         /\ project.customer # NoCustomer => Allowance' >= Span
         /\ tick[s].pc # "idle" /\ tick[s].snap.customer # NoCustomer => Allowance' >= Span
         /\ tick[s].pc # "idle" /\ tick[s].snap.customer # NoCustomer
            /\ project.customer \notin {NoCustomer, tick[s].snap.customer} => Allowance' >= Span + Span
         /\ removal.pc # "idle" => Allowance' >= Span
         /\ removal.pc = "reset" /\ project.customer # NoCustomer => Allowance' >= Span + Span
         /\ setup.pc = "persist" => Allowance' >= Span /\ project.customer = NoCustomer
  <1>1. KnownInv /\ TypeOK /\ InTime(project, tick[s], setup, clock, Allowance)
    BY DEF OverdueInv, KnownInv
  <1>2. Allowance' >= Allowance /\ Allowance \in Nat /\ Allowance' \in Nat
    BY <1>1, AllowanceKept
  <1>3. Sized(project, tick[s], setup, clock, Allowance) /\ Span \in Nat
    BY <1>1, OverdueNumbers
  <1>4. Sized(project, tick[s], setup, clock, Allowance')
    BY <1>2, <1>3 DEF Sized
  <1>5. InTime(project, tick[s], setup, clock, Allowance')
    BY <1>1, <1>2, <1>3, InTimeGrows
  <1>6. \A n \in Nat : Allowance >= n => Allowance' >= n
    BY <1>2
  <1> QED
    BY <1>1, <1>3, <1>4, <1>5, <1>6, OverdueNumbers

LEMMA OverdueUse ==
  ASSUME OverdueInv, TypeOK', [Next]_vars, Use \/ MarkCardAttached \/ UNCHANGED vars, NEW s \in Schedulers
  PROVE  InTime(project', tick'[s], setup', clock', Allowance')
  <1>1. UNCHANGED <<tick, setup, clock>>
    BY DEF Use, MarkCardAttached, AdmitExecution, CountExecution, HandleAnalyzeFailureGroup,
           SaveFailureGroupAnalysis, vars, handlers
  <1>2. project \in Row
    BY TypeNumbers DEF OverdueInv, KnownInv
  <1>3. /\ project'.end = project.end /\ project'.customer = project.customer
        /\ project'.lastAttempt = project.lastAttempt /\ project'.failures = project.failures
    BY <1>2, CountedRow, MarkedRow
       DEF Use, MarkCardAttached, AdmitExecution, CountExecution, HandleAnalyzeFailureGroup,
           SaveFailureGroupAnalysis, vars
  <1> QED
    BY <1>1, <1>3, OverdueBefore, InTimeStays

LEMMA OverdueDay ==
  ASSUME OverdueInv, TypeOK', [Next]_vars, Day, NEW s \in Schedulers
  PROVE  InTime(project', tick'[s], setup', clock', Allowance')
  <1>1. UNCHANGED <<project, tick, setup>> /\ clock' = clock + 1
    BY DEF Day, handlers
  <1>2. tick[s].pc = "idle" /\ tick[s].nextAt > clock
    BY DEF Day, Quiet, At
  <1>3. setup.pc = "idle"
    BY DEF Day, Quiet, InFlight
  <1> QED
    BY <1>1, <1>2, <1>3, OverdueBefore, InTimeTomorrow

LEMMA OverdueCard ==
  ASSUME AttemptsFit, OverdueInv, KnownInv', [Next]_vars, Card, NEW s \in Schedulers
  PROVE  InTime(project', tick'[s], setup', clock', Allowance')
  <1>1. /\ Sized(project, tick[s], setup, clock, Allowance')
        /\ InTime(project, tick[s], setup, clock, Allowance')
        /\ project.lastAttempt <= clock
        /\ project.customer # NoCustomer => Allowance' >= Span
        /\ tick[s].pc # "idle" /\ tick[s].snap.customer # NoCustomer => Allowance' >= Span
        /\ tick[s].pc # "idle" /\ tick[s].snap.customer # NoCustomer
           /\ project.customer \notin {NoCustomer, tick[s].snap.customer} => Allowance' >= Span + Span
        /\ removal.pc # "idle" => Allowance' >= Span
        /\ removal.pc = "reset" /\ project.customer # NoCustomer => Allowance' >= Span + Span
        /\ setup.pc = "persist" => Allowance' >= Span /\ project.customer = NoCustomer
    BY OverdueBefore DEF KnownInv
  <1>2. UNCHANGED <<clock, tick>>
    BY DEF Card, HandleCreateSetupCheckout, PersistCustomer, CompleteCheckout, HandleSetupIntentSucceeded,
           BootstrapBounds, MarkCardAttached, HandleRemovePaymentMethod, SettleOnRemoval, DetachAtStripe,
           ClearCard, ResetOnRemoval
  <1>3. TypeOK /\ TypeOK' /\ CustomersKnown
    BY DEF OverdueInv, KnownInv
  <1>4. project \in Row /\ clock \in Nat /\ Allowance' \in Nat
    BY <1>1 DEF Sized
  <1>5. CASE HandleCreateSetupCheckout
    <2>1. /\ project.customer = NoCustomer /\ customers' = customers + 1
          /\ setup'.pc = "persist" /\ setup'.snap = project /\ UNCHANGED <<project, crashes, errors>>
      BY <1>3, <1>5, CreateSetupEffect DEF HandleCreateSetupCheckout, faults
    <2>2. customers' + crashes' + errors' = customers + crashes + errors + 1
      BY <1>3, <2>1, TypeNumbers
    <2>3. Allowance' = Allowance + Span
      BY <1>3, <2>2, AllowanceGrows
    <2>4. InTime(project, tick[s], setup, clock, Allowance) /\ Sized(project, tick[s], setup, clock, Allowance)
      BY OverdueNumbers DEF OverdueInv
    <2> QED
      BY <1>2, <1>4, <2>1, <2>3, <2>4, InTimeWithCheckout
  <1>6. CASE PersistCustomer
    <2>1. PICK ok \in Outcomes :
            /\ ~ok => project' = project
            /\ ok => /\ project'.customer = setup.customer
                     /\ project'.start = setup.snap.start /\ project'.end = setup.snap.end
      BY <1>3, <1>6, PersistEffect
    <2>2. /\ setup.pc = "persist" /\ setup'.pc = "idle" /\ project' \in Row
          /\ project'.lastAttempt = project.lastAttempt
      BY <1>3, <1>6, PersistEffect DEF IdleHandler
    <2>3. CASE ok
      <3>1. /\ setup.customer # NoCustomer
            /\ tick[s].pc # "idle" => tick[s].snap.customer # setup.customer
        BY <1>3, <2>2, HandlersHeld DEF CustomersKnown, NoCustomer, Active, At
      <3> QED
        BY <1>1, <1>2, <2>1, <2>2, <2>3, <3>1, InTimeWithCustomer
    <2>4. CASE project' = project
      BY <1>1, <1>2, <2>2, <2>4, InTimeWithoutCheckout
    <2> QED
      BY <2>1, <2>3, <2>4 DEF Outcomes
  <1>7. CASE \/ HandleRemovePaymentMethod \/ SettleOnRemoval \/ DetachAtStripe
             \/ \E c \in 1 .. MaxCustomers : CompleteCheckout(c) \/ HandleSetupIntentSucceeded(c)
    <2>1. UNCHANGED <<project, setup>>
      BY <1>7 DEF HandleRemovePaymentMethod, SettleOnRemoval, DetachAtStripe, CompleteCheckout,
                  HandleSetupIntentSucceeded, handlers
    <2> QED
      BY <1>1, <1>2, <2>1
  <1>8. CASE BootstrapBounds
    <2>1. setup' = setup
      BY <1>8 DEF BootstrapBounds
    <2>2. PICK ok \in Outcomes :
            (~ok => project' = project) /\ (ok => project'.end = clock + Period)
      BY <1>3, <1>8, BootstrapEffect
    <2>3. /\ project' \in Row /\ project'.customer = project.customer
          /\ project'.lastAttempt = project.lastAttempt /\ project'.failures = project.failures
      BY <1>3, <1>8, BootstrapEffect
    <2>4. CASE ok
      <3>1. project'.end \in Nat /\ project'.end > clock /\ project'.end >= clock + Spacing
        BY <1>4, <2>2, <2>4, Constants, PeriodHoldsAttempts, SpacingBounds
      <3> QED
        BY <1>1, <1>2, <2>1, <2>3, <3>1, InTimeWhenOpen
    <2>5. CASE project' = project
      BY <1>1, <1>2, <2>1, <2>5
    <2> QED
      BY <2>2, <2>4, <2>5 DEF Outcomes
  <1>9. CASE ClearCard
    <2>1. setup' = setup
      BY <1>9 DEF ClearCard
    <2>2. project' = project \/ project' = DetachHobbyCardForBillingFailure(project)
      BY <1>3, <1>9, ClearEffect DEF Outcomes
    <2>3. CASE project' = DetachHobbyCardForBillingFailure(project)
      <3>1. project'.end = project.end /\ project'.customer = NoCustomer /\ project'.lastAttempt = NULL
        BY <1>4, <2>3, DetachedRow
      <3> QED
        BY <1>1, <1>2, <2>1, <3>1, InTimeWithoutCard
    <2> QED
      BY <1>1, <1>2, <2>1, <2>2, <2>3
  <1>10. CASE ResetOnRemoval
    <2>1. setup' = setup
      BY <1>10 DEF ResetOnRemoval
    <2>2. PICK ok \in Outcomes :
            /\ ~ok => project' = project
            /\ ok => project'.end = IF removal.snap.end > clock THEN removal.snap.end ELSE clock + Period
      BY <1>3, <1>10, ResetEffect
    <2>3. /\ project' \in Row /\ project'.customer = project.customer
          /\ project'.lastAttempt = project.lastAttempt /\ project'.failures = project.failures
          /\ removal.pc = "reset" /\ removal.snap \in Row
      BY <1>3, <1>10, ResetEffect
    <2>4. CASE ok
      <3>1. project'.end \in Nat /\ project'.end > clock
        <4>1. removal.snap.end \in Nat \union {-1} /\ Period \in Nat /\ Period >= 1
          BY <2>3, RowFields, Constants DEF NULL
        <4> QED
          BY <1>4, <2>2, <2>4, <4>1
      <3> QED
        BY <1>1, <1>2, <2>1, <2>3, <3>1, InTimeWhenOpen
    <2>5. CASE project' = project
      BY <1>1, <1>2, <2>1, <2>5
    <2> QED
      BY <2>2, <2>4, <2>5 DEF Outcomes
  <1>11. CASE MarkCardAttached
    BY <1>3, <1>11, OverdueUse
  <1> QED
    BY <1>5, <1>6, <1>7, <1>8, <1>9, <1>10, <1>11 DEF Card

\* A step of the scheduler's.
LEMMA OverdueTick ==
  ASSUME AttemptsFit, OverdueInv, KnownInv', [Next]_vars, NEW s \in Schedulers, Tick(s) \/ Crash(s)
  PROVE  InTime(project', tick'[s], setup', clock', Allowance')
  <1>1. /\ Sized(project, tick[s], setup, clock, Allowance')
        /\ InTime(project, tick[s], setup, clock, Allowance')
        /\ project.lastAttempt <= clock /\ Allowance' >= 1
        /\ project.customer # NoCustomer => Allowance' >= Span
        /\ setup.pc = "persist" => Allowance' >= Span /\ project.customer = NoCustomer
    BY OverdueBefore DEF KnownInv
  <1>2. /\ Sized(project, tick[s], setup, clock, Allowance)
        /\ InTime(project, tick[s], setup, clock, Allowance)
    BY OverdueNumbers DEF OverdueInv
  <1>3. UNCHANGED <<clock, setup, customers>>
    BY DEF Tick, ListProjectsForHobbyBillingTick, Rollover, Price, ChargeOffSession, RecordAttempt,
           DetachCard, Crash, handlers, stripe
  <1>4. TypeOK /\ TypeOK' /\ CustomersKnown' /\ Allowance' \in Nat /\ clock \in Nat
    BY <1>1 DEF OverdueInv, KnownInv, Sized
  <1>5. tick[s].pc # "idle" => tick[s].pc = "listed" \/ tick[s].snap.customer # NoCustomer
    BY <1>2 DEF InTime, TickInTime
  \* A statement that fails, or a death, pays for the days lost.
  <1>6. ASSUME UNCHANGED project, tick'[s].pc = "idle", tick'[s].nextAt <= clock + 1,
               \/ crashes' = crashes /\ errors' = errors + 1
               \/ crashes' = crashes + 1 /\ errors' = errors
        PROVE  InTime(project', tick'[s], setup', clock', Allowance')
    <2>1. Allowance' = Allowance + Span
      BY <1>3, <1>4, <1>6, AllowanceOfFault
    <2> QED
      BY <1>1, <1>2, <1>3, <1>4, <1>6, <2>1, InTimeAfterFault
  <1>7. CASE ListProjectsForHobbyBillingTick(s)
    <2>1. project' = project /\ tick[s].pc = "idle"
      BY <1>7 DEF ListProjectsForHobbyBillingTick, At
    <2>2. CASE EndTick(s) /\ project.end >= clock
      <3>1. tick'[s].pc = "idle" /\ tick'[s].nextAt = clock + 1
        BY <1>4, <2>2, EndTickEffect
      <3> QED
        BY <1>1, <1>3, <2>1, <2>2, <3>1, InTimeNothingDue
    <2>3. CASE ~(EndTick(s) /\ project.end >= clock)
      <3>1. PICK t \in TickType : Hold(s, t) /\ t.pc = "listed" /\ t.snap = project
        BY <1>4, <1>7, <2>3, ListEffect
      <3>2. tick'[s] = t
        BY <1>4, <3>1, HoldEffect
      <3> QED
        BY <1>1, <1>3, <2>1, <3>1, <3>2, InTimeListed
    <2> QED
      BY <2>2, <2>3
  <1>8. CASE Rollover(s)
    <2>1. /\ tick'[s].pc = "idle" /\ tick'[s].nextAt = clock + 1
          /\ tick[s].pc # "idle" /\ tick[s].snap \in Row /\ project' \in Row
      BY <1>4, <1>8, RolloverEffect, EndTickEffect DEF At
    <2>2. PICK ok \in BOOLEAN :
            /\ errors' = IF ok THEN errors ELSE errors + 1
            /\ project' = IF ok THEN ResetExecutionsThisPeriod(project, NewBounds(tick[s].snap)[1],
                                                               NewBounds(tick[s].snap)[2])
                                ELSE project
      BY <1>8 DEF Rollover, Outcomes, CountError
    <2>3. CASE ok
      <3>1. Due(tick[s].snap) <=> tick[s].snap.end # NULL
        BY <2>1, RowFields DEF Due
      <3>2. /\ project'.end = IF tick[s].snap.end # NULL THEN tick[s].snap.end + Period ELSE clock + Period
            /\ project'.customer = project.customer /\ project'.lastAttempt = project.lastAttempt
            /\ project'.failures = project.failures
        BY <1>4, <2>2, <2>3, <3>1, TypeNumbers DEF ResetExecutionsThisPeriod, NewBounds, Row
      <3> QED
        BY <1>1, <1>3, <1>5, <2>1, <3>2, InTimeAfterRollover
    <2>4. CASE ~ok
      <3>1. crashes' = crashes
        BY <1>8 DEF Rollover
      <3> QED
        BY <1>4, <1>6, <2>1, <2>2, <2>4, <3>1
    <2> QED
      BY <2>3, <2>4
  <1>9. CASE Price(s)
    <2>1. project' = project
      BY <1>9 DEF Price
    <2>2. tick[s].pc = "listed" /\ tick[s].snap.customer # NoCustomer /\ tick[s].snap \in Row
      BY <1>4, <1>9, PriceEffect DEF At
    <2>3. CASE MaybeTooSoon(tick[s].snap) /\ EndTick(s)
      <3>1. tick'[s].pc = "idle" /\ tick'[s].nextAt = clock + 1
        BY <1>4, <2>3, EndTickEffect
      <3>2. /\ tick[s].snap.lastAttempt \in Int /\ tick[s].snap.lastAttempt # NULL
            /\ clock - tick[s].snap.lastAttempt < Spacing
        BY <1>4, <2>2, <2>3, RowFields, SpacingBounds DEF MaybeTooSoon, TooSoon, NULL
      <3> QED
        BY <1>1, <1>3, <2>1, <2>2, <3>1, <3>2, InTimeTooSoon
    <2>4. CASE ~(MaybeTooSoon(tick[s].snap) /\ EndTick(s))
      <3>1. PICK t \in TickType : Hold(s, t) /\ t.snap = tick[s].snap /\ t.pc \in {"rollover", "charge"}
        BY <1>4, <1>9, <2>4, PriceEffect
      <3>2. tick'[s] = t
        BY <1>4, <3>1, HoldEffect
      <3> QED
        BY <1>1, <1>3, <2>1, <2>2, <3>1, <3>2, InTimeGoesOn
    <2> QED
      BY <2>3, <2>4
  <1>10. CASE ChargeOffSession(s)
    <2>1. project' = project
      BY <1>10 DEF ChargeOffSession
    <2>2. tick[s].pc = "charge"
      BY <1>10 DEF ChargeOffSession, At
    <2>3. PICK t \in TickType : Hold(s, t) /\ t.snap = tick[s].snap /\ t.pc \in {"charged", "refused"}
      BY <1>4, <1>10, ChargeOffSessionEffect
    <2>4. tick'[s] = t
      BY <1>4, <2>3, HoldEffect
    <2> QED
      BY <1>1, <1>3, <1>5, <2>1, <2>2, <2>3, <2>4, InTimeGoesOn
  <1>11. CASE RecordAttempt(s)
    <2>1. PICK ok \in Outcomes :
            /\ CountError(ok)
            /\ ~ok => project' = project
            /\ ok => /\ project'.lastAttempt = clock
                     /\ At(s, "refused") => project'.failures = project.failures + 1
      BY <1>4, <1>11, RecordAttemptEffect
    <2>2. /\ project' \in Row /\ project'.end = project.end /\ project'.customer = project.customer
          /\ tick[s].pc \in {"charged", "refused"} /\ tick[s].snap \in Row
      BY <1>4, <1>11, RecordAttemptEffect DEF At
    <2>3. CASE ~EndTick(s)
      <3>1. PICK t \in TickType : Hold(s, t) /\ t.snap = tick[s].snap /\ t.pc \in {"rollover", "detach"}
        BY <1>4, <1>11, <2>3, RecordAttemptEffect
      <3>2. tick'[s] = t
        BY <1>4, <3>1, HoldEffect
      <3>3. CASE ok
        BY <1>1, <1>3, <2>1, <2>2, <3>1, <3>2, <3>3, InTimeRecorded
      <3>4. CASE project' = project
        BY <1>1, <1>3, <1>5, <2>2, <3>1, <3>2, <3>4, InTimeGoesOn
      <3> QED
        BY <2>1, <3>3, <3>4 DEF Outcomes
    <2>4. CASE EndTick(s)
      <3>1. tick'[s].pc = "idle" /\ tick'[s].nextAt = clock + 1
        BY <1>4, <2>4, EndTickEffect
      <3>2. tick[s].pc = "refused" /\ ~CeilingReached(tick[s].snap)
        <4>1. tick \in [Schedulers -> TickType]
          BY <1>4 DEF TypeOK
        <4>2. ASSUME NEW pc, NEW p, Hold(s, [pc |-> pc, snap |-> p]) PROVE tick'[s].pc = pc
          BY <4>1, <4>2 DEF Hold
        <4>3. tick[s].pc # "charged" /\ ~CeilingReached(tick[s].snap)
          BY <1>11, <3>1, <4>2 DEF RecordAttempt, At
        <4> QED
          BY <2>2, <4>3
      <3>3. tick[s].snap.failures + 1 < FailureCeiling
        BY <2>2, <3>2, RowFields, Constants DEF CeilingReached
      <3>4. CASE ok
        BY <1>1, <1>3, <2>1, <2>2, <3>1, <3>2, <3>3, <3>4, InTimeRefused DEF At
      <3>5. CASE ~ok
        <4>1. crashes' = crashes /\ errors' = errors + 1
          BY <1>11, <2>1, <3>5 DEF RecordAttempt, CountError
        <4> QED
          BY <1>4, <1>6, <2>1, <3>1, <3>5, <4>1
      <3> QED
        BY <3>4, <3>5
    <2> QED
      BY <2>3, <2>4
  <1>12. CASE DetachCard(s)
    <2>1. tick[s].pc = "detach" /\ tick'[s].pc = "idle" /\ tick'[s].nextAt = clock + 1
      BY <1>4, <1>12, DetachCardEffect, EndTickEffect DEF At
    <2>2. PICK ok \in Outcomes :
            /\ CountError(ok)
            /\ ok => project' = DetachHobbyCardForBillingFailure(project)
            /\ ~ok => project' = project
      BY <1>4, <1>12, DetachCardEffect
    <2>3. CASE ok
      <3>1. project'.end = project.end /\ project'.customer = NoCustomer /\ project'.lastAttempt = NULL
        BY <1>4, <2>2, <2>3, TypeNumbers, DetachedRow
      <3> QED
        BY <1>1, <1>3, <2>1, <3>1, InTimeDetached
    <2>4. CASE ~ok
      <3>1. crashes' = crashes /\ errors' = errors + 1
        BY <1>12, <2>2, <2>4 DEF DetachCard, CountError
      <3> QED
        BY <1>4, <1>6, <2>1, <2>2, <2>4, <3>1
    <2> QED
      BY <2>3, <2>4
  <1>13. CASE Crash(s)
    <2>1. PICK t \in TickType : Hold(s, t) /\ t.pc = "idle" /\ t.nextAt = clock
      BY <1>4, <1>13, CrashEffect
    <2>2. tick'[s].pc = "idle" /\ tick'[s].nextAt <= clock + 1
      BY <1>4, <2>1, HoldEffect
    <2>3. project' = project /\ crashes' = crashes + 1 /\ errors' = errors
      BY <1>13 DEF Crash
    <2> QED
      BY <1>6, <2>2, <2>3
  <1> QED
    BY <1>7, <1>8, <1>9, <1>10, <1>11, <1>12, <1>13 DEF Tick

LEMMA OverdueStep == ASSUME LoneScheduler, AttemptsFit PROVE OverdueInv /\ [Next]_vars => OverdueInv'
  <1> SUFFICES ASSUME OverdueInv, [Next]_vars PROVE OverdueInv'
    OBVIOUS
  <1>1. KnownInv' /\ TypeOK'
    BY KnownStep DEF OverdueInv, KnownInv
  <1> SUFFICES ASSUME NEW r \in Schedulers PROVE InTime(project', tick'[r], setup', clock', Allowance')
    BY <1>1 DEF OverdueInv
  <1>2. ASSUME NEW s \in Schedulers, Tick(s) \/ Crash(s)
        PROVE  InTime(project', tick'[r], setup', clock', Allowance')
    <2>1. r = s
      BY DEF LoneScheduler
    <2> QED
      BY <1>1, <1>2, <2>1, OverdueTick
  <1> QED
    BY <1>1, <1>2, OverdueUse, OverdueDay, OverdueCard DEF Next

LEMMA OverdueInit == Init => OverdueInv
  <1> SUFFICES ASSUME Init PROVE OverdueInv
    OBVIOUS
  <1>1. TypeOK
    BY InitTypes
  <1>2. /\ clock = 0 /\ customers = 0 /\ project.end = NULL
        /\ project.customer = NoCustomer /\ project.lastAttempt = NULL
        /\ setup.pc = "idle" /\ removal.pc = "idle"
        /\ \A s \in Schedulers : tick[s].pc = "idle" /\ tick[s].nextAt = 0
    BY DEF Init, NewProject, IdleHandler, IdleTick
  <1>3. KnownInv
    BY <1>1, <1>2 DEF KnownInv, CustomersKnown, Active, At, NoCustomer, NULL
  <1>4. \A s \in Schedulers : InTime(project, tick[s], setup, clock, Allowance)
    BY <1>2 DEF InTime, RowInTime, TickInTime, SetupInTime, Overdue, Attempted
  <1> QED
    BY <1>3, <1>4 DEF OverdueInv

\* A lone scheduler whose attempts fit into a period, as the code's five, three days apart,
\* fit into a month, leaves no period open for longer than a day and the attempts for every
\* customer the project has had take, and those that a death, a failed statement or a lost
\* answer wasted.  The attempts' days are those of the daily tick that compares its own time
\* with the later one of the last answer, one more than the cadence (processProject).
THEOREM PeriodsAreClosed ==
  ASSUME LoneScheduler, Schedulers # {}, AttemptsFit
  PROVE  Spec => []OverdueIsBounded
  <1>1. OverdueInv => OverdueIsBounded
    <2> SUFFICES ASSUME OverdueInv, project.end # NULL PROVE OverdueIsBounded
      BY DEF OverdueIsBounded
    <2>1. PICK s : s \in Schedulers
      OBVIOUS
    <2>2. Sized(project, tick[s], setup, clock, Allowance) /\ InTime(project, tick[s], setup, clock, Allowance)
      BY <2>1, OverdueNumbers DEF OverdueInv
    <2>3. Spacing \in Nat
      BY SpacingBounds
    <2>4. clock <= project.end + Allowance
      BY <2>2, <2>3 DEF Sized, InTime, RowInTime, Overdue
    <2>5. /\ clock \in Nat /\ project \in Row
          /\ customers \in Nat /\ crashes \in Nat /\ errors \in Nat
      BY TypeNumbers DEF OverdueInv, KnownInv
    <2>6. (customers + crashes + errors) * Span \in Nat /\ project.end \in Int
      BY <2>5, SpanBounds, TimesNat, Sum, RowFields DEF NULL
    <2>7. FailureCeiling * (RetryCadence + 1) + 1 = Span
      BY DEF Span, Spacing
    <2> QED
      BY <2>4, <2>5, <2>6, <2>7 DEF OverdueIsBounded, Allowance
  <1> QED
    BY <1>1, OverdueInit, OverdueStep, PTL DEF Spec

=============================================================================

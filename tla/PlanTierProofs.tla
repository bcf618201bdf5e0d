---------------------------- MODULE PlanTierProofs ----------------------------
(***************************************************************************)
(* What the plan of a project guarantees for any quota, cap, number of      *)
(* subscriptions, periods, redeliveries and failures.  The window and the   *)
(* tier are about a backend that handles one webhook at a time; the invoice *)
(* is about any number of handlers.                                         *)
(***************************************************************************)
EXTENDS PlanTier, FiniteSetTheorems, WellFoundedInduction, TLAPS

-----------------------------------------------------------------------------
(* The events and who holds them.                                          *)

Kinds  == PlanEvents \union {"deleted", "paid", "upcoming"}
Events == pending \union delivered

\* A handler's event is among those delivered and of the kind its step is for.
Proper(t, events) ==
    t.pc # "idle" =>
        /\ t.event \in events
        /\ t.pc \in Kinds => t.event.kind = t.pc
        /\ t.pc = "refresh" => t.event.kind \in {"created", "updated"}
        /\ t.pc \in {"downgrade", "cascade", "clamp"} => t.event.kind = "deleted"
        /\ t.pc = "reset" => t.event.kind = "paid"
        /\ t.pc \in {"execution", "analysis"} => t.event.kind = "upcoming"

\* Subscriptions are opened in the order of their numbers, and events are of opened ones.
Books ==
    /\ \A s \in Subscriptions :
          IF s \in Opened
          THEN subscription[s].period \in Periods /\ \A t \in Subscriptions : t < s => t \in Opened
          ELSE subscription[s] = [status |-> "none", period |-> NULL, cancel |-> FALSE, upcoming |-> FALSE]
    /\ \A e \in Events : e.subscription \in Opened

\* A settings request names a window its plan allows, or none.
Asked == setting.pc = "save" => \/ setting.days <= TierRetentionCap(setting.tier)
                                \/ setting.days = Indefinite

BaseInv == TypeOK /\ (\A w \in Workers : Proper(worker[w], delivered)) /\ Books /\ Asked

-----------------------------------------------------------------------------
(* The window and the tier, for one webhook at a time.                     *)

OneAtATime == \A v, w \in Workers : v = w

\* The plan is lowered before the window is, by the handler that has read the plan.
RetentionInv ==
    /\ BaseInv
    /\ \A w \in Workers :
          /\ At(w, "downgrade") => worker[w].tier = row.tier
          /\ worker[w].pc \in {"cascade", "clamp"} => row.tier = "hobby"
    /\ errors = 0 /\ ~loose => row.retention <= TeamDays
    /\ RetentionFitsTier

Sole == errors = 0 /\ Opened \subseteq {1}

Deleted(S) == \E e \in S : e.kind = "deleted"
CheckoutUnderway == (\E e \in pending : e.kind = "checkout") \/ (\E w \in Workers : At(w, "checkout"))
PaidUnderway ==
    (\E e \in pending : e.kind = "paid") \/ (\E w \in Workers : worker[w].pc \in {"paid", "reset"})

\* What is under way will bring the row to what the subscription is.
TierFacts ==
    /\ Deleted(Events) <=> subscription[1].status = "canceled"
    /\ subscription[1].status = "active" => row.tier = "team" \/ CheckoutUnderway
    /\ row.tier = "team" => row.customer = 1
    /\ Deleted(delivered) =>
          \A w \in Workers : worker[w].pc \notin PlanEvents \union {"refresh"}
    /\ Deleted(delivered) /\ row.tier = "team" =>
          \E w \in Workers : worker[w].pc \in {"deleted", "downgrade"}

TierInv == BaseInv /\ (Sole /\ ~reordered => TierFacts)

-----------------------------------------------------------------------------
(* The invoice.                                                            *)

This == subscription[1].period

Of(kind)   == {i \in items : i.kind = kind}
Past(kind) == {i \in Of(kind) : i.event.period < This}

\* The usage that the items in S stand for: what they charge, and the quota of each.
Bill(S, free) == Amount(S) + Cardinality(S) * free

\* The counter holds nothing an earlier invoice was for.
Fresh ==
    /\ row.start \in {NULL, This}
    /\ Bill(Past("execution"), Included) + row.executions <= executions

\* One upcoming event and one item of each kind to a period, every event of the period.
OneOfEach ==
    /\ \A e \in Events : e.period = This /\ (e.kind = "upcoming" => subscription[1].upcoming)
    /\ \A d, e \in Events : d.kind = "upcoming" /\ e.kind = "upcoming" => d = e
    /\ \A i \in items : i.event.period <= This
    /\ \A i, j \in items : i.kind = j.kind /\ i.event.period = j.event.period => i = j
    /\ \A i \in items : i.event.period = This =>
          subscription[1].upcoming /\ \A e \in Events : e.kind = "upcoming" => i.event = e

\* Until the period's invoice.paid is handled the counter may hold the last period's use.
RowFacts ==
    /\ row.start <= This /\ row.executions <= executions /\ row.customer \in {NULL, 1}
    /\ row.customer = 1 \/ This = 0 \/ (This = 1 /\ CheckoutUnderway)
    /\ Fresh \/ (PaidUnderway /\ ~subscription[1].upcoming)

ExecutionFacts ==
    /\ Bill(Of("execution"), Included) <= executions
    /\ \A w \in Workers : At(w, "execution") /\ worker[w].owed.execution > 0 =>
          Bill(Past("execution"), Included) + worker[w].owed.execution + Included <= executions

AnalysisFacts ==
    /\ \A k \in 0 .. MaxPeriod : k > This => analyses[k] = 0
    /\ Bill(Past("analysis"), TeamAIAnalysisLimit) + analyses[This] <= Total(analyses, DOMAIN analyses)
    /\ \A i \in Of("analysis") : i.event.period = This =>
          i.amount + TeamAIAnalysisLimit <= analyses[This]
    /\ \A w \in Workers : worker[w].pc \in {"execution", "analysis"} /\ worker[w].owed.analysis > 0 =>
          worker[w].owed.analysis + TeamAIAnalysisLimit <= analyses[This]

OverageInv == BaseInv /\ (Sole => OneOfEach /\ RowFacts /\ ExecutionFacts /\ AnalysisFacts)

-----------------------------------------------------------------------------
(* Sums, which the community modules define by recursion over the subsets.  *)

Pick(s) == CHOOSE x \in s : TRUE
Body(f, g, s) == IF s = {} THEN 0 ELSE f[Pick(s)] + g[s \ {Pick(s)}]
IsSum(f, S, g) == g = [s \in SUBSET S |-> Body(f, g, s)]

LEMMA Unfolding == ASSUME NEW f, NEW S PROVE Total(f, S) = (CHOOSE g : IsSum(f, S, g))[S]
  BY DEF Total, FoldFunctionOnSet, MapThenFoldSet, IsSum, Body, Pick

LEMMA Least == ASSUME NEW T, T \subseteq Nat, T # {} PROVE \E n \in T : \A m \in T : n <= m
  <1> DEFINE R == OpToRel(<, Nat)
  <1>1. IsWellFoundedOn(R, Nat)
    BY NatLessThanWellFounded
  <1>2. \A x, y \in Nat : x < y => <<x, y>> \in R
    BY DEF OpToRel
  <1> HIDE DEF R
  <1>3. PICK n \in T : \A m \in T : ~ (<<m, n>> \in R)
    BY <1>1, WFMin
  <1>4. \A m \in T : ~ (m < n)
    BY <1>2, <1>3
  <1> QED
    BY <1>4

\* A part of a finite set without one of its elements.
LEMMA Smaller ==
  ASSUME NEW S, IsFiniteSet(S), NEW x \in S
  PROVE  /\ IsFiniteSet(S \ {x}) /\ Cardinality(S) \in Nat
         /\ Cardinality(S \ {x}) = Cardinality(S) - 1
  BY FS_RemoveElement, FS_CardinalityType

LEMMA PickIn == ASSUME NEW s, s # {} PROVE Pick(s) \in s
  BY DEF Pick

\* The sums of the parts of a finite set are defined.
LEMMA SumExists ==
  ASSUME NEW f, NEW S, IsFiniteSet(S)
  PROVE  \E g : IsSum(f, S, g)
  <1> DEFINE Upto(n, g) == /\ g = [s \in SUBSET S |-> g[s]]
                           /\ \A s \in SUBSET S : Cardinality(s) <= n => g[s] = Body(f, g, s)
             Bad == {n \in Nat : ~ \E g : Upto(n, g)}
  <1>1. \A s \in SUBSET S : IsFiniteSet(s) /\ Cardinality(s) \in Nat /\ Cardinality(s) <= Cardinality(S)
    BY FS_Subset, FS_CardinalityType
  <1>2. Cardinality(S) \in Nat
    BY FS_CardinalityType
  <1>3. Bad = {}
    <2> SUFFICES ASSUME Bad # {} PROVE FALSE
      OBVIOUS
    <2>1. PICK n \in Bad : \A m \in Bad : n <= m
      BY Least
    <2>2. n \in Nat /\ ~ \E g : Upto(n, g)
      OBVIOUS
    <2>3. CASE n = 0
      <3> DEFINE g == [s \in SUBSET S |-> 0]
      <3>1. \A s \in SUBSET S : Cardinality(s) <= 0 => s = {}
        BY <1>1, FS_EmptySet
      <3>2. Upto(0, g)
        BY <3>1 DEF Body
      <3> QED
        BY <2>2, <2>3, <3>2
    <2>4. CASE n # 0
      <3>1. n - 1 \in Nat /\ n - 1 \notin Bad
        <4> HIDE DEF Bad
        <4> QED
          BY <2>1, <2>2, <2>4
      <3>2. PICK g : Upto(n - 1, g)
        BY <3>1
      <3> DEFINE h == [s \in SUBSET S |-> IF Cardinality(s) <= n - 1 THEN g[s] ELSE Body(f, g, s)]
      <3>3. ASSUME NEW s \in SUBSET S, Cardinality(s) <= n PROVE h[s] = Body(f, h, s)
        <4>1. CASE s = {}
          BY <1>1, <3>1, <3>2, <4>1, FS_EmptySet DEF Body
        <4>2. CASE s # {}
          <5> DEFINE r == s \ {Pick(s)}
          <5>1. r \in SUBSET S /\ Cardinality(r) = Cardinality(s) - 1 /\ Cardinality(s) \in Nat
            BY <1>1, <4>2, PickIn, Smaller
          <5>2. Cardinality(r) <= n - 1
            BY <3>1, <3>3, <5>1
          <5>3. h[r] = g[r]
            BY <5>1, <5>2
          <5>4. Body(f, h, s) = Body(f, g, s)
            BY <5>3 DEF Body
          <5>5. h[s] = Body(f, g, s)
            BY <3>2
          <5> QED
            BY <5>4, <5>5
        <4> QED
          BY <4>1, <4>2
      <3>4. h = [s \in SUBSET S |-> h[s]]
        OBVIOUS
      <3> HIDE DEF h
      <3>5. Upto(n, h)
        BY <3>3, <3>4
      <3> QED
        BY <2>2, <3>5
    <2> QED
      BY <2>3, <2>4
  <1>4. PICK g : Upto(Cardinality(S), g)
    BY <1>2, <1>3
  <1>5. g = [s \in SUBSET S |-> Body(f, g, s)]
    BY <1>1, <1>4
  <1> QED
    BY <1>5 DEF IsSum

\* And the sum of a part is the same from whichever set it is taken.
LEMMA SumAgrees ==
  ASSUME NEW f, NEW S, NEW T, IsFiniteSet(T), T \subseteq S, NEW g, NEW h, IsSum(f, S, g), IsSum(f, T, h)
  PROVE  \A s \in SUBSET T : g[s] = h[s]
  <1> DEFINE Bad == {n \in Nat : \E s \in SUBSET T : Cardinality(s) = n /\ g[s] # h[s]}
  <1>1. \A s \in SUBSET T : IsFiniteSet(s) /\ Cardinality(s) \in Nat
    BY FS_Subset, FS_CardinalityType
  <1>2. \A s \in SUBSET T : g[s] = Body(f, g, s) /\ h[s] = Body(f, h, s)
    BY DEF IsSum
  <1>3. Bad = {}
    <2> SUFFICES ASSUME Bad # {} PROVE FALSE
      OBVIOUS
    <2>1. PICK n \in Bad : \A m \in Bad : n <= m
      BY Least
    <2>2. PICK s \in SUBSET T : Cardinality(s) = n /\ g[s] # h[s]
      OBVIOUS
    <2>3. s # {}
      BY <1>2, <2>2 DEF Body
    <2> DEFINE r == s \ {Pick(s)}
    <2>4. r \in SUBSET T /\ Cardinality(r) = n - 1 /\ n - 1 \in Nat
      BY <1>1, <2>2, <2>3, PickIn, Smaller, FS_CardinalityType
    <2>5. n - 1 \notin Bad
      BY <2>1, <2>4
    <2>6. g[r] = h[r]
      BY <2>4, <2>5
    <2> QED
      BY <1>2, <2>2, <2>6 DEF Body
  <1> QED
    BY <1>1, <1>3

LEMMA TotalUnfolds ==
  ASSUME NEW f, NEW S, IsFiniteSet(S)
  PROVE  Total(f, S) = IF S = {} THEN 0 ELSE f[Pick(S)] + Total(f, S \ {Pick(S)})
  <1> DEFINE g == CHOOSE g : IsSum(f, S, g)
  <1>1. IsSum(f, S, g) /\ Total(f, S) = g[S]
    BY SumExists, Unfolding
  <1> HIDE DEF g
  <1>2. g[S] = Body(f, g, S)
    BY <1>1 DEF IsSum
  <1>3. CASE S = {}
    BY <1>1, <1>2, <1>3 DEF Body
  <1>4. CASE S # {}
    <2> DEFINE T == S \ {Pick(S)}
               h == CHOOSE h : IsSum(f, T, h)
    <2>1. IsFiniteSet(T) /\ T \subseteq S
      BY <1>4, PickIn, Smaller
    <2>2. IsSum(f, T, h) /\ Total(f, T) = h[T]
      BY <2>1, SumExists, Unfolding
    <2> HIDE DEF h
    <2>3. g[T] = h[T]
      BY <1>1, <2>1, <2>2, SumAgrees
    <2> QED
      BY <1>1, <1>2, <1>4, <2>2, <2>3 DEF Body
  <1> QED
    BY <1>3, <1>4

\* One element of a finite set more is one summand more.
LEMMA TotalInserts ==
  ASSUME NEW f, NEW S, IsFiniteSet(S), NEW x, x \notin S, \A y \in S \union {x} : f[y] \in Int
  PROVE  Total(f, S) \in Int /\ Total(f, S \union {x}) = Total(f, S) + f[x]
  <1> DEFINE Good(T) == Total(f, T) \in Int /\ \A y \in S \union {x} : y \notin T =>
                            Total(f, T \union {y}) = Total(f, T) + f[y]
             Bad == {n \in Nat : \E T \in SUBSET (S \union {x}) : Cardinality(T) = n /\ ~Good(T)}
  <1>1. \A T \in SUBSET (S \union {x}) : IsFiniteSet(T) /\ Cardinality(T) \in Nat
    BY FS_AddElement, FS_Subset, FS_CardinalityType
  <1>2. Bad = {}
    <2> SUFFICES ASSUME Bad # {} PROVE FALSE
      OBVIOUS
    <2>1. PICK n \in Bad : \A m \in Bad : n <= m
      BY Least
    <2>2. PICK T \in SUBSET (S \union {x}) : Cardinality(T) = n /\ ~Good(T)
      OBVIOUS
    \* What has been taken away can be put back, and brings its summand.
    <2>3. ASSUME NEW z \in T PROVE Good(T \ {z}) /\ Total(f, T) = Total(f, T \ {z}) + f[z]
      <3>1. Cardinality(T \ {z}) = n - 1 /\ n - 1 \in Nat /\ T \ {z} \in SUBSET (S \union {x})
        BY <1>1, <2>2, Smaller, FS_CardinalityType
      <3>2. n - 1 \notin Bad
        BY <2>1, <3>1
      <3>3. Good(T \ {z})
        BY <3>1, <3>2
      <3>4. (T \ {z}) \union {z} = T
        OBVIOUS
      <3> QED
        BY <3>3, <3>4
    <2>4. Total(f, T) \in Int
      <3>1. CASE T = {}
        <4>1. Total(f, T) = 0
          BY <3>1, FS_EmptySet, TotalUnfolds
        <4> QED
          BY <4>1
      <3>2. CASE T # {}
        <4>1. PICK z : z \in T
          BY <3>2
        <4>2. f[z] \in Int /\ Total(f, T \ {z}) \in Int
          BY <2>3, <4>1
        <4>3. Total(f, T) = Total(f, T \ {z}) + f[z]
          BY <2>3, <4>1
        <4> QED
          BY <4>2, <4>3
      <3> QED
        BY <3>1, <3>2
    <2>5. ASSUME NEW y \in S \union {x}, y \notin T PROVE Total(f, T \union {y}) = Total(f, T) + f[y]
      <3> DEFINE U == T \union {y}
                 z == Pick(U)
      <3>1. U \in SUBSET (S \union {x}) /\ U # {} /\ z \in U
        BY PickIn
      <3>2. Total(f, U) = f[z] + Total(f, U \ {z})
        BY <1>1, <3>1, TotalUnfolds
      <3>3. f[y] \in Int /\ f[z] \in Int
        BY <3>1
      <3> HIDE DEF z, U
      <3>4. CASE z = y
        <4>1. U \ {z} = T
          BY <2>5, <3>4 DEF U
        <4> QED
          BY <2>4, <3>2, <3>3, <3>4, <4>1 DEF U
      <3>5. CASE z # y
        <4>1. z \in T
          BY <3>1, <3>5 DEF U
        <4>2. Good(T \ {z}) /\ Total(f, T) = Total(f, T \ {z}) + f[z]
          BY <2>3, <4>1
        <4>3. U \ {z} = (T \ {z}) \union {y} /\ y \notin T \ {z}
          BY <2>5, <3>5 DEF U
        <4>4. Total(f, U \ {z}) = Total(f, T \ {z}) + f[y] /\ Total(f, T \ {z}) \in Int
          BY <4>2, <4>3
        <4>5. Total(f, U) = Total(f, T) + f[y]
          BY <3>2, <3>3, <4>2, <4>4
        <4> QED
          BY <4>5 DEF U
      <3> QED
        BY <3>4, <3>5 DEF U
    <2> QED
      BY <2>2, <2>4, <2>5
  <1>3. Good(S)
    BY <1>1, <1>2
  <1> QED
    BY <1>3

\* The sum depends on the summands alone.
LEMMA TotalSame ==
  ASSUME NEW f, NEW g, NEW S, IsFiniteSet(S), \A y \in S : f[y] = g[y]
  PROVE  Total(f, S) = Total(g, S)
  <1> DEFINE Bad == {n \in Nat : \E T \in SUBSET S : Cardinality(T) = n /\ Total(f, T) # Total(g, T)}
  <1>1. \A T \in SUBSET S : IsFiniteSet(T) /\ Cardinality(T) \in Nat
    BY FS_Subset, FS_CardinalityType
  <1>2. Bad = {}
    <2> SUFFICES ASSUME Bad # {} PROVE FALSE
      OBVIOUS
    <2>1. PICK n \in Bad : \A m \in Bad : n <= m
      BY Least
    <2>2. PICK T \in SUBSET S : Cardinality(T) = n /\ Total(f, T) # Total(g, T)
      OBVIOUS
    <2> DEFINE U == T \ {Pick(T)}
    <2>3. T # {}
      BY <2>2, FS_EmptySet, TotalUnfolds
    <2>4. U \in SUBSET S /\ Cardinality(U) = n - 1 /\ n - 1 \in Nat /\ Pick(T) \in S
      BY <1>1, <2>2, <2>3, PickIn, Smaller, FS_CardinalityType
    <2>5. n - 1 \notin Bad
      BY <2>1, <2>4
    <2>6. Total(f, U) = Total(g, U)
      BY <2>4, <2>5
    <2>7. /\ Total(f, T) = f[Pick(T)] + Total(f, U)
          /\ Total(g, T) = g[Pick(T)] + Total(g, U)
      BY <1>1, <2>3, TotalUnfolds
    <2> QED
      BY <2>2, <2>4, <2>6, <2>7
  <1> QED
    BY <1>1, <1>2

\* Where all summands but one are zero, it is the sum; none is negative, nor is the sum.
LEMMA TotalNat ==
  ASSUME NEW f, NEW S, IsFiniteSet(S), \A y \in S : f[y] \in Nat
  PROVE  Total(f, S) \in Nat
  <1> DEFINE Bad == {n \in Nat : \E T \in SUBSET S : Cardinality(T) = n /\ Total(f, T) \notin Nat}
  <1>1. \A T \in SUBSET S : IsFiniteSet(T) /\ Cardinality(T) \in Nat
    BY FS_Subset, FS_CardinalityType
  <1>2. Bad = {}
    <2> SUFFICES ASSUME Bad # {} PROVE FALSE
      OBVIOUS
    <2>1. PICK n \in Bad : \A m \in Bad : n <= m
      BY Least
    <2>2. PICK T \in SUBSET S : Cardinality(T) = n /\ Total(f, T) \notin Nat
      OBVIOUS
    <2> DEFINE U == T \ {Pick(T)}
    <2>3. T # {}
      BY <2>2, FS_EmptySet, TotalUnfolds
    <2>4. U \in SUBSET S /\ Cardinality(U) = n - 1 /\ n - 1 \in Nat /\ Pick(T) \in S
      BY <1>1, <2>2, <2>3, PickIn, Smaller, FS_CardinalityType
    <2>5. n - 1 \notin Bad
      BY <2>1, <2>4
    <2>6. Total(f, U) \in Nat
      BY <2>4, <2>5
    <2>7. Total(f, T) = f[Pick(T)] + Total(f, U)
      BY <1>1, <2>3, TotalUnfolds
    <2>8. f[Pick(T)] \in Nat
      BY <2>4
    <2> QED
      BY <2>2, <2>6, <2>7, <2>8
  <1> QED
    BY <1>1, <1>2

LEMMA TotalOfZeros ==
  ASSUME NEW f, NEW S, IsFiniteSet(S), \A y \in S : f[y] = 0
  PROVE  Total(f, S) = 0
  <1> DEFINE Bad == {n \in Nat : \E T \in SUBSET S : Cardinality(T) = n /\ Total(f, T) # 0}
  <1>1. \A T \in SUBSET S : IsFiniteSet(T) /\ Cardinality(T) \in Nat
    BY FS_Subset, FS_CardinalityType
  <1>2. Bad = {}
    <2> SUFFICES ASSUME Bad # {} PROVE FALSE
      OBVIOUS
    <2>1. PICK n \in Bad : \A m \in Bad : n <= m
      BY Least
    <2>2. PICK T \in SUBSET S : Cardinality(T) = n /\ Total(f, T) # 0
      OBVIOUS
    <2> DEFINE U == T \ {Pick(T)}
    <2>3. T # {}
      BY <2>2, FS_EmptySet, TotalUnfolds
    <2>4. U \in SUBSET S /\ Cardinality(U) = n - 1 /\ n - 1 \in Nat /\ Pick(T) \in S
      BY <1>1, <2>2, <2>3, PickIn, Smaller, FS_CardinalityType
    <2>5. n - 1 \notin Bad
      BY <2>1, <2>4
    <2>6. Total(f, U) = 0
      BY <2>4, <2>5
    <2>7. Total(f, T) = f[Pick(T)] + Total(f, U)
      BY <1>1, <2>3, TotalUnfolds
    <2> QED
      BY <2>2, <2>4, <2>6, <2>7
  <1> QED
    BY <1>1, <1>2

\* A finite set put together from one of its elements and the others.
LEMMA TotalSplits ==
  ASSUME NEW f, NEW S, IsFiniteSet(S), NEW x \in S, \A y \in S : f[y] \in Int
  PROVE  Total(f, S \ {x}) \in Int /\ Total(f, S) = Total(f, S \ {x}) + f[x]
  <1>1. (S \ {x}) \union {x} = S /\ x \notin S \ {x} /\ IsFiniteSet(S \ {x})
    BY Smaller
  <1> QED
    BY <1>1, TotalInserts

LEMMA TotalOfOne ==
  ASSUME NEW f, NEW S, IsFiniteSet(S), NEW x \in S, f[x] \in Int, \A y \in S \ {x} : f[y] = 0
  PROVE  Total(f, S) = f[x]
  <1>1. Total(f, S \ {x}) = 0
    BY Smaller, TotalOfZeros
  <1>2. \A y \in S : f[y] \in Int
    OBVIOUS
  <1>3. Total(f, S) = 0 + f[x]
    BY <1>1, <1>2, TotalSplits
  <1> QED
    BY <1>3

LEMMA TotalCountsUp ==
  ASSUME NEW S, IsFiniteSet(S), NEW f \in [S -> Nat], NEW x \in S
  PROVE  Total([f EXCEPT ![x] = @ + 1], S) = Total(f, S) + 1
  <1> DEFINE g == [f EXCEPT ![x] = @ + 1]
  <1>1. \A y \in S : f[y] \in Int /\ g[y] \in Int
    OBVIOUS
  <1>2. g[x] = f[x] + 1 /\ f[x] \in Int /\ \A y \in S \ {x} : g[y] = f[y]
    OBVIOUS
  <1> HIDE DEF g
  <1>3. Total(g, S \ {x}) = Total(f, S \ {x})
    BY <1>2, Smaller, TotalSame
  <1>4. /\ Total(g, S) = Total(g, S \ {x}) + g[x]
        /\ Total(f, S) = Total(f, S \ {x}) + f[x] /\ Total(f, S \ {x}) \in Int
    BY <1>1, TotalSplits
  <1>5. Total(g, S) = Total(f, S) + 1
    BY <1>2, <1>3, <1>4
  <1> QED
    BY <1>5 DEF g

-----------------------------------------------------------------------------
(* Bills.                                                                  *)

LEMMA BillEmpty == ASSUME NEW free \in Int PROVE Bill({}, free) = 0
  <1>1. Amount({}) = 0
    BY FS_EmptySet, TotalUnfolds DEF Amount
  <1>2. 0 * free = 0
    OBVIOUS
  <1> QED
    BY <1>1, <1>2, FS_EmptySet DEF Bill

LEMMA BillInserts ==
  ASSUME NEW S, IsFiniteSet(S), NEW x, x \notin S, \A i \in S \union {x} : i.amount \in Int, NEW free \in Int
  PROVE  Bill(S, free) \in Int /\ Bill(S \union {x}, free) = Bill(S, free) + x.amount + free
  <1> DEFINE f == [i \in S \union {x} |-> i.amount]
             n == Cardinality(S)
  <1>1. \A i \in S \union {x} : f[i] \in Int
    OBVIOUS
  <1>2. f[x] = x.amount /\ f[x] \in Int
    OBVIOUS
  <1>3. \A i \in S : f[i] = [j \in S |-> j.amount][i]
    OBVIOUS
  <1>4. Amount(S \union {x}) = Total(f, S \union {x})
    BY DEF Amount
  <1> HIDE DEF f
  <1>5. Total(f, S) = Amount(S)
    BY <1>3, TotalSame DEF Amount
  <1>6. Amount(S) \in Int /\ Amount(S \union {x}) = Amount(S) + x.amount
    BY <1>1, <1>2, <1>4, <1>5, TotalInserts
  <1>7. n \in Int /\ Cardinality(S \union {x}) = n + 1
    BY FS_AddElement, FS_CardinalityType
  <1> HIDE DEF n
  <1>8. (n + 1) * free = n * free + free /\ n * free \in Int
    BY <1>7
  <1> QED
    BY <1>2, <1>6, <1>7, <1>8 DEF Bill, n

-----------------------------------------------------------------------------
(* Numbers.                                                                *)

LEMMA Numbers ==
  /\ Included \in Nat /\ TeamAIAnalysisLimit \in Nat /\ BillingCapUSD \in Nat
  /\ Windows \subseteq 1 .. 3
  /\ MaxSubscriptions \in Nat /\ MaxSubscriptions >= 1 /\ MaxPeriod \in Nat /\ MaxPeriod >= 1
  /\ MaxErrors \in Nat /\ 1 \in Subscriptions
  BY ConstantsAssumption DEF Subscriptions

LEMMA MinOfTwo == ASSUME NEW x \in Int, NEW y \in Int PROVE Min({x, y}) = IF x <= y THEN x ELSE y
  BY DEF Min

LEMMA MaxOfTwo == ASSUME NEW x \in Int, NEW y \in Int PROVE Max({x, y}) = IF x <= y THEN y ELSE x
  BY DEF Max

LEMMA MaxExists ==
  ASSUME NEW n \in Nat, NEW S, S \subseteq 0 .. n, S # {}
  PROVE  Max(S) \in S /\ \A x \in S : x <= Max(S)
  <1> DEFINE T == {n - x : x \in S}
  <1>1. T \subseteq Nat /\ T # {}
    <2>1. \A x \in S : n - x \in Nat
      OBVIOUS
    <2> QED
      BY <2>1
  <1>2. PICK t \in T : \A y \in T : t <= y
    <2> HIDE DEF T
    <2> QED
      BY <1>1, Least
  <1>3. PICK x \in S : t = n - x
    BY <1>2
  <1>4. ASSUME NEW y \in S PROVE y <= x
    <2>1. n - y \in T
      OBVIOUS
    <2>2. n - x <= n - y
      BY <1>2, <1>3, <2>1
    <2>3. x \in Int /\ y \in Int
      OBVIOUS
    <2> QED
      BY <2>2, <2>3
  <1> QED
    BY <1>4 DEF Max

LEMMA OverIs ==
  ASSUME NEW n \in Nat, NEW included \in Nat
  PROVE  Over(n, included) \in Nat /\ (Over(n, included) > 0 => Over(n, included) + included <= n)
  <1>1. Over(n, included) = IF 0 <= n - included THEN n - included ELSE 0
    BY MaxOfTwo DEF Over
  <1> QED
    BY <1>1

\* A cap only takes away.
LEMMA CapIs ==
  ASSUME NEW x \in Nat, NEW y \in Nat
  PROVE  /\ Cap(x, y) \in [execution : Nat, analysis : Nat]
         /\ Cap(x, y).execution <= x /\ Cap(x, y).analysis <= y
  <1>1. BillingCapUSD \in Nat
    BY Numbers
  <1>2. CASE BillingCapUSD > 0
    <2> DEFINE capped == Min({x, BillingCapUSD})
               rest == Min({y, BillingCapUSD - capped})
    <2>1. capped \in Nat /\ capped <= x /\ BillingCapUSD - capped \in Nat
      BY <1>1, MinOfTwo
    <2> HIDE DEF capped
    <2>2. rest \in Nat /\ rest <= y
      BY <2>1, MinOfTwo
    <2> HIDE DEF rest
    <2>3. Cap(x, y) = [execution |-> capped, analysis |-> rest]
      BY <1>2 DEF Cap, capped, rest
    <2> QED
      BY <2>1, <2>2, <2>3
  <1>3. CASE ~(BillingCapUSD > 0)
    BY <1>3 DEF Cap
  <1> QED
    BY <1>2, <1>3

LEMMA AllPeriods ==
  /\ IsFiniteSet(0 .. MaxPeriod)
  /\ \A S : S \subseteq 0 .. MaxPeriod => IsFiniteSet(S)
  <1>1. IsFiniteSet(0 .. MaxPeriod)
    BY Numbers, FS_Interval
  <1> QED
    BY <1>1, FS_Subset

LEMMA AnalysesType ==
  ASSUME TypeOK
  PROVE  /\ DOMAIN analyses = 0 .. MaxPeriod /\ \A k \in 0 .. MaxPeriod : analyses[k] \in Nat
         /\ Total(analyses, DOMAIN analyses) \in Nat
         /\ \A start : AnalysesSince(start) \in Nat
  <1>1. DOMAIN analyses = 0 .. MaxPeriod /\ \A k \in 0 .. MaxPeriod : analyses[k] \in Nat
    BY DEF TypeOK
  <1>2. ASSUME NEW S, S \subseteq 0 .. MaxPeriod PROVE Total(analyses, S) \in Nat
    BY <1>1, <1>2, AllPeriods, TotalNat
  <1>3. ASSUME NEW start PROVE AnalysesSince(start) \in Nat
    <2> DEFINE S == {k \in DOMAIN analyses : k >= IF start = NULL THEN Month ELSE start}
    <2>1. S \subseteq 0 .. MaxPeriod
      BY <1>1
    <2>2. AnalysesSince(start) = Total(analyses, S)
      BY DEF AnalysesSince
    <2> HIDE DEF S
    <2> QED
      BY <1>2, <2>1, <2>2
  <1> QED
    BY <1>1, <1>2, <1>3

LEMMA OverageType == ASSUME TypeOK PROVE Overage(row) \in [execution : Nat, analysis : Nat]
  <1>1. row.executions \in Nat /\ AnalysesSince(row.start) \in Nat
    BY AnalysesType DEF TypeOK, RowType
  <1>2. /\ Over(row.executions, Included) \in Nat
        /\ Over(AnalysesSince(row.start), TeamAIAnalysisLimit) \in Nat
    BY <1>1, OverIs, Numbers
  <1> QED
    BY <1>2, CapIs DEF Overage

LEMMA MonthType ==
  ASSUME TypeOK
  PROVE  /\ Month \in 0 .. MaxPeriod
         /\ \A s \in Opened : subscription[s].period <= Month
  <1> DEFINE S == {0} \union {subscription[s].period : s \in Opened}
  <1>1. S \subseteq 0 .. MaxPeriod /\ S # {} /\ MaxPeriod \in Nat
    BY Numbers DEF TypeOK, SubscriptionType, Opened
  <1>2. Max(S) \in S /\ \A x \in S : x <= Max(S)
    <2> HIDE DEF S
    <2> QED
      BY <1>1, MaxExists
  <1> QED
    BY <1>1, <1>2 DEF Month

\* Of a single subscription, the period is the month.
LEMMA MonthIsThis ==
  ASSUME TypeOK, Books, Opened \subseteq {1}
  PROVE  Month = This /\ This \in 0 .. MaxPeriod
  <1>1. 1 \in Subscriptions /\ This \in 0 .. MaxPeriod
    BY Numbers DEF TypeOK, SubscriptionType, This
  <1>2. CASE Opened = {1}
    <2>1. {0} \union {subscription[s].period : s \in Opened} = {0, This}
      BY <1>2 DEF This
    <2> QED
      BY <1>1, <2>1, MaxOfTwo DEF Month
  <1>3. CASE Opened = {}
    <2>1. This = 0
      BY <1>1, <1>3 DEF Books, This, NULL
    <2>2. {0} \union {subscription[s].period : s \in Opened} = {0, 0}
      BY <1>3
    <2> QED
      BY <1>1, <2>1, <2>2, MaxOfTwo DEF Month
  <1> QED
    BY <1>2, <1>3

-----------------------------------------------------------------------------
(* What a step does to the handlers and to Stripe's books.                 *)

LEMMA InitBase == Init => BaseInv
  <1> SUFFICES ASSUME Init PROVE BaseInv
    OBVIOUS
  <1>1. TypeOK
    <2>1. row \in RowType
      BY Numbers DEF Init, NULL, HobbyDays, RowType
    <2>2. worker \in [Workers -> WorkerType] /\ setting \in SettingType
      BY DEF Init, WorkerType, SettingType
    <2>3. analyses \in [0 .. MaxPeriod -> Nat] /\ checkouts \in Nat
          /\ subscription \in [Subscriptions -> SubscriptionType]
      BY Numbers DEF Init, SubscriptionType, NULL
    <2>4. errors \in 0 .. MaxErrors
      BY Numbers DEF Init
    <2> QED
      BY <2>1, <2>2, <2>3, <2>4, FS_EmptySet DEF Init, TypeOK
  <1>2. \A w \in Workers : Proper(worker[w], delivered)
    BY DEF Init, Idle, Proper
  <1>3. Books
    BY DEF Init, Books, Opened, Events
  <1>4. Asked
    BY DEF Init, Asked, Idle
  <1> QED
    BY <1>1, <1>2, <1>3, <1>4 DEF BaseInv

\* The handlers keep their events while none is taken from those delivered.
LEMMA GotoEffect ==
  ASSUME BaseInv, NEW w \in Workers, NEW step \in WorkerType, Goto(w, step),
         delivered \subseteq delivered', Proper(step, delivered')
  PROVE  /\ worker' \in [Workers -> WorkerType]
         /\ worker'[w] = step /\ \A v \in Workers : v # w => worker'[v] = worker[v]
         /\ \A v \in Workers : Proper(worker'[v], delivered')
  <1>1. worker' = [worker EXCEPT ![w] = step] /\ worker \in [Workers -> WorkerType]
    BY DEF Goto, BaseInv, TypeOK
  <1>2. worker' \in [Workers -> WorkerType]
        /\ worker'[w] = step /\ \A v \in Workers : v # w => worker'[v] = worker[v]
    BY <1>1
  <1>3. \A v \in Workers : v # w => Proper(worker'[v], delivered')
    BY <1>2 DEF BaseInv, Proper
  <1> QED
    BY <1>2, <1>3

LEMMA IdleIsProper == Idle \in WorkerType /\ \A events : Proper(Idle, events)
  BY DEF Idle, WorkerType, Proper

\* The books stay while no event but those of them is in flight.
LEMMA BooksStay ==
  ASSUME Books, subscription' = subscription, Events' \subseteq Events
  PROVE  Books' /\ Opened' = Opened
  BY DEF Books, Opened

\* A subscription's new state, and the events told of it.
LEMMA SubscriptionEffect ==
  ASSUME BaseInv, NEW s \in Subscriptions, NEW new \in SubscriptionType, NEW kinds, kinds \subseteq Kinds,
         subscription' = [subscription EXCEPT ![s] = new], Emit(kinds, s),
         new.status # "none", new.period \in Periods, delivered' \subseteq delivered,
         \A t \in Subscriptions : t < s => t \in Opened
  PROVE  /\ subscription' \in [Subscriptions -> SubscriptionType]
         /\ subscription'[s] = new /\ \A t \in Subscriptions : t # s => subscription'[t] = subscription[t]
         /\ Opened' = Opened \union {s}
         /\ pending' \subseteq EventType /\ delivered' \subseteq EventType /\ Books'
         /\ \A e \in pending' : e \in pending \/ (/\ e.subscription = s /\ e.period = new.period
                                                  /\ e.cancel = new.cancel /\ e.kind \in kinds)
         /\ \A k \in kinds : \E e \in pending' : e.kind = k
  <1>1. subscription \in [Subscriptions -> SubscriptionType]
    BY DEF BaseInv, TypeOK
  <1>2. subscription' \in [Subscriptions -> SubscriptionType]
        /\ subscription'[s] = new /\ \A t \in Subscriptions : t # s => subscription'[t] = subscription[t]
    BY <1>1
  <1>3. Opened' = Opened \union {s}
    BY <1>2 DEF Opened
  <1>4. pending' = pending \union {Event(k, s) : k \in kinds}
    BY DEF Emit
  <1>5. \A k \in kinds : Event(k, s) = [kind |-> k, subscription |-> s, period |-> new.period, cancel |-> new.cancel]
    BY <1>2 DEF Event
  <1>6. \A k \in kinds : Event(k, s) \in EventType
    BY <1>5 DEF EventType, SubscriptionType, Kinds
  <1>7. pending' \subseteq EventType /\ delivered' \subseteq EventType
    BY <1>4, <1>6 DEF BaseInv, TypeOK
  <1>8. \A e \in pending' : e \in pending \/ (/\ e.subscription = s /\ e.period = new.period
                                              /\ e.cancel = new.cancel /\ e.kind \in kinds)
    BY <1>4, <1>5
  <1>9. \A k \in kinds : \E e \in pending' : e.kind = k
    <2> SUFFICES ASSUME NEW k \in kinds PROVE \E e \in pending' : e.kind = k
      OBVIOUS
    <2>1. Event(k, s) \in pending' /\ Event(k, s).kind = k
      BY <1>4, <1>5
    <2> QED
      BY <2>1
  <1>10. Books'
    <2>1. \A t \in Subscriptions' :
            IF t \in Opened'
            THEN subscription'[t].period \in Periods /\ \A r \in Subscriptions : r < t => r \in Opened'
            ELSE subscription'[t] = [status |-> "none", period |-> NULL, cancel |-> FALSE, upcoming |-> FALSE]
      <3>1. Subscriptions' = Subscriptions
        BY DEF Subscriptions
      <3> SUFFICES ASSUME NEW t \in Subscriptions
                   PROVE IF t \in Opened'
                         THEN subscription'[t].period \in Periods /\ \A r \in Subscriptions : r < t => r \in Opened'
                         ELSE subscription'[t] = [status |-> "none", period |-> NULL, cancel |-> FALSE, upcoming |-> FALSE]
        BY <3>1
      <3>2. CASE t = s
        BY <1>2, <1>3, <3>2
      <3>3. CASE t # s
        BY <1>2, <1>3, <3>3 DEF BaseInv, Books
      <3> QED
        BY <3>2, <3>3
    <2>2. \A e \in Events' : e.subscription \in Opened'
      BY <1>3, <1>8 DEF BaseInv, Books, Events
    <2> QED
      BY <2>1, <2>2 DEF Books, Periods, NULL, Subscriptions
  <1> QED
    BY <1>2, <1>3, <1>7, <1>8, <1>9, <1>10

-----------------------------------------------------------------------------
(* Types, and what each handler holds.                                     *)

\* The four things Stripe does to a subscription.
LEMMA CompleteCheckoutEffect ==
  ASSUME BaseInv, NEW s \in Subscriptions, CompleteCheckout(s)
  PROVE  LET new == [subscription[s] EXCEPT !.status = "active", !.period = Month + 1] IN
         /\ new \in SubscriptionType /\ new.status = "active" /\ new.period = Month + 1
         /\ new.upcoming = FALSE /\ new.cancel = FALSE
         /\ Month + 1 \in Periods /\ s \notin Opened
         /\ subscription' = [subscription EXCEPT ![s] = new]
  <1>1. subscription[s] \in SubscriptionType /\ Month \in 0 .. MaxPeriod /\ Month < MaxPeriod
    BY MonthType DEF BaseInv, TypeOK, CompleteCheckout
  <1>2. Month + 1 \in Periods
    BY <1>1, Numbers DEF Periods
  <1>3. s \notin Opened /\ subscription[s].upcoming = FALSE /\ subscription[s].cancel = FALSE
    BY DEF CompleteCheckout, Opened, BaseInv, Books
  <1>4. subscription' = [subscription EXCEPT ![s] =
                           [subscription[s] EXCEPT !.status = "active", !.period = Month + 1]]
    BY DEF CompleteCheckout, BaseInv, TypeOK
  <1> HIDE DEF Month
  <1>5. Month + 1 \in 0 .. MaxPeriod
    BY <1>2, Numbers DEF Periods
  <1> QED
    BY <1>1, <1>2, <1>3, <1>4, <1>5 DEF SubscriptionType

LEMMA CancelNowEffect ==
  ASSUME BaseInv, NEW s \in Subscriptions, CancelNow(s)
  PROVE  LET new == [subscription[s] EXCEPT !.status = "canceled"] IN
         /\ new \in SubscriptionType /\ new.status = "canceled" /\ new.period = subscription[s].period
         /\ new.upcoming = subscription[s].upcoming
         /\ new.period \in Periods /\ s \in Opened
         /\ subscription' = [subscription EXCEPT ![s] = new]
  <1>1. subscription[s] \in SubscriptionType /\ s \in Opened
    BY DEF BaseInv, TypeOK, CancelNow, Opened
  <1> QED
    BY <1>1 DEF BaseInv, TypeOK, Books, CancelNow, SubscriptionType

LEMMA AnnounceInvoiceEffect ==
  ASSUME BaseInv, NEW s \in Subscriptions, AnnounceInvoice(s)
  PROVE  LET new == [subscription[s] EXCEPT !.upcoming = TRUE] IN
         /\ new \in SubscriptionType /\ new.status = "active" /\ new.period = subscription[s].period
         /\ new.upcoming = TRUE
         /\ new.period \in Periods /\ s \in Opened
         /\ subscription' = [subscription EXCEPT ![s] = new]
  <1>1. subscription[s] \in SubscriptionType /\ s \in Opened
    BY DEF BaseInv, TypeOK, AnnounceInvoice, Opened
  <1> QED
    BY <1>1 DEF BaseInv, TypeOK, Books, AnnounceInvoice, SubscriptionType

LEMMA EndPeriodEffect ==
  ASSUME BaseInv, NEW s \in Subscriptions, EndPeriod(s)
  PROVE  \E new \in SubscriptionType, kinds \in {{"deleted"}, {"updated", "paid"}} :
         /\ s \in Opened /\ new.period \in Periods
         /\ subscription' = [subscription EXCEPT ![s] = new] /\ Emit(kinds, s)
         /\ \/ new.status = "canceled" /\ kinds = {"deleted"}
               /\ new.period = subscription[s].period /\ new.upcoming = subscription[s].upcoming
            \/ new.status = "active" /\ kinds = {"updated", "paid"}
               /\ new.period = subscription[s].period + 1 /\ ~new.upcoming
  <1>1. subscription[s] \in SubscriptionType /\ s \in Opened /\ subscription[s].period \in Periods
    BY DEF BaseInv, TypeOK, EndPeriod, Opened, Books
  <1>2. CASE subscription[s].cancel
    <2> DEFINE new == [subscription[s] EXCEPT !.status = "canceled"]
    <2>1. new \in SubscriptionType /\ new.status = "canceled" /\ new.period = subscription[s].period
          /\ new.upcoming = subscription[s].upcoming
      BY <1>1 DEF SubscriptionType
    <2>2. subscription' = [subscription EXCEPT ![s] = new] /\ Emit({"deleted"}, s)
      BY <1>2 DEF EndPeriod, BaseInv, TypeOK
    <2> HIDE DEF new
    <2> QED
      BY <1>1, <2>1, <2>2
  <1>3. CASE ~subscription[s].cancel
    <2> DEFINE new == [subscription[s] EXCEPT !.period = @ + 1, !.upcoming = FALSE]
    <2>1. subscription[s].period + 1 \in Periods
      <3>1. Month < MaxPeriod /\ subscription[s].period <= Month /\ Month \in 0 .. MaxPeriod
        BY <1>1, <1>3, MonthType DEF EndPeriod, BaseInv
      <3> QED
        BY <1>1, <3>1, Numbers DEF Periods
    <2>2. new \in SubscriptionType /\ new.status = "active" /\ new.period = subscription[s].period + 1
          /\ new.upcoming = FALSE
      <3>1. subscription[s].period + 1 \in 0 .. MaxPeriod /\ subscription[s].status = "active"
        BY <2>1, Numbers DEF Periods, EndPeriod
      <3> QED
        BY <1>1, <3>1 DEF SubscriptionType
    <2>3. subscription' = [subscription EXCEPT ![s] = new] /\ Emit({"updated", "paid"}, s)
      BY <1>3 DEF EndPeriod, BaseInv, TypeOK
    <2> HIDE DEF new
    <2> QED
      BY <1>1, <2>1, <2>2, <2>3
  <1> QED
    BY <1>2, <1>3

LEMMA AskedStays == ASSUME Asked, setting' = setting PROVE Asked'
  BY DEF Asked, TierRetentionCap, HobbyDays, TeamDays, Indefinite

\* A step of Stripe changes a subscription and tells of it.
LEMMA StripeBase ==
  ASSUME BaseInv, NEW s \in Subscriptions, Stripe(s)
  PROVE  BaseInv'
  <1>1. PICK new \in SubscriptionType, kinds \in SUBSET Kinds :
           /\ subscription' = [subscription EXCEPT ![s] = new] /\ Emit(kinds, s)
           /\ new.status # "none" /\ new.period \in Periods
    <2>1. CASE CompleteCheckout(s)
      <3>1. {"checkout", "created", "paid"} \subseteq Kinds /\ Emit({"checkout", "created", "paid"}, s)
        BY <2>1 DEF CompleteCheckout, Kinds, PlanEvents
      <3> QED
        BY <2>1, <3>1, CompleteCheckoutEffect
    <2>2. CASE CancelNow(s)
      <3>1. {"deleted"} \subseteq Kinds /\ Emit({"deleted"}, s)
        BY <2>2 DEF CancelNow, Kinds
      <3> QED
        BY <2>2, <3>1, CancelNowEffect
    <2>3. CASE AnnounceInvoice(s)
      <3>1. {"upcoming"} \subseteq Kinds /\ Emit({"upcoming"}, s)
        BY <2>3 DEF AnnounceInvoice, Kinds
      <3> QED
        BY <2>3, <3>1, AnnounceInvoiceEffect
    <2>4. CASE EndPeriod(s)
      <3>1. {"deleted"} \subseteq Kinds /\ {"updated", "paid"} \subseteq Kinds
        BY DEF Kinds, PlanEvents
      <3> QED
        BY <2>4, <3>1, EndPeriodEffect
    <2> QED
      BY <2>1, <2>2, <2>3, <2>4 DEF Stripe
  <1>2. \A t \in Subscriptions : t < s => t \in Opened
    BY DEF Stripe, CompleteCheckout, CancelNow, AnnounceInvoice, EndPeriod, BaseInv, Books, Opened
  <1>3. delivered' = delivered \/ (delivered' = {} /\ Quiet)
    BY DEF Stripe, CompleteCheckout, CancelNow, AnnounceInvoice, EndPeriod
  <1>4. UNCHANGED <<row, worker, setting, analyses, items, history>>
    BY DEF Stripe, CompleteCheckout, CancelNow, AnnounceInvoice, EndPeriod
  <1>5. checkouts' \in Nat
    BY DEF Stripe, CompleteCheckout, CancelNow, AnnounceInvoice, EndPeriod, BaseInv, TypeOK
  <1>6. /\ subscription' \in [Subscriptions -> SubscriptionType]
        /\ pending' \subseteq EventType /\ delivered' \subseteq EventType /\ Books'
    BY <1>1, <1>2, <1>3, SubscriptionEffect
  <1>7. TypeOK'
    BY <1>4, <1>5, <1>6 DEF BaseInv, TypeOK, history
  <1>8. \A w \in Workers : Proper(worker'[w], delivered')
    BY <1>3, <1>4 DEF BaseInv, Proper, Quiet
  <1>9. Asked'
    BY <1>4, AskedStays DEF BaseInv
  <1> QED
    BY <1>6, <1>7, <1>8, <1>9 DEF BaseInv

\* Outcomes leave the count of the errors in its bounds, and show in it.
LEMMA CountErrorEffect ==
  ASSUME TypeOK, NEW ok \in Outcomes, CountError(ok)
  PROVE  errors' \in 0 .. MaxErrors /\ errors <= errors' /\ (errors' = 0 => ok /\ errors = 0)
  <1>1. errors \in 0 .. MaxErrors /\ MaxErrors \in Nat /\ errors' = IF ok THEN errors ELSE errors + 1
    BY Numbers DEF TypeOK, CountError
  <1>2. CASE errors < MaxErrors
    <2>1. ok \in BOOLEAN
      BY <1>2 DEF Outcomes
    <2> QED
      BY <1>1, <1>2, <2>1
  <1>3. CASE ~(errors < MaxErrors)
    BY <1>1, <1>3 DEF Outcomes
  <1> QED
    BY <1>2, <1>3

\* What holds the record of each step.
LEMMA HeldTypes ==
  ASSUME BaseInv, NEW w \in Workers
  PROVE  /\ worker[w] \in WorkerType
         /\ worker[w].pc # "idle" => worker[w].event \in EventType
         /\ worker[w].pc \in {"refresh", "downgrade", "reset", "execution", "analysis"} =>
              /\ worker[w] \in [pc : {"refresh", "downgrade", "reset", "execution", "analysis"},
                                event : EventType, tier : {"hobby", "team"},
                                owed : [execution : Nat, analysis : Nat]]
  BY DEF BaseInv, TypeOK, WorkerType, Idle, PlanEvents

LEMMA WebhookStays ==
  ASSUME BaseInv, NEW w \in Workers, NEW step \in WorkerType, Goto(w, step), Proper(step, delivered'),
         pending' \subseteq pending, delivered \subseteq delivered', delivered' \subseteq Events,
         row' \in RowType, items' \subseteq ItemType, IsFiniteSet(items'),
         UNCHANGED <<setting, analyses, checkouts, subscription, executions>>,
         redeliveries' \in Nat, errors' \in 0 .. MaxErrors, {reordered', loose'} \subseteq BOOLEAN
  PROVE  BaseInv'
  <1>1. worker' \in [Workers -> WorkerType] /\ \A v \in Workers : Proper(worker'[v], delivered')
    BY GotoEffect
  <1>2. Events' \subseteq Events
    BY DEF Events
  <1>3. Books'
    BY <1>2, BooksStay DEF BaseInv
  <1>4. TypeOK'
    BY <1>1, <1>2 DEF BaseInv, TypeOK, Events
  <1>5. Asked'
    BY AskedStays DEF BaseInv
  <1> QED
    BY <1>1, <1>3, <1>4, <1>5 DEF BaseInv

\* A step that leaves everything but the row, the handler and the errors.
LEMMA RowStepStays ==
  ASSUME BaseInv, NEW w \in Workers, NEW step \in WorkerType, Goto(w, step), Proper(step, delivered),
         NEW ok \in Outcomes, CountError(ok), row' \in RowType, loose' \in BOOLEAN,
         UNCHANGED <<setting, analyses, stripe, pending, delivered, executions, redeliveries, reordered>>
  PROVE  BaseInv'
  <1>1. errors' \in 0 .. MaxErrors
    BY CountErrorEffect DEF BaseInv
  <1>2. Proper(step, delivered')
    BY DEF Proper
  <1> QED
    BY <1>1, <1>2, WebhookStays DEF BaseInv, TypeOK, stripe, Events

LEMMA DeliverStep ==
  ASSUME BaseInv, NEW w \in Workers, NEW e \in pending \union delivered, Deliver(w, e)
  PROVE  LET step == [pc |-> e.kind, event |-> e] IN
         /\ e \in EventType /\ e.kind \in Kinds /\ step \in WorkerType
         /\ Goto(w, step) /\ Proper(step, delivered')
  <1>1. e \in EventType /\ e \in delivered'
    BY DEF BaseInv, TypeOK, Deliver
  <1>2. e.kind \in Kinds
    BY <1>1 DEF EventType, Kinds
  <1>3. [pc |-> e.kind, event |-> e] \in WorkerType
    BY <1>1, <1>2 DEF WorkerType, Kinds
  <1>4. Proper([pc |-> e.kind, event |-> e], delivered')
    BY <1>1, <1>2 DEF Proper, Kinds, PlanEvents
  <1> QED
    BY <1>1, <1>2, <1>3, <1>4 DEF Deliver

LEMMA DeliverBase ==
  ASSUME BaseInv, NEW w \in Workers, NEW e \in pending \union delivered, Deliver(w, e)
  PROVE  BaseInv'
  <1> DEFINE step == [pc |-> e.kind, event |-> e]
  <1>1. step \in WorkerType /\ Goto(w, step) /\ Proper(step, delivered')
    BY DeliverStep
  <1>2. /\ pending' \subseteq pending /\ delivered \subseteq delivered' /\ delivered' \subseteq Events
        /\ UNCHANGED <<row, setting, analyses, checkouts, subscription, items, executions, errors, loose>>
        /\ redeliveries' \in Nat /\ reordered' \in BOOLEAN
    BY DEF Deliver, Events, stripe, BaseInv, TypeOK
  <1> HIDE DEF step
  <1> QED
    BY <1>1, <1>2, WebhookStays DEF BaseInv, TypeOK

\* The row that a plan, or a period, is written into.
LEMMA RowTypes ==
  ASSUME TypeOK, NEW tier \in {"hobby", "team"}, NEW customer \in 0 .. MaxSubscriptions,
         NEW sub \in 0 .. MaxSubscriptions, NEW start \in 0 .. MaxPeriod,
         NEW days \in {HobbyDays, TeamDays, Indefinite}
  PROVE  /\ UpdateProjectBilling(row, tier, customer, sub, start) \in RowType
         /\ ResetExecutionsThisPeriod(row, start) \in RowType
         /\ [row EXCEPT !.retention = days] \in RowType
         /\ [row EXCEPT !.executions = @ + 1] \in RowType
  <1>1. row \in RowType
    BY DEF TypeOK
  <1>2. UpdateProjectBilling(row, tier, customer, sub, start) \in RowType
    BY <1>1 DEF RowType, UpdateProjectBilling
  <1>3. ResetExecutionsThisPeriod(row, start) \in RowType
    BY <1>1 DEF RowType, ResetExecutionsThisPeriod
  <1>4. [row EXCEPT !.retention = days] \in RowType
    BY <1>1 DEF RowType
  <1>5. [row EXCEPT !.executions = @ + 1] \in RowType
    <2>1. row.executions + 1 \in Nat
      BY <1>1 DEF RowType
    <2> QED
      BY <1>1, <2>1 DEF RowType
  <1> QED
    BY <1>2, <1>3, <1>4, <1>5

\* The numbers of an event are numbers of a subscription and of a period.
LEMMA EventNumbers ==
  ASSUME NEW e \in EventType
  PROVE  /\ e.subscription \in 0 .. MaxSubscriptions /\ e.subscription # NULL
         /\ e.period \in 0 .. MaxPeriod /\ e.period # NULL
         /\ NULL \in 0 .. MaxSubscriptions /\ NULL \in 0 .. MaxPeriod
  BY Numbers DEF EventType, Subscriptions, Periods, NULL

LEMMA CheckoutBase ==
  ASSUME BaseInv, NEW w \in Workers, HandleCheckoutCompleted(w)
  PROVE  BaseInv'
  <1> DEFINE s == worker[w].event.subscription
  <1>1. worker[w].event \in EventType
    BY HeldTypes DEF HandleCheckoutCompleted, At
  <1>2. PICK ok \in Outcomes :
           /\ row' = IF ok THEN UpdateProjectBilling(row, "team", s, s, NULL) ELSE row
           /\ CountError(ok)
    BY DEF HandleCheckoutCompleted
  <1>3. UpdateProjectBilling(row, "team", s, s, NULL) \in RowType
    BY <1>1, EventNumbers, RowTypes DEF BaseInv
  <1>4. row' \in RowType
    BY <1>2, <1>3 DEF BaseInv, TypeOK
  <1> QED
    BY <1>2, <1>4, IdleIsProper, RowStepStays DEF HandleCheckoutCompleted, BaseInv, TypeOK

\* Where the lookup leads, and what it takes along.
Held(w) ==
    LET e == worker[w].event IN
    [pc |-> IF e.kind \in PlanEvents THEN "refresh"
            ELSE IF e.kind = "deleted" THEN "downgrade"
            ELSE IF e.kind = "paid" THEN "reset" ELSE "execution",
     event |-> e, tier |-> row.tier, owed |-> Overage(row)]

LEMMA LookupStep ==
  ASSUME BaseInv, NEW w \in Workers, GetProjectByStripeCustomerID(w)
  PROVE  /\ Held(w) \in WorkerType /\ Proper(Held(w), delivered)
         /\ worker[w].event.kind = worker[w].pc
         /\ \E ok \in Outcomes :
              /\ Goto(w, IF ok /\ row.customer = worker[w].event.subscription
                           /\ (worker[w].event.kind = "upcoming" => row.tier = "team")
                         THEN Held(w) ELSE Idle)
              /\ CountError(ok)
  <1>1. /\ worker[w].pc \in {"created", "updated", "deleted", "upcoming", "paid"}
        /\ worker[w].event \in EventType
    BY HeldTypes DEF GetProjectByStripeCustomerID
  <1>2. worker[w].event \in delivered /\ worker[w].event.kind = worker[w].pc
    BY <1>1 DEF BaseInv, Proper, Kinds, PlanEvents
  <1>3. row.tier \in {"hobby", "team"} /\ Overage(row) \in [execution : Nat, analysis : Nat]
    BY OverageType DEF BaseInv, TypeOK, RowType
  <1>4. Held(w) \in WorkerType
    BY <1>1, <1>3 DEF Held, WorkerType
  <1>5. Proper(Held(w), delivered)
    BY <1>1, <1>2 DEF Held, Proper, Kinds, PlanEvents
  <1> QED
    BY <1>2, <1>4, <1>5 DEF GetProjectByStripeCustomerID, Held

LEMMA LookupBase ==
  ASSUME BaseInv, NEW w \in Workers, GetProjectByStripeCustomerID(w)
  PROVE  BaseInv'
  <1>1. PICK ok \in Outcomes, step \in {Held(w), Idle} : Goto(w, step) /\ CountError(ok)
    BY LookupStep
  <1>2. step \in WorkerType /\ Proper(step, delivered)
    BY LookupStep, IdleIsProper
  <1> QED
    BY <1>1, <1>2, RowStepStays DEF GetProjectByStripeCustomerID, BaseInv, TypeOK

LEMMA RefreshBase ==
  ASSUME BaseInv, NEW w \in Workers, HandleSubscriptionUpdated(w)
  PROVE  BaseInv'
  <1> DEFINE e == worker[w].event
  <1>1. e \in EventType
    BY HeldTypes DEF HandleSubscriptionUpdated, At
  <1>2. PICK ok \in Outcomes :
           /\ row' = IF ok THEN UpdateProjectBilling(row, "team", e.subscription, e.subscription, e.period)
                           ELSE row
           /\ CountError(ok)
    BY DEF HandleSubscriptionUpdated
  <1>3. UpdateProjectBilling(row, "team", e.subscription, e.subscription, e.period) \in RowType
    BY <1>1, EventNumbers, RowTypes DEF BaseInv
  <1>4. row' \in RowType
    BY <1>2, <1>3 DEF BaseInv, TypeOK
  <1> QED
    BY <1>2, <1>4, IdleIsProper, RowStepStays DEF HandleSubscriptionUpdated, BaseInv, TypeOK

LEMMA DowngradeBase ==
  ASSUME BaseInv, NEW w \in Workers, HandleSubscriptionDeleted(w)
  PROVE  BaseInv'
  <1> DEFINE e == worker[w].event
             held == [pc |-> "cascade", event |-> e]
  <1>1. e \in EventType /\ e \in delivered /\ e.kind = "deleted"
    BY HeldTypes DEF HandleSubscriptionDeleted, At, BaseInv, Proper
  <1>2. PICK ok \in Outcomes :
           /\ row' = IF ok THEN UpdateProjectBilling(row, "hobby", e.subscription, NULL, NULL) ELSE row
           /\ Goto(w, IF ok /\ IsTierDowngrade(worker[w].tier, "hobby") THEN held ELSE Idle)
           /\ CountError(ok)
    BY DEF HandleSubscriptionDeleted
  <1>3. UpdateProjectBilling(row, "hobby", e.subscription, NULL, NULL) \in RowType
    BY <1>1, EventNumbers, RowTypes DEF BaseInv
  <1>4. row' \in RowType
    BY <1>2, <1>3 DEF BaseInv, TypeOK
  <1>5. PICK step \in {held, Idle} : Goto(w, step)
    BY <1>2
  <1>6. held \in WorkerType /\ Proper(held, delivered)
    BY <1>1 DEF WorkerType, Proper, Kinds, PlanEvents
  <1>7. step \in WorkerType /\ Proper(step, delivered)
    BY <1>5, <1>6, IdleIsProper
  <1> QED
    BY <1>2, <1>4, <1>5, <1>7, RowStepStays DEF HandleSubscriptionDeleted, BaseInv, TypeOK

LEMMA CascadeBase ==
  ASSUME BaseInv, NEW w \in Workers, ReadRetention(w)
  PROVE  BaseInv'
  <1> DEFINE e == worker[w].event
             held == [pc |-> "clamp", event |-> e]
  <1>1. e \in EventType /\ e \in delivered /\ e.kind = "deleted"
    BY HeldTypes DEF ReadRetention, At, BaseInv, Proper
  <1>2. PICK ok \in Outcomes, step \in {held, Idle} : Goto(w, step) /\ CountError(ok)
    BY DEF ReadRetention
  <1>3. held \in WorkerType /\ Proper(held, delivered)
    BY <1>1 DEF WorkerType, Proper, Kinds, PlanEvents
  <1>4. step \in WorkerType /\ Proper(step, delivered)
    BY <1>2, <1>3, IdleIsProper
  <1> QED
    BY <1>2, <1>4, RowStepStays DEF ReadRetention, BaseInv, TypeOK

LEMMA ClampBase ==
  ASSUME BaseInv, NEW w \in Workers, ClampRetentionForTier(w)
  PROVE  BaseInv'
  <1>1. PICK ok \in Outcomes :
           /\ row' = IF ok THEN [row EXCEPT !.retention = TierRetentionCap("hobby")] ELSE row
           /\ loose' = (loose /\ ~ok)
           /\ CountError(ok)
    BY DEF ClampRetentionForTier
  <1>2. TierRetentionCap("hobby") \in {HobbyDays, TeamDays, Indefinite}
    BY DEF TierRetentionCap
  <1>3. [row EXCEPT !.retention = TierRetentionCap("hobby")] \in RowType
    BY <1>2 DEF BaseInv, TypeOK, RowType
  <1>4. row' \in RowType /\ loose' \in BOOLEAN
    BY <1>1, <1>3 DEF BaseInv, TypeOK
  <1> QED
    BY <1>1, <1>4, IdleIsProper, RowStepStays DEF ClampRetentionForTier

LEMMA PaidBase ==
  ASSUME BaseInv, NEW w \in Workers, HandleInvoicePaid(w)
  PROVE  BaseInv'
  <1> DEFINE e == worker[w].event
  <1>1. e \in EventType
    BY HeldTypes DEF HandleInvoicePaid, At
  <1>2. PICK ok \in Outcomes :
           /\ row' = IF ok THEN ResetExecutionsThisPeriod(row, e.period) ELSE row
           /\ CountError(ok)
    BY DEF HandleInvoicePaid
  <1>3. ResetExecutionsThisPeriod(row, e.period) \in RowType
    BY <1>1, EventNumbers DEF BaseInv, TypeOK, RowType, ResetExecutionsThisPeriod
  <1>4. row' \in RowType
    BY <1>2, <1>3 DEF BaseInv, TypeOK
  <1> QED
    BY <1>2, <1>4, IdleIsProper, RowStepStays DEF HandleInvoicePaid, BaseInv, TypeOK

\* What pushing an item does to the items.
LEMMA PushEffect ==
  ASSUME BaseInv, NEW w \in Workers, HandleInvoiceUpcoming(w)
  PROVE  LET t == worker[w]
             new == [event |-> t.event, kind |-> t.pc, amount |-> t.owed[t.pc]] IN
         /\ t.event \in EventType /\ t.pc \in {"execution", "analysis"} /\ t.owed[t.pc] \in Nat
         /\ t.owed \in [execution : Nat, analysis : Nat] /\ t.event \in delivered
         /\ t.event.kind = "upcoming"
         /\ items' \subseteq ItemType /\ IsFiniteSet(items')
         /\ \/ items' = items
            \/ items' = items \union {new} /\ t.owed[t.pc] > 0 /\ ~ItemOf(t.event, t.pc)
  <1> DEFINE t == worker[w]
             new == [event |-> t.event, kind |-> t.pc, amount |-> t.owed[t.pc]]
  <1>1. t.pc \in {"execution", "analysis"}
    BY DEF HandleInvoiceUpcoming
  <1>2. t.event \in EventType /\ t.owed \in [execution : Nat, analysis : Nat]
        /\ t.event \in delivered /\ t.event.kind = "upcoming"
    BY <1>1, HeldTypes DEF BaseInv, Proper
  <1>3. t.owed[t.pc] \in Nat
    BY <1>1, <1>2
  <1>4. items' = items \/ PushItem(t.event, t.pc, t.owed[t.pc])
    BY DEF HandleInvoiceUpcoming
  <1>5. \/ items' = items
        \/ items' = items \union {new} /\ t.owed[t.pc] > 0 /\ ~ItemOf(t.event, t.pc)
    BY <1>3, <1>4 DEF PushItem
  <1>6. CASE items' = items
    BY <1>1, <1>2, <1>3, <1>6 DEF BaseInv, TypeOK
  <1>7. CASE items' = items \union {new} /\ t.owed[t.pc] > 0 /\ ~ItemOf(t.event, t.pc)
    <2>1. new \in ItemType
      BY <1>1, <1>2, <1>3, <1>7 DEF ItemType
    <2>2. IsFiniteSet(items')
      BY <1>7, FS_AddElement DEF BaseInv, TypeOK
    <2> QED
      BY <1>1, <1>2, <1>3, <1>7, <2>1, <2>2 DEF BaseInv, TypeOK
  <1> QED
    BY <1>5, <1>6, <1>7

LEMMA UpcomingBase ==
  ASSUME BaseInv, NEW w \in Workers, HandleInvoiceUpcoming(w)
  PROVE  BaseInv'
  <1> DEFINE t == worker[w]
             next == [t EXCEPT !.pc = "analysis"]
  <1>1. items' \subseteq ItemType /\ IsFiniteSet(items') /\ t.pc \in {"execution", "analysis"}
        /\ t.event \in delivered /\ t.event.kind = "upcoming"
    BY PushEffect
  <1>2. PICK ok \in Outcomes, step \in {next, Idle} : Goto(w, step) /\ CountError(ok)
    BY DEF HandleInvoiceUpcoming
  <1>3. next \in WorkerType /\ Proper(next, delivered)
    <2>1. t \in [pc : {"refresh", "downgrade", "reset", "execution", "analysis"},
                 event : EventType, tier : {"hobby", "team"}, owed : [execution : Nat, analysis : Nat]]
      BY <1>1, HeldTypes
    <2> QED
      BY <1>1, <2>1 DEF WorkerType, Proper, Kinds, PlanEvents
  <1>4. step \in WorkerType /\ Proper(step, delivered')
    BY <1>2, <1>3, IdleIsProper DEF HandleInvoiceUpcoming
  <1>5. errors' \in 0 .. MaxErrors
    BY <1>2, CountErrorEffect DEF BaseInv
  <1> HIDE DEF t, next
  <1> QED
    BY <1>1, <1>2, <1>4, <1>5, WebhookStays DEF HandleInvoiceUpcoming, BaseInv, TypeOK, Events

LEMMA WebhookBase ==
  ASSUME BaseInv, NEW w \in Workers, Webhook(w)
  PROVE  BaseInv'
  BY DeliverBase, CheckoutBase, LookupBase, RefreshBase, DowngradeBase, CascadeBase, ClampBase, PaidBase,
     UpcomingBase DEF Webhook

LEMMA CustomerBase ==
  ASSUME BaseInv, Customer
  PROVE  BaseInv'
  <1>1. ASSUME UNCHANGED <<worker, delivered, errors, reordered, redeliveries>>,
               row' \in RowType, setting' \in SettingType, Asked', analyses' \in [0 .. MaxPeriod -> Nat],
               checkouts' \in Nat, executions' \in Nat, loose' \in BOOLEAN, items' = items,
               subscription' \in [Subscriptions -> SubscriptionType], pending' \subseteq EventType, Books'
        PROVE  BaseInv'
    <2>1. TypeOK'
      BY <1>1 DEF BaseInv, TypeOK
    <2>2. \A w \in Workers : Proper(worker'[w], delivered')
      BY <1>1 DEF BaseInv, Proper
    <2> QED
      BY <1>1, <2>1, <2>2 DEF BaseInv
  <1>2. setting' = setting => Asked'
    BY AskedStays DEF BaseInv
  <1>3. UNCHANGED <<subscription, pending, delivered>> => Books'
    BY BooksStay DEF BaseInv, Events
  <1>4. CASE HandleCreateCheckout
    <2>1. checkouts' \in Nat
      BY <1>4 DEF HandleCreateCheckout, BaseInv, TypeOK
    <2> QED
      BY <1>1, <1>2, <1>3, <1>4, <2>1 DEF HandleCreateCheckout, BaseInv, TypeOK, history
  <1>5. CASE HandleDowngradeToHobby
    <2> DEFINE s == row.subscription
               new == [subscription[s] EXCEPT !.cancel = TRUE]
    <2>1. s \in Subscriptions /\ subscription[s] \in SubscriptionType /\ subscription[s].status = "active"
      BY <1>5, Numbers DEF HandleDowngradeToHobby, BaseInv, TypeOK, RowType, Subscriptions, NULL
    <2>2. s \in Opened
      BY <2>1 DEF Opened
    <2>3. new \in SubscriptionType /\ new.status = "active" /\ new.period = subscription[s].period
      BY <2>1 DEF SubscriptionType
    <2>4. new.period \in Periods /\ \A t \in Subscriptions : t < s => t \in Opened
      BY <2>1, <2>2, <2>3 DEF BaseInv, Books
    <2>5. subscription' = [subscription EXCEPT ![s] = new] /\ Emit({"updated"}, s)
      BY <1>5 DEF HandleDowngradeToHobby, BaseInv, TypeOK
    <2>6. {"updated"} \subseteq Kinds /\ delivered' \subseteq delivered
      BY <1>5 DEF Kinds, PlanEvents, HandleDowngradeToHobby
    <2> HIDE DEF new, s
    <2>7. subscription' \in [Subscriptions -> SubscriptionType] /\ pending' \subseteq EventType /\ Books'
      BY <2>1, <2>3, <2>4, <2>5, <2>6, SubscriptionEffect
    <2> QED
      BY <1>1, <1>2, <1>5, <2>7 DEF HandleDowngradeToHobby, BaseInv, TypeOK, history
  <1>6. CASE \E days \in Windows : HandleSetRetention(days)
    <2>1. PICK days \in Windows : HandleSetRetention(days)
      BY <1>6
    <2>2. setting' \in SettingType
      BY <2>1 DEF HandleSetRetention, SettingType, BaseInv, TypeOK, RowType
    <2>3. Asked'
      BY <2>1 DEF HandleSetRetention, Asked, TierRetentionCap, HobbyDays, TeamDays, Indefinite
    <2> QED
      BY <1>1, <1>3, <2>1, <2>2, <2>3 DEF HandleSetRetention, BaseInv, TypeOK, history, stripe
  <1>7. CASE SetProjectRetentionDays
    <2>1. setting.days \in Windows
      BY <1>7 DEF SetProjectRetentionDays, BaseInv, TypeOK, SettingType, Idle
    <2>2. row' \in RowType
      <3>1. setting.days \in {HobbyDays, TeamDays, Indefinite}
        <4>1. setting.days \in 1 .. 3
          BY <2>1, Numbers
        <4>2. setting.days = 1 \/ setting.days = 2 \/ setting.days = 3
          BY <4>1
        <4> QED
          BY <4>2 DEF HobbyDays, TeamDays, Indefinite
      <3> QED
        BY <1>7, <3>1 DEF SetProjectRetentionDays, BaseInv, TypeOK, RowType
    <2>3. setting' \in SettingType /\ Asked'
      BY <1>7 DEF SetProjectRetentionDays, SettingType, Asked, Idle
    <2>4. loose' \in BOOLEAN
      BY <1>7 DEF SetProjectRetentionDays
    <2> QED
      BY <1>1, <1>3, <1>7, <2>2, <2>3, <2>4 DEF SetProjectRetentionDays, BaseInv, TypeOK, stripe
  <1>8. CASE IncrementExecutionsThisPeriod
    <2>1. row' \in RowType /\ executions' \in Nat
      BY <1>8 DEF IncrementExecutionsThisPeriod, BaseInv, TypeOK, RowType
    <2> QED
      BY <1>1, <1>2, <1>3, <1>8, <2>1 DEF IncrementExecutionsThisPeriod, BaseInv, TypeOK, stripe
  <1>9. CASE SaveFailureGroupAnalysis
    <2>1. analyses' \in [0 .. MaxPeriod -> Nat]
      BY <1>9, MonthType DEF SaveFailureGroupAnalysis, BaseInv, TypeOK
    <2> QED
      BY <1>1, <1>2, <1>3, <1>9, <2>1 DEF SaveFailureGroupAnalysis, BaseInv, TypeOK, stripe, history
  <1> QED
    BY <1>4, <1>5, <1>6, <1>7, <1>8, <1>9 DEF Customer

LEMMA NextBase == ASSUME BaseInv, [Next]_vars PROVE BaseInv'
  <1>1. CASE Next
    BY <1>1, StripeBase, WebhookBase, CustomerBase DEF Next
  <1>2. CASE UNCHANGED vars
    <2>1. TypeOK'
      BY <1>2 DEF BaseInv, TypeOK, vars, stripe, history
    <2>2. \A w \in Workers : Proper(worker'[w], delivered')
      BY <1>2 DEF BaseInv, Proper, vars
    <2>3. Books'
      BY <1>2, BooksStay DEF BaseInv, Events, vars, stripe
    <2>4. Asked'
      BY <1>2, AskedStays DEF BaseInv, vars
    <2> QED
      BY <2>1, <2>2, <2>3, <2>4 DEF BaseInv
  <1> QED
    BY <1>1, <1>2

\* The row, the handlers, Stripe's books and the histories are always of their types.
THEOREM PlanTypes == Spec => []TypeOK
  <1>1. BaseInv => TypeOK
    BY DEF BaseInv
  <1> QED
    BY InitBase, NextBase, <1>1, PTL DEF Spec

-----------------------------------------------------------------------------
(* The window.                                                             *)

\* What the retention invariant adds, of a row, a handler and a window.
Lowering ==
    \A w \in Workers : /\ At(w, "downgrade") => worker[w].tier = row.tier
                       /\ worker[w].pc \in {"cascade", "clamp"} => row.tier = "hobby"
Bounded == errors = 0 /\ ~loose => row.retention <= TeamDays

LEMMA RetentionParts == RetentionInv <=> BaseInv /\ Lowering /\ Bounded /\ RetentionFitsTier
  BY DEF RetentionInv, Lowering, Bounded

LEMMA RetentionNumbers ==
  ASSUME BaseInv
  PROVE  /\ row.retention \in Nat /\ row.tier \in {"hobby", "team"}
         /\ \A tier : TierRetentionCap(tier) \in Nat /\ TierRetentionCap(tier) <= TeamDays
         /\ TierRetentionCap("hobby") = HobbyDays /\ TierRetentionCap("team") = TeamDays
         /\ \A tier : TierRetentionCap(tier) >= HobbyDays
         /\ TeamDays \in Nat /\ HobbyDays \in Nat /\ errors \in Nat
  BY DEF BaseInv, TypeOK, RowType, HobbyDays, TeamDays, Indefinite, TierRetentionCap

\* Whatever leaves the row and the handlers alone leaves the window fitting.
LEMMA RetentionStays ==
  ASSUME RetentionInv, BaseInv', row' = row, worker' = worker, errors' = errors, loose' = loose
  PROVE  RetentionInv'
  <1>1. Lowering'
    BY RetentionParts DEF Lowering, At
  <1>2. Bounded'
    BY RetentionParts DEF Bounded, TeamDays
  <1>3. RetentionFitsTier'
    BY RetentionParts DEF RetentionFitsTier, TierRetentionCap, HobbyDays, TeamDays
  <1> QED
    BY <1>1, <1>2, <1>3 DEF RetentionInv, Lowering, Bounded

\* A handler that writes no row takes another step, not past a clamp.
LEMMA RetentionStepsOn ==
  ASSUME OneAtATime, RetentionInv, BaseInv', NEW w \in Workers, NEW step \in WorkerType, Goto(w, step),
         row' = row, loose' = loose, errors' = 0 => errors = 0,
         worker[w].pc \notin {"cascade", "clamp"}, step.pc \notin {"cascade", "clamp"},
         step.pc = "downgrade" => step.tier = row.tier
  PROVE  RetentionInv'
  <1>1. worker'[w] = step /\ \A v \in Workers : v = w
    BY DEF Goto, RetentionInv, BaseInv, TypeOK, OneAtATime
  <1>2. Lowering'
    BY <1>1 DEF Lowering, At
  <1>3. Bounded'
    BY RetentionParts DEF Bounded, TeamDays
  <1>4. RetentionFitsTier'
    BY <1>1, RetentionParts DEF RetentionFitsTier, TierRetentionCap, HobbyDays, TeamDays
  <1> QED
    BY <1>2, <1>3, <1>4 DEF RetentionInv, Lowering, Bounded

\* A plan written by a handler that is done: the window fits it.
LEMMA RetentionSettles ==
  ASSUME OneAtATime, RetentionInv, BaseInv', NEW w \in Workers, NEW step \in WorkerType, Goto(w, step),
         step.pc # "downgrade",
         step.pc \in {"cascade", "clamp"} => row'.tier = "hobby",
         errors' = 0 /\ ~loose' => /\ row'.retention <= TeamDays
                                   /\ \/ step.pc \in {"cascade", "clamp"}
                                      \/ row'.retention <= TierRetentionCap(row'.tier)
  PROVE  RetentionInv'
  <1>1. worker'[w] = step /\ \A v \in Workers : v = w
    BY DEF Goto, RetentionInv, BaseInv, TypeOK, OneAtATime
  <1>2. Lowering'
    BY <1>1 DEF Lowering, At
  <1>3. Bounded'
    BY DEF Bounded, TeamDays
  <1>4. RetentionFitsTier'
    BY <1>1 DEF RetentionFitsTier, TierRetentionCap, HobbyDays, TeamDays
  <1> QED
    BY <1>2, <1>3, <1>4 DEF RetentionInv, Lowering, Bounded

LEMMA WebhookRetention ==
  ASSUME OneAtATime, RetentionInv, BaseInv', NEW w \in Workers, Webhook(w)
  PROVE  RetentionInv'
  <1>1. BaseInv /\ \A v \in Workers : v = w
    BY DEF RetentionInv, OneAtATime
  <1>2. row.tier \in {"hobby", "team"} /\ row \in RowType
    BY <1>1 DEF BaseInv, TypeOK, RowType
  <1>3. \A ok \in Outcomes : CountError(ok) => (errors' = 0 => ok /\ errors = 0)
    BY <1>1, CountErrorEffect DEF BaseInv
  <1>4. CASE \E e \in pending \union delivered : Deliver(w, e)
    <2>1. PICK e \in pending \union delivered : Deliver(w, e)
      BY <1>4
    <2> DEFINE step == [pc |-> e.kind, event |-> e]
    <2>2. step \in WorkerType /\ Goto(w, step) /\ e.kind \in Kinds
      BY <1>1, <2>1, DeliverStep
    <2>3. step.pc \notin {"cascade", "clamp", "downgrade"}
      BY <2>2 DEF Kinds, PlanEvents
    <2> HIDE DEF step
    <2> QED
      BY <2>1, <2>2, <2>3, RetentionStepsOn DEF Deliver, At
  <1>5. CASE HandleCheckoutCompleted(w)
    <2> DEFINE s == worker[w].event.subscription
    <2>1. PICK ok \in Outcomes :
             /\ row' = IF ok THEN UpdateProjectBilling(row, "team", s, s, NULL) ELSE row
             /\ CountError(ok)
      BY <1>5 DEF HandleCheckoutCompleted
    <2>2. errors' = 0 => row'.tier = "team" /\ row'.retention = row.retention
      BY <1>2, <1>3, <2>1 DEF UpdateProjectBilling, RowType
    <2>3. loose' = loose /\ Goto(w, Idle)
      BY <1>5 DEF HandleCheckoutCompleted
    <2>4. errors' = 0 /\ ~loose' => row'.retention <= TeamDays /\ row'.retention <= TierRetentionCap(row'.tier)
      BY <1>1, <1>3, <2>1, <2>2, <2>3, RetentionParts, RetentionNumbers DEF Bounded
    <2> QED
      BY <2>3, <2>4, IdleIsProper, RetentionSettles DEF Idle
  <1>6. CASE GetProjectByStripeCustomerID(w)
    <2>1. PICK ok \in Outcomes, step \in {Held(w), Idle} : Goto(w, step) /\ CountError(ok)
      BY <1>1, <1>6, LookupStep
    <2>2. step \in WorkerType
      BY <1>1, <1>6, LookupStep, IdleIsProper
    <2>3. step.pc \notin {"cascade", "clamp"} /\ (step.pc = "downgrade" => step.tier = row.tier)
      BY DEF Held, Idle
    <2> QED
      BY <1>3, <1>6, <2>1, <2>2, <2>3, RetentionStepsOn DEF GetProjectByStripeCustomerID
  <1>7. CASE HandleSubscriptionUpdated(w)
    <2> DEFINE e == worker[w].event
    <2>1. PICK ok \in Outcomes :
             /\ row' = IF ok THEN UpdateProjectBilling(row, "team", e.subscription, e.subscription, e.period)
                             ELSE row
             /\ CountError(ok)
      BY <1>7 DEF HandleSubscriptionUpdated
    <2>2. errors' = 0 => row'.tier = "team" /\ row'.retention = row.retention
      BY <1>2, <1>3, <2>1 DEF UpdateProjectBilling, RowType
    <2>3. loose' = loose /\ Goto(w, Idle)
      BY <1>7 DEF HandleSubscriptionUpdated
    <2>4. errors' = 0 /\ ~loose' => row'.retention <= TeamDays /\ row'.retention <= TierRetentionCap(row'.tier)
      BY <1>1, <1>3, <2>1, <2>2, <2>3, RetentionParts, RetentionNumbers DEF Bounded
    <2> QED
      BY <2>3, <2>4, IdleIsProper, RetentionSettles DEF Idle
  <1>8. CASE HandleSubscriptionDeleted(w)
    <2> DEFINE e == worker[w].event
               held == [pc |-> "cascade", event |-> e]
               lower == IsTierDowngrade(worker[w].tier, "hobby")
    <2>1. PICK ok \in Outcomes :
             /\ row' = IF ok THEN UpdateProjectBilling(row, "hobby", e.subscription, NULL, NULL) ELSE row
             /\ Goto(w, IF ok /\ lower THEN held ELSE Idle)
             /\ CountError(ok)
      BY <1>8 DEF HandleSubscriptionDeleted
    <2>2. e \in EventType /\ worker[w].pc = "downgrade" /\ loose' = loose
      BY <1>1, <1>8, HeldTypes DEF HandleSubscriptionDeleted, At
    <2>3. held \in WorkerType
      BY <2>2 DEF WorkerType
    <2>4. worker[w].tier = row.tier
      BY <2>2, RetentionParts DEF Lowering, At
    <2>5. ok => row'.tier = "hobby" /\ row'.retention = row.retention
      BY <1>2, <2>1 DEF UpdateProjectBilling, RowType
    <2>6. ~lower => row.tier = "hobby"
      BY <1>2, <2>4 DEF IsTierDowngrade, Rank
    <2>7. errors' = 0 /\ ~loose' => row'.retention <= TeamDays
      BY <1>1, <1>3, <2>1, <2>2, <2>5, RetentionParts, RetentionNumbers DEF Bounded
    <2>8. errors' = 0 /\ ~loose' /\ ~lower => row'.retention <= TierRetentionCap(row'.tier)
      <3>1. \A v \in Workers : worker[v].pc \notin {"cascade", "clamp"}
        BY <1>1, <2>2
      <3>2. errors = 0 /\ ~loose => row.retention <= TierRetentionCap(row.tier)
        BY <3>1, RetentionParts DEF RetentionFitsTier
      <3> QED
        BY <1>3, <2>1, <2>2, <2>5, <2>6, <3>2
    <2> DEFINE step == IF ok /\ lower THEN held ELSE Idle
    <2>9. step \in WorkerType /\ Goto(w, step) /\ step.pc # "downgrade" /\ step.pc # "clamp"
          /\ (step.pc = "cascade" => ok) /\ (ok /\ lower => step.pc = "cascade")
      BY <2>1, <2>3, IdleIsProper DEF Idle
    <2>10. errors' = 0 => ok
      BY <1>3, <2>1
    <2> HIDE DEF step, lower
    <2> QED
      BY <2>5, <2>7, <2>8, <2>9, <2>10, RetentionSettles
  <1>9. CASE ReadRetention(w)
    <2> DEFINE e == worker[w].event
               held == [pc |-> "clamp", event |-> e]
               long == row.retention > TierRetentionCap("hobby")
    <2>1. PICK ok \in Outcomes : Goto(w, IF ok /\ long THEN held ELSE Idle) /\ CountError(ok)
      BY <1>9 DEF ReadRetention
    <2>2. e \in EventType /\ worker[w].pc = "cascade" /\ loose' = loose /\ row' = row
      BY <1>1, <1>9, HeldTypes DEF ReadRetention, At
    <2>3. held \in WorkerType
      BY <2>2 DEF WorkerType
    <2>4. row.tier = "hobby"
      BY <2>2, RetentionParts DEF Lowering
    <2>5. errors' = 0 /\ ~loose' => row'.retention <= TeamDays
      BY <1>3, <2>1, <2>2, RetentionParts DEF Bounded
    <2>6. ~long => row.retention <= TierRetentionCap(row.tier)
      BY <1>1, <2>4, RetentionNumbers
    <2>7. errors' = 0 => ok
      BY <1>3, <2>1
    <2> DEFINE step == IF ok /\ long THEN held ELSE Idle
    <2>8. step \in WorkerType /\ Goto(w, step) /\ step.pc # "downgrade" /\ (ok /\ long => step.pc = "clamp")
      BY <2>1, <2>3, IdleIsProper DEF Idle
    <2> HIDE DEF step, long
    <2> QED
      BY <2>2, <2>4, <2>5, <2>6, <2>7, <2>8, RetentionSettles
  <1>10. CASE ClampRetentionForTier(w)
    <2>1. PICK ok \in Outcomes :
             /\ row' = IF ok THEN [row EXCEPT !.retention = TierRetentionCap("hobby")] ELSE row
             /\ CountError(ok)
      BY <1>10 DEF ClampRetentionForTier
    <2>2. worker[w].pc = "clamp" /\ Goto(w, Idle)
      BY <1>10 DEF ClampRetentionForTier, At
    <2>3. row.tier = "hobby"
      BY <2>2, RetentionParts DEF Lowering
    <2>4. ok => row'.tier = "hobby" /\ row'.retention = TierRetentionCap("hobby")
      BY <1>2, <2>1, <2>3 DEF RowType
    <2>5. errors' = 0 => row'.retention <= TeamDays /\ row'.retention <= TierRetentionCap(row'.tier)
      BY <1>1, <1>3, <2>1, <2>4, RetentionNumbers
    <2> QED
      BY <2>2, <2>5, IdleIsProper, RetentionSettles DEF Idle
  <1>11. CASE HandleInvoicePaid(w)
    <2>1. PICK ok \in Outcomes :
             /\ row' = IF ok THEN ResetExecutionsThisPeriod(row, worker[w].event.period) ELSE row
             /\ CountError(ok)
      BY <1>11 DEF HandleInvoicePaid
    <2>2. row'.tier = row.tier /\ row'.retention = row.retention
      BY <1>2, <2>1 DEF ResetExecutionsThisPeriod, RowType
    <2>3. worker[w].pc = "reset" /\ loose' = loose /\ Goto(w, Idle)
      BY <1>11 DEF HandleInvoicePaid, At
    <2>4. errors = 0 /\ ~loose => row.retention <= TeamDays /\ row.retention <= TierRetentionCap(row.tier)
      BY <1>1, <2>3, RetentionParts DEF Bounded, RetentionFitsTier
    <2>5. errors' = 0 /\ ~loose' => row'.retention <= TeamDays /\ row'.retention <= TierRetentionCap(row'.tier)
      BY <1>3, <2>1, <2>2, <2>3, <2>4
    <2> QED
      BY <2>3, <2>5, IdleIsProper, RetentionSettles DEF Idle
  <1>12. CASE HandleInvoiceUpcoming(w)
    <2> DEFINE next == [worker[w] EXCEPT !.pc = "analysis"]
    <2>1. PICK ok \in Outcomes, step \in {next, Idle} : Goto(w, step) /\ CountError(ok)
      BY <1>12 DEF HandleInvoiceUpcoming
    <2>2. worker[w].pc \in {"execution", "analysis"} /\ row' = row /\ loose' = loose
      BY <1>12 DEF HandleInvoiceUpcoming
    <2>3. next \in WorkerType /\ next.pc = "analysis"
      <3>1. worker[w] \in [pc : {"refresh", "downgrade", "reset", "execution", "analysis"},
                   event : EventType, tier : {"hobby", "team"}, owed : [execution : Nat, analysis : Nat]]
        BY <1>1, <2>2, HeldTypes
      <3> QED
        BY <3>1 DEF WorkerType
    <2> HIDE DEF next
    <2>4. step \in WorkerType /\ step.pc \notin {"cascade", "clamp", "downgrade"}
      <3>1. Idle.pc = "idle"
        BY DEF Idle
      <3> QED
        BY <2>1, <2>3, <3>1, IdleIsProper
    <2> QED
      BY <1>3, <2>1, <2>2, <2>4, RetentionStepsOn
  <1> QED
    BY <1>4, <1>5, <1>6, <1>7, <1>8, <1>9, <1>10, <1>11, <1>12 DEF Webhook

LEMMA RetentionStep == ASSUME OneAtATime, RetentionInv, [Next]_vars PROVE RetentionInv'
  <1>1. BaseInv /\ BaseInv'
    BY NextBase DEF RetentionInv
  <1>2. CASE \E s \in Subscriptions : Stripe(s)
    <2>1. UNCHANGED <<row, worker, errors, loose>>
      BY <1>2 DEF Stripe, CompleteCheckout, CancelNow, AnnounceInvoice, EndPeriod, history
    <2> QED
      BY <1>1, <2>1, RetentionStays
  <1>3. CASE \E w \in Workers : Webhook(w)
    BY <1>1, <1>3, WebhookRetention
  <1>4. CASE Customer
    <2>1. CASE SetProjectRetentionDays
      <3>1. row' = [row EXCEPT !.retention = setting.days] /\ row \in RowType
        BY <1>1, <2>1 DEF SetProjectRetentionDays, BaseInv, TypeOK
      <3>2. row'.tier = row.tier /\ row'.retention = setting.days
        BY <3>1 DEF RowType
      <3>3. ~loose' => setting.days <= TierRetentionCap(row.tier)
        BY <1>1, <2>1 DEF SetProjectRetentionDays, BaseInv, Asked
      <3>4. worker' = worker /\ errors' = errors
        BY <2>1 DEF SetProjectRetentionDays
      <3>5. Lowering'
        BY <3>2, <3>4, RetentionParts DEF Lowering, At
      <3>6. ~loose' => row'.retention <= TierRetentionCap(row'.tier)
        BY <3>2, <3>3
      <3>7. Bounded'
        <4>1. row'.retention \in Nat
          BY <1>1 DEF BaseInv, TypeOK, RowType, HobbyDays, TeamDays, Indefinite
        <4> QED
          BY <1>1, <3>6, <4>1, RetentionNumbers DEF Bounded, TeamDays
      <3>8. RetentionFitsTier'
        BY <3>6 DEF RetentionFitsTier, TierRetentionCap, HobbyDays, TeamDays
      <3> QED
        BY <1>1, <3>5, <3>7, <3>8 DEF RetentionInv, Lowering, Bounded
    <2>2. CASE IncrementExecutionsThisPeriod
      <3>1. row'.tier = row.tier /\ row'.retention = row.retention
        BY <1>1, <2>2 DEF IncrementExecutionsThisPeriod, BaseInv, TypeOK, RowType
      <3>2. UNCHANGED <<worker, errors, loose>>
        BY <2>2 DEF IncrementExecutionsThisPeriod
      <3>3. Lowering' /\ Bounded'
        BY <3>1, <3>2, RetentionParts DEF Lowering, Bounded, At, TeamDays
      <3>4. RetentionFitsTier'
        BY <3>1, <3>2, RetentionParts DEF RetentionFitsTier, TierRetentionCap, HobbyDays, TeamDays
      <3> QED
        BY <1>1, <3>3, <3>4 DEF RetentionInv, Lowering, Bounded
    <2>3. CASE ~(SetProjectRetentionDays \/ IncrementExecutionsThisPeriod)
      <3>1. UNCHANGED <<row, worker, errors, loose>>
        BY <1>4, <2>3
        DEF Customer, HandleCreateCheckout, HandleDowngradeToHobby, HandleSetRetention,
            SaveFailureGroupAnalysis, history
      <3> QED
        BY <1>1, <3>1, RetentionStays
    <2> QED
      BY <2>1, <2>2, <2>3
  <1>5. CASE UNCHANGED vars
    BY <1>1, <1>5, RetentionStays DEF vars, history
  <1> QED
    BY <1>2, <1>3, <1>4, <1>5 DEF Next

\* While webhooks are handled one at a time and every statement succeeds, the window
\* fits the plan whenever no clamp is under way, unless it was saved for ever or for a
\* plan gone by then: whatever the order, and the number, of the subscriptions' events.
THEOREM WindowFitsThePlan == ASSUME OneAtATime PROVE Spec => []RetentionFitsTier
  <1>1. Init => RetentionInv
    <2> SUFFICES ASSUME Init PROVE RetentionInv
      OBVIOUS
    <2>1. Lowering
      BY DEF Init, Idle, Lowering, At
    <2>2. Bounded /\ RetentionFitsTier
      BY DEF Init, Bounded, RetentionFitsTier, TierRetentionCap, HobbyDays, TeamDays
    <2> QED
      BY <2>1, <2>2, InitBase, RetentionParts
  <1>2. RetentionInv /\ [Next]_vars => RetentionInv'
    BY RetentionStep
  <1>3. RetentionInv => RetentionFitsTier
    BY RetentionParts
  <1> QED
    BY <1>1, <1>2, <1>3, PTL DEF Spec

-----------------------------------------------------------------------------
(* The tier.                                                               *)

\* A project with no more than one subscription has the first.
LEMMA OnlySubscription ==
  ASSUME BaseInv, Cardinality(Opened) <= 1
  PROVE  Opened \subseteq {1} /\ (Cardinality(Opened) = 1 => Opened = {1})
  <1>1. Opened \subseteq Subscriptions /\ IsFiniteSet(Subscriptions)
    BY Numbers, FS_Interval DEF Opened, Subscriptions
  <1>2. IsFiniteSet(Opened) /\ Cardinality(Opened) \in Nat
    BY <1>1, FS_Subset, FS_CardinalityType
  <1>3. CASE Cardinality(Opened) = 0
    BY <1>2, <1>3, FS_EmptySet
  <1>4. CASE Cardinality(Opened) = 1
    <2>1. PICK s : Opened = {s}
      BY <1>2, <1>4, FS_Singleton
    <2>2. s \in Subscriptions /\ (1 < s => 1 \in Opened)
      BY <1>1, <2>1, Numbers DEF BaseInv, Books
    <2>3. s = 1
      BY <2>1, <2>2 DEF Subscriptions
    <2> QED
      BY <2>1, <2>3
  <1> QED
    BY <1>2, <1>3, <1>4

\* Then every event is of it, and it has been opened when there is one.
LEMMA EventsOfOne ==
  ASSUME BaseInv, Opened \subseteq {1}
  PROVE  /\ \A e \in Events : e.subscription = 1 /\ 1 \in Opened
         /\ subscription[1].status = "none" <=> 1 \notin Opened
         /\ subscription[1].status \in {"none", "active", "canceled"}
  <1>1. \A e \in Events : e.subscription \in Opened
    BY DEF BaseInv, Books
  <1>2. subscription[1] \in SubscriptionType /\ 1 \in Subscriptions
    BY Numbers DEF BaseInv, TypeOK
  <1> QED
    BY <1>1, <1>2 DEF Opened, SubscriptionType

\* No more subscriptions, and no error, before than after.
LEMMA SoleBefore ==
  ASSUME BaseInv, [Next]_vars, Sole'
  PROVE  Sole
  <1>1. errors' = 0 => errors = 0
    <2>1. CASE \E w \in Workers : Webhook(w)
      <3>1. (\E ok \in Outcomes : CountError(ok)) \/ errors' = errors
        BY <2>1
        DEF Webhook, Deliver, HandleCheckoutCompleted, GetProjectByStripeCustomerID,
            HandleSubscriptionUpdated, HandleSubscriptionDeleted, ReadRetention, ClampRetentionForTier,
            HandleInvoicePaid, HandleInvoiceUpcoming
      <3> QED
        BY <3>1, CountErrorEffect DEF BaseInv
    <2>2. CASE \E s \in Subscriptions : Stripe(s)
      BY <2>2 DEF Stripe, CompleteCheckout, CancelNow, AnnounceInvoice, EndPeriod, history
    <2>3. CASE Customer
      BY <2>3
      DEF Customer, HandleCreateCheckout, HandleDowngradeToHobby, HandleSetRetention,
          SetProjectRetentionDays, IncrementExecutionsThisPeriod, SaveFailureGroupAnalysis, history
    <2>4. CASE UNCHANGED vars
      BY <2>4 DEF vars, history
    <2> QED
      BY <2>1, <2>2, <2>3, <2>4 DEF Next
  <1>2. ASSUME NEW s \in Opened PROVE s \in Opened'
    <2>1. CASE subscription' = subscription
      BY <1>2, <2>1 DEF Opened
    <2>2. CASE subscription' # subscription
      <3>1. \/ \E t \in Subscriptions : Stripe(t)
            \/ HandleDowngradeToHobby
        BY <2>2
        DEF Next, vars, stripe, Webhook, Deliver, HandleCheckoutCompleted, GetProjectByStripeCustomerID,
            HandleSubscriptionUpdated, HandleSubscriptionDeleted, ReadRetention, ClampRetentionForTier,
            HandleInvoicePaid, HandleInvoiceUpcoming,
            Customer, HandleCreateCheckout, HandleSetRetention,
            SetProjectRetentionDays, IncrementExecutionsThisPeriod, SaveFailureGroupAnalysis
      <3>2. s \in Subscriptions /\ subscription[s].status # "none"
            /\ subscription \in [Subscriptions -> SubscriptionType]
        BY <1>2 DEF Opened, BaseInv, TypeOK
      <3>3. subscription'[s].status # "none"
        <4>1. CASE HandleDowngradeToHobby
          BY <3>2, <4>1 DEF HandleDowngradeToHobby, SubscriptionType
        <4>2. CASE \E t \in Subscriptions : Stripe(t)
          <5>1. PICK t \in Subscriptions : Stripe(t)
            BY <4>2
          <5>2. \E new \in SubscriptionType : /\ new.status # "none"
                                              /\ subscription' = [subscription EXCEPT ![t] = new]
            BY <5>1, CompleteCheckoutEffect, CancelNowEffect, AnnounceInvoiceEffect, EndPeriodEffect
            DEF Stripe
          <5> QED
            BY <3>2, <5>2
        <4> QED
          BY <3>1, <4>1, <4>2
      <3> QED
        BY <3>2, <3>3 DEF Opened, Subscriptions
    <2> QED
      BY <2>1, <2>2
  <1> QED
    BY <1>1, <1>2 DEF Sole

LEMMA ReorderedBefore == ASSUME BaseInv, [Next]_vars, ~reordered' PROVE ~reordered
  BY DEF Next, vars, history, Stripe, CompleteCheckout, CancelNow, AnnounceInvoice, EndPeriod,
         Webhook, Deliver, HandleCheckoutCompleted, GetProjectByStripeCustomerID,
         HandleSubscriptionUpdated, HandleSubscriptionDeleted, ReadRetention, ClampRetentionForTier,
         HandleInvoicePaid, HandleInvoiceUpcoming, Customer, HandleCreateCheckout,
         HandleDowngradeToHobby, HandleSetRetention, SetProjectRetentionDays,
         IncrementExecutionsThisPeriod, SaveFailureGroupAnalysis

\* A handler that has nothing to do with the plan leaves the facts as they are.
LEMMA TierStepsOn ==
  ASSUME OneAtATime, BaseInv, TierFacts, NEW w \in Workers, NEW step \in WorkerType, Goto(w, step),
         row'.tier = row.tier, row'.customer = row.customer, UNCHANGED <<subscription, pending, delivered>>,
         worker[w].pc \notin {"checkout", "deleted", "downgrade"},
         step.pc \notin PlanEvents \union {"refresh"}
  PROVE  TierFacts'
  <1>1. worker'[w] = step /\ \A v \in Workers : v = w
    BY DEF Goto, BaseInv, TypeOK, OneAtATime
  <1>2. /\ Deleted(Events)' = Deleted(Events) /\ Deleted(delivered)' = Deleted(delivered)
    BY DEF Deleted, Events
  <1>3. CheckoutUnderway => CheckoutUnderway'
    BY <1>1 DEF CheckoutUnderway, At
  <1>4. Deleted(delivered)' => row'.tier # "team" /\ worker'[w].pc \notin PlanEvents \union {"refresh"}
    BY <1>1, <1>2 DEF TierFacts
  <1>5. (PlanEvents \union {"refresh"})' = PlanEvents \union {"refresh"}
    BY DEF PlanEvents
  <1> QED
    BY <1>1, <1>2, <1>3, <1>4, <1>5 DEF TierFacts

LEMMA WebhookTier ==
  ASSUME OneAtATime, BaseInv, Sole, TierFacts, NEW w \in Workers, Webhook(w), errors' = 0, ~reordered'
  PROVE  TierFacts'
  <1>1. \A v \in Workers : v = w
    BY DEF OneAtATime
  <1>2. row \in RowType /\ worker \in [Workers -> WorkerType]
    BY DEF BaseInv, TypeOK
  <1>3. \A ok \in Outcomes : CountError(ok) => ok
    BY CountErrorEffect DEF BaseInv
  <1>4. \A e \in Events : e.subscription = 1
    BY EventsOfOne DEF Sole
  <1>5. worker[w].pc # "idle" => worker[w].event \in delivered /\ worker[w].event.subscription = 1
    BY <1>4 DEF BaseInv, Proper, Events
  <1>6. (PlanEvents \union {"refresh"})' = PlanEvents \union {"refresh"}
    BY DEF PlanEvents
  <1>7. CASE \E e \in pending \union delivered : Deliver(w, e)
    <2>1. PICK e \in pending \union delivered : Deliver(w, e)
      BY <1>7
    <2> DEFINE step == [pc |-> e.kind, event |-> e]
    <2>2. worker'[w] = step /\ e.kind \in Kinds /\ worker[w].pc = "idle"
      BY <1>2, <2>1, DeliverStep DEF Goto, Deliver, At
    <2>3. UNCHANGED <<row, subscription>> /\ pending' = pending \ {e} /\ delivered' = delivered \union {e}
          /\ (e.kind \in PlanEvents =>
                ~ \E d \in delivered : d.kind = "deleted" /\ d.subscription = e.subscription)
      BY <2>1 DEF Deliver, stripe
    <2>4. Deleted(Events)' <=> Deleted(Events)
      BY <2>1, <2>3 DEF Deleted, Events
    <2>5. CheckoutUnderway => CheckoutUnderway'
      <3>1. SUFFICES ASSUME CheckoutUnderway PROVE CheckoutUnderway'
        OBVIOUS
      <3>2. PICK d \in pending : d.kind = "checkout"
        BY <1>1, <2>2, <3>1 DEF CheckoutUnderway, At
      <3>3. CASE d = e
        BY <2>2, <3>2, <3>3 DEF CheckoutUnderway, At
      <3>4. CASE d # e
        BY <2>3, <3>2, <3>4 DEF CheckoutUnderway
      <3> QED
        BY <3>3, <3>4
    <2>6. Deleted(delivered)' => Deleted(delivered) \/ e.kind = "deleted"
      BY <2>3 DEF Deleted
    <2>7. ASSUME Deleted(delivered) PROVE row.tier # "team" /\ e.kind \notin PlanEvents \union {"refresh"}
      <3>1. row.tier # "team"
        BY <1>1, <2>2, <2>7 DEF TierFacts
      <3>2. e.subscription = 1 /\ \A d \in delivered : d.subscription = 1
        BY <1>4 DEF Events
      <3>3. e.kind \notin PlanEvents
        BY <2>3, <2>7, <3>2 DEF Deleted
      <3> QED
        BY <2>2, <3>1, <3>3 DEF Kinds, PlanEvents
    <2>8. "deleted" \notin PlanEvents \union {"refresh"}
      BY DEF PlanEvents
    <2>9. worker'[w].pc = e.kind
      BY <2>2
    <2> HIDE DEF step
    <2> QED
      BY <1>1, <1>6, <2>3, <2>4, <2>5, <2>6, <2>7, <2>8, <2>9 DEF TierFacts
  <1>8. CASE HandleCheckoutCompleted(w) \/ HandleSubscriptionUpdated(w)
    <2> DEFINE e == worker[w].event
    <2>1. worker[w].pc \in {"checkout", "refresh"} /\ UNCHANGED <<subscription, pending, delivered>>
      BY <1>8 DEF HandleCheckoutCompleted, HandleSubscriptionUpdated, At, stripe
    <2>2. e.subscription = 1
      BY <1>5, <2>1
    <2>3. ~Deleted(delivered)
      BY <2>1 DEF TierFacts, PlanEvents
    <2>4. \E start : row' = UpdateProjectBilling(row, "team", 1, 1, start)
      BY <1>3, <1>8, <2>2 DEF HandleCheckoutCompleted, HandleSubscriptionUpdated
    <2>5. row'.tier = "team" /\ row'.customer = 1
      BY <1>2, <2>4 DEF UpdateProjectBilling, RowType
    <2>6. Deleted(Events)' = Deleted(Events) /\ Deleted(delivered)' = Deleted(delivered)
      BY <2>1 DEF Deleted, Events
    <2> QED
      BY <2>1, <2>3, <2>5, <2>6 DEF TierFacts
  <1>9. CASE GetProjectByStripeCustomerID(w)
    <2>1. PICK ok \in Outcomes :
             /\ Goto(w, IF ok /\ row.customer = worker[w].event.subscription
                          /\ (worker[w].event.kind = "upcoming" => row.tier = "team")
                        THEN Held(w) ELSE Idle)
             /\ CountError(ok)
      BY <1>9, LookupStep
    <2>2. /\ worker[w].pc \in {"created", "updated", "deleted", "upcoming", "paid"}
          /\ worker[w].event.kind = worker[w].pc /\ worker[w].event.subscription = 1
          /\ UNCHANGED <<row, subscription, pending, delivered>>
      BY <1>5, <1>9, LookupStep DEF GetProjectByStripeCustomerID, stripe
    <2>3. Deleted(Events)' = Deleted(Events) /\ Deleted(delivered)' = Deleted(delivered)
      BY <2>2 DEF Deleted, Events
    <2>4. CheckoutUnderway => CheckoutUnderway'
      BY <1>1, <2>2 DEF CheckoutUnderway, At
    <2>5. worker'[w] = Held(w) \/ worker'[w] = Idle
      BY <1>2, <2>1 DEF Goto
    <2>6. ASSUME Deleted(delivered) PROVE worker'[w].pc \notin PlanEvents \union {"refresh"}
      <3>1. worker[w].event.kind \notin PlanEvents
        BY <2>2, <2>6 DEF TierFacts
      <3> QED
        BY <2>5, <3>1 DEF Held, Idle, PlanEvents
    <2>7. ASSUME Deleted(delivered), row.tier = "team" PROVE worker'[w].pc = "downgrade"
      <3>1. worker[w].pc = "deleted" /\ row.customer = 1
        BY <1>1, <2>2, <2>7 DEF TierFacts
      <3>2. worker'[w] = Held(w)
        BY <1>2, <1>3, <2>1, <2>2, <3>1 DEF Goto
      <3> QED
        BY <2>2, <3>1, <3>2 DEF Held, PlanEvents
    <2> QED
      BY <1>1, <1>6, <2>2, <2>3, <2>4, <2>6, <2>7 DEF TierFacts
  <1>10. CASE HandleSubscriptionDeleted(w)
    <2> DEFINE e == worker[w].event
               held == [pc |-> "cascade", event |-> e]
    <2>1. row' = UpdateProjectBilling(row, "hobby", e.subscription, NULL, NULL)
          /\ \E step \in {held, Idle} : Goto(w, step)
      BY <1>3, <1>10 DEF HandleSubscriptionDeleted
    <2>2. row'.tier = "hobby"
      BY <1>2, <2>1 DEF UpdateProjectBilling, RowType
    <2>3. worker'[w].pc \in {"cascade", "idle"}
      BY <1>2, <2>1 DEF Goto, Idle
    <2>4. worker[w].pc = "downgrade" /\ UNCHANGED <<subscription, pending, delivered>>
      BY <1>10 DEF HandleSubscriptionDeleted, At, stripe
    <2>5. e \in delivered /\ e.kind = "deleted"
      BY <1>5, <2>4 DEF BaseInv, Proper
    <2>6. Deleted(Events) /\ subscription[1].status = "canceled"
      BY <2>5 DEF Deleted, Events, TierFacts
    <2>7. Deleted(Events)' = Deleted(Events) /\ Deleted(delivered)' = Deleted(delivered)
      BY <2>4 DEF Deleted, Events
    <2> QED
      BY <1>1, <1>6, <2>2, <2>3, <2>4, <2>6, <2>7 DEF TierFacts, PlanEvents
  <1>11. CASE \/ ReadRetention(w) \/ ClampRetentionForTier(w)
              \/ HandleInvoicePaid(w) \/ HandleInvoiceUpcoming(w)
    <2>1. worker[w].pc \in {"cascade", "clamp", "reset", "execution", "analysis"}
      BY <1>11 DEF ReadRetention, ClampRetentionForTier, HandleInvoicePaid, HandleInvoiceUpcoming, At
    <2>2. PICK step \in {[pc |-> "clamp", event |-> worker[w].event], Idle,
                         [worker[w] EXCEPT !.pc = "analysis"]} : Goto(w, step)
      BY <1>11 DEF ReadRetention, ClampRetentionForTier, HandleInvoicePaid, HandleInvoiceUpcoming
    <2>3. row'.tier = row.tier /\ row'.customer = row.customer
      BY <1>2, <1>11
      DEF ReadRetention, ClampRetentionForTier, HandleInvoicePaid, HandleInvoiceUpcoming,
          ResetExecutionsThisPeriod, RowType
    <2>4. UNCHANGED <<subscription, pending, delivered>>
      BY <1>11
      DEF ReadRetention, ClampRetentionForTier, HandleInvoicePaid, HandleInvoiceUpcoming, stripe
    <2>5. step.pc \notin PlanEvents \union {"refresh"}
      <3>1. [worker[w] EXCEPT !.pc = "analysis"].pc \in {"analysis", worker[w].pc}
        OBVIOUS
      <3>2. [pc |-> "clamp", event |-> worker[w].event].pc = "clamp" /\ Idle.pc = "idle"
        BY DEF Idle
      <3>3. step.pc \in {"clamp", "idle", "analysis", worker[w].pc}
        <4> DEFINE a == [pc |-> "clamp", event |-> worker[w].event]
                   b == [worker[w] EXCEPT !.pc = "analysis"]
        <4>1. a.pc = "clamp" /\ b.pc \in {"analysis", worker[w].pc} /\ (step = a \/ step = b \/ step = Idle)
          BY <2>2, <3>1
        <4> HIDE DEF a, b
        <4> QED
          BY <3>2, <4>1
      <3> QED
        BY <2>1, <3>3 DEF PlanEvents
    <2>6. step \in WorkerType
      <3>1. worker'[w] = step
        BY <1>2, <2>2 DEF Goto
      <3>2. worker' \in [Workers -> WorkerType]
        BY WebhookBase DEF BaseInv, TypeOK
      <3> QED
        BY <3>1, <3>2
    <2> QED
      BY <2>1, <2>2, <2>3, <2>4, <2>5, <2>6, TierStepsOn
  <1> QED
    BY <1>7, <1>8, <1>9, <1>10, <1>11 DEF Webhook

\* What Stripe does to the only subscription, and what it tells of it.
Told(kinds) ==
    /\ \A e \in pending' : e \in pending \/ (/\ e.kind \in kinds /\ e.subscription = 1
                                             /\ e.period = This' /\ e.cancel = subscription'[1].cancel)
    /\ \A k \in kinds : \E e \in pending' : e.kind = k
    /\ pending \subseteq pending'

LEMMA ToldOfOne ==
  ASSUME BaseInv, NEW kinds, kinds \subseteq Kinds, Emit(kinds, 1),
         NEW new \in SubscriptionType, subscription' = [subscription EXCEPT ![1] = new],
         new.status # "none", new.period \in Periods, delivered' \subseteq delivered
  PROVE  subscription'[1] = new /\ Told(kinds)
  <1>1. subscription'[1] = new
    BY Numbers DEF BaseInv, TypeOK
  <1>2. pending' = pending \union {Event(k, 1) : k \in kinds}
    BY DEF Emit
  <1>3. \A k \in kinds : Event(k, 1) = [kind |-> k, subscription |-> 1, period |-> new.period, cancel |-> new.cancel]
    BY <1>1 DEF Event
  <1>4. \A e \in pending' : e \in pending \/ (/\ e.kind \in kinds /\ e.subscription = 1
                                              /\ e.period = new.period /\ e.cancel = new.cancel)
    BY <1>2, <1>3
  <1>5. ASSUME NEW k \in kinds PROVE \E e \in pending' : e.kind = k
    <2>1. Event(k, 1) \in pending' /\ Event(k, 1).kind = k
      BY <1>2, <1>3
    <2> QED
      BY <2>1
  <1> QED
    BY <1>1, <1>2, <1>4, <1>5 DEF Told, This

LEMMA StripeOfOne ==
  ASSUME BaseInv, Sole, NEW s \in Subscriptions, Stripe(s), Sole'
  PROVE  s = 1 /\ Opened' = {1}
  <1>1. PICK new \in SubscriptionType : new.status # "none" /\ subscription' = [subscription EXCEPT ![s] = new]
    BY CompleteCheckoutEffect, CancelNowEffect, AnnounceInvoiceEffect, EndPeriodEffect DEF Stripe
  <1>2. subscription'[s].status # "none"
    BY <1>1 DEF BaseInv, TypeOK
  <1>3. s \in Opened'
    BY <1>2 DEF Opened, Subscriptions
  <1> QED
    BY <1>3 DEF Sole

\* The four steps of Stripe, of the only subscription.
LEMMA OpensOne ==
  ASSUME BaseInv, Sole, Sole', CompleteCheckout(1)
  PROVE  /\ subscription[1].status = "none" /\ subscription'[1].status = "active"
         /\ This = 0 /\ This' = 1 /\ ~subscription'[1].upcoming /\ Events = {}
         /\ Told({"checkout", "created", "paid"})
         /\ UNCHANGED <<row, worker, setting, analyses, delivered, items, history>>
  <1> DEFINE new == [subscription[1] EXCEPT !.status = "active", !.period = Month + 1]
  <1>1. 1 \in Subscriptions
    BY Numbers
  <1>2. /\ new \in SubscriptionType /\ new.status = "active" /\ new.period = Month + 1
        /\ new.upcoming = FALSE /\ Month + 1 \in Periods /\ 1 \notin Opened
        /\ subscription' = [subscription EXCEPT ![1] = new]
    BY <1>1, CompleteCheckoutEffect
  <1>3. Opened = {} /\ subscription[1].status = "none"
    BY <1>1, <1>2 DEF Sole, Opened
  <1>4. Month = This /\ This = 0
    BY <1>1, <1>2, MonthIsThis DEF BaseInv, Sole, Books, This, NULL
  <1>5. Events = {}
    BY <1>3 DEF BaseInv, Books
  <1>6. Emit({"checkout", "created", "paid"}, 1) /\ {"checkout", "created", "paid"} \subseteq Kinds
    BY DEF CompleteCheckout, Kinds, PlanEvents
  <1>7. UNCHANGED <<row, worker, setting, analyses, delivered, items, history>>
    BY DEF CompleteCheckout
  <1> HIDE DEF new, Month
  <1>8. new.status # "none" /\ new.period \in Periods /\ delivered' \subseteq delivered
    BY <1>2, <1>7
  <1>9. subscription'[1] = new /\ Told({"checkout", "created", "paid"})
    BY <1>1, <1>2, <1>6, <1>8, ToldOfOne, Zenon
  <1> QED
    BY <1>2, <1>3, <1>4, <1>5, <1>7, <1>9 DEF This

LEMMA CancelsOne ==
  ASSUME BaseInv, CancelNow(1)
  PROVE  /\ subscription[1].status = "active" /\ subscription'[1].status = "canceled"
         /\ This' = This /\ subscription'[1].upcoming = subscription[1].upcoming
         /\ Told({"deleted"})
         /\ UNCHANGED <<row, worker, setting, analyses, delivered, items, history>>
  <1> DEFINE new == [subscription[1] EXCEPT !.status = "canceled"]
  <1>1. 1 \in Subscriptions
    BY Numbers
  <1>2. /\ new \in SubscriptionType /\ new.status = "canceled" /\ new.period = This
        /\ new.upcoming = subscription[1].upcoming /\ new.period \in Periods
        /\ subscription' = [subscription EXCEPT ![1] = new]
    BY <1>1, CancelNowEffect DEF This
  <1>3. Emit({"deleted"}, 1) /\ {"deleted"} \subseteq Kinds /\ subscription[1].status = "active"
        /\ UNCHANGED <<row, worker, setting, analyses, delivered, items, history>>
    BY DEF CancelNow, Kinds
  <1> HIDE DEF new
  <1>4. subscription'[1] = new /\ Told({"deleted"})
    BY <1>1, <1>2, <1>3, ToldOfOne
  <1> QED
    BY <1>2, <1>3, <1>4 DEF This

LEMMA AnnouncesOne ==
  ASSUME BaseInv, AnnounceInvoice(1)
  PROVE  /\ Quiet /\ subscription[1].status = "active" /\ subscription'[1].status = "active"
         /\ This' = This /\ ~subscription[1].upcoming /\ subscription'[1].upcoming
         /\ Told({"upcoming"})
         /\ UNCHANGED <<row, worker, setting, analyses, delivered, items, history>>
  <1> DEFINE new == [subscription[1] EXCEPT !.upcoming = TRUE]
  <1>1. 1 \in Subscriptions
    BY Numbers
  <1>2. /\ new \in SubscriptionType /\ new.status = "active" /\ new.period = This
        /\ new.upcoming = TRUE /\ new.period \in Periods
        /\ subscription' = [subscription EXCEPT ![1] = new]
    BY <1>1, AnnounceInvoiceEffect DEF This
  <1>3. Emit({"upcoming"}, 1) /\ {"upcoming"} \subseteq Kinds /\ subscription[1].status = "active"
        /\ Quiet /\ ~subscription[1].upcoming
        /\ UNCHANGED <<row, worker, setting, analyses, delivered, items, history>>
    BY DEF AnnounceInvoice, Kinds
  <1> HIDE DEF new
  <1>4. subscription'[1] = new /\ Told({"upcoming"})
    BY <1>1, <1>2, <1>3, ToldOfOne
  <1> QED
    BY <1>2, <1>3, <1>4 DEF This

LEMMA EndsOne ==
  ASSUME BaseInv, EndPeriod(1)
  PROVE  /\ Quiet /\ subscription[1].status = "active" /\ subscription[1].upcoming /\ delivered' = {}
         /\ \/ /\ subscription'[1].status = "canceled" /\ Told({"deleted"}) /\ This' = This
               /\ subscription'[1].upcoming
            \/ /\ subscription'[1].status = "active" /\ Told({"updated", "paid"}) /\ This' = This + 1
               /\ ~subscription'[1].upcoming
         /\ This \in Periods
         /\ UNCHANGED <<row, worker, setting, analyses, items, history>>
  <1>1. 1 \in Subscriptions
    BY Numbers
  <1>2. PICK new \in SubscriptionType, kinds \in {{"deleted"}, {"updated", "paid"}} :
         /\ 1 \in Opened /\ new.period \in Periods
         /\ subscription' = [subscription EXCEPT ![1] = new] /\ Emit(kinds, 1)
         /\ \/ new.status = "canceled" /\ kinds = {"deleted"}
               /\ new.period = subscription[1].period /\ new.upcoming = subscription[1].upcoming
            \/ new.status = "active" /\ kinds = {"updated", "paid"}
               /\ new.period = subscription[1].period + 1 /\ ~new.upcoming
    BY <1>1, EndPeriodEffect
  <1>3. kinds \subseteq Kinds
    BY <1>2 DEF Kinds, PlanEvents
  <1>4. /\ Quiet /\ subscription[1].status = "active" /\ subscription[1].upcoming /\ delivered' = {}
        /\ UNCHANGED <<row, worker, setting, analyses, items, history>>
    BY DEF EndPeriod
  <1>5. subscription'[1] = new /\ Told(kinds)
    BY <1>1, <1>2, <1>3, <1>4, ToldOfOne
  <1>6. This \in Periods
    BY <1>1, <1>2 DEF BaseInv, Books, This
  <1> QED
    BY <1>2, <1>4, <1>5, <1>6 DEF This

LEMMA StripeTier ==
  ASSUME BaseInv, Sole, TierFacts, NEW s \in Subscriptions, Stripe(s), Sole'
  PROVE  TierFacts'
  <1>1. s = 1 /\ Opened \subseteq {1}
    BY StripeOfOne DEF Sole
  <1>2. (PlanEvents \union {"refresh"})' = PlanEvents \union {"refresh"}
    BY DEF PlanEvents
  <1>3. UNCHANGED <<row, worker>>
    BY DEF Stripe, CompleteCheckout, CancelNow, AnnounceInvoice, EndPeriod
  <1>4. pending \subseteq pending' => (CheckoutUnderway => CheckoutUnderway')
    BY <1>3 DEF CheckoutUnderway, At
  <1>5. CASE CompleteCheckout(1)
    <2>1. /\ subscription'[1].status = "active" /\ Events = {} /\ Told({"checkout", "created", "paid"})
          /\ delivered' = delivered
      BY <1>1, <1>5, OpensOne
    <2>2. ~Deleted(Events)' /\ ~Deleted(delivered)'
      BY <2>1 DEF Deleted, Events, Told
    <2>3. CheckoutUnderway'
      BY <2>1 DEF Told, CheckoutUnderway
    <2> QED
      BY <1>3, <2>1, <2>2, <2>3 DEF TierFacts
  <1>6. CASE CancelNow(1)
    <2>1. /\ subscription[1].status = "active" /\ subscription'[1].status = "canceled"
          /\ Told({"deleted"}) /\ delivered' = delivered
      BY <1>6, CancelsOne
    <2>2. Deleted(Events)' /\ ~Deleted(delivered)'
      BY <2>1 DEF Deleted, Events, Told, TierFacts
    <2> QED
      BY <1>3, <2>1, <2>2 DEF TierFacts
  <1>7. CASE AnnounceInvoice(1)
    <2>1. /\ subscription[1].status = "active" /\ subscription'[1].status = "active"
          /\ Told({"upcoming"}) /\ delivered' = delivered
      BY <1>7, AnnouncesOne
    <2>2. ~Deleted(Events)' /\ ~Deleted(delivered)'
      BY <2>1 DEF Deleted, Events, Told, TierFacts
    <2>3. CheckoutUnderway => CheckoutUnderway'
      BY <1>4, <2>1 DEF Told
    <2> QED
      BY <1>3, <2>1, <2>2, <2>3 DEF TierFacts
  <1>8. CASE EndPeriod(1)
    <2>1. /\ subscription[1].status = "active" /\ delivered' = {} /\ pending \subseteq pending'
          /\ \/ subscription'[1].status = "canceled" /\ Told({"deleted"})
             \/ subscription'[1].status = "active" /\ Told({"updated", "paid"})
      BY <1>8, EndsOne DEF Told
    <2>2. ~Deleted(delivered)' /\ (Deleted(Events)' <=> subscription'[1].status = "canceled")
      BY <2>1 DEF Deleted, Events, Told, TierFacts
    <2>3. CheckoutUnderway => CheckoutUnderway'
      BY <1>4, <2>1
    <2> QED
      BY <1>3, <2>1, <2>2, <2>3 DEF TierFacts
  <1> QED
    BY <1>1, <1>5, <1>6, <1>7, <1>8 DEF Stripe

\* The request to end with the period.
LEMMA DowngradesOne ==
  ASSUME BaseInv, Opened \subseteq {1}, HandleDowngradeToHobby
  PROVE  /\ subscription[1].status = "active" /\ subscription'[1].status = "active"
         /\ This' = This /\ subscription'[1].upcoming = subscription[1].upcoming
         /\ Told({"updated"})
         /\ UNCHANGED <<row, worker, setting, analyses, delivered, items, history>>
  <1> DEFINE s == row.subscription
             new == [subscription[s] EXCEPT !.cancel = TRUE]
  <1>1. s \in Subscriptions /\ subscription[s] \in SubscriptionType /\ subscription[s].status = "active"
    BY Numbers DEF HandleDowngradeToHobby, BaseInv, TypeOK, RowType, Subscriptions, NULL
  <1>2. s \in Opened /\ s = 1
    BY <1>1 DEF Opened
  <1>3. new \in SubscriptionType /\ new.status = "active" /\ new.period = subscription[s].period
        /\ new.upcoming = subscription[s].upcoming
    BY <1>1 DEF SubscriptionType
  <1>4. new.period \in Periods
    BY <1>1, <1>2, <1>3 DEF BaseInv, Books
  <1>5. subscription' = [subscription EXCEPT ![1] = new] /\ Emit({"updated"}, 1)
    BY <1>2 DEF HandleDowngradeToHobby, BaseInv, TypeOK
  <1>6. {"updated"} \subseteq Kinds /\ UNCHANGED <<row, worker, setting, analyses, delivered, items, history>>
    BY DEF Kinds, PlanEvents, HandleDowngradeToHobby
  <1> HIDE DEF new, s
  <1>7. subscription'[1] = new /\ Told({"updated"})
    BY <1>1, <1>2, <1>3, <1>4, <1>5, <1>6, ToldOfOne
  <1> QED
    BY <1>1, <1>2, <1>3, <1>6, <1>7 DEF This

LEMMA CustomerTier ==
  ASSUME BaseInv, Sole, TierFacts, Customer
  PROVE  TierFacts'
  <1>1. (PlanEvents \union {"refresh"})' = PlanEvents \union {"refresh"}
    BY DEF PlanEvents
  <1>2. CASE HandleDowngradeToHobby
    <2>1. /\ subscription[1].status = "active" /\ subscription'[1].status = "active"
          /\ Told({"updated"}) /\ UNCHANGED <<row, worker, delivered>>
      BY <1>2, DowngradesOne DEF Sole
    <2>2. ~Deleted(Events)' /\ ~Deleted(delivered)'
      BY <2>1 DEF Deleted, Events, Told, TierFacts
    <2>3. CheckoutUnderway => CheckoutUnderway'
      BY <2>1 DEF Told, CheckoutUnderway, At
    <2> QED
      BY <2>1, <2>2, <2>3 DEF TierFacts
  <1>3. CASE ~HandleDowngradeToHobby
    <2>1. UNCHANGED <<worker, subscription, pending, delivered>>
      BY <1>3
      DEF Customer, HandleCreateCheckout, HandleSetRetention, SetProjectRetentionDays,
          IncrementExecutionsThisPeriod, SaveFailureGroupAnalysis, stripe
    <2>2. row'.tier = row.tier /\ row'.customer = row.customer
      BY <1>3
      DEF Customer, HandleCreateCheckout, HandleSetRetention, SetProjectRetentionDays,
          IncrementExecutionsThisPeriod, SaveFailureGroupAnalysis, BaseInv, TypeOK, RowType
    <2>3. /\ Deleted(Events)' = Deleted(Events) /\ Deleted(delivered)' = Deleted(delivered)
          /\ CheckoutUnderway' = CheckoutUnderway
      BY <2>1 DEF Deleted, Events, CheckoutUnderway, At
    <2> QED
      BY <1>1, <2>1, <2>2, <2>3 DEF TierFacts
  <1> QED
    BY <1>2, <1>3

LEMMA TierStep == ASSUME OneAtATime, TierInv, [Next]_vars PROVE TierInv'
  <1>1. BaseInv /\ BaseInv'
    BY NextBase DEF TierInv
  <1> SUFFICES ASSUME Sole', ~reordered' PROVE TierFacts'
    BY <1>1 DEF TierInv
  <1>2. Sole /\ TierFacts /\ errors' = 0
    BY <1>1, SoleBefore, ReorderedBefore DEF TierInv, Sole
  <1>3. CASE UNCHANGED vars
    <2>1. UNCHANGED <<row, worker, subscription, pending, delivered>>
      BY <1>3 DEF vars, stripe
    <2>2. /\ Deleted(Events)' = Deleted(Events) /\ Deleted(delivered)' = Deleted(delivered)
          /\ CheckoutUnderway' = CheckoutUnderway
          /\ (PlanEvents \union {"refresh"})' = PlanEvents \union {"refresh"}
      BY <2>1 DEF Deleted, Events, CheckoutUnderway, At, PlanEvents
    <2> QED
      BY <1>2, <2>1, <2>2 DEF TierFacts
  <1> QED
    BY <1>1, <1>2, <1>3, StripeTier, WebhookTier, CustomerTier DEF Next

LEMMA TierInvImplies == ASSUME TierInv PROVE TierFollowsSubscription
  <1> SUFFICES ASSUME errors = 0, Quiet, ~reordered, Cardinality(Opened) = 1
               PROVE  row.tier = "team" <=> subscription[1].status = "active"
    BY DEF TierFollowsSubscription
  <1>1. BaseInv /\ Opened = {1}
    BY OnlySubscription DEF TierInv
  <1>2. TierFacts
    BY <1>1 DEF TierInv, Sole
  <1>3. subscription[1].status \in {"active", "canceled"}
    BY <1>1, EventsOfOne
  <1>4. CASE subscription[1].status = "active"
    BY <1>2, <1>4 DEF TierFacts, CheckoutUnderway, Quiet, At
  <1>5. CASE subscription[1].status = "canceled"
    <2>1. Deleted(delivered)
      BY <1>2, <1>5 DEF TierFacts, Deleted, Events, Quiet
    <2> QED
      BY <1>2, <1>5, <2>1 DEF TierFacts, Quiet
  <1> QED
    BY <1>3, <1>4, <1>5

\* While webhooks are handled one at a time: once all is handled without a failure, a
\* project that has opened a single subscription is on Team exactly when it is active,
\* if none of its events was handled after the one that ended it.
THEOREM PlanFollowsStripe == ASSUME OneAtATime PROVE Spec => []TierFollowsSubscription
  <1>1. Init => TierInv
    <2> SUFFICES ASSUME Init PROVE TierInv
      OBVIOUS
    <2>1. subscription[1].status = "none"
      BY Numbers DEF Init
    <2>2. TierFacts
      BY <2>1 DEF Init, TierFacts, Deleted, Events
    <2> QED
      BY <2>2, InitBase DEF TierInv
  <1>2. TierInv /\ [Next]_vars => TierInv'
    BY TierStep
  <1>3. TierInv => TierFollowsSubscription
    BY TierInvImplies
  <1> QED
    BY <1>1, <1>2, <1>3, PTL DEF Spec

-----------------------------------------------------------------------------
(* The invoice.                                                            *)

LEMMA ItemNumbers ==
  ASSUME BaseInv
  PROVE  /\ \A i \in items : i \in ItemType /\ i.amount \in Nat /\ i.amount > 0 /\ i.event \in EventType
                             /\ i.event.period \in Nat /\ i.event.period >= 1
         /\ This \in 0 .. MaxPeriod /\ This \in Nat /\ executions \in Nat
         /\ row.executions \in Nat /\ row.start \in Nat /\ row \in RowType
  <1>1. items \subseteq ItemType /\ executions \in Nat /\ row \in RowType
    BY DEF BaseInv, TypeOK
  <1>2. This \in 0 .. MaxPeriod
    BY Numbers DEF BaseInv, TypeOK, SubscriptionType, This
  <1>3. \A e \in EventType : e.period \in Nat /\ e.period >= 1
    BY Numbers DEF EventType, Periods
  <1> QED
    BY <1>1, <1>2, <1>3, Numbers DEF ItemType, RowType

LEMMA BillTypes ==
  ASSUME BaseInv, NEW kind, NEW free \in Nat
  PROVE  /\ IsFiniteSet(Of(kind)) /\ IsFiniteSet(Past(kind)) /\ Past(kind) \subseteq Of(kind)
         /\ Bill(Of(kind), free) \in Int /\ Bill(Past(kind), free) \in Int
  <1>1. IsFiniteSet(items)
    BY DEF BaseInv, TypeOK
  <1>2. IsFiniteSet(Of(kind)) /\ IsFiniteSet(Past(kind)) /\ Past(kind) \subseteq Of(kind)
    <2>1. Of(kind) \subseteq items /\ Past(kind) \subseteq Of(kind)
      BY DEF Of, Past
    <2> QED
      BY <1>1, <2>1, FS_Subset
  <1>3. ASSUME NEW S, IsFiniteSet(S), S \subseteq items PROVE Bill(S, free) \in Int
    <2>1. Cardinality(S) \in Nat
      BY <1>3, FS_CardinalityType
    <2>2. Cardinality(S) * free \in Int
      BY <2>1
    <2>3. \A i \in S : [j \in S |-> j.amount][i] \in Nat
      BY <1>3, ItemNumbers
    <2>4. Amount(S) \in Int
      BY <1>3, <2>3, TotalNat DEF Amount
    <2> QED
      BY <2>2, <2>4 DEF Bill
  <1>4. Of(kind) \subseteq items /\ Past(kind) \subseteq items
    BY DEF Of, Past
  <1> QED
    BY <1>2, <1>3, <1>4

\* The items of a kind are those of periods gone by and no more than one of this one.
LEMMA OfPast ==
  ASSUME BaseInv, OneOfEach, NEW kind, NEW free \in Nat
  PROVE  \/ /\ Of(kind) = Past(kind) /\ \A i \in Of(kind) : i.event.period # This
         \/ \E i \in Of(kind) : /\ i.event.period = This
                                /\ Bill(Of(kind), free) = Bill(Past(kind), free) + i.amount + free
  <1>1. \A i \in items : i.event.period \in Nat /\ i.event.period <= This /\ i.amount \in Nat
    BY ItemNumbers DEF OneOfEach
  <1>2. CASE \A i \in Of(kind) : i.event.period # This
    BY <1>1, <1>2, ItemNumbers DEF Of, Past
  <1>3. CASE \E i \in Of(kind) : i.event.period = This
    <2>1. PICK i \in Of(kind) : i.event.period = This
      BY <1>3
    <2>2. i \in items /\ i.kind = kind
      BY DEF Of
    <2>3. ASSUME NEW j \in Of(kind), j \notin Past(kind) PROVE j = i
      <3>1. j \in items /\ j.kind = kind /\ j.event.period = This
        BY <1>1, <2>3, ItemNumbers DEF Of, Past
      <3> QED
        BY <2>1, <2>2, <3>1 DEF OneOfEach
    <2>4. i \notin Past(kind)
      BY <2>1, ItemNumbers DEF Past
    <2>5. Of(kind) = Past(kind) \union {i}
      BY <2>3, BillTypes
    <2>6. \A j \in Past(kind) \union {i} : j.amount \in Int
      BY <1>1, <2>2 DEF Past, Of
    <2>7. IsFiniteSet(Past(kind)) /\ free \in Int
      BY BillTypes
    <2>8. Bill(Past(kind) \union {i}, free) = Bill(Past(kind), free) + i.amount + free
      BY <2>4, <2>6, <2>7, BillInserts
    <2> QED
      BY <2>1, <2>5, <2>8
  <1> QED
    BY <1>2, <1>3

LEMMA PastBelowOf ==
  ASSUME BaseInv, OneOfEach, NEW kind, NEW free \in Nat
  PROVE  Bill(Past(kind), free) <= Bill(Of(kind), free)
  <1>1. Bill(Past(kind), free) \in Int
    BY BillTypes
  <1>2. CASE Of(kind) = Past(kind)
    BY <1>1, <1>2
  <1>3. CASE \E i \in Of(kind) : Bill(Of(kind), free) = Bill(Past(kind), free) + i.amount + free
    <2>1. PICK i \in Of(kind) : Bill(Of(kind), free) = Bill(Past(kind), free) + i.amount + free
      BY <1>3
    <2>2. i.amount \in Nat
      BY ItemNumbers DEF Of
    <2> QED
      BY <1>1, <2>1, <2>2
  <1> QED
    BY <1>2, <1>3, OfPast

\* In the first period nothing has been invoiced, and the counter holds nothing of it.
LEMMA FreshEarly ==
  ASSUME BaseInv, This <= 1, row.start <= This, row.executions <= executions
  PROVE  Fresh
  <1>1. Past("execution") = {}
    BY ItemNumbers DEF Past, Of
  <1>2. Bill(Past("execution"), Included) = 0
    BY <1>1, BillEmpty, Numbers
  <1>3. row.start \in {NULL, This}
    BY ItemNumbers DEF NULL
  <1> QED
    BY <1>2, <1>3, ItemNumbers DEF Fresh

\* The analyses since a period that began when it is known, or this month.
LEMMA AnalysesOfThis ==
  ASSUME BaseInv, Opened \subseteq {1}, NEW start \in {NULL, This},
         \A k \in 0 .. MaxPeriod : k > This => analyses[k] = 0
  PROVE  AnalysesSince(start) = analyses[This]
  <1> DEFINE S == {k \in 0 .. MaxPeriod : k >= This}
  <1>1. Month = This /\ This \in 0 .. MaxPeriod
    BY MonthIsThis DEF BaseInv
  <1>2. DOMAIN analyses = 0 .. MaxPeriod /\ analyses[This] \in Nat
    BY <1>1, AnalysesType DEF BaseInv
  <1>3. AnalysesSince(start) = Total(analyses, S)
    BY <1>1, <1>2 DEF AnalysesSince, NULL
  <1>4. IsFiniteSet(S)
    BY AllPeriods
  <1>5. This \in S /\ \A k \in S \ {This} : analyses[k] = 0
    BY <1>1, Numbers
  <1> HIDE DEF S
  <1>6. Total(analyses, S) = analyses[This]
    <2>1. analyses[This] \in Int
      BY <1>2
    <2> QED
      BY <1>4, <1>5, <2>1, TotalOfOne
  <1> QED
    BY <1>3, <1>6

LEMMA OverageInvImplies == ASSUME OverageInv PROVE OverageInvoicedOnce
  <1> SUFFICES ASSUME errors = 0, Cardinality(Opened) <= 1
               PROVE  /\ Bill(Of("execution"), Included) <= executions
                      /\ Bill(Of("analysis"), TeamAIAnalysisLimit) <= Total(analyses, DOMAIN analyses)
    BY DEF OverageInvoicedOnce, Bill, Of
  <1>1. BaseInv /\ OneOfEach /\ ExecutionFacts /\ AnalysisFacts
    BY OnlySubscription DEF OverageInv, Sole
  <1> DEFINE L == TeamAIAnalysisLimit
             T == Total(analyses, DOMAIN analyses)
             P == Bill(Past("analysis"), L)
             B == Bill(Of("analysis"), L)
             a == analyses[This]
  <1>2. L \in Nat /\ T \in Int /\ P \in Int /\ B \in Int /\ a \in Nat /\ P + a <= T
    BY <1>1, Numbers, AnalysesType, BillTypes, ItemNumbers DEF BaseInv, AnalysisFacts
  <1>3. B = P \/ \E i \in Of("analysis") : i.event.period = This /\ B = P + i.amount + L
    BY <1>1, Numbers, OfPast
  <1>4. \A i \in Of("analysis") : i.amount \in Nat /\ (i.event.period = This => i.amount + L <= a)
    BY <1>1, ItemNumbers DEF AnalysisFacts, Of
  <1>5. Bill(Of("execution"), Included) <= executions
    BY <1>1 DEF ExecutionFacts
  <1> HIDE DEF L, T, P, B, a
  <1>6. B <= P + a
    BY <1>2, <1>3, <1>4
  <1>7. B <= T
    BY <1>2, <1>6
  <1> QED
    BY <1>5, <1>7 DEF B, T, L

-----------------------------------------------------------------------------
(* What the steps that leave the items and the period alone keep.          *)

LEMMA BillsStay ==
  ASSUME items' = items, This' = This
  PROVE  \A kind : Of(kind)' = Of(kind) /\ Past(kind)' = Past(kind)
  BY DEF Of, Past

LEMMA OneStays ==
  ASSUME OneOfEach, items' = items, This' = This, subscription'[1].upcoming = subscription[1].upcoming,
         \A e \in Events' : e \in Events \/ (e.period = This /\ e.kind # "upcoming")
  PROVE  OneOfEach'
  BY DEF OneOfEach

\* A handler that begins to invoice holds no more than has not been invoiced.
LEMMA ExecutionStays ==
  ASSUME BaseInv, BaseInv', ExecutionFacts, items' = items, This' = This, executions <= executions',
         \A v \in Workers :
            \/ worker'[v] = worker[v]
            \/ worker'[v].pc # "execution"
            \/ Bill(Past("execution"), Included) + worker'[v].owed.execution + Included <= executions
            \/ worker'[v].owed.execution = 0
  PROVE  ExecutionFacts'
  <1>1. Of("execution")' = Of("execution") /\ Past("execution")' = Past("execution")
    BY BillsStay
  <1> DEFINE B == Bill(Of("execution"), Included)
             P == Bill(Past("execution"), Included)
  <1>2. B \in Int /\ P \in Int /\ executions \in Nat /\ executions' \in Nat /\ Included \in Nat
    BY BillTypes, Numbers DEF BaseInv, TypeOK
  <1>3. Bill(Of("execution"), Included)' = B /\ Bill(Past("execution"), Included)' = P
    BY <1>1
  <1>4. B <= executions
    BY DEF ExecutionFacts
  <1>5. \A v \in Workers : worker'[v].pc = "execution" => worker'[v].owed.execution \in Nat
    BY DEF BaseInv, TypeOK, WorkerType, Idle, PlanEvents
  <1>6. \A v \in Workers : worker[v].pc = "execution" /\ worker[v].owed.execution > 0 =>
                             P + worker[v].owed.execution + Included <= executions
    BY DEF ExecutionFacts, At
  <1> HIDE DEF B, P
  <1>7. \A v \in Workers : worker'[v].pc = "execution" /\ worker'[v].owed.execution > 0 =>
                             P + worker'[v].owed.execution + Included <= executions'
    <2> SUFFICES ASSUME NEW v \in Workers, worker'[v].pc = "execution", worker'[v].owed.execution > 0
                 PROVE  P + worker'[v].owed.execution + Included <= executions'
      OBVIOUS
    <2>1. worker'[v].owed.execution \in Nat
      BY <1>5
    <2>2. P + worker'[v].owed.execution + Included <= executions
      BY <1>6, <2>1 DEF P
    <2> QED
      BY <1>2, <2>1, <2>2
  <1>8. B <= executions'
    BY <1>2, <1>4
  <1> QED
    BY <1>3, <1>7, <1>8 DEF ExecutionFacts, At, B, P

LEMMA AnalysisStays ==
  ASSUME BaseInv, BaseInv', AnalysisFacts, items' = items, This' = This, analyses' = analyses,
         \A v \in Workers :
            \/ worker'[v] = worker[v]
            \/ worker'[v].pc \notin {"execution", "analysis"}
            \/ worker'[v].owed.analysis + TeamAIAnalysisLimit <= analyses[This]
            \/ worker'[v].owed.analysis = 0
  PROVE  AnalysisFacts'
  <1>1. Of("analysis")' = Of("analysis") /\ Past("analysis")' = Past("analysis")
    BY BillsStay
  <1>2. Bill(Past("analysis"), TeamAIAnalysisLimit)' = Bill(Past("analysis"), TeamAIAnalysisLimit)
    BY <1>1
  <1>3. Total(analyses, DOMAIN analyses)' = Total(analyses, DOMAIN analyses)
    OBVIOUS
  <1>4. \A v \in Workers : worker'[v].pc \in {"execution", "analysis"} /\ worker'[v].owed.analysis > 0 =>
          worker'[v].owed.analysis + TeamAIAnalysisLimit <= analyses[This]
    BY DEF AnalysisFacts
  <1> QED
    BY <1>1, <1>2, <1>3, <1>4 DEF AnalysisFacts

\* A step about the plan leaves the counter, and the period the row is in or this one.
LEMMA RowStays ==
  ASSUME BaseInv, RowFacts, items' = items, This' = This, executions' = executions,
         subscription'[1].upcoming = subscription[1].upcoming,
         row'.executions = row.executions, row'.start \in {NULL, This, row.start},
         row'.customer = row.customer \/ row'.customer = 1,
         row'.customer = 1 \/ (CheckoutUnderway => CheckoutUnderway'),
         Fresh \/ (PaidUnderway => PaidUnderway')
  PROVE  RowFacts'
  <1>1. Bill(Past("execution"), Included)' = Bill(Past("execution"), Included)
    <2>1. Past("execution")' = Past("execution")
      BY BillsStay
    <2> QED
      BY <2>1
  <1>2. Fresh => Fresh'
    BY <1>1 DEF Fresh, NULL
  <1>3. row'.start <= This
    BY ItemNumbers DEF RowFacts, NULL
  <1> QED
    BY <1>2, <1>3 DEF RowFacts, NULL

-----------------------------------------------------------------------------
(* Each handler keeps the facts of the invoice.                            *)

Facts == OneOfEach /\ RowFacts /\ ExecutionFacts /\ AnalysisFacts

\* A step of a handler that takes no event, pushes no item and is not the one that
\* begins to invoice.
LEMMA PlanStepStays ==
  ASSUME BaseInv, BaseInv', Facts, NEW w \in Workers, NEW step \in WorkerType, Goto(w, step),
         UNCHANGED <<analyses, stripe, pending, delivered, executions>>,
         step.pc \notin {"execution", "analysis"},
         row'.executions = row.executions, row'.start \in {NULL, This, row.start},
         row'.customer = row.customer \/ row'.customer = 1,
         worker[w].pc = "checkout" => row'.customer = 1,
         worker[w].pc \in {"paid", "reset"} => Fresh \/ step.pc = "reset"
  PROVE  Facts'
  <1>1. worker'[w] = step /\ \A v \in Workers : v # w => worker'[v] = worker[v]
    BY DEF Goto, BaseInv, TypeOK
  <1>2. items' = items /\ This' = This /\ subscription' = subscription /\ Events' = Events
    BY DEF stripe, This, Events
  <1>3. OneOfEach'
    BY <1>2, OneStays DEF Facts
  <1>4. executions \in Nat /\ executions' = executions
    BY DEF BaseInv, TypeOK
  <1>5. ExecutionFacts'
    <2>1. executions <= executions'
      BY <1>4
    <2>2. \A v \in Workers : worker'[v] = worker[v] \/ worker'[v].pc # "execution"
      BY <1>1
    <2> QED
      BY <1>2, <2>1, <2>2, ExecutionStays DEF Facts
  <1>6. AnalysisFacts'
    <2>1. \A v \in Workers : worker'[v] = worker[v] \/ worker'[v].pc \notin {"execution", "analysis"}
      BY <1>1
    <2> QED
      BY <1>2, <2>1, AnalysisStays DEF Facts
  <1>7. row'.customer = 1 \/ (CheckoutUnderway => CheckoutUnderway')
    BY <1>1 DEF CheckoutUnderway, At
  <1>8. Fresh \/ (PaidUnderway => PaidUnderway')
    BY <1>1 DEF PaidUnderway
  <1>9. RowFacts'
    BY <1>2, <1>4, <1>7, <1>8, RowStays DEF Facts
  <1> QED
    BY <1>3, <1>5, <1>6, <1>9 DEF Facts

LEMMA DeliverOver ==
  ASSUME BaseInv, BaseInv', Facts, NEW w \in Workers, NEW e \in pending \union delivered, Deliver(w, e)
  PROVE  Facts'
  <1> DEFINE step == [pc |-> e.kind, event |-> e]
  <1>1. step \in WorkerType /\ Goto(w, step) /\ e.kind \in Kinds
    BY DeliverStep
  <1>2. worker'[w] = step /\ (\A v \in Workers : v # w => worker'[v] = worker[v]) /\ worker[w].pc = "idle"
    BY <1>1 DEF Goto, BaseInv, TypeOK, Deliver, At
  <1>3. /\ items' = items /\ This' = This /\ subscription' = subscription /\ executions' = executions
        /\ analyses' = analyses /\ row' = row
        /\ pending' = pending \ {e} /\ delivered' = delivered \union {e}
    BY DEF Deliver, stripe, This
  <1>4. Events' = Events
    BY <1>3 DEF Events
  <1>5. worker'[w].pc = e.kind /\ e.kind \notin {"execution", "analysis"}
    BY <1>1, <1>2 DEF Kinds, PlanEvents
  <1> HIDE DEF step
  <1>6. OneOfEach'
    BY <1>3, <1>4, OneStays DEF Facts
  <1>7. ExecutionFacts'
    <2>1. executions <= executions'
      BY <1>3 DEF BaseInv, TypeOK
    <2>2. \A v \in Workers : worker'[v] = worker[v] \/ worker'[v].pc # "execution"
      BY <1>2, <1>5
    <2> QED
      BY <1>3, <2>1, <2>2, ExecutionStays DEF Facts
  <1>8. AnalysisFacts'
    <2>1. \A v \in Workers : worker'[v] = worker[v] \/ worker'[v].pc \notin {"execution", "analysis"}
      BY <1>2, <1>5
    <2> QED
      BY <1>3, <2>1, AnalysisStays DEF Facts
  <1>9. CheckoutUnderway => CheckoutUnderway'
    <2> SUFFICES ASSUME CheckoutUnderway PROVE CheckoutUnderway'
      OBVIOUS
    <2>1. CASE \E v \in Workers : At(v, "checkout")
      BY <1>2, <2>1 DEF CheckoutUnderway, At
    <2>2. CASE \E d \in pending : d.kind = "checkout"
      BY <1>3, <1>5, <2>2 DEF CheckoutUnderway, At
    <2> QED
      BY <2>1, <2>2 DEF CheckoutUnderway
  <1>10. PaidUnderway => PaidUnderway'
    <2> SUFFICES ASSUME PaidUnderway PROVE PaidUnderway'
      OBVIOUS
    <2>1. CASE \E v \in Workers : worker[v].pc \in {"paid", "reset"}
      BY <1>2, <2>1 DEF PaidUnderway
    <2>2. CASE \E d \in pending : d.kind = "paid"
      BY <1>3, <1>5, <2>2 DEF PaidUnderway
    <2> QED
      BY <2>1, <2>2 DEF PaidUnderway
  <1>11. RowFacts'
    BY <1>3, <1>9, <1>10, RowStays DEF Facts
  <1> QED
    BY <1>6, <1>7, <1>8, <1>11 DEF Facts

\* What an upcoming invoice is to charge has been used since the last one.
LEMMA OwedIsNew ==
  ASSUME BaseInv, Sole, Facts, Fresh
  PROVE  /\ Overage(row) \in [execution : Nat, analysis : Nat]
         /\ \/ Overage(row).execution = 0
            \/ Bill(Past("execution"), Included) + Overage(row).execution + Included <= executions
         /\ \/ Overage(row).analysis = 0
            \/ Overage(row).analysis + TeamAIAnalysisLimit <= analyses[This]
  <1> DEFINE x == Over(row.executions, Included)
             y == Over(AnalysesSince(row.start), TeamAIAnalysisLimit)
             P == Bill(Past("execution"), Included)
  <1>1. AnalysesSince(row.start) = analyses[This] /\ analyses[This] \in Nat
    BY AnalysesOfThis, AnalysesType, ItemNumbers DEF Sole, Facts, AnalysisFacts, Fresh, BaseInv
  <1>2. row.executions \in Nat /\ executions \in Nat /\ P \in Int /\ P + row.executions <= executions
        /\ Included \in Nat /\ TeamAIAnalysisLimit \in Nat
    BY ItemNumbers, BillTypes, Numbers DEF Fresh
  <1>3. x \in Nat /\ (x > 0 => x + Included <= row.executions)
    BY <1>2, OverIs
  <1>4. y \in Nat /\ (y > 0 => y + TeamAIAnalysisLimit <= analyses[This])
    BY <1>1, <1>2, OverIs
  <1>5. Overage(row) = Cap(x, y)
    BY DEF Overage
  <1> HIDE DEF x, y, P
  <1>6. /\ Overage(row) \in [execution : Nat, analysis : Nat]
        /\ Overage(row).execution <= x /\ Overage(row).analysis <= y
    BY <1>3, <1>4, <1>5, CapIs
  <1> DEFINE a == Overage(row).execution
             b == Overage(row).analysis
  <1>7. a \in Nat /\ b \in Nat /\ a <= x /\ b <= y
    BY <1>6
  <1> HIDE DEF a, b
  <1>8. a = 0 \/ P + a + Included <= executions
    BY <1>2, <1>3, <1>7
  <1>9. b = 0 \/ b + TeamAIAnalysisLimit <= analyses[This]
    BY <1>1, <1>2, <1>4, <1>7
  <1> QED
    BY <1>6, <1>8, <1>9 DEF a, b, P

LEMMA LookupOver ==
  ASSUME BaseInv, BaseInv', Sole, Facts, NEW w \in Workers, GetProjectByStripeCustomerID(w), errors' = 0
  PROVE  Facts'
  <1>1. PICK ok \in Outcomes :
           /\ Goto(w, IF ok /\ row.customer = worker[w].event.subscription
                        /\ (worker[w].event.kind = "upcoming" => row.tier = "team")
                      THEN Held(w) ELSE Idle)
           /\ CountError(ok)
    BY LookupStep
  <1>2. ok
    BY <1>1, CountErrorEffect DEF BaseInv
  <1>3. /\ worker[w].pc \in {"created", "updated", "deleted", "upcoming", "paid"}
        /\ worker[w].event.kind = worker[w].pc /\ worker[w].event \in Events
        /\ Held(w) \in WorkerType
        /\ UNCHANGED <<row, analyses, stripe, pending, delivered, executions>>
    BY LookupStep DEF GetProjectByStripeCustomerID, BaseInv, Proper, Events
  <1>4. worker[w].event.subscription = 1 /\ 1 \in Opened
    BY <1>3, EventsOfOne DEF Sole
  <1> DEFINE step == IF row.customer = 1 /\ (worker[w].event.kind = "upcoming" => row.tier = "team")
                     THEN Held(w) ELSE Idle
  <1>5. Goto(w, step) /\ step \in WorkerType /\ step \in {Held(w), Idle}
    BY <1>1, <1>2, <1>3, <1>4, IdleIsProper
  <1>6. CASE worker[w].pc # "upcoming"
    <2>1. step.pc \in {"refresh", "downgrade", "reset", "idle"}
      BY <1>3, <1>6 DEF Held, Idle, PlanEvents
    <2>2. worker[w].pc = "paid" => Fresh \/ step.pc = "reset"
      <3>1. CASE row.customer = 1 /\ worker[w].pc = "paid"
        BY <1>3, <3>1 DEF Held, PlanEvents
      <3>2. CASE row.customer # 1
        <4>1. This <= 1
          BY <3>2 DEF Facts, RowFacts
        <4> QED
          BY <4>1, FreshEarly DEF Facts, RowFacts
      <3> QED
        BY <3>1, <3>2
    <2> HIDE DEF step
    <2>3. /\ step.pc \notin {"execution", "analysis"}
          /\ worker[w].pc = "checkout" => row'.customer = 1
          /\ worker[w].pc \in {"paid", "reset"} => Fresh \/ step.pc = "reset"
      BY <1>3, <2>1, <2>2
    <2> QED
      BY <1>3, <1>5, <2>3, PlanStepStays
  <1>7. CASE worker[w].pc = "upcoming"
    <2>1. Fresh
      BY <1>3, <1>7 DEF Facts, OneOfEach, RowFacts
    <2>2. worker'[w] = step /\ \A v \in Workers : v # w => worker'[v] = worker[v]
      BY <1>5 DEF Goto, BaseInv, TypeOK
    <2>3. Held(w).owed = Overage(row) /\ Idle.pc = "idle"
      BY DEF Held, Idle
    <2>4. worker'[w].pc = "idle" \/ worker'[w].owed = Overage(row)
      BY <1>5, <2>2, <2>3
    <2> HIDE DEF step
    <2>5. items' = items /\ This' = This /\ subscription' = subscription /\ Events' = Events
      BY <1>3 DEF stripe, This, Events
    <2>6. OneOfEach'
      BY <2>5, OneStays DEF Facts
    <2>7. ExecutionFacts'
      <3>1. executions <= executions'
        BY <1>3 DEF BaseInv, TypeOK
      <3>2. \/ worker'[w].pc # "execution"
            \/ Bill(Past("execution"), Included) + worker'[w].owed.execution + Included <= executions
            \/ worker'[w].owed.execution = 0
        BY <2>1, <2>4, OwedIsNew
      <3> QED
        BY <2>2, <2>5, <3>1, <3>2, ExecutionStays DEF Facts
    <2>8. AnalysisFacts'
      <3>1. \/ worker'[w].pc \notin {"execution", "analysis"}
            \/ worker'[w].owed.analysis + TeamAIAnalysisLimit <= analyses[This]
            \/ worker'[w].owed.analysis = 0
        BY <2>1, <2>4, OwedIsNew
      <3> QED
        BY <1>3, <2>2, <2>5, <3>1, AnalysisStays DEF Facts
    <2>9. CheckoutUnderway => CheckoutUnderway'
      BY <1>3, <1>7, <2>2 DEF CheckoutUnderway, At
    <2>10. RowFacts'
      BY <1>3, <2>1, <2>5, <2>9, RowStays DEF Facts
    <2> QED
      BY <2>6, <2>7, <2>8, <2>10 DEF Facts
  <1> QED
    BY <1>6, <1>7

\* The handlers that write the plan, or the window.
LEMMA PlanOver ==
  ASSUME BaseInv, BaseInv', Sole, Facts, NEW w \in Workers, errors' = 0,
         \/ HandleCheckoutCompleted(w) \/ HandleSubscriptionUpdated(w) \/ HandleSubscriptionDeleted(w)
         \/ ReadRetention(w) \/ ClampRetentionForTier(w)
  PROVE  Facts'
  <1>1. \A ok \in Outcomes : CountError(ok) => ok
    BY CountErrorEffect DEF BaseInv
  <1>2. row \in RowType
    BY DEF BaseInv, TypeOK
  <1>3. worker[w].pc \in {"checkout", "refresh", "downgrade", "cascade", "clamp"}
    BY DEF HandleCheckoutCompleted, HandleSubscriptionUpdated, HandleSubscriptionDeleted, ReadRetention,
           ClampRetentionForTier, At
  <1>4. worker[w].event \in Events
    BY <1>3 DEF BaseInv, Proper, Events
  <1>5. worker[w].event.subscription = 1 /\ worker[w].event.period = This
    BY <1>4, EventsOfOne DEF Sole, Facts, OneOfEach
  <1>6. UNCHANGED <<analyses, stripe, pending, delivered, executions>>
    BY DEF HandleCheckoutCompleted, HandleSubscriptionUpdated, HandleSubscriptionDeleted, ReadRetention,
           ClampRetentionForTier
  <1>7. PICK step \in {Idle, [pc |-> "cascade", event |-> worker[w].event],
                       [pc |-> "clamp", event |-> worker[w].event]} : Goto(w, step)
    BY DEF HandleCheckoutCompleted, HandleSubscriptionUpdated, HandleSubscriptionDeleted, ReadRetention,
           ClampRetentionForTier
  <1>8. step \in WorkerType /\ step.pc \notin {"execution", "analysis"}
    BY <1>3, <1>7, HeldTypes DEF WorkerType, Idle
  <1>9. /\ row'.executions = row.executions /\ row'.start \in {NULL, This, row.start}
        /\ row'.customer = row.customer \/ row'.customer = 1
        /\ worker[w].pc = "checkout" => row'.customer = 1
    <2>1. CASE HandleCheckoutCompleted(w) \/ HandleSubscriptionUpdated(w)
      <3>1. \E start \in {NULL, This} : row' = UpdateProjectBilling(row, "team", 1, 1, start)
        BY <1>1, <1>5, <2>1 DEF HandleCheckoutCompleted, HandleSubscriptionUpdated
      <3> QED
        BY <1>2, <3>1 DEF UpdateProjectBilling, RowType
    <2>2. CASE HandleSubscriptionDeleted(w)
      <3>1. row' = UpdateProjectBilling(row, "hobby", 1, NULL, NULL) /\ worker[w].pc = "downgrade"
        BY <1>1, <1>5, <2>2 DEF HandleSubscriptionDeleted, At
      <3> QED
        BY <1>2, <3>1 DEF UpdateProjectBilling, RowType
    <2>3. CASE ReadRetention(w) \/ ClampRetentionForTier(w)
      <3>1. row' = row \/ row' = [row EXCEPT !.retention = TierRetentionCap("hobby")]
        BY <2>3 DEF ReadRetention, ClampRetentionForTier
      <3>2. worker[w].pc # "checkout"
        BY <2>3 DEF ReadRetention, ClampRetentionForTier, At
      <3> QED
        BY <1>2, <3>1, <3>2 DEF RowType
    <2> QED
      BY <2>1, <2>2, <2>3
  <1>10. worker[w].pc \in {"paid", "reset"} => Fresh \/ step.pc = "reset"
    BY <1>3
  <1> QED
    BY <1>6, <1>7, <1>8, <1>9, <1>10, PlanStepStays

LEMMA PaidOver ==
  ASSUME BaseInv, BaseInv', Sole, Facts, NEW w \in Workers, errors' = 0, HandleInvoicePaid(w)
  PROVE  Facts'
  <1>1. row \in RowType /\ worker[w].pc = "reset"
        /\ UNCHANGED <<analyses, stripe, pending, delivered, executions>>
    BY DEF BaseInv, TypeOK, HandleInvoicePaid, At
  <1>2. worker[w].event \in Events
    BY <1>1 DEF BaseInv, Proper, Events
  <1>3. worker[w].event.period = This
    BY <1>2 DEF Facts, OneOfEach
  <1>4. row' = ResetExecutionsThisPeriod(row, This)
    BY <1>3, CountErrorEffect DEF HandleInvoicePaid, BaseInv
  <1>5. row'.executions = 0 /\ row'.start = This /\ row'.customer = row.customer
    BY <1>1, <1>4 DEF RowType, ResetExecutionsThisPeriod
  <1>6. worker'[w] = Idle /\ (\A v \in Workers : v # w => worker'[v] = worker[v]) /\ Idle.pc = "idle"
    BY DEF HandleInvoicePaid, Goto, BaseInv, TypeOK, Idle
  <1>7. items' = items /\ This' = This /\ subscription' = subscription /\ Events' = Events
    BY <1>1 DEF stripe, This, Events
  <1>8. OneOfEach'
    BY <1>7, OneStays DEF Facts
  <1>9. ExecutionFacts'
    <2>1. executions <= executions'
      BY <1>1 DEF BaseInv, TypeOK
    <2> QED
      BY <1>6, <1>7, <2>1, ExecutionStays DEF Facts
  <1>10. AnalysisFacts'
    BY <1>1, <1>6, <1>7, AnalysisStays DEF Facts
  <1>11. Fresh'
    <2> DEFINE P == Bill(Past("execution"), Included)
               B == Bill(Of("execution"), Included)
    <2>1. P <= B /\ B <= executions /\ P \in Int /\ B \in Int /\ executions \in Nat
      BY PastBelowOf, BillTypes, ItemNumbers, Numbers DEF Facts, ExecutionFacts
    <2>2. P' = P
      <3>1. Past("execution")' = Past("execution")
        BY <1>7, BillsStay
      <3> QED
        BY <3>1
    <2> HIDE DEF P, B
    <2>3. P + 0 <= executions
      BY <2>1
    <2> QED
      BY <1>1, <1>5, <1>7, <2>2, <2>3 DEF Fresh, P
  <1>12. row'.start <= This' /\ row'.executions <= executions'
    BY <1>1, <1>5, <1>7, ItemNumbers
  <1>13. CheckoutUnderway => CheckoutUnderway'
    BY <1>1, <1>6 DEF CheckoutUnderway, At
  <1>14. RowFacts'
    BY <1>5, <1>7, <1>11, <1>12, <1>13 DEF Facts, RowFacts, NULL
  <1> QED
    BY <1>8, <1>9, <1>10, <1>14 DEF Facts

\* The handler pushes an item of a kind the period has none of, for what it holds.
LEMMA UpcomingOver ==
  ASSUME BaseInv, BaseInv', Sole, Facts, NEW w \in Workers, HandleInvoiceUpcoming(w)
  PROVE  Facts'
  <1> DEFINE t == worker[w]
             new == [event |-> t.event, kind |-> t.pc, amount |-> t.owed[t.pc]]
  <1>1. /\ t.event \in EventType /\ t.pc \in {"execution", "analysis"} /\ t.owed[t.pc] \in Nat
        /\ t.owed \in [execution : Nat, analysis : Nat] /\ t.event \in delivered /\ t.event.kind = "upcoming"
        /\ \/ items' = items
           \/ items' = items \union {new} /\ t.owed[t.pc] > 0 /\ ~ItemOf(t.event, t.pc)
    BY PushEffect
  <1>2. /\ UNCHANGED <<row, analyses, subscription, pending, delivered, executions>>
        /\ This' = This /\ Events' = Events
    BY DEF HandleInvoiceUpcoming, This, Events
  <1>3. t.event \in Events /\ t.event.period = This /\ subscription[1].upcoming
    BY <1>1 DEF Events, Facts, OneOfEach
  <1>4. PICK step \in {[t EXCEPT !.pc = "analysis"], Idle} : Goto(w, step)
    BY DEF HandleInvoiceUpcoming
  <1>5. worker'[w] = step /\ \A v \in Workers : v # w => worker'[v] = worker[v]
    BY <1>4 DEF Goto, BaseInv, TypeOK
  <1>6. step.pc \in {"analysis", "idle"} /\ (step.pc = "analysis" => step.owed = t.owed)
    <2>1. t \in [pc : {"refresh", "downgrade", "reset", "execution", "analysis"},
                 event : EventType, tier : {"hobby", "team"}, owed : [execution : Nat, analysis : Nat]]
      BY <1>1, HeldTypes
    <2>2. Idle.pc = "idle" /\ [t EXCEPT !.pc = "analysis"].pc = "analysis"
          /\ [t EXCEPT !.pc = "analysis"].owed = t.owed
      BY <2>1 DEF Idle
    <2> HIDE DEF t
    <2> QED
      BY <1>4, <2>2
  <1>7. CheckoutUnderway => CheckoutUnderway'
    BY <1>1, <1>2, <1>5 DEF CheckoutUnderway, At
  <1>8. CASE items' = items
    <2>1. OneOfEach'
      BY <1>2, <1>8, OneStays DEF Facts
    <2>2. ExecutionFacts'
      <3>1. executions <= executions'
        BY <1>2 DEF BaseInv, TypeOK
      <3>2. \A v \in Workers : worker'[v] = worker[v] \/ worker'[v].pc # "execution"
        BY <1>5, <1>6
      <3> QED
        BY <1>2, <1>8, <3>1, <3>2, ExecutionStays DEF Facts
    <2>3. AnalysisFacts'
      <3>1. \/ worker'[w].pc \notin {"execution", "analysis"}
            \/ worker'[w].owed.analysis + TeamAIAnalysisLimit <= analyses[This]
            \/ worker'[w].owed.analysis = 0
        <4>1. t.owed.analysis > 0 => t.owed.analysis + TeamAIAnalysisLimit <= analyses[This]
          BY <1>1 DEF Facts, AnalysisFacts
        <4>2. t.owed.analysis \in Nat
          BY <1>1
        <4> HIDE DEF t
        <4>3. worker'[w].pc # "idle" => worker'[w].owed = t.owed
          BY <1>5, <1>6
        <4> QED
          BY <1>5, <1>6, <4>1, <4>2, <4>3
      <3> QED
        BY <1>2, <1>5, <1>8, <3>1, AnalysisStays DEF Facts
    <2>4. Fresh
      BY <1>3 DEF Facts, RowFacts
    <2>5. RowFacts'
      BY <1>2, <1>7, <1>8, <2>4, RowStays DEF Facts
    <2> QED
      BY <2>1, <2>2, <2>3, <2>5 DEF Facts
  <1>9. CASE items' = items \union {new} /\ t.owed[t.pc] > 0 /\ ~ItemOf(t.event, t.pc)
    <2>1. new.event = t.event /\ new.kind = t.pc /\ new.amount = t.owed[t.pc]
      BY DEF new
    <2>2. \A i \in items : i.kind = t.pc => i.event.period # This
      BY <1>3, <1>1, <1>9 DEF Facts, OneOfEach, ItemOf
    <2> HIDE DEF new
    <2>3. new \notin items
      BY <1>3, <2>1, <2>2
    <2>4. OneOfEach'
      <3>1. \A i \in items' : i.event.period <= This'
        BY <1>2, <1>3, <1>9, <2>1, ItemNumbers DEF Facts, OneOfEach
      <3>2. \A i, j \in items' : i.kind = j.kind /\ i.event.period = j.event.period => i = j
        BY <1>3, <1>9, <2>1, <2>2 DEF Facts, OneOfEach
      <3>3. \A i \in items' : i.event.period = This' =>
              subscription'[1].upcoming /\ \A e \in Events' : e.kind = "upcoming" => i.event = e
        BY <1>1, <1>2, <1>3, <1>9, <2>1 DEF Facts, OneOfEach
      <3> QED
        BY <1>2, <3>1, <3>2, <3>3 DEF Facts, OneOfEach
    <2>5. \A kind : Past(kind)' = Past(kind)
      <3> SUFFICES ASSUME NEW kind PROVE Past(kind)' = Past(kind)
        OBVIOUS
      <3>1. ~(new.event.period < This)
        BY <1>3, <2>1, ItemNumbers
      <3> QED
        BY <1>2, <1>9, <3>1 DEF Past, Of
    <2>6. \A kind : kind # t.pc => Of(kind)' = Of(kind)
      BY <1>9, <2>1 DEF Of
    <2>7. Of(t.pc) = Past(t.pc)
      BY <2>2, ItemNumbers DEF Of, Past, Facts, OneOfEach
    <2>8. ASSUME NEW free \in Nat
          PROVE  /\ Bill(Past(t.pc) \union {new}, free) = Bill(Past(t.pc), free) + t.owed[t.pc] + free
                 /\ Bill(Past(t.pc), free) \in Int
      <3>1. \A i \in Past(t.pc) \union {new} : i.amount \in Int
        BY <1>1, <2>1, ItemNumbers DEF Past, Of
      <3>2. new \notin Past(t.pc) /\ free \in Int
        BY <2>3 DEF Past, Of
      <3>3. IsFiniteSet(Past(t.pc))
        BY BillTypes
      <3> DEFINE P == Past(t.pc)
      <3>4. IsFiniteSet(P) /\ new \notin P /\ (\A i \in P \union {new} : i.amount \in Int) /\ free \in Int
        BY <3>1, <3>2, <3>3
      <3> HIDE DEF P
      <3>5. Bill(P, free) \in Int /\ Bill(P \union {new}, free) = Bill(P, free) + new.amount + free
        BY <3>4, BillInserts
      <3> QED
        BY <2>1, <3>5 DEF P
    <2>9. {i \in items' : i.kind = t.pc} = Past(t.pc) \union {new}
      BY <1>9, <2>1, <2>7 DEF Of
    <2>10. RowFacts'
      <3>1. Fresh
        BY <1>3 DEF Facts, RowFacts
      <3>2. Past("execution")' = Past("execution")
        BY <2>5
      <3>3. Bill(Past("execution"), Included)' = Bill(Past("execution"), Included)
        BY <3>2
      <3>4. Fresh'
        BY <1>2, <3>1, <3>3 DEF Fresh, NULL
      <3> QED
        BY <1>2, <1>7, <3>4 DEF Facts, RowFacts, NULL
    <2>11. ExecutionFacts'
      <3>1. Past("execution")' = Past("execution")
        BY <2>5
      <3>2. Bill(Past("execution"), Included)' = Bill(Past("execution"), Included)
        BY <3>1
      <3>3. Bill(Of("execution"), Included)' <= executions'
        <4>1. CASE t.pc = "execution"
          <5>1. Of("execution")' = Past("execution") \union {new}
            BY <2>9, <4>1 DEF Of
          <5>2. Bill(Of("execution"), Included)' = Bill(Past("execution") \union {new}, Included)
            BY <5>1
          <5>3. Bill(Past("execution"), Included) + t.owed.execution + Included <= executions
            <6>1. t.owed["execution"] > 0
              BY <1>9, <4>1
            <6> QED
              BY <4>1, <6>1 DEF Facts, ExecutionFacts, At
          <5> QED
            BY <1>2, <2>8, <4>1, <5>2, <5>3, Numbers
        <4>2. CASE t.pc # "execution"
          <5>1. Of("execution")' = Of("execution")
            BY <2>6, <4>2
          <5>2. Bill(Of("execution"), Included)' = Bill(Of("execution"), Included)
            BY <5>1
          <5> QED
            BY <1>2, <5>2 DEF Facts, ExecutionFacts
        <4> QED
          BY <4>1, <4>2
      <3>4. \A v \in Workers : worker'[v].pc = "execution" => worker'[v] = worker[v]
        BY <1>5, <1>6
      <3>5. \A v \in Workers : worker[v].pc = "execution" /\ worker[v].owed.execution > 0 =>
              Bill(Past("execution"), Included) + worker[v].owed.execution + Included <= executions
        BY DEF Facts, ExecutionFacts, At
      <3> QED
        BY <1>2, <3>2, <3>3, <3>4, <3>5 DEF ExecutionFacts, At
    <2>12. AnalysisFacts'
      <3>1. Past("analysis")' = Past("analysis")
        BY <2>5
      <3>2. Bill(Past("analysis"), TeamAIAnalysisLimit)' = Bill(Past("analysis"), TeamAIAnalysisLimit)
        BY <3>1
      <3>3. Total(analyses, DOMAIN analyses)' = Total(analyses, DOMAIN analyses)
        BY <1>2
      <3>4. t.owed.analysis > 0 => t.owed.analysis + TeamAIAnalysisLimit <= analyses[This]
        BY <1>1 DEF Facts, AnalysisFacts
      <3>5. \A i \in Of("analysis")' : i.event.period = This => i.amount + TeamAIAnalysisLimit <= analyses[This]
        <4> SUFFICES ASSUME NEW i \in Of("analysis")', i.event.period = This
                     PROVE  i.amount + TeamAIAnalysisLimit <= analyses[This]
          OBVIOUS
        <4>1. i \in items' /\ i.kind = "analysis"
          BY DEF Of
        <4>2. CASE i = new
          <5>1. t.pc = "analysis" /\ i.amount = t.owed.analysis /\ t.owed.analysis > 0
            BY <1>9, <2>1, <4>1, <4>2
          <5> QED
            BY <3>4, <5>1
        <4>3. CASE i # new
          BY <1>9, <4>1, <4>3 DEF Facts, AnalysisFacts, Of
        <4> QED
          BY <4>2, <4>3
      <3>6. \A v \in Workers : worker'[v].pc \in {"execution", "analysis"} /\ worker'[v].owed.analysis > 0 =>
              worker'[v].owed.analysis + TeamAIAnalysisLimit <= analyses[This]
        <4> SUFFICES ASSUME NEW v \in Workers, worker'[v].pc \in {"execution", "analysis"},
                            worker'[v].owed.analysis > 0
                     PROVE  worker'[v].owed.analysis + TeamAIAnalysisLimit <= analyses[This]
          OBVIOUS
        <4>1. CASE v = w
          <5>1. worker'[v].owed = t.owed
            BY <1>5, <1>6, <4>1
          <5> QED
            BY <3>4, <5>1
        <4>2. CASE v # w
          BY <1>5, <4>2 DEF Facts, AnalysisFacts
        <4> QED
          BY <4>1, <4>2
      <3> QED
        BY <1>2, <3>2, <3>3, <3>5, <3>6 DEF Facts, AnalysisFacts
    <2> QED
      BY <2>4, <2>10, <2>11, <2>12 DEF Facts
  <1> QED
    BY <1>1, <1>8, <1>9

-----------------------------------------------------------------------------
(* Stripe, and the customer, keep the facts of the invoice.                *)

\* A step that tells of nothing upcoming, and leaves the items, the period and the row.
LEMMA TellingStays ==
  ASSUME BaseInv, BaseInv', Facts, UNCHANGED <<row, worker, analyses, items, executions>>,
         This' = This, subscription'[1].upcoming = subscription[1].upcoming,
         \A e \in Events' : e \in Events \/ (e.period = This /\ e.kind # "upcoming"),
         pending \subseteq pending'
  PROVE  Facts'
  <1>1. OneOfEach'
    BY OneStays DEF Facts
  <1>2. ExecutionFacts'
    <2>1. executions <= executions'
      BY DEF BaseInv, TypeOK
    <2> QED
      BY <2>1, ExecutionStays DEF Facts
  <1>3. AnalysisFacts'
    BY AnalysisStays DEF Facts
  <1>4. (CheckoutUnderway => CheckoutUnderway') /\ (PaidUnderway => PaidUnderway')
    BY DEF CheckoutUnderway, PaidUnderway, At
  <1>5. RowFacts'
    BY <1>4, RowStays DEF Facts
  <1> QED
    BY <1>1, <1>2, <1>3, <1>5 DEF Facts

\* Where nothing has been invoiced nothing is to be made good.
LEMMA NothingInvoiced ==
  ASSUME BaseInv, items = {}
  PROVE  \A kind : \A free \in Nat : Bill(Of(kind), free) = 0 /\ Bill(Past(kind), free) = 0
  <1> SUFFICES ASSUME NEW kind, NEW free \in Nat
               PROVE  Bill(Of(kind), free) = 0 /\ Bill(Past(kind), free) = 0
    OBVIOUS
  <1>1. Of(kind) = {} /\ Past(kind) = {}
    BY DEF Of, Past
  <1> QED
    BY <1>1, BillEmpty

LEMMA OpenOver ==
  ASSUME BaseInv, BaseInv', Sole, Sole', Facts, CompleteCheckout(1)
  PROVE  Facts'
  <1>1. /\ This = 0 /\ This' = 1 /\ ~subscription'[1].upcoming /\ Events = {}
        /\ Told({"checkout", "created", "paid"})
        /\ UNCHANGED <<row, worker, analyses, delivered, items, executions>>
    BY OpensOne DEF history
  <1>2. items = {} /\ items' = {}
    BY <1>1, ItemNumbers DEF Facts, OneOfEach
  <1>3. \A w \in Workers : worker'[w].pc = "idle"
    BY <1>1 DEF BaseInv, Proper, Events
  <1>4. \A e \in Events' : e.period = This' /\ e.kind # "upcoming"
    BY <1>1 DEF Told, Events
  <1>5. OneOfEach'
    BY <1>2, <1>4 DEF OneOfEach
  <1>6. row'.start <= This' /\ row'.executions <= executions'
        /\ row'.customer \in {NULL, 1}
    BY <1>1, ItemNumbers DEF Facts, RowFacts
  <1>7. Fresh'
    <2>1. Past("execution")' = {}
      BY <1>2 DEF Past, Of
    <2>2. Bill(Past("execution"), Included)' = Bill({}, Included)
      BY <2>1
    <2>3. Bill({}, Included) = 0
      BY BillEmpty, Numbers
    <2>4. row'.start \in {NULL, This'}
      BY <1>1, ItemNumbers DEF Facts, RowFacts, NULL
    <2>5. row'.executions \in Nat /\ 0 + row'.executions <= executions'
      BY <1>1, <1>6, ItemNumbers
    <2> QED
      BY <2>2, <2>3, <2>4, <2>5 DEF Fresh, NULL
  <1>8. CheckoutUnderway'
    BY <1>1 DEF Told, CheckoutUnderway
  <1>9. RowFacts'
    BY <1>1, <1>6, <1>7, <1>8 DEF RowFacts, NULL
  <1>10. ExecutionFacts'
    <2>1. Of("execution")' = {}
      BY <1>2 DEF Of
    <2>2. Bill(Of("execution"), Included)' = Bill({}, Included)
      BY <2>1
    <2>3. Bill({}, Included) = 0 /\ executions' \in Nat
      BY BillEmpty, Numbers DEF BaseInv, TypeOK
    <2>4. Bill(Of("execution"), Included)' <= executions'
      BY <2>2, <2>3
    <2> QED
      BY <1>3, <2>4 DEF ExecutionFacts, At
  <1>11. AnalysisFacts'
    <2>1. Past("analysis")' = {}
      BY <1>2 DEF Past, Of
    <2>2. Bill(Past("analysis"), TeamAIAnalysisLimit)' = Bill({}, TeamAIAnalysisLimit)
      BY <2>1
    <2>3. Bill({}, TeamAIAnalysisLimit) = 0
      BY BillEmpty, Numbers
    <2>4. \A k \in 0 .. MaxPeriod : k > 0 => analyses'[k] = 0
      BY <1>1 DEF Facts, AnalysisFacts
    <2>5. analyses'[1] = 0
      <3>1. 1 \in 0 .. MaxPeriod
        BY Numbers
      <3> QED
        BY <2>4, <3>1
    <2>6. Total(analyses, DOMAIN analyses)' = Total(analyses, DOMAIN analyses)
      BY <1>1
    <2>7. Total(analyses, DOMAIN analyses) \in Nat
      BY AnalysesType DEF BaseInv
    <2>8. Bill(Past("analysis"), TeamAIAnalysisLimit)' + analyses'[This'] <= Total(analyses, DOMAIN analyses)'
      BY <1>1, <2>2, <2>3, <2>5, <2>6, <2>7
    <2>9. \A k \in 0 .. MaxPeriod : k > This' => analyses'[k] = 0
      BY <1>1, <2>4
    <2>10. Of("analysis")' = {}
      BY <1>2 DEF Of
    <2> QED
      BY <1>3, <2>8, <2>9, <2>10 DEF AnalysisFacts
  <1> QED
    BY <1>5, <1>9, <1>10, <1>11 DEF Facts

LEMMA AnnounceOver ==
  ASSUME BaseInv, BaseInv', Sole, Sole', Facts, AnnounceInvoice(1)
  PROVE  Facts'
  <1>1. /\ Quiet /\ This' = This /\ ~subscription[1].upcoming /\ subscription'[1].upcoming
        /\ Told({"upcoming"})
        /\ UNCHANGED <<row, worker, analyses, delivered, items, executions>>
    BY AnnouncesOne DEF history
  <1>2. \A e \in Events : e.kind # "upcoming"
    BY <1>1 DEF Facts, OneOfEach
  <1>3. \A e \in Events' : e.period = This' /\ e.kind \in Kinds
                           /\ (e.kind = "upcoming" => e = [kind |-> "upcoming", subscription |-> 1,
                                                           period |-> This', cancel |-> subscription'[1].cancel])
    <2> SUFFICES ASSUME NEW e \in Events'
                 PROVE  e.period = This' /\ e.kind \in Kinds
                        /\ (e.kind = "upcoming" => e = [kind |-> "upcoming", subscription |-> 1,
                                                        period |-> This', cancel |-> subscription'[1].cancel])
      OBVIOUS
    <2>1. e \in EventType'
      BY DEF BaseInv, TypeOK, Events
    <2>2. e \in [kind : Kinds, subscription : Subscriptions, period : Periods, cancel : BOOLEAN]
      BY <2>1 DEF EventType, Kinds, PlanEvents, Subscriptions, Periods
    <2>3. e \in Events \/ (e.kind = "upcoming" /\ e.subscription = 1 /\ e.period = This' /\ e.cancel = subscription'[1].cancel)
      BY <1>1 DEF Told, Events
    <2>4. CASE e \in Events
      BY <1>1, <1>2, <2>2, <2>4 DEF Facts, OneOfEach
    <2>5. CASE e.kind = "upcoming" /\ e.subscription = 1 /\ e.period = This' /\ e.cancel = subscription'[1].cancel
      BY <2>2, <2>5
    <2> QED
      BY <2>3, <2>4, <2>5
  <1>4. \A i \in items : i.event.period # This
    BY <1>1 DEF Facts, OneOfEach
  <1>5. OneOfEach'
    BY <1>1, <1>3, <1>4 DEF Facts, OneOfEach
  <1>6. ExecutionFacts'
    <2>1. executions <= executions'
      BY <1>1 DEF BaseInv, TypeOK
    <2> QED
      BY <1>1, <2>1, ExecutionStays DEF Facts
  <1>7. AnalysisFacts'
    BY <1>1, AnalysisStays DEF Facts
  <1>8. Fresh
    BY <1>1 DEF Facts, RowFacts, PaidUnderway, Quiet
  <1>9. Fresh'
    <2>1. Past("execution")' = Past("execution")
      BY <1>1, BillsStay
    <2>2. Bill(Past("execution"), Included)' = Bill(Past("execution"), Included)
      BY <2>1
    <2> QED
      BY <1>1, <1>8, <2>2 DEF Fresh, NULL
  <1>10. CheckoutUnderway => CheckoutUnderway'
    BY <1>1 DEF Told, CheckoutUnderway, At
  <1>11. RowFacts'
    BY <1>1, <1>9, <1>10 DEF Facts, RowFacts, NULL
  <1> QED
    BY <1>5, <1>6, <1>7, <1>11 DEF Facts

\* The period ends: what was invoiced in it is of the past now, and the counter is to
\* begin again when the new period has been paid for.
LEMMA EndOver ==
  ASSUME BaseInv, BaseInv', Sole, Sole', Facts, EndPeriod(1)
  PROVE  Facts'
  <1>1. /\ Quiet /\ delivered' = {} /\ This \in Periods
        /\ \/ Told({"deleted"}) /\ This' = This /\ subscription'[1].upcoming
           \/ Told({"updated", "paid"}) /\ This' = This + 1 /\ ~subscription'[1].upcoming
        /\ subscription[1].upcoming
        /\ UNCHANGED <<row, worker, analyses, items, executions>>
    BY EndsOne DEF history
  <1>2. pending = {}
    BY <1>1 DEF Quiet
  <1>3. CASE Told({"deleted"}) /\ This' = This /\ subscription'[1].upcoming
    <2>1. \A e \in Events' : e.period = This /\ e.kind # "upcoming"
      BY <1>1, <1>2, <1>3 DEF Told, Events
    <2>2. subscription'[1].upcoming = subscription[1].upcoming
      <3>1. 1 \in Subscriptions /\ {subscription[1].upcoming, subscription'[1].upcoming} \subseteq BOOLEAN
        BY Numbers DEF BaseInv, TypeOK, SubscriptionType, Subscriptions
      <3> QED
        BY <1>1, <1>3, <3>1
    <2> QED
      BY <1>1, <1>2, <1>3, <2>1, <2>2, TellingStays
  <1>4. CASE Told({"updated", "paid"}) /\ This' = This + 1 /\ ~subscription'[1].upcoming
    <2>1. \A e \in Events' : e.period = This' /\ e.kind # "upcoming"
      BY <1>1, <1>2, <1>4 DEF Told, Events
    <2>2. \A i \in items : i.event.period <= This /\ i.event.period \in Nat /\ This \in Nat /\ This >= 1
      BY <1>1, ItemNumbers DEF Facts, OneOfEach, Periods
    <2>3. \A i \in items : i.event.period < This' /\ i.event.period # This' /\ i.event.period <= This'
      BY <1>4, <2>2
    <2>4. OneOfEach'
      BY <1>1, <2>1, <2>3 DEF Facts, OneOfEach
    <2>5. \A kind : Of(kind)' = Of(kind) /\ Past(kind)' = Of(kind)
      BY <1>1, <2>3 DEF Of, Past
    <2>6. row.customer = 1 /\ row.start <= This /\ row.executions <= executions
      <3>1. ~CheckoutUnderway /\ This # 0
        BY <1>1 DEF CheckoutUnderway, Quiet, At, Periods
      <3> QED
        BY <3>1 DEF Facts, RowFacts
    <2>7. RowFacts'
      <3>1. row'.start <= This'
        BY <1>1, <1>4, <2>6, ItemNumbers
      <3>2. PaidUnderway'
        BY <1>4 DEF Told, PaidUnderway
      <3> QED
        BY <1>1, <1>4, <2>6, <3>1, <3>2 DEF RowFacts
    <2>8. ExecutionFacts'
      <3>1. Of("execution")' = Of("execution")
        BY <2>5
      <3>2. Bill(Of("execution"), Included)' = Bill(Of("execution"), Included)
        BY <3>1
      <3>3. \A w \in Workers : worker'[w].pc = "idle"
        BY <1>1 DEF Quiet
      <3> QED
        BY <1>1, <3>2, <3>3 DEF Facts, ExecutionFacts, At
    <2>9. AnalysisFacts'
      <3> DEFINE L == TeamAIAnalysisLimit
                 B == Bill(Of("analysis"), L)
                 P == Bill(Past("analysis"), L)
                 T == Total(analyses, DOMAIN analyses)
                 a == analyses[This]
      <3>1. B \in Int /\ P \in Int /\ L \in Nat /\ T \in Nat /\ a \in Nat /\ P + a <= T
        BY BillTypes, Numbers, AnalysesType, ItemNumbers DEF BaseInv, Facts, AnalysisFacts
      <3>2. \/ B = P
            \/ \E i \in Of("analysis") : i.event.period = This /\ B = P + i.amount + L
        BY <3>1, OfPast DEF Facts
      <3>3. \A i \in Of("analysis") : i.event.period = This => i.amount \in Nat /\ i.amount + L <= a
        BY ItemNumbers DEF Facts, AnalysisFacts, Of
      <3>4. Bill(Past("analysis"), L)' = B
        <4>1. Past("analysis")' = Of("analysis")
          BY <2>5
        <4> QED
          BY <4>1
      <3>5. T' = T
        BY <1>1
      <3> HIDE DEF B, P, T, a, L
      <3>6. B <= T
        BY <3>1, <3>2, <3>3
      <3>7. This' \in 0 .. MaxPeriod /\ This' > This /\ This \in Nat
        <4>1. subscription' \in [Subscriptions -> SubscriptionType]
          BY <1>4 DEF BaseInv, TypeOK
        <4>2. subscription'[1] \in SubscriptionType
          BY <4>1, Numbers DEF Subscriptions
        <4>3. This' \in 0 .. MaxPeriod
          BY <4>2 DEF SubscriptionType, This
        <4> QED
          BY <4>3, <1>4, ItemNumbers
      <3>8. \A k \in 0 .. MaxPeriod : k > This => analyses[k] = 0
        BY DEF Facts, AnalysisFacts
      <3>9. analyses'[This'] = 0 /\ \A k \in 0 .. MaxPeriod : k > This' => analyses'[k] = 0
        <4>1. analyses'[This'] = 0
          BY <1>1, <3>7, <3>8
        <4>2. ASSUME NEW k \in 0 .. MaxPeriod, k > This' PROVE analyses'[k] = 0
          <5>1. k > This
            BY <3>7, <4>2
          <5> QED
            BY <1>1, <3>8, <5>1
        <4> QED
          BY <4>1, <4>2
      <3>10. Bill(Past("analysis"), L)' + analyses'[This'] <= T'
        BY <3>1, <3>4, <3>5, <3>6, <3>9
      <3>11. \A i \in Of("analysis")' : i.event.period # This'
        BY <1>1, <2>3 DEF Of
      <3>12. \A w \in Workers : worker'[w].pc = "idle"
        BY <1>1 DEF Quiet
      <3> QED
        BY <3>9, <3>10, <3>11, <3>12 DEF AnalysisFacts, T, L
    <2> QED
      BY <2>4, <2>7, <2>8, <2>9 DEF Facts
  <1> QED
    BY <1>1, <1>3, <1>4

LEMMA StripeOver ==
  ASSUME BaseInv, BaseInv', Sole, Sole', Facts, NEW s \in Subscriptions, Stripe(s)
  PROVE  Facts'
  <1>1. s = 1
    BY StripeOfOne
  <1>2. CASE CancelNow(1)
    <2>1. /\ This' = This /\ subscription'[1].upcoming = subscription[1].upcoming /\ Told({"deleted"})
          /\ UNCHANGED <<row, worker, analyses, delivered, items, executions>>
      BY <1>2, CancelsOne DEF history
    <2>2. \A e \in Events' : e \in Events \/ (e.period = This /\ e.kind # "upcoming")
      BY <2>1 DEF Told, Events
    <2> QED
      BY <2>1, <2>2, TellingStays DEF Told
  <1> QED
    BY <1>1, <1>2, OpenOver, AnnounceOver, EndOver DEF Stripe

LEMMA CustomerOver ==
  ASSUME BaseInv, BaseInv', Sole, Sole', Facts, Customer
  PROVE  Facts'
  <1>1. row \in RowType /\ executions \in Nat
    BY DEF BaseInv, TypeOK
  <1>2. CASE HandleCreateCheckout \/ (\E days \in Windows : HandleSetRetention(days))
    <2>1. UNCHANGED <<row, worker, analyses, items, executions, subscription, pending, delivered>>
      BY <1>2 DEF HandleCreateCheckout, HandleSetRetention, stripe, history
    <2>2. This' = This /\ Events' = Events
      BY <2>1 DEF This, Events
    <2> QED
      BY <2>1, <2>2, TellingStays
  <1>3. CASE HandleDowngradeToHobby
    <2>1. /\ This' = This /\ subscription'[1].upcoming = subscription[1].upcoming /\ Told({"updated"})
          /\ UNCHANGED <<row, worker, analyses, delivered, items, executions>>
      BY <1>3, DowngradesOne DEF history, Sole
    <2>2. \A e \in Events' : e \in Events \/ (e.period = This /\ e.kind # "upcoming")
      BY <2>1 DEF Told, Events
    <2> QED
      BY <2>1, <2>2, TellingStays DEF Told
  <1>4. CASE SetProjectRetentionDays
    <2>1. UNCHANGED <<worker, analyses, items, executions, subscription, pending, delivered>>
      BY <1>4 DEF SetProjectRetentionDays, stripe
    <2>2. This' = This /\ Events' = Events
      BY <2>1 DEF This, Events
    <2>3. row'.executions = row.executions /\ row'.start = row.start /\ row'.customer = row.customer
      BY <1>1, <1>4 DEF SetProjectRetentionDays, RowType
    <2>4. OneOfEach' /\ AnalysisFacts' /\ ExecutionFacts'
      <3>1. executions <= executions'
        BY <1>1, <2>1
      <3> QED
        BY <2>1, <2>2, <3>1, OneStays, AnalysisStays, ExecutionStays DEF Facts
    <2>5. (CheckoutUnderway => CheckoutUnderway') /\ (PaidUnderway => PaidUnderway')
      BY <2>1 DEF CheckoutUnderway, PaidUnderway, At
    <2>6. RowFacts'
      BY <2>1, <2>2, <2>3, <2>5, RowStays DEF Facts
    <2> QED
      BY <2>4, <2>6 DEF Facts
  <1>5. CASE IncrementExecutionsThisPeriod
    <2>1. UNCHANGED <<worker, analyses, items, subscription, pending, delivered>>
          /\ executions' = executions + 1
      BY <1>5 DEF IncrementExecutionsThisPeriod, stripe
    <2>2. This' = This /\ Events' = Events
      BY <2>1 DEF This, Events
    <2>3. /\ row'.executions = row.executions + 1 /\ row.executions \in Nat
          /\ row'.start = row.start /\ row'.customer = row.customer
      BY <1>1, <1>5 DEF IncrementExecutionsThisPeriod, RowType
    <2>4. OneOfEach' /\ AnalysisFacts' /\ ExecutionFacts'
      <3>1. executions <= executions'
        BY <1>1, <2>1
      <3> QED
        BY <2>1, <2>2, <3>1, OneStays, AnalysisStays, ExecutionStays DEF Facts
    <2>5. (CheckoutUnderway => CheckoutUnderway') /\ (PaidUnderway => PaidUnderway')
      BY <2>1 DEF CheckoutUnderway, PaidUnderway, At
    <2> DEFINE P == Bill(Past("execution"), Included)
    <2>6. P' = P
      <3>1. Past("execution")' = Past("execution")
        BY <2>1, <2>2, BillsStay
      <3> QED
        BY <3>1
    <2>7. P \in Int
      BY BillTypes, Numbers
    <2>8. Fresh => Fresh'
      <3> SUFFICES ASSUME Fresh PROVE Fresh'
        OBVIOUS
      <3>1. P + row.executions <= executions /\ row.start \in {NULL, This}
        BY DEF Fresh
      <3> HIDE DEF P
      <3>2. P' + row'.executions <= executions'
        BY <1>1, <2>1, <2>3, <2>6, <2>7, <3>1
      <3> QED
        BY <2>2, <2>3, <3>1, <3>2 DEF Fresh, NULL, P
    <2>9. row'.executions <= executions'
      BY <1>1, <2>1, <2>3 DEF Facts, RowFacts
    <2>10. RowFacts'
      BY <2>1, <2>2, <2>3, <2>5, <2>8, <2>9 DEF Facts, RowFacts, NULL
    <2> QED
      BY <2>4, <2>10 DEF Facts
  <1>6. CASE SaveFailureGroupAnalysis
    <2>1. UNCHANGED <<row, worker, items, subscription, pending, delivered, executions>>
      BY <1>6 DEF SaveFailureGroupAnalysis, stripe, history
    <2>2. This' = This /\ Events' = Events
      BY <2>1 DEF This, Events
    <2>3. OneOfEach' /\ ExecutionFacts'
      <3>1. executions <= executions'
        BY <1>1, <2>1
      <3> QED
        BY <2>1, <2>2, <3>1, OneStays, ExecutionStays DEF Facts
    <2>4. (CheckoutUnderway => CheckoutUnderway') /\ (PaidUnderway => PaidUnderway')
      BY <2>1 DEF CheckoutUnderway, PaidUnderway, At
    <2>5. RowFacts'
      BY <2>1, <2>2, <2>4, RowStays DEF Facts
    <2>6. /\ analyses' = [analyses EXCEPT ![This] = @ + 1] /\ This \in 0 .. MaxPeriod
          /\ analyses \in [0 .. MaxPeriod -> Nat]
      BY <1>6, MonthIsThis DEF SaveFailureGroupAnalysis, BaseInv, TypeOK, Sole
    <2>7. /\ analyses'[This] = analyses[This] + 1 /\ analyses[This] \in Nat
          /\ \A k \in 0 .. MaxPeriod : k # This => analyses'[k] = analyses[k]
          /\ DOMAIN analyses' = 0 .. MaxPeriod /\ DOMAIN analyses = 0 .. MaxPeriod
      BY <2>6
    <2>8. Total(analyses', 0 .. MaxPeriod) = Total(analyses, 0 .. MaxPeriod) + 1
      BY <2>6, AllPeriods, TotalCountsUp
    <2>9. Total(analyses, DOMAIN analyses)' = Total(analyses', 0 .. MaxPeriod)
          /\ Total(analyses, DOMAIN analyses) = Total(analyses, 0 .. MaxPeriod)
      BY <2>7
    <2> DEFINE P == Bill(Past("analysis"), TeamAIAnalysisLimit)
               T == Total(analyses, DOMAIN analyses)
    <2>10. P' = P
      <3>1. Past("analysis")' = Past("analysis")
        BY <2>1, <2>2, BillsStay
      <3> QED
        BY <3>1
    <2>11. P \in Int /\ T \in Nat /\ P + analyses[This] <= T /\ T' = T + 1
      BY <2>8, <2>9, BillTypes, Numbers, AnalysesType DEF BaseInv, Facts, AnalysisFacts
    <2>12. P' + analyses'[This'] <= T'
      <3> HIDE DEF P, T
      <3> QED
        BY <2>2, <2>7, <2>10, <2>11
    <2>13. \A k \in 0 .. MaxPeriod : k > This' => analyses'[k] = 0
      BY <2>2, <2>6, <2>7 DEF Facts, AnalysisFacts
    <2>14. \A i \in Of("analysis")' : i.event.period = This' => i.amount + TeamAIAnalysisLimit <= analyses'[This']
      <3> SUFFICES ASSUME NEW i \in Of("analysis")', i.event.period = This'
                   PROVE  i.amount + TeamAIAnalysisLimit <= analyses'[This']
        OBVIOUS
      <3>1. i \in Of("analysis") /\ i.event.period = This /\ i \in items
        BY <2>1, <2>2 DEF Of
      <3>2. i.amount \in Nat /\ i.amount + TeamAIAnalysisLimit <= analyses[This] /\ TeamAIAnalysisLimit \in Nat
        BY <3>1, ItemNumbers, Numbers DEF Facts, AnalysisFacts
      <3> QED
        BY <2>2, <2>7, <3>2
    <2>15. \A w \in Workers : worker'[w].pc \in {"execution", "analysis"} /\ worker'[w].owed.analysis > 0 =>
             worker'[w].owed.analysis + TeamAIAnalysisLimit <= analyses'[This']
      <3> SUFFICES ASSUME NEW w \in Workers, worker[w].pc \in {"execution", "analysis"},
                          worker[w].owed.analysis > 0
                   PROVE  worker[w].owed.analysis + TeamAIAnalysisLimit <= analyses'[This']
        BY <2>1
      <3>1. worker[w].owed.analysis \in Nat /\ TeamAIAnalysisLimit \in Nat
        BY HeldTypes, Numbers
      <3>2. worker[w].owed.analysis + TeamAIAnalysisLimit <= analyses[This]
        BY DEF Facts, AnalysisFacts
      <3> QED
        BY <2>2, <2>7, <3>1, <3>2
    <2>16. AnalysisFacts'
      BY <2>12, <2>13, <2>14, <2>15 DEF AnalysisFacts
    <2> QED
      BY <2>3, <2>5, <2>16 DEF Facts
  <1> QED
    BY <1>2, <1>3, <1>4, <1>5, <1>6 DEF Customer

LEMMA OverageStep == ASSUME OverageInv, [Next]_vars PROVE OverageInv'
  <1>1. BaseInv /\ BaseInv'
    BY NextBase DEF OverageInv
  <1> SUFFICES ASSUME Sole' PROVE Facts'
    BY <1>1 DEF OverageInv, Facts
  <1>2. Sole /\ Facts /\ errors' = 0
    BY <1>1, SoleBefore DEF OverageInv, Sole, Facts
  <1>3. CASE \E w \in Workers : Webhook(w)
    BY <1>1, <1>2, <1>3, DeliverOver, PlanOver, LookupOver, PaidOver, UpcomingOver DEF Webhook
  <1>4. CASE UNCHANGED vars
    <2>1. UNCHANGED <<row, worker, analyses, items, executions, subscription, pending, delivered>>
      BY <1>4 DEF vars, stripe, history
    <2>2. This' = This /\ Events' = Events
      BY <2>1 DEF This, Events
    <2> QED
      BY <1>1, <1>2, <2>1, <2>2, TellingStays
  <1> QED
    BY <1>1, <1>2, <1>3, <1>4, StripeOver, CustomerOver DEF Next

LEMMA InitOver == ASSUME Init PROVE Facts
  <1>1. BaseInv
    BY InitBase
  <1>2. items = {} /\ This = 0 /\ Events = {} /\ \A w \in Workers : worker[w].pc = "idle"
    BY Numbers DEF Init, This, Events, Idle, NULL
  <1>3. row.start = NULL /\ row.customer = NULL /\ row.executions = 0 /\ executions = 0
    BY DEF Init
  <1>4. \A kind : \A free \in Nat : Bill(Of(kind), free) = 0 /\ Bill(Past(kind), free) = 0
    BY <1>1, <1>2, NothingInvoiced
  <1>5. OneOfEach
    BY <1>2 DEF OneOfEach
  <1>6. RowFacts
    BY <1>2, <1>3, <1>4, Numbers DEF RowFacts, Fresh, NULL
  <1>7. ExecutionFacts
    BY <1>2, <1>3, <1>4, Numbers DEF ExecutionFacts, At
  <1>8. AnalysisFacts
    <2>1. \A k \in 0 .. MaxPeriod : analyses[k] = 0
      BY DEF Init
    <2>2. 0 \in 0 .. MaxPeriod
      BY Numbers
    <2>3. Total(analyses, DOMAIN analyses) \in Nat
      BY <1>1, AnalysesType DEF BaseInv
    <2>4. Of("analysis") = {}
      BY <1>2 DEF Of
    <2> QED
      BY <1>2, <1>4, <2>1, <2>2, <2>3, <2>4, Numbers DEF AnalysisFacts
  <1> QED
    BY <1>5, <1>6, <1>7, <1>8 DEF Facts

\* While every statement succeeds, a project that has opened no more than one
\* subscription is invoiced for no execution and no analysis twice, and the quota of
\* every invoice is free: for any number of webhooks handled at once, in whatever
\* order and however often they are delivered.
THEOREM InvoicedOnce == Spec => []OverageInvoicedOnce
  <1>1. Init => OverageInv
    BY InitBase, InitOver DEF OverageInv, Facts
  <1>2. OverageInv /\ [Next]_vars => OverageInv'
    BY OverageStep
  <1>3. OverageInv => OverageInvoicedOnce
    BY OverageInvImplies
  <1> QED
    BY <1>1, <1>2, <1>3, PTL DEF Spec

=============================================================================

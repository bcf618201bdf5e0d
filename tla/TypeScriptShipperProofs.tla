----------------------- MODULE TypeScriptShipperProofs -----------------------
(***************************************************************************)
(* What the two passes of the TypeScript shipper keep between them, for any *)
(* number of executions and flushes, any sizes of the queue and the batch   *)
(* and any length of the chain of ticks.                                    *)
(***************************************************************************)
EXTENDS TypeScriptShipper, SequenceTheorems, TLAPS

-----------------------------------------------------------------------------
(* The inductive invariant.                                                *)

\* What a pass holds in each of its states: only a request has a batch, and only
\* behind a request, or on its turn, is an item held back.
Shape(r) ==
    /\ r.pc \notin {"send", "died"} => r.batch = <<>>
    /\ r.pc \notin {"send", "died", "dispatch"} => r.next = <<>>
    /\ r.pc = "dispatch" => r.next # <<>>
    /\ r.last => r.next = <<>>

PassesHold == \A p \in Passes : Shape(pass[p])

\* shutdown()'s pass does nothing before shutdown().
DrainWaits == ~stopped => pass["drain"] = Idle

\* A flush() puts its barrier on the queue at most once.
BarriersOnce ==
    /\ \A f \in Flushes : flush[f] = "idle" => f \notin ToSet(accepted)
    /\ \A m, n \in DOMAIN accepted :
          accepted[m] \in Flushes /\ accepted[m] = accepted[n] => m = n

\* A flush that resolved to true has been reached.
ResolvedIsDone == \A f \in Flushes : flush[f] = "true" => f \in ToSet(done)

\* What has been settled has been counted, and what was counted as delivered is at
\* the backend or was left out by it.
DoneIsSettled     == ToSet(done) \subseteq Settled \union Flushes
DeliveredIsStored == delivered \subseteq stored \union OverCap

ShipperInv ==
    /\ TypeOK
    /\ PassesHold
    /\ DrainWaits
    /\ ItemsAreKept
    /\ InOrderUntilShutdown
    /\ BarriersOnce
    /\ ResolvedIsDone
    /\ DoneIsSettled
    /\ DeliveredIsStored

-----------------------------------------------------------------------------
(* Sequences.                                                              *)

LEMMA ToSetType ==
  ASSUME NEW S, NEW s \in Seq(S)
  PROVE  ToSet(s) \subseteq S
  BY ElementOfSeq, LenProperties DEF ToSet

LEMMA ToSetConcat ==
  ASSUME NEW S, NEW s \in Seq(S), NEW t \in Seq(S)
  PROVE  ToSet(s \o t) = ToSet(s) \union ToSet(t)
  <1>1. /\ DOMAIN s = 1 .. Len(s) /\ Len(s) \in Nat
        /\ DOMAIN t = 1 .. Len(t) /\ Len(t) \in Nat
        /\ DOMAIN (s \o t) = 1 .. Len(s) + Len(t)
        /\ \A i \in 1 .. Len(s) + Len(t) :
              (s \o t)[i] = IF i <= Len(s) THEN s[i] ELSE t[i - Len(s)]
    BY LenProperties, ConcatProperties
  <1>2. ASSUME NEW e \in ToSet(s) PROVE e \in ToSet(s \o t)
    BY <1>1 DEF ToSet
  <1>3. ASSUME NEW e \in ToSet(t) PROVE e \in ToSet(s \o t)
    <2>1. PICK i \in 1 .. Len(t) : e = t[i]
      BY <1>1, <1>3 DEF ToSet
    <2>2. Len(s) + i \in 1 .. Len(s) + Len(t) /\ (s \o t)[Len(s) + i] = t[i]
      BY <1>1
    <2> QED
      BY <1>1, <2>1, <2>2 DEF ToSet
  <1>4. ASSUME NEW e \in ToSet(s \o t) PROVE e \in ToSet(s) \union ToSet(t)
    <2>1. PICK i \in 1 .. Len(s) + Len(t) : e = (s \o t)[i]
      BY <1>1, <1>4 DEF ToSet
    <2>2. CASE i <= Len(s)
      BY <1>1, <2>1, <2>2 DEF ToSet
    <2>3. CASE ~(i <= Len(s))
      <3>1. i - Len(s) \in 1 .. Len(t) /\ e = t[i - Len(s)]
        BY <1>1, <2>1, <2>3
      <3> QED
        BY <1>1, <3>1 DEF ToSet
    <2> QED
      BY <2>2, <2>3
  <1> QED
    BY <1>2, <1>3, <1>4

LEMMA Singleton ==
  ASSUME NEW S, NEW e \in S
  PROVE  <<e>> \in Seq(S) /\ ToSet(<<e>>) = {e}
  BY DEF ToSet

LEMMA ToSetAppend ==
  ASSUME NEW S, NEW s \in Seq(S), NEW e \in S
  PROVE  Append(s, e) \in Seq(S) /\ ToSet(Append(s, e)) = ToSet(s) \union {e}
  <1>1. Append(s, e) \in Seq(S) /\ Append(s, e) = s \o <<e>>
    BY AppendProperties, AppendIsConcat
  <1>2. <<e>> \in Seq(S) /\ ToSet(<<e>>) = {e}
    BY Singleton
  <1>3. ToSet(s \o <<e>>) = ToSet(s) \union ToSet(<<e>>)
    BY <1>2, ToSetConcat
  <1> QED
    BY <1>1, <1>2, <1>3

LEMMA HeadThenTail ==
  ASSUME NEW S, NEW s \in Seq(S), s # <<>>
  PROVE  /\ Head(s) \in S /\ Tail(s) \in Seq(S)
         /\ s = <<Head(s)>> \o Tail(s)
  <1>1. Head(s) \in S /\ Tail(s) \in Seq(S) /\ Len(Tail(s)) = Len(s) - 1
        /\ \A i \in 1 .. Len(Tail(s)) : Tail(s)[i] = s[i + 1]
    BY HeadTailProperties
  <1>2. Len(s) \in Nat \ {0} /\ Head(s) = s[1]
    BY EmptySeq
  <1> DEFINE t == <<Head(s)>> \o Tail(s)
  <1>3. <<Head(s)>> \in Seq(S) /\ Len(<<Head(s)>>) = 1 /\ <<Head(s)>>[1] = Head(s)
    BY <1>1
  <1>4. t \in Seq(S) /\ Len(t) = Len(s)
        /\ \A i \in 1 .. Len(s) : t[i] = IF i <= 1 THEN Head(s) ELSE Tail(s)[i - 1]
    BY <1>1, <1>2, <1>3, ConcatProperties
  <1>5. \A i \in 1 .. Len(s) : s[i] = t[i]
    BY <1>1, <1>2, <1>4
  <1> QED
    BY <1>1, <1>4, <1>5, SeqEqual

\* The element that moves from the front of one sequence to the end of the
\* sequence before it.
LEMMA HeadMoves ==
  ASSUME NEW S, NEW s \in Seq(S), NEW t \in Seq(S), t # <<>>
  PROVE  s \o t = s \o <<Head(t)>> \o Tail(t)
  <1>1. Head(t) \in S /\ Tail(t) \in Seq(S) /\ t = <<Head(t)>> \o Tail(t)
    BY HeadThenTail
  <1>2. <<Head(t)>> \in Seq(S)
    BY <1>1
  <1>3. s \o (<<Head(t)>> \o Tail(t)) = (s \o <<Head(t)>>) \o Tail(t)
    BY <1>1, <1>2, ConcatAssociative
  <1> QED
    BY <1>1, <1>3

\* A prefix agrees with the whole.
LEMMA PrefixAgrees ==
  ASSUME NEW S, NEW s \in Seq(S), NEW t \in Seq(S), NEW i \in DOMAIN s
  PROVE  i \in DOMAIN (s \o t) /\ (s \o t)[i] = s[i]
  BY LenProperties, ConcatProperties

LEMMA LenOne ==
  ASSUME NEW S, NEW s \in Seq(S), s # <<>>, Len(s) <= 1
  PROVE  s[1] \in S /\ s = <<s[1]>>
  <1>0. Len(s) \in Nat \ {0}
    BY EmptySeq
  <1>1. Len(s) = 1
    BY <1>0
  <1>2. s[1] \in S
    BY <1>1, ElementOfSeq
  <1>3. <<s[1]>> \in Seq(S) /\ Len(<<s[1]>>) = 1 /\ <<s[1]>>[1] = s[1]
    BY <1>2
  <1> QED
    BY <1>1, <1>2, <1>3, SeqEqual

LEMMA LenConcat ==
  ASSUME NEW S, NEW s \in Seq(S), NEW t \in Seq(S)
  PROVE  s \o t \in Seq(S) /\ Len(s \o t) = Len(s) + Len(t) /\ Len(s) \in Nat /\ Len(t) \in Nat
  BY ConcatProperties, LenProperties

\* Four and five parts that make one sequence.
LEMMA FourParts ==
  ASSUME NEW S, NEW d \in Seq(S), NEW h \in Seq(S), NEW b \in Seq(S), NEW q \in Seq(S)
  PROVE  /\ d \o h \o b \o q \in Seq(S)
         /\ ToSet(d \o h \o b \o q) = ToSet(d) \union ToSet(h) \union ToSet(b) \union ToSet(q)
         /\ Len(d \o h \o b \o q) = Len(d) + Len(h) + Len(b) + Len(q)
         /\ {Len(d), Len(h), Len(b), Len(q)} \subseteq Nat
  <1>1. /\ d \o h \in Seq(S) /\ ToSet(d \o h) = ToSet(d) \union ToSet(h)
        /\ Len(d \o h) = Len(d) + Len(h) /\ {Len(d), Len(h), Len(b), Len(q)} \subseteq Nat
    BY ToSetConcat, LenConcat
  <1>2. PICK u \in Seq(S) : u = d \o h
    BY <1>1
  <1>3. /\ u \o b \in Seq(S) /\ ToSet(u \o b) = ToSet(u) \union ToSet(b)
        /\ Len(u \o b) = Len(u) + Len(b)
    BY ToSetConcat, LenConcat
  <1>4. PICK v \in Seq(S) : v = u \o b
    BY <1>3
  <1>5. /\ v \o q \in Seq(S) /\ ToSet(v \o q) = ToSet(v) \union ToSet(q)
        /\ Len(v \o q) = Len(v) + Len(q)
    BY ToSetConcat, LenConcat
  <1> QED
    BY <1>1, <1>2, <1>3, <1>4, <1>5

\* What the two passes, the batch and the queue make together.
Glue(d, g, h, b, q) == d \o g \o h \o b \o q

SameStuff(s, t) == ToSet(s) = ToSet(t) /\ Len(s) = Len(t)

LEMMA FiveParts ==
  ASSUME NEW S, NEW d, NEW g, NEW h, NEW b, NEW q, {d, g, h, b, q} \subseteq Seq(S)
  PROVE  /\ ToSet(Glue(d, g, h, b, q))
              = ToSet(d) \union ToSet(g) \union ToSet(h) \union ToSet(b) \union ToSet(q)
         /\ Len(Glue(d, g, h, b, q)) = Len(d) + Len(g) + Len(h) + Len(b) + Len(q)
         /\ {Len(d), Len(g), Len(h), Len(b), Len(q)} \subseteq Nat
  <1>1. /\ d \o g \in Seq(S) /\ ToSet(d \o g) = ToSet(d) \union ToSet(g)
        /\ Len(d \o g) = Len(d) + Len(g) /\ {Len(d), Len(g)} \subseteq Nat
    BY ToSetConcat, LenConcat
  <1>2. PICK u \in Seq(S) : u = d \o g
    BY <1>1
  <1>3. /\ ToSet(u \o h \o b \o q) = ToSet(u) \union ToSet(h) \union ToSet(b) \union ToSet(q)
        /\ Len(u \o h \o b \o q) = Len(u) + Len(h) + Len(b) + Len(q)
        /\ {Len(h), Len(b), Len(q)} \subseteq Nat
    BY FourParts
  <1> QED
    BY <1>1, <1>2, <1>3 DEF Glue

\* Parts that change, but not what they make together, with one that stays between them.
LEMMA FirstMoves ==
  ASSUME NEW S, NEW d \in Seq(S), NEW t \in Seq(S), NEW r \in Seq(S), NEW b \in Seq(S), NEW q \in Seq(S),
         NEW d2 \in Seq(S), NEW h \in Seq(S), NEW b2 \in Seq(S), NEW q2 \in Seq(S)
  PROVE  d \o t \o b \o q = d2 \o h \o b2 \o q2
            => SameStuff(Glue(d, t, r, b, q), Glue(d2, h, r, b2, q2))
  <1>0. {d, t, r, b, q} \subseteq Seq(S) /\ {d2, h, r, b2, q2} \subseteq Seq(S)
    OBVIOUS
  <1>1. /\ ToSet(d \o t \o b \o q) = ToSet(d) \union ToSet(t) \union ToSet(b) \union ToSet(q)
        /\ Len(d \o t \o b \o q) = Len(d) + Len(t) + Len(b) + Len(q)
    BY FourParts
  <1>2. /\ ToSet(d2 \o h \o b2 \o q2) = ToSet(d2) \union ToSet(h) \union ToSet(b2) \union ToSet(q2)
        /\ Len(d2 \o h \o b2 \o q2) = Len(d2) + Len(h) + Len(b2) + Len(q2)
    BY FourParts
  <1>3. /\ ToSet(Glue(d, t, r, b, q))
             = ToSet(d) \union ToSet(t) \union ToSet(r) \union ToSet(b) \union ToSet(q)
        /\ Len(Glue(d, t, r, b, q)) = Len(d) + Len(t) + Len(r) + Len(b) + Len(q)
    BY <1>0, FiveParts
  <1>4. /\ ToSet(Glue(d2, h, r, b2, q2))
             = ToSet(d2) \union ToSet(h) \union ToSet(r) \union ToSet(b2) \union ToSet(q2)
        /\ Len(Glue(d2, h, r, b2, q2)) = Len(d2) + Len(h) + Len(r) + Len(b2) + Len(q2)
    BY <1>0, FiveParts
  <1>6. /\ Len(d) \in Nat /\ Len(t) \in Nat /\ Len(r) \in Nat /\ Len(b) \in Nat /\ Len(q) \in Nat
        /\ Len(d2) \in Nat /\ Len(h) \in Nat /\ Len(b2) \in Nat /\ Len(q2) \in Nat
    BY LenProperties, Zenon
  <1> SUFFICES ASSUME d \o t \o b \o q = d2 \o h \o b2 \o q2
               PROVE  SameStuff(Glue(d, t, r, b, q), Glue(d2, h, r, b2, q2))
    OBVIOUS
  <1>7. /\ ToSet(d) \union ToSet(t) \union ToSet(b) \union ToSet(q)
              = ToSet(d2) \union ToSet(h) \union ToSet(b2) \union ToSet(q2)
        /\ Len(d) + Len(t) + Len(b) + Len(q) = Len(d2) + Len(h) + Len(b2) + Len(q2)
    BY <1>1, <1>2, Zenon
  <1>8. ToSet(Glue(d, t, r, b, q)) = ToSet(Glue(d2, h, r, b2, q2))
    BY <1>3, <1>4, <1>7, Zenon
  <1>9. Len(Glue(d, t, r, b, q)) = Len(Glue(d2, h, r, b2, q2))
    <2> DEFINE n == Len(Glue(d, t, r, b, q))
               m == Len(Glue(d2, h, r, b2, q2))
    <2>1. n = Len(d) + Len(t) + Len(r) + Len(b) + Len(q)
          /\ m = Len(d2) + Len(h) + Len(r) + Len(b2) + Len(q2)
      BY <1>3, <1>4
    <2> HIDE DEF n, m
    <2>2. n = m
      BY <1>6, <1>7, <2>1
    <2> QED
      BY <2>2 DEF n, m
  <1> QED
    BY <1>8, <1>9 DEF SameStuff

\* The same, with another one that stays.
LEMMA SecondMoves ==
  ASSUME NEW S, NEW d \in Seq(S), NEW t \in Seq(S), NEW r \in Seq(S), NEW b \in Seq(S), NEW q \in Seq(S),
         NEW d2 \in Seq(S), NEW h \in Seq(S), NEW b2 \in Seq(S), NEW q2 \in Seq(S)
  PROVE  d \o r \o b \o q = d2 \o h \o b2 \o q2
            => SameStuff(Glue(d, t, r, b, q), Glue(d2, t, h, b2, q2))
  <1>0. {d, t, r, b, q} \subseteq Seq(S) /\ {d2, t, h, b2, q2} \subseteq Seq(S)
    OBVIOUS
  <1>1. /\ ToSet(d \o r \o b \o q) = ToSet(d) \union ToSet(r) \union ToSet(b) \union ToSet(q)
        /\ Len(d \o r \o b \o q) = Len(d) + Len(r) + Len(b) + Len(q)
    BY FourParts
  <1>2. /\ ToSet(d2 \o h \o b2 \o q2) = ToSet(d2) \union ToSet(h) \union ToSet(b2) \union ToSet(q2)
        /\ Len(d2 \o h \o b2 \o q2) = Len(d2) + Len(h) + Len(b2) + Len(q2)
    BY FourParts
  <1>3. /\ ToSet(Glue(d, t, r, b, q))
             = ToSet(d) \union ToSet(t) \union ToSet(r) \union ToSet(b) \union ToSet(q)
        /\ Len(Glue(d, t, r, b, q)) = Len(d) + Len(t) + Len(r) + Len(b) + Len(q)
    BY <1>0, FiveParts
  <1>4. /\ ToSet(Glue(d2, t, h, b2, q2))
             = ToSet(d2) \union ToSet(t) \union ToSet(h) \union ToSet(b2) \union ToSet(q2)
        /\ Len(Glue(d2, t, h, b2, q2)) = Len(d2) + Len(t) + Len(h) + Len(b2) + Len(q2)
    BY <1>0, FiveParts
  <1>6. /\ Len(d) \in Nat /\ Len(t) \in Nat /\ Len(r) \in Nat /\ Len(b) \in Nat /\ Len(q) \in Nat
        /\ Len(d2) \in Nat /\ Len(h) \in Nat /\ Len(b2) \in Nat /\ Len(q2) \in Nat
    BY LenProperties, Zenon
  <1> SUFFICES ASSUME d \o r \o b \o q = d2 \o h \o b2 \o q2
               PROVE  SameStuff(Glue(d, t, r, b, q), Glue(d2, t, h, b2, q2))
    OBVIOUS
  <1>7. /\ ToSet(d) \union ToSet(r) \union ToSet(b) \union ToSet(q)
              = ToSet(d2) \union ToSet(h) \union ToSet(b2) \union ToSet(q2)
        /\ Len(d) + Len(r) + Len(b) + Len(q) = Len(d2) + Len(h) + Len(b2) + Len(q2)
    BY <1>1, <1>2, Zenon
  <1>8. ToSet(Glue(d, t, r, b, q)) = ToSet(Glue(d2, t, h, b2, q2))
    BY <1>3, <1>4, <1>7, Zenon
  <1>9. Len(Glue(d, t, r, b, q)) = Len(Glue(d2, t, h, b2, q2))
    <2> DEFINE n == Len(Glue(d, t, r, b, q))
               m == Len(Glue(d2, t, h, b2, q2))
    <2>1. n = Len(d) + Len(t) + Len(r) + Len(b) + Len(q)
          /\ m = Len(d2) + Len(t) + Len(h) + Len(b2) + Len(q2)
      BY <1>3, <1>4
    <2> HIDE DEF n, m
    <2>2. n = m
      BY <1>6, <1>7, <2>1
    <2> QED
      BY <2>2 DEF n, m
  <1> QED
    BY <1>8, <1>9 DEF SameStuff

-----------------------------------------------------------------------------
(* What every action shares.                                               *)

\* All of the queue's past and future that a pass has a part in.
Content(p) == done \o Held(p) \o pending \o queue

LEMMA HeldType ==
  ASSUME NEW r \in PassType
  PROVE  /\ r.batch \in Seq(Items) /\ r.batch \in Seq(Entries) /\ r.next \in Seq(Entries)
         /\ r.batch \o r.next \in Seq(Entries)
  <1>1. r.batch \in Seq(Items) /\ r.next \in Seq(Entries)
    BY DEF PassType
  <1>2. r.batch \in Seq(Entries)
    BY <1>1, SeqMonotonic DEF Entries
  <1> QED
    BY <1>1, <1>2, ConcatProperties

LEMMA Parts ==
  ASSUME TypeOK
  PROVE  /\ queue \in Seq(Entries) /\ accepted \in Seq(Entries) /\ done \in Seq(Entries)
         /\ pending \in Seq(Items) /\ pending \in Seq(Entries)
         /\ \A p \in Passes :
               /\ pass[p] \in PassType
               /\ pass[p].batch \in Seq(Items) /\ pass[p].batch \in Seq(Entries)
               /\ pass[p].next \in Seq(Entries)
               /\ Held(p) \in Seq(Entries)
               /\ Batch(p) \subseteq Items
  BY HeldType, SeqMonotonic, ToSetType DEF TypeOK, Entries, Held, Batch

LEMMA EventsAreItems ==
  ASSUME NEW i, IsEvent(i)
  PROVE  i \in Items
  <1>1. 1 .. Events \subseteq 0 .. Events + 1
    BY ConstantsAssumption
  <1> QED
    BY <1>1 DEF IsEvent, Items


\* Facts about concatenations, named so that they can be passed on whole.
Sequences5(S, d, b, q, h, r)    == {d, b, q, h, r} \subseteq Seq(S)
Sequences6(S, d, b, q, h, n, r) == {d, b, q, h, n, r} \subseteq Seq(S)

Same2(b, q, h, r)          == b \o q = h \o r
Same3(b, q, h, n, r)       == b \o q = h \o (n \o r)
SameTail(d, b, q, h, r)    == d \o b \o q = d \o h \o r
Taken(d, b, q, h, n, r)    == d \o b \o q = d \o (h \o n) \o <<>> \o r

\* What waits in b and q goes into other hands, in order.
LEMMA Regroup ==
  ASSUME NEW S, NEW d, NEW b, NEW q, NEW h, NEW n, NEW r, Sequences6(S, d, b, q, h, n, r)
  PROVE  Same3(b, q, h, n, r) => Taken(d, b, q, h, n, r)
  <1>1. h \o n \in Seq(S)
    <2>1. h \in Seq(S) /\ n \in Seq(S)
      BY DEF Sequences6
    <2> QED
      BY <2>1, ConcatProperties
  <1>2. (d \o b) \o q = d \o (b \o q)
    <2>1. d \in Seq(S) /\ b \in Seq(S) /\ q \in Seq(S)
      BY DEF Sequences6
    <2> QED
      BY <2>1, ConcatAssociative
  <1>3. (h \o n) \o r = h \o (n \o r)
    <2>1. h \in Seq(S) /\ n \in Seq(S) /\ r \in Seq(S)
      BY DEF Sequences6
    <2> QED
      BY <2>1, ConcatAssociative
  <1>4. (d \o (h \o n)) \o r = d \o ((h \o n) \o r)
    <2>1. d \in Seq(S) /\ r \in Seq(S)
      BY DEF Sequences6
    <2>2. PICK k \in Seq(S) : k = h \o n
      BY <1>1
    <2>3. (d \o k) \o r = d \o (k \o r)
      BY <2>1, ConcatAssociative
    <2> QED
      BY <2>2, <2>3
  <1>5. d \o (h \o n) \o <<>> = d \o (h \o n)
    <2>1. d \in Seq(S)
      BY DEF Sequences6
    <2>2. d \o (h \o n) \in Seq(S)
      BY <1>1, <2>1, ConcatProperties
    <2> QED
      BY <2>2, ConcatEmptySeq
  <1> QED
    BY <1>2, <1>3, <1>4, <1>5 DEF Same3, Taken

LEMMA Regroup3 ==
  ASSUME NEW S, NEW d, NEW b, NEW q, NEW h, NEW r, Sequences5(S, d, b, q, h, r)
  PROVE  Same2(b, q, h, r) => SameTail(d, b, q, h, r)
  <1>1. (d \o b) \o q = d \o (b \o q)
    <2>1. d \in Seq(S) /\ b \in Seq(S) /\ q \in Seq(S)
      BY DEF Sequences5
    <2> QED
      BY <2>1, ConcatAssociative
  <1>2. (d \o h) \o r = d \o (h \o r)
    <2>1. d \in Seq(S) /\ h \in Seq(S) /\ r \in Seq(S)
      BY DEF Sequences5
    <2> QED
      BY <2>1, ConcatAssociative
  <1> QED
    BY <1>1, <1>2 DEF Same2, SameTail

LEMMA Empty ==
  /\ <<>> \in Seq(Items) /\ <<>> \in Seq(Entries) /\ Len(<<>>) = 0 /\ ToSet(<<>>) = {}
  /\ <<>> \o <<>> = <<>>
  /\ 0 \in 0 .. MaxRetries /\ 0 <= BatchSize /\ 0 < BatchSize /\ 0 <= MaxQueue
  BY EmptySeq, ConcatEmptySeq, ConstantsAssumption DEF ToSet

\* A record that a pass may hold.
Fits(r) == r \in PassType /\ Len(r.batch) <= BatchSize /\ Len(r.next) <= 1 /\ Shape(r)

LEMMA IdleFits ==
  ASSUME NEW pc \in {"idle", "run", "check", "over"}
  PROVE  /\ Fits([Idle EXCEPT !.pc = pc])
         /\ [Idle EXCEPT !.pc = pc].batch \o [Idle EXCEPT !.pc = pc].next = <<>>
  <1>1. PICK r : r = [Idle EXCEPT !.pc = pc]
    OBVIOUS
  <1>2. r = [pc |-> pc, batch |-> <<>>, next |-> <<>>, attempt |-> 0, last |-> FALSE]
    BY <1>1 DEF Idle
  <1>3. Fits(r) /\ r.batch \o r.next = <<>>
    BY <1>2, Empty DEF Fits, PassType, Shape
  <1> QED
    BY <1>1, <1>3

LEMMA DispatchRecord ==
  ASSUME NEW n, NEW r, r = [Idle EXCEPT !.pc = "dispatch", !.next = n]
  PROVE  r = [pc |-> "dispatch", batch |-> <<>>, next |-> n, attempt |-> 0, last |-> FALSE]
  BY DEF Idle

LEMMA DispatchFits ==
  ASSUME NEW n \in Seq(Entries), n # <<>>, Len(n) <= 1
  PROVE  /\ Fits([Idle EXCEPT !.pc = "dispatch", !.next = n])
         /\ [Idle EXCEPT !.pc = "dispatch", !.next = n].batch = <<>>
         /\ [Idle EXCEPT !.pc = "dispatch", !.next = n].next = n
  <1>1. PICK r : r = [Idle EXCEPT !.pc = "dispatch", !.next = n]
    OBVIOUS
  <1>2. r = [pc |-> "dispatch", batch |-> <<>>, next |-> n, attempt |-> 0, last |-> FALSE]
    BY <1>1, DispatchRecord, Zenon
  <1>3. Fits(r) /\ r.batch = <<>> /\ r.next = n
    BY <1>2, Empty DEF Fits, PassType, Shape
  <1> QED
    BY <1>1, <1>3, Zenon

LEMMA SendFits ==
  ASSUME NEW b \in Seq(Items), NEW n \in Seq(Entries), NEW last \in BOOLEAN,
         Len(b) <= BatchSize, Len(n) <= 1, last => n = <<>>,
         NEW r, r = [pc |-> "send", batch |-> b, next |-> n, attempt |-> 0, last |-> last]
  PROVE  Fits(r) /\ r.batch = b /\ r.next = n
  BY Empty DEF Fits, PassType, Shape

LEMMA GotoFits ==
  ASSUME ShipperInv, NEW p \in Passes, NEW r, Fits(r), Goto(p, r)
  PROVE  /\ pass' \in [Passes -> PassType]
         /\ \A o \in Passes : Len(pass'[o].batch) <= BatchSize /\ Len(pass'[o].next) <= 1
         /\ PassesHold'
         /\ pass'[p] = r
         /\ Held(p)' = r.batch \o r.next
         /\ \A o \in Passes : o # p => pass'[o] = pass[o]
  <1>1. pass \in [Passes -> PassType] /\ pass' = [pass EXCEPT ![p] = r] /\ r \in PassType
    BY DEF ShipperInv, TypeOK, Goto, Fits
  <1>2. /\ pass' \in [Passes -> PassType] /\ pass'[p] = r
        /\ \A o \in Passes : o # p => pass'[o] = pass[o]
    BY <1>1
  <1>3. \A o \in Passes : Len(pass'[o].batch) <= BatchSize /\ Len(pass'[o].next) <= 1
    BY <1>2 DEF Fits, ShipperInv, TypeOK
  <1>4. PassesHold'
    BY <1>2 DEF Fits, ShipperInv, PassesHold
  <1>5. Held(p)' = r.batch \o r.next
    BY <1>2 DEF Held
  <1> QED
    BY <1>2, <1>3, <1>4, <1>5

LEMMA KeptIsTheSame ==
  /\ ItemsAreKept <=> SameStuff(Glue(done, Held("tick"), Held("drain"), pending, queue), accepted)
  /\ ItemsAreKept' <=>
       SameStuff(Glue(done, Held("tick"), Held("drain"), pending, queue)', accepted')
  <1>1. ItemsAreKept <=> SameStuff(Glue(done, Held("tick"), Held("drain"), pending, queue), accepted)
    BY DEF ItemsAreKept, SameStuff, Glue
  <1>2. ItemsAreKept' <=>
          SameStuff(Glue(done, Held("tick"), Held("drain"), pending, queue)', accepted')
    BY DEF ItemsAreKept, SameStuff, Glue, ToSet
  <1> QED
    BY <1>1, <1>2

\* A step of one pass that passes things on in order keeps the whole.
LEMMA PassMoves ==
  ASSUME ShipperInv, TypeOK', NEW p \in Passes, UNCHANGED <<accepted, stopped>>,
         Content(p)' = Content(p), pass[p].pc # "idle",
         \A o \in Passes : o # p => pass'[o] = pass[o]
  PROVE  ItemsAreKept' /\ DrainWaits' /\ InOrderUntilShutdown'
  <1>1. /\ done \in Seq(Entries) /\ pending \in Seq(Entries) /\ queue \in Seq(Entries)
        /\ Held("tick") \in Seq(Entries) /\ Held("drain") \in Seq(Entries)
    BY Parts DEF ShipperInv, Passes
  <1>2. /\ done' \in Seq(Entries) /\ pending' \in Seq(Entries) /\ queue' \in Seq(Entries)
        /\ Held("tick")' \in Seq(Entries) /\ Held("drain")' \in Seq(Entries)
    <2>1. done' \in Seq(Entries) /\ pending' \in Seq(Items) /\ queue' \in Seq(Entries)
          /\ pass'["tick"] \in PassType /\ pass'["drain"] \in PassType
      BY DEF TypeOK, Passes
    <2>2. pending' \in Seq(Entries)
      BY <2>1, SeqMonotonic DEF Entries
    <2> QED
      BY <2>1, <2>2, HeldType DEF Held
  <1>3. Glue(done, Held("tick"), Held("drain"), pending, queue)'
           = Glue(done', Held("tick")', Held("drain")', pending', queue')
    BY DEF Glue
  <1>4. SameStuff(Glue(done, Held("tick"), Held("drain"), pending, queue),
                  Glue(done, Held("tick"), Held("drain"), pending, queue)')
    <2>1. CASE p = "tick"
      <3>1. Held("drain")' = Held("drain")
        BY <2>1 DEF Held, Passes
      <3>2. done \o Held("tick") \o pending \o queue
              = done' \o Held("tick")' \o pending' \o queue'
        BY <2>1 DEF Content
      <3> QED
        BY <1>1, <1>2, <1>3, <3>1, <3>2, FirstMoves, Zenon
    <2>2. CASE p = "drain"
      <3>1. Held("tick")' = Held("tick")
        BY <2>2 DEF Held, Passes
      <3>2. done \o Held("drain") \o pending \o queue
              = done' \o Held("drain")' \o pending' \o queue'
        BY <2>2 DEF Content
      <3> QED
        BY <1>1, <1>2, <1>3, <3>1, <3>2, SecondMoves, Zenon
    <2> QED
      BY <2>1, <2>2 DEF Passes
  <1>6. ItemsAreKept'
    BY <1>4, KeptIsTheSame DEF ShipperInv, SameStuff
  <1>7. ~stopped => p = "tick" /\ pass'["drain"] = pass["drain"]
    BY DEF ShipperInv, DrainWaits, Idle, Passes
  <1>8. DrainWaits' /\ InOrderUntilShutdown'
    BY <1>7 DEF ShipperInv, DrainWaits, InOrderUntilShutdown, Content
  <1> QED
    BY <1>6, <1>8

\* A step that puts nothing on the queue, settles nothing and counts nothing.
LEMMA SameHistories ==
  ASSUME ShipperInv, UNCHANGED <<accepted, flush, done, counters, stored>>
  PROVE  BarriersOnce' /\ ResolvedIsDone' /\ DoneIsSettled' /\ DeliveredIsStored'
  BY DEF ShipperInv, BarriersOnce, ResolvedIsDone, DoneIsSettled, DeliveredIsStored,
         Settled, counters

\* Between two items a pass holds nothing.
LEMMA RunHolds ==
  ASSUME ShipperInv, NEW p \in Passes, pass[p].pc \in {"run", "idle", "check", "over"}
  PROVE  Held(p) = <<>> /\ Content(p) = done \o pending \o queue
  <1>1. Held(p) = <<>>
    BY Empty DEF ShipperInv, PassesHold, Shape, Held
  <1>2. done \in Seq(Entries) /\ done \o <<>> = done
    BY ConcatEmptySeq, Parts DEF ShipperInv
  <1> QED
    BY <1>1, <1>2 DEF Content

LEMMA InitShips == Init => ShipperInv
  <1> SUFFICES ASSUME Init PROVE ShipperInv
    OBVIOUS
  <1> USE DEF Init
  <1>1. Fits(Idle) /\ Idle.batch = <<>> /\ Idle.next = <<>>
    BY Empty DEF Fits, Idle, PassType, Shape
  <1>2. \A p \in Passes : pass[p] = Idle
    OBVIOUS
  <1>3. TypeOK
    <2>1. step \in [Executions -> 0 .. Events + 2] /\ chained \in 0 .. MaxChained
      BY ConstantsAssumption
    <2>2. pass \in [Passes -> PassType]
          /\ \A p \in Passes : Len(pass[p].batch) <= BatchSize /\ Len(pass[p].next) <= 1
      BY <1>1, <1>2 DEF Fits
    <2> QED
      BY <2>1, <2>2, Empty DEF TypeOK
  <1>4. PassesHold /\ DrainWaits
    BY <1>1, <1>2 DEF Fits, PassesHold, DrainWaits, Passes
  <1>5. Held("tick") = <<>> /\ Held("drain") = <<>>
    BY <1>1, <1>2, Empty DEF Held, Passes
  <1>6. ItemsAreKept /\ InOrderUntilShutdown
    BY <1>5, Empty DEF ItemsAreKept, InOrderUntilShutdown
  <1>7. BarriersOnce /\ ResolvedIsDone /\ DoneIsSettled /\ DeliveredIsStored
    BY Empty DEF BarriersOnce, ResolvedIsDone, DoneIsSettled, DeliveredIsStored, Settled
  <1> QED
    BY <1>3, <1>4, <1>6, <1>7 DEF ShipperInv

-----------------------------------------------------------------------------
(* The application.                                                        *)

LEMMA PutKeeps ==
  ASSUME ShipperInv, NEW e \in Entries, Put(e), HasRoom, UNCHANGED <<pending, pass, done, stopped>>,
         e \in Flushes => e \notin ToSet(accepted)
  PROVE  /\ queue' \in Seq(Entries) /\ Len(queue') <= MaxQueue
         /\ accepted' \in Seq(Entries) /\ ToSet(accepted') = ToSet(accepted) \union {e}
         /\ ItemsAreKept' /\ InOrderUntilShutdown'
         /\ \A m, n \in DOMAIN accepted' :
               accepted'[m] \in Flushes /\ accepted'[m] = accepted'[n] => m = n
  <1>0. /\ queue \in Seq(Entries) /\ accepted \in Seq(Entries) /\ done \in Seq(Entries)
        /\ pending \in Seq(Entries) /\ Held("tick") \in Seq(Entries) /\ Held("drain") \in Seq(Entries)
    BY Parts DEF ShipperInv, Passes
  <1>1. queue' \in Seq(Entries) /\ Len(queue') <= MaxQueue
    BY AppendProperties, LenProperties, ConstantsAssumption DEF ShipperInv, TypeOK, HasRoom, Put
  <1>2. /\ accepted' \in Seq(Entries) /\ ToSet(accepted') = ToSet(accepted) \union {e}
        /\ Len(accepted') = Len(accepted) + 1
        /\ ToSet(queue') = ToSet(queue) \union {e} /\ Len(queue') = Len(queue) + 1
    BY <1>0, ToSetAppend, AppendProperties DEF Put
  <1>3. ItemsAreKept'
    <2>1. Held("tick")' = Held("tick") /\ Held("drain")' = Held("drain")
      BY DEF Held
    <2>2. PICK t, r : t = Held("tick") /\ r = Held("drain")
      OBVIOUS
    <2>3. {done, t, r, pending, queue} \subseteq Seq(Entries)
          /\ {done, t, r, pending, queue'} \subseteq Seq(Entries)
      BY <1>0, <1>1, <2>2
    <2>4. /\ ToSet(Glue(done, t, r, pending, queue))
               = ToSet(done) \union ToSet(t) \union ToSet(r) \union ToSet(pending) \union ToSet(queue)
          /\ Len(Glue(done, t, r, pending, queue))
               = Len(done) + Len(t) + Len(r) + Len(pending) + Len(queue)
          /\ {Len(done), Len(t), Len(r), Len(pending), Len(queue)} \subseteq Nat
      BY <2>3, FiveParts
    <2>5. /\ ToSet(Glue(done, t, r, pending, queue'))
               = ToSet(done) \union ToSet(t) \union ToSet(r) \union ToSet(pending) \union ToSet(queue')
          /\ Len(Glue(done, t, r, pending, queue'))
               = Len(done) + Len(t) + Len(r) + Len(pending) + Len(queue')
      BY <2>3, FiveParts
    <2>6. SameStuff(Glue(done, t, r, pending, queue), accepted)
      BY <2>2 DEF ShipperInv, ItemsAreKept, SameStuff, Glue
    <2>7. SameStuff(Glue(done, t, r, pending, queue'), accepted')
      <3>1. Len(Glue(done, t, r, pending, queue')) = Len(accepted')
        BY <1>2, <2>4, <2>5, <2>6 DEF SameStuff
      <3>2. ToSet(Glue(done, t, r, pending, queue')) = ToSet(accepted')
        BY <1>2, <2>4, <2>5, <2>6 DEF SameStuff
      <3> QED
        BY <3>1, <3>2 DEF SameStuff
    <2>8. Glue(done, Held("tick"), Held("drain"), pending, queue)'
            = Glue(done, t, r, pending, queue')
      BY <2>1, <2>2 DEF Glue
    <2> QED
      BY <2>7, <2>8, KeptIsTheSame
  <1>4. InOrderUntilShutdown'
    <2>1. PICK held : held = done \o Held("tick") \o pending
      OBVIOUS
    <2>2. held \in Seq(Entries)
      BY <1>0, <2>1, ConcatProperties
    <2>3. <<e>> \in Seq(Entries) /\ accepted' = accepted \o <<e>> /\ queue' = queue \o <<e>>
      BY <1>0, AppendIsConcat, Singleton DEF Put
    <2>4. (held \o queue) \o <<e>> = held \o (queue \o <<e>>)
      <3>1. queue \in Seq(Entries) /\ held \in Seq(Entries) /\ <<e>> \in Seq(Entries)
        BY <1>0, <2>2, <2>3
      <3> QED
        BY <3>1, ConcatAssociative
    <2>5. ~stopped => accepted = held \o queue
      BY <2>1 DEF ShipperInv, InOrderUntilShutdown
    <2>6. held = (done \o Held("tick") \o pending)'
      BY <2>1 DEF Held
    <2>7. ~stopped => accepted' = held \o queue'
      BY <2>3, <2>4, <2>5
    <2> QED
      BY <2>6, <2>7 DEF InOrderUntilShutdown
  <1>5. ASSUME NEW m \in DOMAIN accepted', NEW n \in DOMAIN accepted',
               accepted'[m] \in Flushes, accepted'[m] = accepted'[n]
        PROVE  m = n
    <2>1. /\ DOMAIN accepted = 1 .. Len(accepted) /\ Len(accepted) \in Nat
          /\ DOMAIN accepted' = 1 .. Len(accepted) + 1
          /\ accepted'[Len(accepted) + 1] = e
          /\ \A i \in DOMAIN accepted : accepted'[i] = accepted[i]
      BY <1>0, <1>2, AppendProperties, LenProperties DEF Put
    <2>2. \A i \in DOMAIN accepted : accepted[i] \in Flushes => accepted[i] # e
      BY DEF ToSet
    <2>3. CASE m \in DOMAIN accepted /\ n \in DOMAIN accepted
      BY <2>1, <2>3, <1>5 DEF ShipperInv, BarriersOnce
    <2>4. CASE m \notin DOMAIN accepted /\ n \in DOMAIN accepted
      BY <2>1, <2>2, <2>4, <1>5
    <2>5. CASE m \in DOMAIN accepted /\ n \notin DOMAIN accepted
      BY <2>1, <2>2, <2>5, <1>5
    <2>6. CASE m \notin DOMAIN accepted /\ n \notin DOMAIN accepted
      BY <2>1, <2>6
    <2> QED
      BY <2>3, <2>4, <2>5, <2>6
  <1> QED
    BY <1>1, <1>2, <1>3, <1>4, <1>5

\* What neither moves nor accepts anything.
LEMMA NothingMoves ==
  ASSUME ShipperInv, UNCHANGED <<queue, pending, accepted, done, stopped, pass>>
  PROVE  PassesHold' /\ DrainWaits' /\ ItemsAreKept' /\ InOrderUntilShutdown'
  <1>1. PassesHold' /\ DrainWaits' /\ InOrderUntilShutdown'
    BY DEF ShipperInv, PassesHold, DrainWaits, InOrderUntilShutdown, Held
  <1>2. Glue(done, Held("tick"), Held("drain"), pending, queue)'
          = Glue(done, Held("tick"), Held("drain"), pending, queue)
    BY DEF Glue, Held
  <1> QED
    BY <1>1, <1>2, KeptIsTheSame DEF ShipperInv

LEMMA SubmitShips ==
  ASSUME ShipperInv, NEW x \in Executions, Submit(x)
  PROVE  ShipperInv'
  <1> DEFINE e == <<x, step[x]>>
  <1>0. TypeOK /\ UNCHANGED <<pending, flush, stopped, chained, broken, late, pass, done, counters, stored>>
    BY DEF ShipperInv, Submit
  <1>1. e \in Items /\ e \in Entries
    BY <1>0, ConstantsAssumption DEF Submit, TypeOK, Items, Entries
  <1>2. step' \in [Executions -> 0 .. Events + 2]
    BY <1>0, ConstantsAssumption DEF Submit, TypeOK
  <1>3. ResolvedIsDone' /\ DoneIsSettled' /\ DeliveredIsStored'
    BY <1>0 DEF ShipperInv, ResolvedIsDone, DoneIsSettled, DeliveredIsStored, Settled, counters
  <1>4. CASE ~stopped /\ HasRoom
    <2>1. Put(e) /\ UNCHANGED dropped
      BY <1>4 DEF Submit
    <2>2. PassesHold' /\ DrainWaits'
      BY <1>0 DEF ShipperInv, PassesHold, DrainWaits
    <2>3. e \notin Flushes
      BY ConstantsAssumption, <1>1 DEF Items
    <2>4. /\ queue' \in Seq(Entries) /\ Len(queue') <= MaxQueue
          /\ accepted' \in Seq(Entries) /\ ToSet(accepted') = ToSet(accepted) \union {e}
          /\ ItemsAreKept' /\ InOrderUntilShutdown'
          /\ \A m, n \in DOMAIN accepted' :
               accepted'[m] \in Flushes /\ accepted'[m] = accepted'[n] => m = n
      BY <1>0, <1>1, <1>4, <2>1, <2>3, PutKeeps
    <2>5. TypeOK'
      BY <1>0, <1>2, <2>1, <2>4 DEF TypeOK, counters
    <2>6. BarriersOnce'
      <3>1. \A f \in Flushes : flush'[f] = "idle" => f \notin ToSet(accepted')
        BY <1>0, <2>3, <2>4 DEF ShipperInv, BarriersOnce
      <3>2. ToSet(accepted)' = ToSet(accepted')
        BY DEF ToSet
      <3> QED
        BY <2>4, <3>1, <3>2 DEF BarriersOnce
    <2> QED
      BY <1>3, <2>2, <2>4, <2>5, <2>6 DEF ShipperInv
  <1>5. CASE ~(~stopped /\ HasRoom)
    <2>1. dropped' \subseteq Entries /\ UNCHANGED <<queue, accepted>>
      BY <1>0, <1>1, <1>5 DEF Submit, TypeOK
    <2>2. TypeOK'
      BY <1>0, <1>2, <2>1 DEF TypeOK, counters
    <2> QED
      BY <1>0, <2>1, <2>2, NothingMoves, SameHistories DEF ShipperInv
  <1> QED
    BY <1>4, <1>5

LEMMA FlushShips ==
  ASSUME ShipperInv, NEW f \in Flushes, Flush(f)
  PROVE  ShipperInv'
  <1>0. TypeOK /\ f \in Entries /\ flush[f] = "idle"
        /\ UNCHANGED <<pending, step, stopped, chained, broken, late, pass, done, counters, stored>>
    BY DEF ShipperInv, Flush, Entries
  <1>1. /\ flush' \in [Flushes -> {"idle", "waiting", "true", "false"}]
        /\ \A g \in Flushes : /\ flush'[g] = "idle" => flush[g] = "idle" /\ g # f
                              /\ flush'[g] = "true" => flush[g] = "true"
    BY <1>0 DEF Flush, TypeOK
  <1>2. DoneIsSettled' /\ DeliveredIsStored' /\ ResolvedIsDone'
    BY <1>0, <1>1 DEF ShipperInv, ResolvedIsDone, DoneIsSettled, DeliveredIsStored, Settled, counters
  <1>3. CASE ~stopped /\ HasRoom
    <2>1. Put(f) /\ UNCHANGED dropped
      BY <1>3 DEF Flush
    <2>2. PassesHold' /\ DrainWaits'
      BY <1>0 DEF ShipperInv, PassesHold, DrainWaits
    <2>3. f \notin ToSet(accepted)
      BY <1>0 DEF ShipperInv, BarriersOnce
    <2>4. /\ queue' \in Seq(Entries) /\ Len(queue') <= MaxQueue
          /\ accepted' \in Seq(Entries) /\ ToSet(accepted') = ToSet(accepted) \union {f}
          /\ ItemsAreKept' /\ InOrderUntilShutdown'
          /\ \A m, n \in DOMAIN accepted' :
               accepted'[m] \in Flushes /\ accepted'[m] = accepted'[n] => m = n
      BY <1>0, <1>3, <2>1, <2>3, PutKeeps
    <2>5. TypeOK'
      BY <1>0, <1>1, <2>1, <2>4 DEF TypeOK, counters
    <2>6. BarriersOnce'
      <3>1. \A g \in Flushes : flush'[g] = "idle" => g \notin ToSet(accepted')
        BY <1>1, <2>4 DEF ShipperInv, BarriersOnce
      <3>2. ToSet(accepted)' = ToSet(accepted')
        BY DEF ToSet
      <3> QED
        BY <2>4, <3>1, <3>2 DEF BarriersOnce
    <2> QED
      BY <1>2, <2>2, <2>4, <2>5, <2>6 DEF ShipperInv
  <1>4. CASE ~(~stopped /\ HasRoom)
    <2>1. dropped' \subseteq Entries /\ UNCHANGED <<queue, accepted>>
      BY <1>0, <1>4 DEF Flush, TypeOK
    <2>2. TypeOK'
      BY <1>0, <1>1, <2>1 DEF TypeOK, counters
    <2>3. BarriersOnce'
      BY <1>1, <2>1 DEF ShipperInv, BarriersOnce
    <2> QED
      BY <1>0, <1>2, <2>1, <2>2, <2>3, NothingMoves DEF ShipperInv
  <1> QED
    BY <1>3, <1>4

LEMMA FlushTimesOutShips ==
  ASSUME ShipperInv, NEW f \in Flushes, FlushTimesOut(f)
  PROVE  ShipperInv'
  <1>0. TypeOK /\ flush[f] = "waiting"
        /\ UNCHANGED <<queue, pending, accepted, step, stopped, chained, broken, late, pass, done, counters, dropped, stored>>
    BY DEF ShipperInv, FlushTimesOut
  <1>1. /\ flush' \in [Flushes -> {"idle", "waiting", "true", "false"}]
        /\ \A g \in Flushes : /\ flush'[g] = "idle" => flush[g] = "idle"
                              /\ flush'[g] = "true" => flush[g] = "true"
    BY <1>0 DEF FlushTimesOut, TypeOK
  <1>2. TypeOK'
    BY <1>0, <1>1 DEF TypeOK, counters
  <1>3. BarriersOnce' /\ DoneIsSettled' /\ DeliveredIsStored' /\ ResolvedIsDone'
    BY <1>0, <1>1 DEF ShipperInv, BarriersOnce, ResolvedIsDone, DoneIsSettled, DeliveredIsStored,
                      Settled, counters
  <1> QED
    BY <1>0, <1>2, <1>3, NothingMoves DEF ShipperInv

-----------------------------------------------------------------------------
(* The passes.                                                             *)

\* A step that only brings a pass that holds nothing to another place.
LEMMA PassTurns ==
  ASSUME ShipperInv, NEW p \in Passes, pass[p].pc \in {"run", "idle", "check"},
         NEW pc \in {"idle", "run", "check", "over"}, Goto(p, [Idle EXCEPT !.pc = pc]),
         stopped' \in BOOLEAN, p = "drain" \/ stopped' = stopped, stopped => stopped',
         p = "drain" => stopped',
         chained' \in 0 .. MaxChained, broken' \in BOOLEAN, late' \in BOOLEAN,
         UNCHANGED <<queue, pending, accepted, step, flush, done, counters, dropped, stored>>
  PROVE  ShipperInv'
  <1>1. /\ Fits([Idle EXCEPT !.pc = pc])
        /\ [Idle EXCEPT !.pc = pc].batch \o [Idle EXCEPT !.pc = pc].next = <<>>
    BY IdleFits
  <1>2. /\ pass' \in [Passes -> PassType]
        /\ \A o \in Passes : Len(pass'[o].batch) <= BatchSize /\ Len(pass'[o].next) <= 1
        /\ PassesHold'
        /\ Held(p)' = <<>>
        /\ \A o \in Passes : o # p => pass'[o] = pass[o]
    BY <1>1, GotoFits
  <1>3. TypeOK'
    BY <1>2 DEF ShipperInv, TypeOK, counters
  <1>4. Held(p) = <<>>
    BY RunHolds
  <1>5. Held("tick")' = Held("tick") /\ Held("drain")' = Held("drain")
    BY <1>2, <1>4 DEF Held, Passes
  <1>6. Glue(done, Held("tick"), Held("drain"), pending, queue)'
          = Glue(done, Held("tick"), Held("drain"), pending, queue)
    BY <1>5 DEF Glue
  <1>7. ItemsAreKept'
    BY <1>6, KeptIsTheSame DEF ShipperInv
  <1>8. DrainWaits'
    BY <1>2 DEF ShipperInv, DrainWaits, Passes
  <1>9. InOrderUntilShutdown'
    BY <1>5 DEF ShipperInv, InOrderUntilShutdown
  <1> QED
    BY <1>2, <1>3, <1>7, <1>8, <1>9, SameHistories DEF ShipperInv

LEMMA ShutdownShips ==
  ASSUME ShipperInv, Shutdown
  PROVE  ShipperInv'
  <1>1. pass["drain"].pc = "idle" /\ "drain" \in Passes
    BY DEF ShipperInv, DrainWaits, Idle, Shutdown, Passes
  <1>2. /\ stopped' = TRUE /\ Goto("drain", [Idle EXCEPT !.pc = "check"])
        /\ chained' \in 0 .. MaxChained /\ broken' \in BOOLEAN /\ late' \in BOOLEAN
        /\ UNCHANGED <<queue, pending, accepted, step, flush, done, counters, dropped, stored>>
    BY DEF Shutdown, ShipperInv, TypeOK
  <1> QED
    BY <1>1, <1>2, PassTurns

LEMMA DrainIsStopped ==
  ASSUME ShipperInv, pass["drain"].pc # "idle"
  PROVE  stopped
  BY DEF ShipperInv, DrainWaits, Idle

LEMMA DrainAllShips ==
  ASSUME ShipperInv, DrainAll
  PROVE  ShipperInv'
  <1>1. pass["drain"].pc = "check" /\ "drain" \in Passes
    BY DEF DrainAll, At, Passes
  <1>2. stopped /\ stopped' = stopped /\ stopped \in BOOLEAN
    BY <1>1, DrainIsStopped DEF DrainAll, host, ShipperInv, TypeOK
  <1>3. /\ chained' \in 0 .. MaxChained /\ broken' \in BOOLEAN /\ late' \in BOOLEAN
        /\ UNCHANGED <<queue, pending, accepted, step, flush, done, counters, dropped, stored>>
    BY DEF DrainAll, host, ShipperInv, TypeOK
  <1>4. PICK pc \in {"run", "over"} : Goto("drain", [Idle EXCEPT !.pc = pc])
    BY DEF DrainAll, Running
  <1> QED
    BY <1>1, <1>2, <1>3, <1>4, PassTurns

LEMMA ProcessOnceShips ==
  ASSUME ShipperInv, ProcessOnce
  PROVE  ShipperInv'
  <1>1. pass["tick"].pc = "idle" /\ "tick" \in Passes /\ Goto("tick", [Idle EXCEPT !.pc = "run"])
    BY DEF ProcessOnce, At, Passes, Running
  <1>2. /\ chained' \in 0 .. MaxChained /\ broken' \in BOOLEAN /\ late' \in BOOLEAN
        /\ stopped' = stopped /\ stopped' \in BOOLEAN
        /\ UNCHANGED <<queue, pending, accepted, step, flush, done, counters, dropped, stored>>
    BY ConstantsAssumption DEF ProcessOnce, host, ShipperInv, TypeOK
  <1> QED
    BY <1>1, <1>2, PassTurns

LEMMA EndPassShips ==
  ASSUME ShipperInv, NEW p \in Passes, EndPass(p)
  PROVE  ShipperInv'
  <1>1. pass[p].pc = "run" /\ p \in {"tick", "drain"}
    BY DEF EndPass, At, Passes
  <1>2. /\ chained' \in 0 .. MaxChained /\ broken' \in BOOLEAN /\ late' \in BOOLEAN
        /\ stopped' = stopped /\ stopped \in BOOLEAN
        /\ UNCHANGED <<queue, pending, accepted, step, flush, done, counters, dropped, stored>>
    BY DEF EndPass, host, ShipperInv, TypeOK
  <1>3. p = "drain" => stopped
    BY <1>1, DrainIsStopped
  <1>4. PICK pc \in {"idle", "check", "over"} : Goto(p, [Idle EXCEPT !.pc = pc])
    BY DEF EndPass, AfterPass
  <1> QED
    BY <1>1, <1>2, <1>3, <1>4, PassTurns

LEMMA TickShips ==
  ASSUME ShipperInv, Tick
  PROVE  ShipperInv'
  <1>1. UNCHANGED <<queue, pending, accepted, step, flush, stopped, broken, late, pass, done, counters, dropped, stored>>
    BY DEF Tick, host
  <1>2. chained' \in 0 .. MaxChained
    BY ConstantsAssumption DEF Tick, ShipperInv, TypeOK
  <1>3. TypeOK'
    BY <1>1, <1>2 DEF ShipperInv, TypeOK, counters
  <1> QED
    BY <1>1, <1>3, NothingMoves, SameHistories DEF ShipperInv

\* A step of one pass: what it took is behind what it held, and it holds a record
\* that fits.
LEMMA PassSteps ==
  ASSUME ShipperInv, NEW p \in Passes, pass[p].pc # "idle", NEW r, Fits(r), Goto(p, r),
         queue' \in Seq(Entries), Len(queue') <= MaxQueue,
         pending' \in Seq(Items), Len(pending') < BatchSize,
         done' \in Seq(Entries),
         flush' \in [Flushes -> {"idle", "waiting", "true", "false"}], broken' \in BOOLEAN,
         {delivered', rejected', exhausted', stored'} \subseteq SUBSET Items,
         UNCHANGED <<accepted, step, stopped, chained, late, dropped>>,
         Content(p) = done' \o (r.batch \o r.next) \o pending' \o queue'
  PROVE  TypeOK' /\ PassesHold' /\ DrainWaits' /\ ItemsAreKept' /\ InOrderUntilShutdown'
  <1>1. /\ pass' \in [Passes -> PassType]
        /\ \A o \in Passes : Len(pass'[o].batch) <= BatchSize /\ Len(pass'[o].next) <= 1
        /\ PassesHold'
        /\ Held(p)' = r.batch \o r.next
        /\ \A o \in Passes : o # p => pass'[o] = pass[o]
    BY GotoFits
  <1>2. TypeOK'
    BY <1>1 DEF ShipperInv, TypeOK
  <1>3. Content(p)' = done' \o (r.batch \o r.next) \o pending' \o queue'
    BY <1>1 DEF Content
  <1> QED
    BY <1>1, <1>2, <1>3, PassMoves

LEMMA Histories ==
  ASSUME ShipperInv, UNCHANGED <<accepted, host, counters, dropped, stored, flush, done>>
  PROVE  /\ BarriersOnce' /\ ResolvedIsDone' /\ DoneIsSettled' /\ DeliveredIsStored'
         /\ done' \in Seq(Entries)
         /\ flush' \in [Flushes -> {"idle", "waiting", "true", "false"}]
         /\ {delivered', rejected', exhausted', stored'} \subseteq SUBSET Items
         /\ UNCHANGED <<accepted, step, stopped, dropped>>
  <1>1. BarriersOnce' /\ ResolvedIsDone' /\ DoneIsSettled' /\ DeliveredIsStored'
    BY SameHistories
  <1> QED
    BY <1>1 DEF ShipperInv, TypeOK, counters, host

\* The batch goes out: what it holds moves into the hands of the pass.
LEMMA SendsBatch ==
  ASSUME ShipperInv, NEW p \in Passes, pass[p].pc = "run",
         NEW b \in Seq(Items), NEW n \in Seq(Entries), NEW last \in BOOLEAN,
         Len(b) <= BatchSize, Len(n) <= 1, last => n = <<>>,
         FlushPendingEvents(p, b, n, last),
         queue' \in Seq(Entries), Len(queue') <= MaxQueue,
         UNCHANGED <<accepted, host, chained, broken, late, done, counters, dropped, stored>>,
         pending \o queue = b \o (n \o queue')
  PROVE  ShipperInv'
  <1>1. PICK r : r = [pc |-> "send", batch |-> b, next |-> n, attempt |-> 0, last |-> last]
    OBVIOUS
  <1>2. Fits(r) /\ r.batch = b /\ r.next = n
    BY <1>1, SendFits
  <1>3. Goto(p, r) /\ pending' = <<>>
    BY <1>1 DEF FlushPendingEvents, Send
  <1>4. pending' \in Seq(Items) /\ Len(pending') < BatchSize
    BY <1>3, Empty
  <1>5. UNCHANGED <<flush, chained, broken, late>> /\ broken' \in BOOLEAN
    BY DEF host, ShipperInv, TypeOK
  <1>6. Content(p) = done' \o (r.batch \o r.next) \o pending' \o queue'
    <2>1. Content(p) = done \o pending \o queue
      BY RunHolds
    <2>2. done \in Seq(Entries) /\ pending \in Seq(Entries) /\ queue \in Seq(Entries)
          /\ b \in Seq(Entries)
      BY Parts, SeqMonotonic DEF ShipperInv, Entries
    <2>3. done \o pending \o queue = done \o (b \o n) \o <<>> \o queue'
      <3>1. Sequences6(Entries, done, pending, queue, b, n, queue')
        BY <2>2 DEF Sequences6
      <3>2. Same3(pending, queue, b, n, queue')
        BY DEF Same3
      <3>3. Taken(done, pending, queue, b, n, queue')
        BY <3>1, <3>2, Regroup
      <3> QED
        BY <3>3 DEF Taken
    <2> QED
      BY <2>1, <2>3, <1>2, <1>3
  <1>7. /\ BarriersOnce' /\ ResolvedIsDone' /\ DoneIsSettled' /\ DeliveredIsStored'
        /\ done' \in Seq(Entries)
        /\ flush' \in [Flushes -> {"idle", "waiting", "true", "false"}]
        /\ {delivered', rejected', exhausted', stored'} \subseteq SUBSET Items
        /\ UNCHANGED <<accepted, step, stopped, dropped>>
    BY <1>5, Histories
  <1>8. TypeOK' /\ PassesHold' /\ DrainWaits' /\ ItemsAreKept' /\ InOrderUntilShutdown'
    BY <1>2, <1>3, <1>4, <1>5, <1>6, <1>7, PassSteps
  <1> QED
    BY <1>7, <1>8 DEF ShipperInv

LEMMA QueueHead ==
  ASSUME ShipperInv, queue # <<>>, queue' = Tail(queue)
  PROVE  /\ Head(queue) \in Entries /\ <<Head(queue)>> \in Seq(Entries) /\ Len(<<Head(queue)>>) = 1
         /\ queue' \in Seq(Entries) /\ Len(queue') <= MaxQueue
         /\ queue = <<Head(queue)>> \o queue'
  <1>1. queue \in Seq(Entries) /\ Len(queue) <= MaxQueue /\ MaxQueue \in Nat
    BY ConstantsAssumption DEF ShipperInv, TypeOK
  <1>2. Head(queue) \in Entries /\ Tail(queue) \in Seq(Entries) /\ queue = <<Head(queue)>> \o Tail(queue)
    BY <1>1, HeadThenTail
  <1>3. Len(Tail(queue)) = Len(queue) - 1 /\ Len(queue) \in Nat
    BY <1>1, HeadTailProperties, LenProperties
  <1> QED
    BY <1>1, <1>2, <1>3, Singleton

LEMMA TakeEventShips ==
  ASSUME ShipperInv, NEW p \in Passes, TakeEvent(p)
  PROVE  ShipperInv'
  <1> DEFINE b == Append(pending, Head(queue))
  <1>0. /\ pass[p].pc = "run" /\ queue # <<>> /\ queue' = Tail(queue) /\ IsEvent(Head(queue))
        /\ UNCHANGED <<accepted, host, chained, broken, late, done, counters, dropped, stored>>
    BY DEF TakeEvent, At
  <1>1. /\ <<Head(queue)>> \in Seq(Entries) /\ queue' \in Seq(Entries) /\ Len(queue') <= MaxQueue
        /\ queue = <<Head(queue)>> \o queue'
    BY <1>0, QueueHead
  <1>2. Head(queue) \in Items /\ pending \in Seq(Items) /\ pending \in Seq(Entries)
        /\ Len(pending) < BatchSize /\ BatchSize \in Nat /\ done \in Seq(Entries)
    BY <1>0, EventsAreItems, Parts, ConstantsAssumption DEF ShipperInv, TypeOK
  <1>3. b \in Seq(Items) /\ b \in Seq(Entries) /\ b = pending \o <<Head(queue)>> /\ Len(b) <= BatchSize
    <2>1. b \in Seq(Items) /\ b = pending \o <<Head(queue)>>
      BY <1>2, AppendIsConcat, AppendProperties
    <2>2. Len(b) = Len(pending) + 1 /\ Len(pending) \in Nat
      BY <1>2, AppendProperties, LenProperties
    <2>3. b \in Seq(Entries)
      BY <2>1, SeqMonotonic DEF Entries
    <2> HIDE DEF b
    <2> QED
      BY <2>1, <2>2, <2>3, <1>2
  <1>4. pending \o queue = b \o queue'
    <2>1. (pending \o <<Head(queue)>>) \o queue' = pending \o (<<Head(queue)>> \o queue')
      <3>1. pending \in Seq(Entries) /\ <<Head(queue)>> \in Seq(Entries) /\ queue' \in Seq(Entries)
        BY <1>1, <1>2
      <3> QED
        BY <3>1, ConcatAssociative
    <2> QED
      BY <1>1, <1>3, <2>1, Zenon
  <1>5. CASE Len(b) >= BatchSize
    <2>1. FlushPendingEvents(p, b, <<>>, FALSE)
      BY <1>5 DEF TakeEvent
    <2>2. pending \o queue = b \o (<<>> \o queue')
      BY <1>1, <1>4, ConcatEmptySeq
    <2>3. Len(<<>>) <= 1 /\ <<>> \in Seq(Entries) /\ FALSE \in BOOLEAN
      BY Empty
    <2> HIDE DEF b
    <2> QED
      BY <1>0, <1>1, <1>3, <2>1, <2>2, <2>3, SendsBatch, Zenon
  <1>6. CASE ~(Len(b) >= BatchSize)
    <2>1. pending' = b /\ pass' = pass
      BY <1>6 DEF TakeEvent
    <2>2. Len(b) < BatchSize
      BY <1>2, <1>3, <1>6, LenProperties
    <2>3. /\ BarriersOnce' /\ ResolvedIsDone' /\ DoneIsSettled' /\ DeliveredIsStored'
      BY <1>0, SameHistories DEF host
    <2> HIDE DEF b
    <2>4. TypeOK'
      BY <1>0, <1>1, <1>3, <2>1, <2>2 DEF ShipperInv, TypeOK, host, counters
    <2>5. PassesHold'
      BY <2>1 DEF ShipperInv, PassesHold
    <2>6. Content(p)' = Content(p)
      <3>1. Content(p) = done \o pending \o queue
        BY <1>0, RunHolds
      <3>2. Held(p) = <<>> /\ Held(p)' = Held(p)
        BY <1>0, <2>1, RunHolds DEF Held
      <3>3. done \o <<>> = done
        BY <1>2, ConcatEmptySeq
      <3>4. queue \in Seq(Entries)
        BY DEF ShipperInv, TypeOK
      <3>5. done \o pending \o queue = done \o b \o queue'
        <4>1. Sequences5(Entries, done, pending, queue, b, queue')
          BY <1>1, <1>2, <1>3, <3>4 DEF Sequences5
        <4>2. Same2(pending, queue, b, queue')
          BY <1>4 DEF Same2
        <4>3. SameTail(done, pending, queue, b, queue')
          BY <4>1, <4>2, Regroup3
        <4> QED
          BY <4>3 DEF SameTail
      <3> QED
        BY <1>0, <2>1, <3>1, <3>2, <3>3, <3>5 DEF Content
    <2>7. ItemsAreKept' /\ DrainWaits' /\ InOrderUntilShutdown'
      BY <1>0, <2>1, <2>4, <2>6, PassMoves DEF host
    <2> QED
      BY <2>3, <2>4, <2>5, <2>7 DEF ShipperInv
  <1> QED
    BY <1>5, <1>6

LEMMA TakeOtherShips ==
  ASSUME ShipperInv, NEW p \in Passes, TakeOther(p)
  PROVE  ShipperInv'
  <1> DEFINE n == <<Head(queue)>>
  <1>0. /\ pass[p].pc = "run" /\ queue # <<>> /\ queue' = Tail(queue)
        /\ UNCHANGED <<accepted, host, chained, broken, late, done, counters, dropped, stored>>
    BY DEF TakeOther, At
  <1>1. /\ n \in Seq(Entries) /\ Len(n) = 1 /\ queue' \in Seq(Entries) /\ Len(queue') <= MaxQueue
        /\ queue = n \o queue'
    BY <1>0, QueueHead
  <1>2. pending \in Seq(Items) /\ Len(pending) <= BatchSize /\ Len(pending) < BatchSize
    <2>1. pending \in Seq(Items) /\ Len(pending) < BatchSize /\ BatchSize \in Nat
      BY ConstantsAssumption DEF ShipperInv, TypeOK
    <2>2. Len(pending) \in Nat
      BY <2>1, LenProperties
    <2> QED
      BY <2>1, <2>2
  <1>3. CASE pending # <<>>
    <2>1. FlushPendingEvents(p, pending, n, FALSE)
      BY <1>3 DEF TakeOther
    <2>2. pending \o queue = pending \o (n \o queue')
      BY <1>1, Zenon
    <2>3. Len(n) <= 1
      BY <1>1
    <2> HIDE DEF n
    <2> QED
      BY <1>0, <1>1, <1>2, <2>1, <2>2, <2>3, SendsBatch
  <1>4. CASE pending = <<>>
    <2>1. PICK r : r = [Idle EXCEPT !.pc = "dispatch", !.next = n]
      OBVIOUS
    <2>2. Goto(p, r) /\ pending' = pending
      BY <1>4, <2>1 DEF TakeOther
    <2>3. n # <<>> /\ Len(n) <= 1
      BY <1>1, Empty
    <2> HIDE DEF n
    <2>4. Fits(r) /\ r.batch = <<>> /\ r.next = n
      BY <1>1, <2>1, <2>3, DispatchFits
    <2>5. Content(p) = done' \o (r.batch \o r.next) \o pending' \o queue'
      <3>1. done \in Seq(Entries) /\ pending \in Seq(Entries) /\ queue \in Seq(Entries)
        BY Parts DEF ShipperInv
      <3>2. Sequences6(Entries, done, pending, queue, <<>>, n, queue')
        BY <3>1, <1>1, Empty DEF Sequences6
      <3>3. Same3(pending, queue, <<>>, n, queue')
        BY <1>1, <1>4 DEF Same3
      <3>4. Taken(done, pending, queue, <<>>, n, queue')
        BY <3>2, <3>3, Regroup
      <3>5. Content(p) = done \o pending \o queue
        BY <1>0, RunHolds
      <3> QED
        BY <1>0, <1>4, <2>2, <2>4, <3>4, <3>5 DEF Taken
    <2>6. /\ BarriersOnce' /\ ResolvedIsDone' /\ DoneIsSettled' /\ DeliveredIsStored'
          /\ done' \in Seq(Entries)
          /\ flush' \in [Flushes -> {"idle", "waiting", "true", "false"}]
          /\ {delivered', rejected', exhausted', stored'} \subseteq SUBSET Items
          /\ UNCHANGED <<accepted, step, stopped, dropped>>
      BY <1>0, Histories DEF host
    <2>7. pending' \in Seq(Items) /\ Len(pending') < BatchSize
          /\ UNCHANGED <<chained, late>> /\ broken' \in BOOLEAN
      BY <1>0, <1>2, <2>2 DEF ShipperInv, TypeOK
    <2>8. TypeOK' /\ PassesHold' /\ DrainWaits' /\ ItemsAreKept' /\ InOrderUntilShutdown'
      BY <1>0, <1>1, <2>2, <2>4, <2>5, <2>6, <2>7, PassSteps
    <2> QED
      BY <2>6, <2>8 DEF ShipperInv
  <1> QED
    BY <1>3, <1>4

LEMMA FlushIntervalShips ==
  ASSUME ShipperInv, NEW p \in Passes, FlushInterval(p)
  PROVE  ShipperInv'
  <1>0. /\ pass[p].pc = "run" /\ queue = <<>> /\ queue' = <<>>
        /\ FlushPendingEvents(p, pending, <<>>, TRUE)
        /\ UNCHANGED <<accepted, host, chained, broken, late, done, counters, dropped, stored>>
    BY DEF FlushInterval, At
  <1>1. pending \in Seq(Items) /\ Len(pending) <= BatchSize
    <2>1. pending \in Seq(Items) /\ Len(pending) < BatchSize /\ BatchSize \in Nat
      BY ConstantsAssumption DEF ShipperInv, TypeOK
    <2>2. Len(pending) \in Nat
      BY <2>1, LenProperties
    <2> QED
      BY <2>1, <2>2
  <1>2. pending \o queue = pending \o (<<>> \o queue')
    BY <1>0, Empty
  <1>3. queue' \in Seq(Entries) /\ Len(queue') <= MaxQueue /\ <<>> \in Seq(Entries) /\ Len(<<>>) <= 1
    BY <1>0, Empty
  <1> QED
    BY <1>0, <1>1, <1>2, <1>3, SendsBatch

LEMMA DispatchShips ==
  ASSUME ShipperInv, NEW p \in Passes, Dispatch(p)
  PROVE  ShipperInv'
  <1> DEFINE e == pass[p].next[1]
  <1>0. /\ pass[p].pc = "dispatch"
        /\ UNCHANGED <<queue, pending, accepted, step, stopped, chained, broken, late, counters, dropped, stored>>
    BY DEF Dispatch, At
  <1>1. pass[p].batch = <<>> /\ pass[p].next # <<>> /\ Len(pass[p].next) <= 1
        /\ pass[p].next \in Seq(Entries)
    BY <1>0, Parts DEF ShipperInv, PassesHold, Shape, TypeOK
  <1>2. e \in Entries /\ pass[p].next = <<e>>
    BY <1>1, LenOne
  <1> HIDE DEF e
  <1>3. <<e>> \in Seq(Entries) /\ <<>> \o <<e>> = <<e>> /\ Held(p) = <<e>> /\ Len(<<e>>) = 1
        /\ <<e>> \o <<>> = <<e>>
    <2>1. <<e>> \in Seq(Entries) /\ Len(<<e>>) = 1
      BY <1>2, Singleton
    <2>2. <<>> \o <<e>> = <<e>> /\ <<e>> \o <<>> = <<e>>
      BY <2>1, ConcatEmptySeq
    <2> QED
      BY <1>1, <1>2, <2>1, <2>2 DEF Held
  <1>4. Content(p) = done \o <<e>> \o pending \o queue
    BY <1>3 DEF Content
  <1>5. /\ queue' \in Seq(Entries) /\ Len(queue') <= MaxQueue
        /\ pending' \in Seq(Items) /\ Len(pending') < BatchSize /\ broken' \in BOOLEAN
        /\ {delivered', rejected', exhausted', stored'} \subseteq SUBSET Items
    BY <1>0 DEF ShipperInv, TypeOK, counters
  <1>6. done \in Seq(Entries) /\ flush \in [Flushes -> {"idle", "waiting", "true", "false"}]
    BY DEF ShipperInv, TypeOK
  <1>7. CASE e \in Flushes
    <2>1. /\ flush' = [flush EXCEPT ![e] = IF @ = "waiting" THEN "true" ELSE @]
          /\ done' = Append(done, e)
          /\ Goto(p, [Idle EXCEPT !.pc = "run"])
      BY <1>7 DEF Dispatch, e, Running
    <2>2. PICK r : r = [Idle EXCEPT !.pc = "run"]
      OBVIOUS
    <2>3. Fits(r) /\ r.batch \o r.next = <<>>
      BY <2>2, IdleFits
    <2>4. done' \in Seq(Entries) /\ done' = done \o <<e>> /\ ToSet(done') = ToSet(done) \union {e}
          /\ done' \o <<>> = done'
      BY <1>2, <1>6, <2>1, AppendIsConcat, ToSetAppend, ConcatEmptySeq
    <2>5. Content(p) = done' \o (r.batch \o r.next) \o pending' \o queue'
      BY <1>0, <1>4, <2>3, <2>4
    <2>6. /\ flush' \in [Flushes -> {"idle", "waiting", "true", "false"}]
          /\ \A g \in Flushes : /\ flush'[g] = "idle" => flush[g] = "idle"
                                /\ flush'[g] = "true" => flush[g] = "true" \/ g = e
      BY <1>6, <1>7, <2>1
    <2>7. TypeOK' /\ PassesHold' /\ DrainWaits' /\ ItemsAreKept' /\ InOrderUntilShutdown'
      BY <1>0, <1>5, <2>1, <2>2, <2>3, <2>4, <2>5, <2>6, PassSteps
    <2>8. BarriersOnce'
      BY <1>0, <2>6 DEF ShipperInv, BarriersOnce
    <2>9. ToSet(done)' = ToSet(done')
      BY DEF ToSet
    <2>10. ResolvedIsDone' /\ DoneIsSettled' /\ DeliveredIsStored'
      BY <1>0, <1>7, <2>4, <2>6, <2>9 DEF ShipperInv, ResolvedIsDone, DoneIsSettled, DeliveredIsStored,
                                          Settled, counters
    <2> QED
      BY <2>7, <2>8, <2>10 DEF ShipperInv
  <1>8. CASE e \notin Flushes
    <2>1. Send(p, <<e>>, <<>>, FALSE) /\ UNCHANGED <<flush, done>>
      BY <1>8 DEF Dispatch, e
    <2>2. PICK r : r = [pc |-> "send", batch |-> <<e>>, next |-> <<>>, attempt |-> 0, last |-> FALSE]
      OBVIOUS
    <2>3. e \in Items
      BY <1>2, <1>8 DEF Entries
    <2>4. <<e>> \in Seq(Items) /\ Len(<<e>>) <= BatchSize
      BY <1>3, <2>3, ConstantsAssumption
    <2>5. Fits(r) /\ r.batch = <<e>> /\ r.next = <<>>
      <3>1. <<>> \in Seq(Entries) /\ Len(<<>>) <= 1 /\ FALSE \in BOOLEAN
        BY Empty
      <3>2. PICK b, n, last : b = <<e>> /\ n = <<>> /\ last = FALSE
        OBVIOUS
      <3>3. /\ b \in Seq(Items) /\ n \in Seq(Entries) /\ last \in BOOLEAN
            /\ Len(b) <= BatchSize /\ Len(n) <= 1 /\ (last => n = <<>>)
            /\ r = [pc |-> "send", batch |-> b, next |-> n, attempt |-> 0, last |-> last]
        BY <2>2, <2>4, <3>1, <3>2
      <3>4. Fits(r) /\ r.batch = b /\ r.next = n
        BY <3>3, SendFits
      <3> QED
        BY <3>2, <3>4
    <2>6. Content(p) = done' \o (r.batch \o r.next) \o pending' \o queue'
      BY <1>0, <1>3, <1>4, <2>1, <2>5
    <2>7. Goto(p, r)
      BY <2>1, <2>2 DEF Send
    <2>8. done' \in Seq(Entries) /\ flush' \in [Flushes -> {"idle", "waiting", "true", "false"}]
      BY <1>6, <2>1
    <2>9. TypeOK' /\ PassesHold' /\ DrainWaits' /\ ItemsAreKept' /\ InOrderUntilShutdown'
      BY <1>0, <1>5, <2>5, <2>6, <2>7, <2>8, PassSteps
    <2>10. BarriersOnce' /\ ResolvedIsDone' /\ DoneIsSettled' /\ DeliveredIsStored'
      BY <1>0, <2>1, SameHistories
    <2> QED
      BY <2>9, <2>10 DEF ShipperInv
  <1> QED
    BY <1>7, <1>8

-----------------------------------------------------------------------------
(* The requests.                                                           *)

\* What an answer, or its absence, may do to the counters and the backend.
Counts(p) ==
    /\ {delivered', rejected', exhausted', stored'} \subseteq SUBSET Items
    /\ delivered \subseteq delivered' /\ rejected \subseteq rejected'
    /\ exhausted \subseteq exhausted' /\ stored \subseteq stored'
    /\ delivered' \subseteq stored' \union OverCap
    /\ UNCHANGED <<queue, pending, accepted, host, chained, late, dropped>>

LEMMA CountsKeep ==
  ASSUME ShipperInv, NEW p \in Passes, Counts(p)
  PROVE  /\ queue' \in Seq(Entries) /\ Len(queue') <= MaxQueue
         /\ pending' \in Seq(Items) /\ Len(pending') < BatchSize
         /\ flush' \in [Flushes -> {"idle", "waiting", "true", "false"}]
         /\ {delivered', rejected', exhausted', stored'} \subseteq SUBSET Items
         /\ UNCHANGED <<queue, pending, accepted, step, flush, stopped, chained, late, dropped>>
         /\ BarriersOnce' /\ DeliveredIsStored' /\ Settled \subseteq Settled'
  <1>1. UNCHANGED <<queue, pending, accepted, step, flush, stopped, chained, late, dropped>>
    BY DEF Counts, host
  <1>2. BarriersOnce'
    BY <1>1 DEF ShipperInv, BarriersOnce
  <1>3. DeliveredIsStored' /\ Settled \subseteq Settled'
    BY DEF Counts, DeliveredIsStored, Settled
  <1> QED
    BY <1>1, <1>2, <1>3 DEF ShipperInv, TypeOK, Counts

LEMMA SendingHolds ==
  ASSUME ShipperInv, NEW p \in Passes, Sending(p)
  PROVE  /\ pass[p].pc = "send" /\ pass[p] \in PassType
         /\ pass[p].batch \in Seq(Items) /\ pass[p].batch \in Seq(Entries)
         /\ pass[p].next \in Seq(Entries)
         /\ Len(pass[p].batch) <= BatchSize /\ Len(pass[p].next) <= 1
         /\ pass[p].last => pass[p].next = <<>>
         /\ pass[p].last \in BOOLEAN /\ pass[p].attempt \in 0 .. MaxRetries
         /\ Batch(p) \subseteq Items
         /\ Content(p) = done \o (pass[p].batch \o pass[p].next) \o pending \o queue
  <1>1. pass[p].pc = "send" /\ pass[p] \in PassType
    BY DEF Sending, At, ShipperInv, TypeOK
  <1>2. /\ pass[p].batch \in Seq(Items) /\ pass[p].batch \in Seq(Entries)
        /\ pass[p].next \in Seq(Entries)
    BY Parts DEF ShipperInv
  <1>3. Batch(p) \subseteq Items
    BY <1>2, ToSetType DEF Batch
  <1> QED
    BY <1>1, <1>2, <1>3 DEF ShipperInv, TypeOK, PassesHold, Shape, PassType, Content, Held

\* The request stays in the hands of the pass.
LEMMA RequestStays ==
  ASSUME ShipperInv, NEW p \in Passes, Sending(p), Counts(p), broken' \in BOOLEAN, done' = done,
         NEW r, r \in PassType, r.batch = pass[p].batch, r.next = pass[p].next,
         r.last = pass[p].last, r.pc \in {"send", "died"}, Goto(p, r)
  PROVE  ShipperInv'
  <1>1. Fits(r)
    BY SendingHolds DEF Fits, Shape
  <1>2. Content(p) = done' \o (r.batch \o r.next) \o pending' \o queue'
    BY SendingHolds, CountsKeep
  <1>3. pass[p].pc # "idle" /\ done' \in Seq(Entries)
    BY SendingHolds DEF ShipperInv, TypeOK
  <1>4. /\ queue' \in Seq(Entries) /\ Len(queue') <= MaxQueue
        /\ pending' \in Seq(Items) /\ Len(pending') < BatchSize
        /\ flush' \in [Flushes -> {"idle", "waiting", "true", "false"}]
        /\ {delivered', rejected', exhausted', stored'} \subseteq SUBSET Items
        /\ UNCHANGED <<accepted, step, stopped, chained, late, dropped>>
    BY CountsKeep
  <1>5. TypeOK' /\ PassesHold' /\ DrainWaits' /\ ItemsAreKept' /\ InOrderUntilShutdown'
    BY <1>1, <1>2, <1>3, <1>4, PassSteps
  <1>6. BarriersOnce' /\ DeliveredIsStored' /\ ResolvedIsDone' /\ DoneIsSettled'
    <2>1. BarriersOnce' /\ DeliveredIsStored' /\ Settled \subseteq Settled' /\ flush' = flush
      BY CountsKeep
    <2>2. ToSet(done)' = ToSet(done)
      BY DEF ToSet
    <2> QED
      BY <2>1, <2>2 DEF ShipperInv, ResolvedIsDone, DoneIsSettled
  <1> QED
    BY <1>5, <1>6 DEF ShipperInv

LEMMA Retries ==
  ASSUME ShipperInv, NEW p \in Passes, Sending(p), Counts(p), pass[p].attempt < MaxRetries,
         Goto(p, [pass[p] EXCEPT !.attempt = @ + 1]), UNCHANGED <<broken, done>>
  PROVE  ShipperInv'
  <1>1. PICK r : r = [pass[p] EXCEPT !.attempt = @ + 1]
    OBVIOUS
  <1>2. pass[p] \in PassType /\ pass[p].attempt \in 0 .. MaxRetries /\ pass[p].pc = "send"
    BY SendingHolds
  <1>3. pass[p].attempt + 1 \in 0 .. MaxRetries
    BY <1>2, ConstantsAssumption
  <1>4. /\ r \in PassType /\ r.batch = pass[p].batch /\ r.next = pass[p].next
        /\ r.last = pass[p].last /\ r.pc = "send"
    BY <1>1, <1>2, <1>3 DEF PassType
  <1>5. broken' \in BOOLEAN
    BY DEF ShipperInv, TypeOK
  <1> QED
    BY <1>1, <1>4, <1>5, RequestStays

LEMMA DieShips ==
  ASSUME ShipperInv, NEW p \in Passes, Die(p)
  PROVE  ShipperInv'
  <1>1. PICK r : r = [pass[p] EXCEPT !.pc = "died"]
    OBVIOUS
  <1>2. Sending(p) /\ Goto(p, r) /\ broken' \in BOOLEAN /\ done' = done
    BY <1>1 DEF Die, ShipperInv, TypeOK
  <1>3. pass[p] \in PassType
    BY <1>2, SendingHolds
  <1>4. /\ r \in PassType /\ r.batch = pass[p].batch /\ r.next = pass[p].next
        /\ r.last = pass[p].last /\ r.pc = "died"
    BY <1>1, <1>3 DEF PassType
  <1>5. Counts(p)
    BY DEF Die, Counts, counters, ShipperInv, TypeOK, DeliveredIsStored
  <1> QED
    BY <1>2, <1>4, <1>5, RequestStays

\* The request is settled, and counted.
LEMMA Settles ==
  ASSUME ShipperInv, NEW p \in Passes, Sending(p), Counts(p), broken' = broken,
         Batch(p) \subseteq Settled', Settle(p)
  PROVE  ShipperInv'
  <1> DEFINE b == pass[p].batch
             n == pass[p].next
  <1>0. /\ pass[p].pc = "send" /\ b \in Seq(Entries) /\ n \in Seq(Entries) /\ Len(n) <= 1
        /\ pass[p].last => n = <<>>
        /\ Content(p) = done \o (b \o n) \o pending \o queue
    BY SendingHolds
  <1>1. done \in Seq(Entries) /\ done' = done \o b
    BY DEF ShipperInv, TypeOK, Settle
  <1>2. done' \in Seq(Entries) /\ ToSet(done') = ToSet(done) \union Batch(p)
    <2>1. ToSet(done \o b) = ToSet(done) \union ToSet(b) /\ done \o b \in Seq(Entries)
      BY <1>0, <1>1, ToSetConcat, LenConcat
    <2> QED
      BY <1>1, <2>1 DEF Batch
  <1>3. PICK r : Goto(p, r) /\ Fits(r) /\ r.batch \o r.next = n
    <2>1. CASE pass[p].last \/ n = <<>>
      <3>1. PICK pc \in {"idle", "check", "run"} : Goto(p, [Idle EXCEPT !.pc = pc])
        BY <2>1 DEF Settle, AfterPass, Running
      <3>2. /\ Fits([Idle EXCEPT !.pc = pc])
            /\ [Idle EXCEPT !.pc = pc].batch \o [Idle EXCEPT !.pc = pc].next = <<>>
        BY IdleFits
      <3> QED
        BY <1>0, <2>1, <3>1, <3>2
    <2>2. CASE ~(pass[p].last \/ n = <<>>)
      <3>1. Goto(p, [Idle EXCEPT !.pc = "dispatch", !.next = n])
        BY <2>2 DEF Settle
      <3>2. PICK r : r = [Idle EXCEPT !.pc = "dispatch", !.next = n]
        OBVIOUS
      <3> HIDE DEF n
      <3>3. Fits(r) /\ r.batch = <<>> /\ r.next = n
        BY <1>0, <2>2, <3>2, DispatchFits
      <3>4. <<>> \o n = n
        BY <1>0, ConcatEmptySeq
      <3> QED
        BY <3>1, <3>2, <3>3, <3>4
    <2> QED
      BY <2>1, <2>2
  <1> HIDE DEF b, n
  <1>4. Content(p) = done' \o (r.batch \o r.next) \o pending' \o queue'
    <2>1. (done \o b) \o n = done \o (b \o n)
      BY <1>0, <1>1, ConcatAssociative
    <2>2. queue' = queue /\ pending' = pending
      BY CountsKeep
    <2> QED
      BY <1>0, <1>1, <1>3, <2>1, <2>2
  <1>5. /\ queue' \in Seq(Entries) /\ Len(queue') <= MaxQueue
        /\ pending' \in Seq(Items) /\ Len(pending') < BatchSize
        /\ flush' \in [Flushes -> {"idle", "waiting", "true", "false"}]
        /\ {delivered', rejected', exhausted', stored'} \subseteq SUBSET Items
        /\ UNCHANGED <<accepted, step, stopped, chained, late, dropped>>
    BY CountsKeep
  <1>6. pass[p].pc # "idle" /\ broken' \in BOOLEAN
    BY <1>0 DEF ShipperInv, TypeOK
  <1>7. TypeOK' /\ PassesHold' /\ DrainWaits' /\ ItemsAreKept' /\ InOrderUntilShutdown'
    BY <1>2, <1>3, <1>4, <1>5, <1>6, PassSteps
  <1>8. BarriersOnce' /\ DeliveredIsStored' /\ ResolvedIsDone' /\ DoneIsSettled'
    <2>1. BarriersOnce' /\ DeliveredIsStored' /\ Settled \subseteq Settled' /\ flush' = flush
      BY CountsKeep
    <2>2. ToSet(done)' = ToSet(done')
      BY DEF ToSet
    <2> QED
      BY <1>2, <2>1, <2>2 DEF ShipperInv, ResolvedIsDone, DoneIsSettled
  <1> QED
    BY <1>7, <1>8 DEF ShipperInv

LEMMA AcceptedShips ==
  ASSUME ShipperInv, NEW p \in Passes, Accepted(p)
  PROVE  ShipperInv'
  <1>1. Sending(p) /\ Settle(p) /\ broken' = broken
    BY DEF Accepted
  <1>2. Batch(p) \subseteq Items
    BY <1>1, SendingHolds
  <1>3. Counts(p)
    BY <1>2 DEF Accepted, Counts, Wanted, ShipperInv, TypeOK, DeliveredIsStored
  <1>4. Batch(p) \subseteq Settled'
    BY DEF Accepted, Settled
  <1> QED
    BY <1>1, <1>3, <1>4, Settles

LEMMA RefusedShips ==
  ASSUME ShipperInv, NEW p \in Passes, Refused(p)
  PROVE  ShipperInv'
  <1>1. Sending(p) /\ Settle(p) /\ broken' = broken
    BY DEF Refused
  <1>2. Batch(p) \subseteq Items
    BY <1>1, SendingHolds
  <1>3. Counts(p)
    BY <1>2 DEF Refused, Counts, ShipperInv, TypeOK, DeliveredIsStored
  <1>4. Batch(p) \subseteq Settled'
    BY DEF Refused, Settled
  <1> QED
    BY <1>1, <1>3, <1>4, Settles

LEMMA RetryOrGiveUpShips ==
  ASSUME ShipperInv, NEW p \in Passes, Sending(p), RetryOrGiveUp(p),
         stored \subseteq stored', stored' \subseteq Items,
         UNCHANGED <<queue, pending, accepted, host, chained, broken, late, delivered, rejected, dropped>>
  PROVE  ShipperInv'
  <1>1. Batch(p) \subseteq Items
    BY SendingHolds
  <1>2. exhausted \subseteq exhausted' /\ exhausted' \subseteq Items
    BY <1>1 DEF RetryOrGiveUp, ShipperInv, TypeOK
  <1>3. Counts(p)
    BY <1>2 DEF Counts, ShipperInv, TypeOK, DeliveredIsStored
  <1>4. CASE pass[p].attempt < MaxRetries
    BY <1>3, <1>4, Retries DEF RetryOrGiveUp
  <1>5. CASE ~(pass[p].attempt < MaxRetries)
    <2>1. Settle(p) /\ Batch(p) \subseteq Settled'
      BY <1>5 DEF RetryOrGiveUp, Settled
    <2> QED
      BY <1>3, <2>1, Settles
  <1> QED
    BY <1>4, <1>5

LEMMA AnswerLostShips ==
  ASSUME ShipperInv, NEW p \in Passes, AnswerLost(p)
  PROVE  ShipperInv'
  <1>1. Sending(p) /\ RetryOrGiveUp(p)
        /\ UNCHANGED <<queue, pending, accepted, host, chained, broken, late, delivered, rejected, dropped>>
    BY DEF AnswerLost
  <1>2. stored \subseteq stored' /\ stored' \subseteq Items
    BY <1>1, SendingHolds DEF AnswerLost, Wanted, ShipperInv, TypeOK
  <1> QED
    BY <1>1, <1>2, RetryOrGiveUpShips

LEMMA TransientShips ==
  ASSUME ShipperInv, NEW p \in Passes, Transient(p)
  PROVE  ShipperInv'
  <1>1. Sending(p) /\ RetryOrGiveUp(p)
        /\ UNCHANGED <<queue, pending, accepted, host, chained, broken, late, delivered, rejected, dropped>>
    BY DEF Transient
  <1>2. stored \subseteq stored' /\ stored' \subseteq Items
    BY DEF Transient, ShipperInv, TypeOK
  <1> QED
    BY <1>1, <1>2, RetryOrGiveUpShips

-----------------------------------------------------------------------------

LEMMA PassShips ==
  ASSUME ShipperInv, NEW p \in Passes, Pass(p)
  PROVE  ShipperInv'
  BY TakeEventShips, TakeOtherShips, DispatchShips, FlushIntervalShips, EndPassShips, DieShips,
     AcceptedShips, AnswerLostShips, TransientShips, RefusedShips DEF Pass

LEMMA NextShips ==
  ASSUME ShipperInv, [Next]_vars
  PROVE  ShipperInv'
  <1>1. CASE UNCHANGED vars
    <2>1. UNCHANGED <<queue, pending, accepted, step, flush, stopped, chained, broken, late, pass, done,
                      counters, dropped, stored>>
      BY <1>1 DEF vars, host
    <2>2. TypeOK'
      BY <2>1 DEF ShipperInv, TypeOK, counters
    <2> QED
      BY <2>1, <2>2, NothingMoves, SameHistories DEF ShipperInv
  <1>2. CASE Next
    <2>1. CASE Shipper
      BY <2>1, DrainAllShips, TickShips, ProcessOnceShips, PassShips DEF Shipper
    <2> QED
      BY <1>2, <2>1, SubmitShips, FlushShips, FlushTimesOutShips, ShutdownShips DEF Next
  <1> QED
    BY <1>1, <1>2

THEOREM ShipperInvariant == Spec => []ShipperInv
  <1>1. Init => ShipperInv
    BY InitShips
  <1>2. ShipperInv /\ [Next]_vars => ShipperInv'
    BY NextShips
  <1> QED
    BY <1>1, <1>2, PTL DEF Spec

\* Every variable has its type, for any client.
THEOREM ShipperTypes == Spec => []TypeOK
  <1>1. ShipperInv => TypeOK
    BY DEF ShipperInv
  <1> QED
    BY <1>1, ShipperInvariant, PTL

\* Two passes share the queue and the batch, and yet nothing that was put on the
\* queue is lost between them or taken by both.
THEOREM NothingIsLostBetweenPasses == Spec => []ItemsAreKept
  <1>1. ShipperInv => ItemsAreKept
    BY DEF ShipperInv
  <1> QED
    BY <1>1, ShipperInvariant, PTL

\* Until shutdown() everything is sent in the order in which it was submitted.
THEOREM OrderUntilShutdown == Spec => []InOrderUntilShutdown
  <1>1. ShipperInv => InOrderUntilShutdown
    BY DEF ShipperInv
  <1> QED
    BY <1>1, ShipperInvariant, PTL

\* Until shutdown() what has been settled comes first.
LEMMA RestAfterDone ==
  ASSUME ShipperInv, ~stopped
  PROVE  \E rest \in Seq(Entries) : accepted = done \o rest
  <1>0. PICK rest : rest = Held("tick") \o pending \o queue
    OBVIOUS
  <1>1. rest \in Seq(Entries) /\ accepted = done \o rest
    <2>1. /\ Held("tick") \in Seq(Entries) /\ pending \in Seq(Entries) /\ queue \in Seq(Entries)
          /\ done \in Seq(Entries)
      BY Parts DEF ShipperInv, Passes
    <2>2. PICK h : h = Held("tick")
      OBVIOUS
    <2>3. h \o pending \in Seq(Entries) /\ (h \o pending) \o queue \in Seq(Entries)
      BY <2>1, <2>2, ConcatProperties
    <2>4. (done \o h) \o pending = done \o (h \o pending)
      BY <2>1, <2>2, ConcatAssociative
    <2>5. (done \o (h \o pending)) \o queue = done \o ((h \o pending) \o queue)
      <3>1. PICK k \in Seq(Entries) : k = h \o pending
        BY <2>3
      <3>2. (done \o k) \o queue = done \o (k \o queue)
        BY <2>1, ConcatAssociative
      <3> QED
        BY <3>1, <3>2
    <2>6. accepted = done \o h \o pending \o queue
      BY <2>2 DEF ShipperInv, InOrderUntilShutdown
    <2> QED
      BY <1>0, <2>1, <2>2, <2>3, <2>4, <2>5, <2>6
  <1> QED
    BY <1>1

\* What is ahead of a barrier that has been settled has been settled itself.
LEMMA AheadIsDone ==
  ASSUME ShipperInv, NEW f \in Flushes, f \in ToSet(done), ~stopped
  PROVE  Ahead(f) \subseteq ToSet(done)
  <1>0. done \in Seq(Entries)
    BY DEF ShipperInv, TypeOK
  <1>1. PICK rest \in Seq(Entries) : accepted = done \o rest
    BY RestAfterDone
  <1>2. PICK i \in DOMAIN done : done[i] = f
    BY DEF ToSet
  <1>3. i \in DOMAIN accepted /\ accepted[i] = f
    BY <1>0, <1>1, <1>2, PrefixAgrees
  <1>4. ASSUME NEW m \in DOMAIN accepted, NEW k \in DOMAIN accepted, accepted[k] = f, m < k
        PROVE  accepted[m] \in ToSet(done)
    <2>1. k = i
      BY <1>3, <1>4 DEF ShipperInv, BarriersOnce
    <2>2. m \in DOMAIN done
      BY <1>0, <1>1, <1>2, <1>4, <2>1, LenProperties, ConcatProperties
    <2>3. accepted[m] = done[m]
      BY <1>0, <1>1, <2>2, PrefixAgrees
    <2> QED
      BY <2>2, <2>3 DEF ToSet
  <1> QED
    BY <1>4 DEF Ahead

\* A flush() that resolves to true before shutdown() means that what was submitted
\* ahead of it is settled; and while stats() says complete, that the backend has it.
THEOREM FlushThenStatsHolds == Spec => []FlushThenStats
  <1>1. ASSUME ShipperInv
        PROVE  FlushThenStats
    <2> SUFFICES ASSUME ~stopped, NEW f \in Flushes, flush[f] = "true"
                 PROVE  /\ Ahead(f) \subseteq Settled
                        /\ Complete => Ahead(f) \subseteq stored \union OverCap
      BY DEF FlushThenStats
    <2>1. f \in ToSet(done)
      BY <1>1 DEF ShipperInv, ResolvedIsDone
    <2>2. Ahead(f) \subseteq ToSet(done)
      BY <1>1, <2>1, AheadIsDone
    <2>3. Ahead(f) \subseteq Settled
      BY <1>1, <2>2 DEF ShipperInv, DoneIsSettled, Ahead
    <2>4. Complete => Settled \subseteq stored \union OverCap
      BY <1>1 DEF ShipperInv, Complete, Settled, DeliveredIsStored
    <2> QED
      BY <2>3, <2>4
  <1>2. ShipperInv => FlushThenStats
    BY <1>1
  <1> QED
    BY <1>2, ShipperInvariant, PTL

-----------------------------------------------------------------------------
(* The abstract delivery.                                                  *)

LEMMA ConcatContinues ==
  ASSUME NEW S, NEW s \in Seq(S), NEW t \in Seq(S)
  PROVE  Delivery!Continues(s \o t, s)
  BY LenConcat, PrefixAgrees DEF Delivery!Continues

\* What has been settled has been accepted, and until shutdown() it comes first.
DoneFits ==
    /\ Delivery!IsPartOf(done, accepted)
    /\ ~stopped => Delivery!Continues(accepted, done)

LEMMA DoneIsAccepted == ShipperInv => DoneFits
  <1> SUFFICES ASSUME ShipperInv PROVE DoneFits
    OBVIOUS
  <1>1. PICK t, r : t = Held("tick") /\ r = Held("drain")
    OBVIOUS
  <1>2. {done, t, r, pending, queue} \subseteq Seq(Entries)
    BY <1>1, Parts DEF ShipperInv, Passes
  <1>3. /\ ToSet(Glue(done, t, r, pending, queue))
             = ToSet(done) \union ToSet(t) \union ToSet(r) \union ToSet(pending) \union ToSet(queue)
        /\ Len(Glue(done, t, r, pending, queue))
             = Len(done) + Len(t) + Len(r) + Len(pending) + Len(queue)
        /\ {Len(done), Len(t), Len(r), Len(pending), Len(queue)} \subseteq Nat
    BY <1>2, FiveParts
  <1>4. SameStuff(Glue(done, t, r, pending, queue), accepted)
    BY <1>1, KeptIsTheSame DEF ShipperInv
  <1>5. Len(done) <= Len(accepted)
    BY <1>3, <1>4 DEF SameStuff
  <1>6. ToSet(done) \subseteq ToSet(accepted)
    BY <1>3, <1>4 DEF SameStuff
  <1>7. ASSUME ~stopped
        PROVE  Delivery!Continues(accepted, done)
    <2>1. PICK rest \in Seq(Entries) : accepted = done \o rest
      BY <1>7, RestAfterDone
    <2>2. done \in Seq(Entries)
      BY DEF ShipperInv, TypeOK
    <2> QED
      BY <2>1, <2>2, ConcatContinues
  <1>8. \A i \in DOMAIN done : \E k \in DOMAIN accepted : accepted[k] = done[i]
    BY <1>6 DEF ToSet
  <1> QED
    BY <1>5, <1>7, <1>8 DEF DoneFits, Delivery!IsPartOf

\* What a step may do to the two histories.
LEMMA HistoriesGrow ==
  ASSUME ShipperInv, [Next]_vars
  PROVE  \/ /\ ~stopped /\ UNCHANGED <<done, stopped>>
            /\ \E e \in Entries : accepted' = Append(accepted, e)
         \/ /\ UNCHANGED <<accepted, stopped>>
            /\ \E s \in Seq(Entries) : done' = done \o s
         \/ ~stopped /\ stopped' = TRUE /\ UNCHANGED <<accepted, done>>
  <1> DEFINE Taking   == /\ ~stopped /\ UNCHANGED <<done, stopped>>
                        /\ \E e \in Entries : accepted' = Append(accepted, e)
             Settling == /\ UNCHANGED <<accepted, stopped>>
                         /\ \E s \in Seq(Entries) : done' = done \o s
             Closing  == ~stopped /\ stopped' = TRUE /\ UNCHANGED <<accepted, done>>
  <1>0. done \in Seq(Entries) /\ TypeOK
    BY DEF ShipperInv, TypeOK
  <1>1. UNCHANGED <<accepted, stopped, done>> => Settling
    BY <1>0, ConcatEmptySeq, Empty
  <1>2. ASSUME NEW e, UNCHANGED <<accepted, stopped>>, done' = Append(done, e), e \in Entries
        PROVE  Settling
    BY <1>0, <1>2, AppendIsConcat, Singleton
  <1>3. ASSUME NEW p \in Passes, UNCHANGED <<accepted, stopped>>, done' = done \o pass[p].batch
        PROVE  Settling
    BY <1>3, Parts DEF ShipperInv
  <1> HIDE DEF Settling
  <1>4. ASSUME UNCHANGED vars
        PROVE  Settling
    BY <1>1, <1>4 DEF vars, host
  <1>5. ASSUME NEW x \in Executions, Submit(x)
        PROVE  Taking \/ Settling
    <2>1. <<x, step[x]>> \in Entries
      BY <1>0, <1>5, ConstantsAssumption DEF Submit, TypeOK, Items, Entries
    <2> QED
      BY <1>1, <1>5, <2>1 DEF Submit, Put
  <1>6. ASSUME NEW f \in Flushes, Flush(f) \/ FlushTimesOut(f)
        PROVE  Taking \/ Settling
    BY <1>1, <1>6 DEF Flush, FlushTimesOut, Put, Entries
  <1>7. CASE Shutdown
    BY <1>7 DEF Shutdown
  <1>8. ASSUME DrainAll \/ Tick \/ ProcessOnce
        PROVE  Settling
    BY <1>1, <1>8 DEF DrainAll, Tick, ProcessOnce, host
  <1>9. ASSUME NEW p \in Passes, Pass(p)
        PROVE  Settling
    <2>1. CASE TakeEvent(p) \/ TakeOther(p) \/ FlushInterval(p) \/ EndPass(p) \/ Die(p)
      BY <1>1, <2>1 DEF TakeEvent, TakeOther, FlushInterval, EndPass, Die, host
    <2>2. CASE Dispatch(p)
      <3>1. pass[p].next[1] \in Flushes => pass[p].next[1] \in Entries
        BY DEF Entries
      <3> QED
        BY <1>1, <1>2, <2>2, <3>1 DEF Dispatch
    <2>3. CASE Accepted(p) \/ AnswerLost(p) \/ Transient(p) \/ Refused(p)
      BY <1>1, <1>3, <2>3 DEF Accepted, AnswerLost, Transient, Refused, RetryOrGiveUp, Settle, host
    <2> QED
      BY <1>9, <2>1, <2>2, <2>3 DEF Pass
  <1> QED
    BY <1>4, <1>5, <1>6, <1>7, <1>8, <1>9 DEF Settling, Next, Shipper

\* The shipper implements the delivery: in order until shutdown(), nothing twice, and
\* nothing that was settled is taken back.
THEOREM ShipperImplementsDelivery == Spec => ImplementsDelivery
  <1>1. Init => Delivery!Init
    BY DEF Init, Delivery!Init
  <1>2. ASSUME ShipperInv, [Next]_vars
        PROVE  [Delivery!Next]_<<accepted, done, ~stopped>>
    <2>0. ShipperInv' /\ accepted \in Seq(Entries) /\ done \in Seq(Entries)
      BY <1>2, NextShips DEF ShipperInv, TypeOK
    <2>1. DoneFits'
      BY <2>0, DoneIsAccepted, PTL
    <2>2. CASE /\ ~stopped /\ UNCHANGED <<done, stopped>>
               /\ \E e \in Entries : accepted' = Append(accepted, e)
      <3>1. PICK e \in Entries : accepted' = Append(accepted, e)
        BY <2>2
      <3>2. Len(accepted') = Len(accepted) + 1 /\ Delivery!Continues(accepted', accepted)
        BY <2>0, <3>1, AppendProperties, LenProperties DEF Delivery!Continues
      <3> QED
        BY <2>2, <3>2 DEF Delivery!Next, Delivery!Accept
    <2>3. CASE /\ UNCHANGED <<accepted, stopped>>
               /\ \E s \in Seq(Entries) : done' = done \o s
      <3>1. Delivery!Continues(done', done)
        BY <2>0, <2>3, ConcatContinues
      <3>2. Delivery!IsPartOf(done', accepted)
        BY <2>1, <2>3 DEF DoneFits, Delivery!IsPartOf
      <3>3. ~stopped => Delivery!Continues(accepted, done')
        BY <2>1, <2>3 DEF DoneFits, Delivery!Continues
      <3> QED
        BY <2>3, <3>1, <3>2, <3>3 DEF Delivery!Next, Delivery!Settle
    <2>4. CASE ~stopped /\ stopped' = TRUE /\ UNCHANGED <<accepted, done>>
      BY <2>4 DEF Delivery!Next, Delivery!Close
    <2> QED
      BY <1>2, <2>2, <2>3, <2>4, HistoriesGrow
  <1> QED
    BY <1>1, <1>2, ShipperInvariant, PTL DEF Spec, ImplementsDelivery, Delivery!Spec

=============================================================================

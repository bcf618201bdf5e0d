----------------------------- MODULE ReportingProofs -----------------------------
(***************************************************************************)
(* How a run is reported: what the shipper's queue, batches and requests   *)
(* guarantee for any number of producers and flushes and any sizes of the  *)
(* queue and the batch, and what the row that its PATCHes move guarantees  *)
(* when they come one at a time (Overlap = FALSE), for every set of        *)
(* requests and terminal statuses.                                         *)
(***************************************************************************)
EXTENDS EventShipper, ExecutionLifecycle, SequenceTheorems, TLAPS

-----------------------------------------------------------------------------
(* The inductive invariant of the shipper.                                 *)

\* What the worker holds in each of its states.  Only between two items may a
\* batch be filling; a request of the last turn holds nothing back.
HandsHold ==
    /\ worker.pc # "take" => pending = <<>>
    /\ worker.pc \in {"take", "stopped"} => worker.batch = <<>> /\ worker.next = <<>>
    /\ worker.pc = "dispatch" => worker.batch = <<>> /\ worker.next # <<>>
    /\ worker.last => worker.next = <<>>

\* A flush() puts its barrier on the queue at most once.
BarriersOnce ==
    /\ \A f \in Flushes : flush[f] = "idle" => f \notin ToSet(accepted)
    /\ \A m, n \in DOMAIN accepted :
          accepted[m] \in Flushes /\ accepted[m] = accepted[n] => m = n

\* A flush that returned True has been signalled.
SignalledIsDone == \A f \in Flushes : flush[f] = "true" => f \in ToSet(done)

\* What the worker is through with has been counted, and what it counted as
\* delivered is at the backend or over its cap.
DoneIsSettled     == ToSet(done) \subseteq Settled \union Flushes
DeliveredIsStored == delivered \subseteq stored \union OverCap

ShipperInv ==
    /\ TypeOK
    /\ HandsHold
    /\ WorksThroughInOrder
    /\ BarriersOnce
    /\ SignalledIsDone
    /\ DoneIsSettled
    /\ DeliveredIsStored

-----------------------------------------------------------------------------
(* Sequences.                                                              *)

LEMMA ToSetType ==
  ASSUME NEW S, NEW s \in Seq(S)
  PROVE  ToSet(s) \subseteq S
  BY ElementOfSeq, LenProperties DEF ToSet

LEMMA ToSetConcat ==
  ASSUME NEW S, NEW s \in Seq(S), NEW t \in Seq(S)
  PROVE  ToSet(s \o t) = ToSet(s) \union ToSet(t)
  <1>1. /\ DOMAIN s = 1 .. Len(s) /\ Len(s) \in Nat
        /\ DOMAIN t = 1 .. Len(t) /\ Len(t) \in Nat
        /\ DOMAIN (s \o t) = 1 .. Len(s) + Len(t)
        /\ \A i \in 1 .. Len(s) + Len(t) :
              (s \o t)[i] = IF i <= Len(s) THEN s[i] ELSE t[i - Len(s)]
    BY LenProperties, ConcatProperties
  <1>2. ASSUME NEW e \in ToSet(s) PROVE e \in ToSet(s \o t)
    BY <1>1 DEF ToSet
  <1>3. ASSUME NEW e \in ToSet(t) PROVE e \in ToSet(s \o t)
    <2>1. PICK i \in 1 .. Len(t) : e = t[i]
      BY <1>1, <1>3 DEF ToSet
    <2>2. Len(s) + i \in 1 .. Len(s) + Len(t) /\ (s \o t)[Len(s) + i] = t[i]
      BY <1>1
    <2> QED
      BY <1>1, <2>1, <2>2 DEF ToSet
  <1>4. ASSUME NEW e \in ToSet(s \o t) PROVE e \in ToSet(s) \union ToSet(t)
    <2>1. PICK i \in 1 .. Len(s) + Len(t) : e = (s \o t)[i]
      BY <1>1, <1>4 DEF ToSet
    <2>2. CASE i <= Len(s)
      BY <1>1, <2>1, <2>2 DEF ToSet
    <2>3. CASE ~(i <= Len(s))
      <3>1. i - Len(s) \in 1 .. Len(t) /\ e = t[i - Len(s)]
        BY <1>1, <2>1, <2>3
      <3> QED
        BY <1>1, <3>1 DEF ToSet
    <2> QED
      BY <2>2, <2>3
  <1> QED
    BY <1>2, <1>3, <1>4

LEMMA Singleton ==
  ASSUME NEW S, NEW e \in S
  PROVE  <<e>> \in Seq(S) /\ ToSet(<<e>>) = {e}
  BY DEF ToSet

LEMMA ToSetAppend ==
  ASSUME NEW S, NEW s \in Seq(S), NEW e \in S
  PROVE  Append(s, e) \in Seq(S) /\ ToSet(Append(s, e)) = ToSet(s) \union {e}
  <1>1. Append(s, e) \in Seq(S) /\ Append(s, e) = s \o <<e>>
    BY AppendProperties, AppendIsConcat
  <1>2. <<e>> \in Seq(S) /\ ToSet(<<e>>) = {e}
    BY Singleton
  <1>3. ToSet(s \o <<e>>) = ToSet(s) \union ToSet(<<e>>)
    BY <1>2, ToSetConcat
  <1> QED
    BY <1>1, <1>2, <1>3

LEMMA HeadThenTail ==
  ASSUME NEW S, NEW s \in Seq(S), s # <<>>
  PROVE  /\ Head(s) \in S /\ Tail(s) \in Seq(S)
         /\ s = <<Head(s)>> \o Tail(s)
  <1>1. Head(s) \in S /\ Tail(s) \in Seq(S) /\ Len(Tail(s)) = Len(s) - 1
        /\ \A i \in 1 .. Len(Tail(s)) : Tail(s)[i] = s[i + 1]
    BY HeadTailProperties
  <1>2. Len(s) \in Nat \ {0} /\ Head(s) = s[1]
    BY EmptySeq
  <1> DEFINE t == <<Head(s)>> \o Tail(s)
  <1>3. <<Head(s)>> \in Seq(S) /\ Len(<<Head(s)>>) = 1 /\ <<Head(s)>>[1] = Head(s)
    BY <1>1
  <1>4. t \in Seq(S) /\ Len(t) = Len(s)
        /\ \A i \in 1 .. Len(s) : t[i] = IF i <= 1 THEN Head(s) ELSE Tail(s)[i - 1]
    BY <1>1, <1>2, <1>3, ConcatProperties
  <1>5. \A i \in 1 .. Len(s) : s[i] = t[i]
    BY <1>1, <1>2, <1>4
  <1> QED
    BY <1>1, <1>4, <1>5, SeqEqual

\* The element that moves from the front of one sequence to the end of the
\* sequence before it.
LEMMA HeadMoves ==
  ASSUME NEW S, NEW s \in Seq(S), NEW t \in Seq(S), t # <<>>
  PROVE  s \o t = s \o <<Head(t)>> \o Tail(t)
  <1>1. Head(t) \in S /\ Tail(t) \in Seq(S) /\ t = <<Head(t)>> \o Tail(t)
    BY HeadThenTail
  <1>2. <<Head(t)>> \in Seq(S)
    BY <1>1
  <1>3. s \o (<<Head(t)>> \o Tail(t)) = (s \o <<Head(t)>>) \o Tail(t)
    BY <1>1, <1>2, ConcatAssociative
  <1> QED
    BY <1>1, <1>3

\* A prefix agrees with the whole.
LEMMA PrefixAgrees ==
  ASSUME NEW S, NEW s \in Seq(S), NEW t \in Seq(S), NEW i \in DOMAIN s
  PROVE  i \in DOMAIN (s \o t) /\ (s \o t)[i] = s[i]
  BY LenProperties, ConcatProperties

\* Parts that are empty.
LEMMA EmptyParts ==
  ASSUME NEW S, NEW s \in Seq(S), NEW t \in Seq(S), NEW u \in Seq(S)
  PROVE  /\ s \o t \o <<>> \o <<>> \o u = s \o t \o u
         /\ s \o <<>> \o t \o <<>> \o u = s \o t \o u
         /\ s \o <<>> \o <<>> \o t \o u = s \o t \o u
         /\ s \o <<>> \o <<>> \o <<>> \o u = s \o u
  <1>1. s \o t \in Seq(S)
    BY ConcatProperties
  <1>2. s \o <<>> = s /\ (s \o t) \o <<>> = s \o t
    BY <1>1, ConcatEmptySeq
  <1> QED
    BY <1>2

LEMMA LenOne ==
  ASSUME NEW S, NEW s \in Seq(S), s # <<>>, Len(s) <= 1
  PROVE  s[1] \in S /\ s = <<s[1]>>
  <1>0. Len(s) \in Nat \ {0}
    BY EmptySeq
  <1>1. Len(s) = 1
    BY <1>0
  <1>2. s[1] \in S
    BY <1>1, ElementOfSeq
  <1>3. <<s[1]>> \in Seq(S) /\ Len(<<s[1]>>) = 1 /\ <<s[1]>>[1] = s[1]
    BY <1>2
  <1> QED
    BY <1>1, <1>2, <1>3, SeqEqual

-----------------------------------------------------------------------------
(* What every action shares.                                               *)

LEMMA Parts ==
  ASSUME TypeOK
  PROVE  /\ queue \in Seq(Entries) /\ accepted \in Seq(Entries) /\ done \in Seq(Entries)
         /\ pending \in Seq(Items) /\ pending \in Seq(Entries)
         /\ worker.batch \in Seq(Items) /\ worker.batch \in Seq(Entries)
         /\ worker.next \in Seq(Entries)
         /\ Batch \subseteq Items
  <1>1. pending \in Seq(Items) /\ worker.batch \in Seq(Items) /\ worker.next \in Seq(Entries)
    BY DEF TypeOK, WorkerType
  <1>2. Items \subseteq Entries
    BY DEF Entries
  <1> QED
    BY <1>1, <1>2, SeqMonotonic, ToSetType DEF TypeOK, Batch

LEMMA EventsAreItems ==
  ASSUME NEW i, IsEvent(i)
  PROVE  i \in Items
  <1>1. 1 .. Events \subseteq 0 .. Events + 1
    BY ConstantsAssumption
  <1> QED
    BY <1>1 DEF IsEvent, Items

LEMMA InitShipper == Init => ShipperInv
  <1> SUFFICES ASSUME Init PROVE ShipperInv
    OBVIOUS
  <1> USE DEF Init
  <1>1. <<>> \in Seq(Entries) /\ <<>> \in Seq(Items) /\ Len(<<>>) = 0 /\ ToSet(<<>>) = {}
    BY EmptySeq DEF ToSet
  <1>2. TypeOK
    <2>1. Idle \in WorkerType
      BY <1>1, ConstantsAssumption DEF WorkerType, Idle
    <2>2. Len(worker.batch) <= BatchSize /\ Len(worker.next) <= 1
      BY <1>1, ConstantsAssumption DEF Idle
    <2>3. Len(queue) <= MaxQueue /\ Len(pending) < BatchSize
      BY <1>1, ConstantsAssumption
    <2>4. step \in [Executions -> 0 .. Events + 2]
      BY ConstantsAssumption
    <2> QED
      BY <1>1, <2>1, <2>2, <2>3, <2>4 DEF TypeOK
  <1>3. HandsHold
    BY DEF HandsHold, Idle
  <1>4. WorksThroughInOrder
    BY <1>1, EmptyParts, ConcatEmptySeq DEF WorksThroughInOrder, Idle
  <1>5. BarriersOnce /\ SignalledIsDone /\ DoneIsSettled /\ DeliveredIsStored
    BY <1>1 DEF BarriersOnce, SignalledIsDone, DoneIsSettled, DeliveredIsStored, Settled
  <1> QED
    BY <1>2, <1>3, <1>4, <1>5 DEF ShipperInv

\* A step that puts nothing on the queue, finishes nothing and counts nothing.
LEMMA SameHistories ==
  ASSUME ShipperInv, UNCHANGED <<accepted, flush, done, counters, stored>>
  PROVE  BarriersOnce' /\ SignalledIsDone' /\ DoneIsSettled' /\ DeliveredIsStored'
  BY DEF ShipperInv, BarriersOnce, SignalledIsDone, DoneIsSettled, DeliveredIsStored,
         Settled, counters

\* Between two items the worker holds only the batch it is filling.
LEMMA AtTopHolds ==
  ASSUME ShipperInv, AtTop
  PROVE  accepted = done \o pending \o queue
  <1>1. done \in Seq(Entries) /\ pending \in Seq(Entries) /\ queue \in Seq(Entries)
    BY Parts DEF ShipperInv
  <1>2. done \o <<>> \o <<>> \o pending \o queue = done \o pending \o queue
    BY <1>1, EmptyParts
  <1> QED
    BY <1>2 DEF ShipperInv, HandsHold, WorksThroughInOrder, AtTop

-----------------------------------------------------------------------------
(* The application's threads.                                              *)

LEMMA PutInOrder ==
  ASSUME ShipperInv, NEW e \in Entries, Put(e), HasRoom, UNCHANGED <<pending, worker, done>>,
         e \in Flushes => e \notin ToSet(accepted)
  PROVE  /\ queue' \in Seq(Entries) /\ Len(queue') <= MaxQueue
         /\ accepted' \in Seq(Entries) /\ ToSet(accepted') = ToSet(accepted) \union {e}
         /\ WorksThroughInOrder'
         /\ \A m, n \in DOMAIN accepted' :
               accepted'[m] \in Flushes /\ accepted'[m] = accepted'[n] => m = n
  <1> USE DEF Put
  <1>1. queue' \in Seq(Entries) /\ Len(queue') <= MaxQueue
    BY AppendProperties, LenProperties, ConstantsAssumption DEF ShipperInv, TypeOK, HasRoom
  <1>2. accepted' \in Seq(Entries) /\ ToSet(accepted') = ToSet(accepted) \union {e}
    BY ToSetAppend DEF ShipperInv, TypeOK
  <1>3. WorksThroughInOrder'
    <2>1. PICK held : held = done \o worker.batch \o worker.next \o pending
      OBVIOUS
    <2>2. held \in Seq(Entries) /\ queue \in Seq(Entries)
      BY <2>1, Parts, ConcatProperties DEF ShipperInv
    <2>3. <<e>> \in Seq(Entries) /\ accepted' = accepted \o <<e>> /\ queue' = queue \o <<e>>
      BY <2>2, AppendIsConcat, Singleton DEF ShipperInv, TypeOK
    <2>4. (held \o queue) \o <<e>> = held \o (queue \o <<e>>)
      BY <2>2, <2>3, ConcatAssociative
    <2>5. accepted = held \o queue
      BY <2>1 DEF ShipperInv, WorksThroughInOrder
    <2> HIDE DEF Put
    <2> QED
      BY <2>1, <2>3, <2>4, <2>5 DEF WorksThroughInOrder
  <1>4. ASSUME NEW m \in DOMAIN accepted', NEW n \in DOMAIN accepted',
               accepted'[m] \in Flushes, accepted'[m] = accepted'[n]
        PROVE  m = n
    <2>1. /\ DOMAIN accepted = 1 .. Len(accepted) /\ Len(accepted) \in Nat
          /\ DOMAIN accepted' = 1 .. Len(accepted) + 1
          /\ accepted'[Len(accepted) + 1] = e
          /\ \A i \in DOMAIN accepted : accepted'[i] = accepted[i]
      BY <1>2, AppendProperties, LenProperties DEF ShipperInv, TypeOK
    <2>2. \A i \in DOMAIN accepted : accepted[i] \in Flushes => accepted[i] # e
      BY DEF ToSet
    <2>3. CASE m \in DOMAIN accepted /\ n \in DOMAIN accepted
      BY <2>1, <2>3, <1>4 DEF ShipperInv, BarriersOnce
    <2>4. CASE m \notin DOMAIN accepted /\ n \in DOMAIN accepted
      BY <2>1, <2>2, <2>4, <1>4
    <2>5. CASE m \in DOMAIN accepted /\ n \notin DOMAIN accepted
      BY <2>1, <2>2, <2>5, <1>4
    <2>6. CASE m \notin DOMAIN accepted /\ n \notin DOMAIN accepted
      BY <2>1, <2>6
    <2> QED
      BY <2>3, <2>4, <2>5, <2>6
  <1> QED
    BY <1>1, <1>2, <1>3, <1>4

LEMMA SubmitShips ==
  ASSUME ShipperInv, NEW x \in Executions, Submit(x)
  PROVE  ShipperInv'
  <1> DEFINE e == <<x, step[x]>>
  <1>0. TypeOK /\ UNCHANGED <<flush, stop, pending, worker, done, counters, stored>>
    BY DEF ShipperInv, Submit
  <1>1. e \in Items /\ e \in Entries /\ e \notin Flushes
    BY <1>0, ConstantsAssumption DEF Submit, TypeOK, Items, Entries
  <1>2. step' \in [Executions -> 0 .. Events + 2]
    BY <1>0, ConstantsAssumption DEF Submit, TypeOK
  <1>3. HandsHold' /\ SignalledIsDone' /\ DoneIsSettled' /\ DeliveredIsStored'
    BY <1>0 DEF ShipperInv, HandsHold, SignalledIsDone, DoneIsSettled, DeliveredIsStored,
                Settled, counters
  <1>4. CASE HasRoom
    <2>1. Put(e) /\ UNCHANGED dropped
      BY <1>4 DEF Submit
    <2>2. TypeOK'
      BY <1>0, <1>1, <1>2, <1>4, <2>1, PutInOrder DEF TypeOK, counters
    <2>3. WorksThroughInOrder'
      BY <1>0, <1>1, <1>4, <2>1, PutInOrder
    <2>4. BarriersOnce'
      <3>1. ToSet(accepted') = ToSet(accepted) \union {e}
        BY <1>0, <1>1, <1>4, <2>1, PutInOrder
      <3>2. \A f \in Flushes : flush'[f] = "idle" => f \notin ToSet(accepted')
        BY <1>0, <1>1, <3>1 DEF ShipperInv, BarriersOnce
      <3>3. \A m, n \in DOMAIN accepted' :
               accepted'[m] \in Flushes /\ accepted'[m] = accepted'[n] => m = n
        BY <1>0, <1>1, <1>4, <2>1, PutInOrder
      <3>4. ToSet(accepted)' = ToSet(accepted')
        BY DEF ToSet
      <3> QED
        BY <3>2, <3>3, <3>4 DEF BarriersOnce
    <2> QED
      BY <1>3, <2>2, <2>3, <2>4 DEF ShipperInv
  <1>5. CASE ~HasRoom
    <2>1. dropped' = dropped \union {e} /\ UNCHANGED <<queue, accepted>>
      BY <1>5 DEF Submit
    <2>2. TypeOK'
      BY <1>0, <1>1, <1>2, <2>1 DEF TypeOK, counters
    <2>3. WorksThroughInOrder' /\ BarriersOnce'
      BY <1>0, <2>1 DEF ShipperInv, WorksThroughInOrder, BarriersOnce
    <2> QED
      BY <1>3, <2>2, <2>3 DEF ShipperInv
  <1> QED
    BY <1>4, <1>5

LEMMA FlushShips ==
  ASSUME ShipperInv, NEW f \in Flushes, Flush(f)
  PROVE  ShipperInv'
  <1>0. TypeOK /\ UNCHANGED <<step, stop, pending, worker, done, counters, dropped, stored>>
    BY DEF ShipperInv, Flush
  <1>1. f \in Entries /\ f \notin ToSet(accepted)
    BY DEF ShipperInv, BarriersOnce, Flush, Entries
  <1>2. CASE HasRoom
    <2>1. Put(f) /\ flush' = [flush EXCEPT ![f] = "waiting"]
      BY <1>2 DEF Flush
    <2>2. TypeOK'
      BY <1>0, <1>1, <1>2, <2>1, PutInOrder DEF TypeOK, counters
    <2>3. WorksThroughInOrder'
      BY <1>0, <1>1, <1>2, <2>1, PutInOrder
    <2>4. BarriersOnce'
      <3>1. ToSet(accepted') = ToSet(accepted) \union {f}
        BY <1>0, <1>1, <1>2, <2>1, PutInOrder
      <3>2. \A g \in Flushes : flush'[g] = "idle" => flush[g] = "idle" /\ g # f
        BY <1>0, <2>1 DEF TypeOK
      <3>3. \A g \in Flushes : flush'[g] = "idle" => g \notin ToSet(accepted')
        BY <3>1, <3>2 DEF ShipperInv, BarriersOnce
      <3>4. \A m, n \in DOMAIN accepted' :
               accepted'[m] \in Flushes /\ accepted'[m] = accepted'[n] => m = n
        BY <1>0, <1>1, <1>2, <2>1, PutInOrder
      <3>5. ToSet(accepted)' = ToSet(accepted')
        BY DEF ToSet
      <3> QED
        BY <3>3, <3>4, <3>5 DEF BarriersOnce
    <2>5. SignalledIsDone'
      BY <1>0, <2>1 DEF ShipperInv, SignalledIsDone, TypeOK
    <2>6. HandsHold' /\ DoneIsSettled' /\ DeliveredIsStored'
      BY <1>0 DEF ShipperInv, HandsHold, DoneIsSettled, DeliveredIsStored, Settled, counters
    <2> QED
      BY <2>2, <2>3, <2>4, <2>5, <2>6 DEF ShipperInv
  <1>3. CASE ~HasRoom
    <2>1. flush' = [flush EXCEPT ![f] = "false"] /\ UNCHANGED <<queue, accepted>>
      BY <1>3 DEF Flush
    <2>2. TypeOK'
      BY <1>0, <2>1 DEF TypeOK, counters
    <2>3. BarriersOnce' /\ SignalledIsDone'
      BY <1>0, <2>1 DEF ShipperInv, BarriersOnce, SignalledIsDone, TypeOK
    <2>4. HandsHold' /\ WorksThroughInOrder' /\ DoneIsSettled' /\ DeliveredIsStored'
      BY <1>0, <2>1 DEF ShipperInv, HandsHold, WorksThroughInOrder, DoneIsSettled,
                        DeliveredIsStored, Settled, counters
    <2> QED
      BY <2>2, <2>3, <2>4 DEF ShipperInv
  <1> QED
    BY <1>2, <1>3

LEMMA FlushTimesOutShips ==
  ASSUME ShipperInv, NEW f \in Flushes, FlushTimesOut(f)
  PROVE  ShipperInv'
  <1> USE DEF FlushTimesOut, ShipperInv, counters
  <1>1. TypeOK'
    BY DEF TypeOK
  <1>2. BarriersOnce' /\ SignalledIsDone'
    BY DEF BarriersOnce, SignalledIsDone, TypeOK
  <1>3. HandsHold' /\ WorksThroughInOrder' /\ DoneIsSettled' /\ DeliveredIsStored'
    BY DEF HandsHold, WorksThroughInOrder, DoneIsSettled, DeliveredIsStored, Settled
  <1> QED
    BY <1>1, <1>2, <1>3

LEMMA ShutdownShips ==
  ASSUME ShipperInv, Shutdown
  PROVE  ShipperInv'
  <1> USE DEF Shutdown, ShipperInv
  <1>1. TypeOK' /\ HandsHold' /\ WorksThroughInOrder'
    BY DEF TypeOK, HandsHold, WorksThroughInOrder, counters
  <1> QED
    BY <1>1, SameHistories

-----------------------------------------------------------------------------
(* The worker's loop.                                                      *)

\* The request the worker starts takes the pending batch with it.
LEMMA SendHolds ==
  ASSUME ShipperInv, NEW b \in Seq(Items), NEW n \in Seq(Entries), NEW last \in BOOLEAN,
         Len(b) <= BatchSize, Len(n) <= 1, last => n = <<>>, Send(b, n, last)
  PROVE  /\ worker' \in WorkerType /\ Len(worker'.batch) <= BatchSize /\ Len(worker'.next) <= 1
         /\ pending' \in Seq(Items) /\ Len(pending') < BatchSize
         /\ worker'.batch = b /\ worker'.next = n /\ pending' = <<>>
         /\ HandsHold'
  <1>1. <<>> \in Seq(Items) /\ Len(<<>>) = 0
    BY EmptySeq
  <1>2. 0 \in 0 .. MaxRetries
    BY ConstantsAssumption
  <1> QED
    BY <1>1, <1>2, ConstantsAssumption DEF Send, WorkerType, HandsHold

LEMMA TakeEventShips ==
  ASSUME ShipperInv, TakeEvent
  PROVE  ShipperInv'
  <1> DEFINE e == Head(queue)
             b == Append(pending, e)
  <1>0. /\ TypeOK /\ worker.batch = <<>> /\ worker.next = <<>> /\ queue # <<>>
        /\ queue' = Tail(queue)
        /\ UNCHANGED <<accepted, step, flush, stop, done, counters, dropped, stored>>
    BY DEF ShipperInv, TakeEvent, HandsHold, AtTop, producers
  <1>1. e \in Items /\ e \in Entries
    BY EventsAreItems DEF TakeEvent, Entries
  <1>2. queue' \in Seq(Entries) /\ Len(queue') <= MaxQueue
    BY <1>0, HeadTailProperties, LenProperties, ConstantsAssumption DEF TypeOK
  <1>3. pending \in Seq(Items) /\ pending \in Seq(Entries) /\ done \in Seq(Entries)
        /\ queue \in Seq(Entries)
    BY <1>0, Parts
  <1>4. b \in Seq(Items) /\ b \in Seq(Entries) /\ b = pending \o <<e>> /\ <<e>> \in Seq(Entries)
    BY <1>1, <1>3, AppendProperties, AppendIsConcat, Singleton
  <1>5. Len(b) <= BatchSize
    BY <1>0, <1>1, <1>3, AppendProperties, LenProperties, ConstantsAssumption DEF TypeOK
  <1>6. accepted = done \o b \o Tail(queue)
    <2>1. done \o pending \in Seq(Entries)
      BY <1>3, ConcatProperties
    <2>2. (done \o pending) \o queue = (done \o pending) \o <<e>> \o Tail(queue)
      BY <1>0, <1>3, <2>1, HeadMoves
    <2>3. (done \o pending) \o <<e>> = done \o (pending \o <<e>>)
      BY <1>3, <1>4, ConcatAssociative
    <2> QED
      BY <1>4, <2>2, <2>3, AtTopHolds DEF TakeEvent
  <1>7. done \o b \o <<>> \o <<>> \o queue' = done \o b \o queue'
        /\ done \o <<>> \o <<>> \o b \o queue' = done \o b \o queue'
    BY <1>2, <1>3, <1>4, EmptyParts
  <1> HIDE DEF b, e
  <1>8. TypeOK' /\ HandsHold' /\ WorksThroughInOrder'
    <2>1. CASE Len(b) >= BatchSize
      <3>1. Send(b, <<>>, FALSE)
        BY <2>1 DEF TakeEvent, b, e
      <3>2. <<>> \in Seq(Entries) /\ Len(<<>>) <= 1
        BY EmptySeq
      <3>3. /\ worker' \in WorkerType /\ Len(worker'.batch) <= BatchSize /\ Len(worker'.next) <= 1
            /\ pending' \in Seq(Items) /\ Len(pending') < BatchSize
            /\ worker'.batch = b /\ worker'.next = <<>> /\ pending' = <<>>
            /\ HandsHold'
        BY <1>4, <1>5, <3>1, <3>2, SendHolds
      <3>4. TypeOK'
        BY <1>0, <1>2, <3>3 DEF TypeOK, counters
      <3>5. WorksThroughInOrder'
        BY <1>0, <1>6, <1>7, <3>3 DEF WorksThroughInOrder
      <3> QED
        BY <3>3, <3>4, <3>5
    <2>2. CASE ~(Len(b) >= BatchSize)
      <3>1. pending' = b /\ UNCHANGED worker
        BY <2>2 DEF TakeEvent, b, e
      <3>2. Len(b) < BatchSize
        BY <2>2, <1>4, LenProperties, ConstantsAssumption
      <3>3. TypeOK'
        BY <1>0, <1>2, <1>4, <3>1, <3>2 DEF TypeOK, counters
      <3>4. HandsHold'
        BY <1>0, <3>1 DEF ShipperInv, HandsHold, TakeEvent, AtTop
      <3>5. WorksThroughInOrder'
        BY <1>0, <1>6, <1>7, <3>1 DEF WorksThroughInOrder
      <3> QED
        BY <3>3, <3>4, <3>5
    <2> QED
      BY <2>1, <2>2
  <1> QED
    BY <1>0, <1>8, SameHistories DEF ShipperInv

\* Whatever else is taken off the queue is not an event.
LEMMA TakeOtherShips ==
  ASSUME ShipperInv, TakeOther
  PROVE  ShipperInv'
  <1> DEFINE e == Head(queue)
  <1>0. /\ TypeOK /\ worker.batch = <<>> /\ worker.next = <<>> /\ queue # <<>>
        /\ queue' = Tail(queue)
        /\ UNCHANGED <<accepted, step, flush, stop, done, counters, dropped, stored>>
    BY DEF ShipperInv, TakeOther, HandsHold, AtTop, producers
  <1>1. pending \in Seq(Items) /\ pending \in Seq(Entries) /\ done \in Seq(Entries)
        /\ queue \in Seq(Entries) /\ Len(pending) < BatchSize
    BY <1>0, Parts DEF TypeOK
  <1>2. e \in Entries /\ queue' \in Seq(Entries) /\ Len(queue') <= MaxQueue
    BY <1>0, <1>1, HeadTailProperties, LenProperties, ConstantsAssumption DEF TypeOK
  <1>3. <<e>> \in Seq(Entries) /\ Len(<<e>>) = 1 /\ Len(<<e>>) <= 1 /\ <<e>> # <<>>
    BY <1>2
  <1>4. accepted = done \o pending \o <<e>> \o queue'
    <2>1. done \o pending \in Seq(Entries)
      BY <1>1, ConcatProperties
    <2>2. (done \o pending) \o queue = (done \o pending) \o <<e>> \o Tail(queue)
      BY <1>0, <1>1, <2>1, HeadMoves
    <2> QED
      BY <1>0, <2>2, AtTopHolds DEF TakeOther
  <1> HIDE DEF e
  <1>5. TypeOK' /\ HandsHold' /\ WorksThroughInOrder'
    <2>1. CASE pending # <<>>
      <3>1. Send(pending, <<e>>, FALSE)
        BY <2>1 DEF TakeOther, e
      <3>2. Len(pending) <= BatchSize
        BY <1>1, LenProperties, ConstantsAssumption
      <3>3. /\ worker' \in WorkerType /\ Len(worker'.batch) <= BatchSize /\ Len(worker'.next) <= 1
            /\ pending' \in Seq(Items) /\ Len(pending') < BatchSize
            /\ worker'.batch = pending /\ worker'.next = <<e>> /\ pending' = <<>>
            /\ HandsHold'
        <4>1. PICK n : n = <<e>>
          OBVIOUS
        <4>2. n \in Seq(Entries) /\ Len(n) <= 1 /\ Send(pending, n, FALSE)
          BY <1>3, <3>1, <4>1, Zenon
        <4> QED
          BY <1>1, <3>2, <4>1, <4>2, SendHolds
      <3>4. TypeOK'
        BY <1>0, <1>2, <3>3 DEF TypeOK, counters
      <3>5. WorksThroughInOrder'
        <4>1. done \o pending \o <<e>> \in Seq(Entries)
          BY <1>1, <1>3, ConcatProperties
        <4>2. done \o pending \o <<e>> \o <<>> = done \o pending \o <<e>>
          BY <4>1, ConcatEmptySeq
        <4> QED
          BY <1>0, <1>4, <3>3, <4>2 DEF WorksThroughInOrder
      <3> QED
        BY <3>3, <3>4, <3>5
    <2>2. CASE pending = <<>>
      <3>1. worker' = [Idle EXCEPT !.pc = "dispatch", !.next = <<e>>] /\ UNCHANGED pending
        BY <2>2 DEF TakeOther, e
      <3>2. <<>> \in Seq(Items) /\ Len(<<>>) = 0 /\ 0 \in 0 .. MaxRetries
        BY EmptySeq, ConstantsAssumption
      <3>3. /\ worker' \in WorkerType
            /\ worker'.pc = "dispatch" /\ worker'.batch = <<>> /\ worker'.next = <<e>>
            /\ ~worker'.last
        BY <1>3, <3>1, <3>2 DEF Idle, WorkerType
      <3>4. TypeOK'
        BY <1>0, <1>1, <1>2, <1>3, <3>1, <3>2, <3>3, ConstantsAssumption DEF TypeOK, counters
      <3>5. HandsHold'
        BY <1>3, <2>2, <3>1, <3>3 DEF HandsHold
      <3>6. WorksThroughInOrder'
        <4>1. /\ done \o <<>> \o <<e>> \o <<>> \o queue' = done \o <<e>> \o queue'
              /\ done \o <<>> = done
          BY <1>1, <1>2, <1>3, EmptyParts, ConcatEmptySeq
        <4> QED
          BY <1>0, <1>4, <2>2, <3>1, <3>3, <4>1 DEF WorksThroughInOrder
      <3> QED
        BY <3>4, <3>5, <3>6
    <2> QED
      BY <2>1, <2>2
  <1> QED
    BY <1>0, <1>5, SameHistories DEF ShipperInv

\* The pending batch becomes the request, at the end of the interval or of the loop.
LEMMA SendPendingShips ==
  ASSUME ShipperInv, AtTop, NEW last \in BOOLEAN, Send(pending, <<>>, last),
         UNCHANGED <<queue, accepted, producers, done, counters, dropped, stored>>
  PROVE  ShipperInv'
  <1>1. TypeOK /\ pending \in Seq(Items) /\ pending \in Seq(Entries) /\ done \in Seq(Entries)
        /\ queue \in Seq(Entries) /\ Len(pending) < BatchSize
    BY Parts DEF ShipperInv, TypeOK
  <1>2. Len(pending) <= BatchSize /\ <<>> \in Seq(Entries) /\ Len(<<>>) <= 1
    BY <1>1, LenProperties, EmptySeq, ConstantsAssumption
  <1>3. /\ worker' \in WorkerType /\ Len(worker'.batch) <= BatchSize /\ Len(worker'.next) <= 1
        /\ pending' \in Seq(Items) /\ Len(pending') < BatchSize
        /\ worker'.batch = pending /\ worker'.next = <<>> /\ pending' = <<>>
        /\ HandsHold'
    BY <1>1, <1>2, SendHolds
  <1>4. TypeOK'
    BY <1>1, <1>3 DEF TypeOK, counters, producers
  <1>5. WorksThroughInOrder'
    <2>1. done \o pending \o <<>> \o <<>> \o queue = done \o pending \o queue
      BY <1>1, EmptyParts
    <2> QED
      BY <1>3, <2>1, AtTopHolds DEF WorksThroughInOrder
  <1>6. UNCHANGED flush
    BY DEF producers
  <1> QED
    BY <1>3, <1>4, <1>5, <1>6, SameHistories DEF ShipperInv

LEMMA FlushIntervalShips ==
  ASSUME ShipperInv, FlushInterval
  PROVE  ShipperInv'
  BY SendPendingShips DEF FlushInterval

LEMMA LeaveLoopShips ==
  ASSUME ShipperInv, LeaveLoop
  PROVE  ShipperInv'
  <1>1. CASE pending # <<>>
    BY <1>1, SendPendingShips DEF LeaveLoop
  <1>2. CASE pending = <<>>
    <2>0. /\ TypeOK /\ worker.batch = <<>> /\ worker.next = <<>>
          /\ worker' = [Idle EXCEPT !.pc = "stopped"]
          /\ UNCHANGED <<queue, accepted, step, flush, stop, pending, done, counters, dropped,
                         stored>>
      BY <1>2 DEF LeaveLoop, AtTop, ShipperInv, HandsHold, producers
    <2>1. <<>> \in Seq(Items) /\ <<>> \in Seq(Entries) /\ Len(<<>>) = 0 /\ 0 \in 0 .. MaxRetries
      BY EmptySeq, ConstantsAssumption
    <2>2. /\ worker' \in WorkerType
          /\ worker'.pc = "stopped" /\ worker'.batch = <<>> /\ worker'.next = <<>>
      BY <2>0, <2>1 DEF Idle, WorkerType
    <2>3. TypeOK'
      BY <2>0, <2>1, <2>2, ConstantsAssumption DEF TypeOK, counters
    <2>4. HandsHold' /\ WorksThroughInOrder'
      BY <1>2, <2>0, <2>2 DEF ShipperInv, HandsHold, WorksThroughInOrder
    <2> QED
      BY <2>0, <2>3, <2>4, SameHistories DEF ShipperInv
  <1> QED
    BY <1>1, <1>2

LEMMA DispatchShips ==
  ASSUME ShipperInv, Dispatch
  PROVE  ShipperInv'
  <1> DEFINE e == worker.next[1]
  <1>0. /\ TypeOK /\ worker.batch = <<>> /\ worker.next # <<>> /\ pending = <<>>
        /\ worker.next \in Seq(Entries) /\ Len(worker.next) <= 1
        /\ done \in Seq(Entries) /\ queue \in Seq(Entries)
        /\ UNCHANGED <<queue, accepted, step, stop, pending, counters, dropped, stored>>
    BY Parts DEF ShipperInv, Dispatch, HandsHold, TypeOK
  <1>1. e \in Entries /\ worker.next = <<e>> /\ <<e>> \in Seq(Entries)
    BY <1>0, LenOne
  <1>2. accepted = done \o <<e>> \o queue
    <2>1. done \o <<>> \o worker.next \o <<>> \o queue = done \o worker.next \o queue
      BY <1>0, EmptyParts
    <2> QED
      BY <1>0, <1>1, <2>1 DEF ShipperInv, WorksThroughInOrder
  <1>3. <<>> \in Seq(Items) /\ <<>> \in Seq(Entries) /\ Len(<<>>) = 0 /\ 0 \in 0 .. MaxRetries
    BY EmptySeq, ConstantsAssumption
  <1>4. CASE e \in Flushes
    <2>1. /\ flush' = [flush EXCEPT ![e] = IF @ = "waiting" THEN "true" ELSE @]
          /\ done' = Append(done, e)
          /\ worker' = Idle
      BY <1>4 DEF Dispatch
    <2>2. worker' \in WorkerType /\ worker'.pc = "take" /\ worker'.batch = <<>>
          /\ worker'.next = <<>> /\ ~worker'.last
      BY <1>3, <2>1 DEF Idle, WorkerType
    <2>3. /\ done' \in Seq(Entries) /\ done' = done \o <<e>>
          /\ ToSet(done') = ToSet(done) \union {e} /\ ToSet(done)' = ToSet(done')
      <3>1. Append(done, e) \in Seq(Entries) /\ ToSet(Append(done, e)) = ToSet(done) \union {e}
        BY <1>0, <1>1, ToSetAppend
      <3>2. Append(done, e) = done \o <<e>>
        BY <1>0, <1>1, AppendIsConcat
      <3>3. ToSet(done)' = ToSet(done')
        BY DEF ToSet
      <3> QED
        BY <2>1, <3>1, <3>2, <3>3
    <2>4. TypeOK'
      BY <1>0, <1>3, <1>4, <2>1, <2>2, <2>3, ConstantsAssumption DEF TypeOK, counters
    <2>5. HandsHold'
      BY <2>2 DEF HandsHold
    <2>6. WorksThroughInOrder'
      <3>1. done' \o <<>> \o <<>> \o <<>> \o queue = done' \o queue
        BY <1>0, <2>3, EmptyParts
      <3> QED
        BY <1>0, <1>2, <2>2, <2>3, <3>1 DEF WorksThroughInOrder
    <2>7. BarriersOnce' /\ SignalledIsDone'
      BY <1>0, <1>4, <2>1, <2>3 DEF ShipperInv, BarriersOnce, SignalledIsDone, TypeOK
    <2>8. DoneIsSettled' /\ DeliveredIsStored'
      BY <1>0, <1>4, <2>3 DEF ShipperInv, DoneIsSettled, DeliveredIsStored, Settled, counters
    <2> QED
      BY <2>4, <2>5, <2>6, <2>7, <2>8 DEF ShipperInv
  <1>5. CASE e \notin Flushes
    <2>1. worker' = [Idle EXCEPT !.pc = "send", !.batch = <<e>>] /\ UNCHANGED <<flush, done>>
      BY <1>5 DEF Dispatch
    <2>2. <<e>> \in Seq(Items) /\ Len(<<e>>) = 1
      BY <1>1, <1>5 DEF Entries
    <2>3. /\ worker' \in WorkerType /\ worker'.pc = "send" /\ worker'.batch = <<e>>
          /\ worker'.next = <<>>
      BY <1>3, <2>1, <2>2 DEF Idle, WorkerType
    <2>4. TypeOK'
      BY <1>0, <1>3, <2>1, <2>2, <2>3, ConstantsAssumption DEF TypeOK, counters
    <2>5. HandsHold'
      BY <1>0, <2>3 DEF HandsHold
    <2>6. WorksThroughInOrder'
      <3>1. done \o <<e>> \o <<>> \o <<>> \o queue = done \o <<e>> \o queue
        BY <1>0, <1>1, EmptyParts
      <3> QED
        BY <1>0, <1>2, <2>1, <2>3, <3>1 DEF WorksThroughInOrder
    <2> QED
      BY <1>0, <2>1, <2>4, <2>5, <2>6, SameHistories DEF ShipperInv
  <1> QED
    BY <1>4, <1>5

-----------------------------------------------------------------------------
(* One request, with retries.                                              *)

LEMMA DieShips ==
  ASSUME ShipperInv, Die
  PROVE  ShipperInv'
  <1>0. /\ TypeOK /\ worker \in WorkerType /\ worker' = [worker EXCEPT !.pc = "died"]
        /\ worker.pc = "send"
        /\ UNCHANGED <<queue, accepted, step, flush, stop, pending, done, counters, dropped, stored>>
    BY DEF Die, ShipperInv, TypeOK, producers, Sending
  <1>1. /\ worker' \in WorkerType /\ worker'.pc = "died" /\ worker'.batch = worker.batch
        /\ worker'.next = worker.next /\ worker'.last = worker.last
    BY <1>0 DEF WorkerType
  <1>2. TypeOK' /\ HandsHold' /\ WorksThroughInOrder'
    BY <1>0, <1>1 DEF ShipperInv, TypeOK, HandsHold, WorksThroughInOrder, counters
  <1> QED
    BY <1>0, <1>2, SameHistories DEF ShipperInv

\* Another attempt at the same request.
LEMMA RetryShips ==
  ASSUME ShipperInv, Sending, worker.attempt < MaxRetries,
         worker' = [worker EXCEPT !.attempt = @ + 1], stored \subseteq stored',
         stored' \subseteq Items,
         UNCHANGED <<queue, accepted, producers, pending, done, counters, dropped>>
  PROVE  ShipperInv'
  <1>0. /\ TypeOK /\ worker \in WorkerType /\ worker.pc = "send"
        /\ UNCHANGED <<step, flush, stop>>
    BY DEF ShipperInv, TypeOK, producers, Sending
  <1>1. worker.attempt + 1 \in 0 .. MaxRetries
    BY <1>0, ConstantsAssumption DEF WorkerType
  <1>2. /\ worker' \in WorkerType /\ worker'.pc = "send" /\ worker'.batch = worker.batch
        /\ worker'.next = worker.next /\ worker'.last = worker.last
    BY <1>0, <1>1 DEF WorkerType
  <1>3. TypeOK' /\ HandsHold' /\ WorksThroughInOrder'
    BY <1>0, <1>2 DEF ShipperInv, TypeOK, HandsHold, WorksThroughInOrder, counters
  <1>4. BarriersOnce' /\ SignalledIsDone' /\ DoneIsSettled' /\ DeliveredIsStored'
    BY <1>0 DEF ShipperInv, BarriersOnce, SignalledIsDone, DoneIsSettled, DeliveredIsStored,
                Settled, counters
  <1> QED
    BY <1>3, <1>4 DEF ShipperInv

\* The request is through: everything in it has been counted.
LEMMA SettleShips ==
  ASSUME ShipperInv, Sending, Settle,
         UNCHANGED <<queue, accepted, producers, pending, dropped>>,
         delivered' \subseteq Items, rejected' \subseteq Items, exhausted' \subseteq Items,
         stored' \subseteq Items,
         Settled \union Batch \subseteq Settled',
         DeliveredIsStored'
  PROVE  ShipperInv'
  <1>0. /\ TypeOK /\ worker \in WorkerType /\ worker.pc = "send" /\ pending = <<>>
        /\ worker.last => worker.next = <<>>
        /\ UNCHANGED <<step, flush, stop>>
        /\ done \in Seq(Entries) /\ worker.batch \in Seq(Entries)
        /\ worker.next \in Seq(Entries) /\ Len(worker.next) <= 1 /\ queue \in Seq(Entries)
    BY Parts DEF ShipperInv, TypeOK, producers, Sending, HandsHold
  <1>1. <<>> \in Seq(Items) /\ <<>> \in Seq(Entries) /\ Len(<<>>) = 0 /\ 0 \in 0 .. MaxRetries
    BY EmptySeq, ConstantsAssumption
  <1>2. /\ worker' \in WorkerType /\ worker'.batch = <<>> /\ worker'.next = worker.next
        /\ worker'.pc \in {"stopped", "take", "dispatch"}
        /\ worker'.pc = "dispatch" => worker.next # <<>>
        /\ worker'.pc # "dispatch" => worker.next = <<>>
        /\ ~worker'.last
    <2> DEFINE pc == IF worker.last THEN "stopped"
                     ELSE IF worker.next = <<>> THEN "take" ELSE "dispatch"
    <2>1. pc \in {"stopped", "take", "dispatch"}
          /\ (pc = "dispatch" => worker.next # <<>>) /\ (pc # "dispatch" => worker.next = <<>>)
      BY <1>0
    <2>2. worker' = [Idle EXCEPT !.pc = pc, !.next = worker.next]
      BY DEF Settle
    <2> HIDE DEF pc
    <2>3. worker' = [pc |-> pc, batch |-> <<>>, next |-> worker.next, attempt |-> 0, last |-> FALSE]
      BY <2>2 DEF Idle
    <2> QED
      BY <1>0, <1>1, <2>1, <2>3 DEF WorkerType
  <1>3. /\ done' = done \o worker.batch /\ done' \in Seq(Entries)
        /\ ToSet(done)' = ToSet(done) \union Batch
    <2>1. done' = done \o worker.batch /\ done' \in Seq(Entries)
      BY <1>0, ConcatProperties DEF Settle
    <2>2. ToSet(done \o worker.batch) = ToSet(done) \union ToSet(worker.batch)
      BY <1>0, ToSetConcat
    <2>3. ToSet(done)' = ToSet(done')
      BY DEF ToSet
    <2> QED
      BY <2>1, <2>2, <2>3 DEF Batch
  <1>4. TypeOK'
    BY <1>0, <1>1, <1>2, <1>3, ConstantsAssumption DEF TypeOK
  <1>5. HandsHold'
    BY <1>0, <1>2 DEF HandsHold
  <1>6. WorksThroughInOrder'
    <2>1. done' \o <<>> = done'
      BY <1>3, ConcatEmptySeq
    <2> QED
      BY <1>2, <1>3, <2>1 DEF ShipperInv, WorksThroughInOrder
  <1>7. BarriersOnce' /\ SignalledIsDone' /\ DoneIsSettled'
    BY <1>0, <1>3 DEF ShipperInv, BarriersOnce, SignalledIsDone, DoneIsSettled
  <1> QED
    BY <1>4, <1>5, <1>6, <1>7 DEF ShipperInv

LEMMA AcceptedShips ==
  ASSUME ShipperInv, Accepted
  PROVE  ShipperInv'
  <1> USE DEF Accepted
  <1>1. TypeOK /\ Batch \subseteq Items
    BY Parts DEF ShipperInv
  <1>2. delivered' \subseteq Items /\ rejected' \subseteq Items /\ exhausted' \subseteq Items
        /\ stored' \subseteq Items
    BY <1>1 DEF TypeOK, Wanted
  <1>3. Settled \union Batch \subseteq Settled'
    BY DEF Settled
  <1>4. DeliveredIsStored'
    BY DEF ShipperInv, DeliveredIsStored, Wanted
  <1> QED
    BY <1>2, <1>3, <1>4, SettleShips

\* RetryOrGiveUp, with what the backend may have stored.
LEMMA RetryOrGiveUpShips ==
  ASSUME ShipperInv, Sending, RetryOrGiveUp, stored \subseteq stored', stored' \subseteq Items,
         UNCHANGED <<queue, accepted, producers, pending, delivered, rejected, dropped>>
  PROVE  ShipperInv'
  <1>1. TypeOK /\ Batch \subseteq Items
    BY Parts DEF ShipperInv
  <1>2. CASE worker.attempt < MaxRetries
    BY <1>2, RetryShips DEF RetryOrGiveUp, counters
  <1>3. CASE ~(worker.attempt < MaxRetries)
    <2>1. Settle /\ exhausted' = exhausted \union Batch
      BY <1>3 DEF RetryOrGiveUp
    <2>2. delivered' \subseteq Items /\ rejected' \subseteq Items /\ exhausted' \subseteq Items
      BY <1>1, <2>1 DEF TypeOK
    <2>3. Settled \union Batch \subseteq Settled'
      BY <2>1 DEF Settled
    <2>4. DeliveredIsStored'
      BY DEF ShipperInv, DeliveredIsStored
    <2> QED
      BY <2>1, <2>2, <2>3, <2>4, SettleShips
  <1> QED
    BY <1>2, <1>3

LEMMA AnswerLostShips ==
  ASSUME ShipperInv, AnswerLost
  PROVE  ShipperInv'
  <1>1. TypeOK /\ Batch \subseteq Items
    BY Parts DEF ShipperInv
  <1>2. stored \subseteq stored' /\ stored' \subseteq Items
    BY <1>1 DEF AnswerLost, TypeOK, Wanted
  <1> QED
    BY <1>2, RetryOrGiveUpShips DEF AnswerLost

LEMMA TransientShips ==
  ASSUME ShipperInv, Transient
  PROVE  ShipperInv'
  <1>1. stored' = stored /\ stored' \subseteq Items
    BY DEF Transient, ShipperInv, TypeOK
  <1> QED
    BY <1>1, RetryOrGiveUpShips DEF Transient

LEMMA RefusedShips ==
  ASSUME ShipperInv, Refused
  PROVE  ShipperInv'
  <1> USE DEF Refused
  <1>1. TypeOK /\ Batch \subseteq Items
    BY Parts DEF ShipperInv
  <1>2. delivered' \subseteq Items /\ rejected' \subseteq Items /\ exhausted' \subseteq Items
        /\ stored' \subseteq Items
    BY <1>1 DEF TypeOK
  <1>3. Settled \union Batch \subseteq Settled'
    BY DEF Settled
  <1>4. DeliveredIsStored'
    BY DEF ShipperInv, DeliveredIsStored
  <1> QED
    BY <1>2, <1>3, <1>4, SettleShips

-----------------------------------------------------------------------------
(* The theorems.                                                           *)

LEMMA NextShips == ShipperInv /\ [Next]_vars => ShipperInv'
  <1> SUFFICES ASSUME ShipperInv, [Next]_vars PROVE ShipperInv'
    OBVIOUS
  <1>1. CASE Next
    <2>1. CASE \E x \in Executions : Submit(x)
      BY <2>1, SubmitShips
    <2>2. CASE \E f \in Flushes : Flush(f) \/ FlushTimesOut(f)
      BY <2>2, FlushShips, FlushTimesOutShips
    <2>3. CASE Shutdown
      BY <2>3, ShutdownShips
    <2>4. CASE Worker
      BY <2>4, TakeEventShips, TakeOtherShips, DispatchShips, FlushIntervalShips,
         LeaveLoopShips, DieShips, AcceptedShips, AnswerLostShips, TransientShips, RefusedShips
         DEF Worker
    <2> QED
      BY <1>1, <2>1, <2>2, <2>3, <2>4 DEF Next
  <1>2. CASE UNCHANGED vars
    <2>1. TypeOK' /\ HandsHold' /\ WorksThroughInOrder'
      BY <1>2 DEF vars, producers, counters, ShipperInv, TypeOK, HandsHold, WorksThroughInOrder
    <2> QED
      BY <1>2, <2>1, SameHistories DEF vars, producers, ShipperInv
  <1> QED
    BY <1>1, <1>2

\* The inductive invariant: what the queue, the worker's hands and the counters
\* of _shipper.py say together after any interleaving of the application's
\* threads with the worker.
THEOREM ShipperInvariant == Spec => []ShipperInv
  <1>1. ShipperInv /\ [Next]_vars => ShipperInv'
    BY NextShips
  <1> QED
    BY <1>1, InitShipper, PTL DEF Spec

\* Every variable of the shipper keeps its type: the queue never exceeds
\* max_queue, a request never batch_size events.
THEOREM ShipperTypes == Spec => []TypeOK
  <1>1. ShipperInv => TypeOK
    BY DEF ShipperInv
  <1> QED
    BY <1>1, ShipperInvariant, PTL

\* The worker finishes with what was put on the queue in that order, once each,
\* and holds all the rest, for any number of threads that submit and any sizes
\* of the queue and of the batch.
THEOREM ShipperWorksInOrder == Spec => []WorksThroughInOrder
  <1>1. ShipperInv => WorksThroughInOrder
    BY DEF ShipperInv
  <1> QED
    BY <1>1, ShipperInvariant, PTL

\* What the worker is through with comes first among what was accepted.
DoneFits == Delivery!Continues(accepted, done)

LEMMA DoneComesFirst == ShipperInv => DoneFits
  <1> SUFFICES ASSUME ShipperInv PROVE DoneFits
    OBVIOUS
  <1>1. done \in Seq(Entries) /\ accepted \in Seq(Entries)
    BY DEF ShipperInv, TypeOK
  <1>2. ASSUME NEW i \in DOMAIN done
        PROVE  i \in DOMAIN accepted /\ accepted[i] = done[i]
    <2>1. /\ worker.batch \in Seq(Entries) /\ worker.next \in Seq(Entries)
          /\ pending \in Seq(Entries) /\ queue \in Seq(Entries)
      BY Parts DEF ShipperInv
    <2>2. accepted = done \o worker.batch \o worker.next \o pending \o queue
      BY DEF ShipperInv, WorksThroughInOrder
    <2>3. PICK s2 : s2 = done \o worker.batch
      OBVIOUS
    <2>4. s2 \in Seq(Entries) /\ i \in DOMAIN s2 /\ s2[i] = done[i]
      BY <1>1, <2>1, <2>3, PrefixAgrees, ConcatProperties
    <2>5. PICK s3 : s3 = s2 \o worker.next
      OBVIOUS
    <2>6. s3 \in Seq(Entries) /\ i \in DOMAIN s3 /\ s3[i] = done[i]
      BY <2>1, <2>4, <2>5, PrefixAgrees, ConcatProperties
    <2>7. PICK s4 : s4 = s3 \o pending
      OBVIOUS
    <2>8. s4 \in Seq(Entries) /\ i \in DOMAIN s4 /\ s4[i] = done[i]
      BY <2>1, <2>6, <2>7, PrefixAgrees, ConcatProperties
    <2>9. i \in DOMAIN (s4 \o queue) /\ (s4 \o queue)[i] = done[i]
      BY <2>1, <2>8, PrefixAgrees
    <2> QED
      BY <2>2, <2>3, <2>5, <2>7, <2>9
  <1>3. /\ DOMAIN done = 1 .. Len(done) /\ Len(done) \in Nat
        /\ DOMAIN accepted = 1 .. Len(accepted) /\ Len(accepted) \in Nat
    BY <1>1, LenProperties
  <1>4. Len(done) <= Len(accepted)
    <2>1. CASE Len(done) = 0
      BY <1>3, <2>1
    <2>2. CASE Len(done) # 0
      <3>1. Len(done) \in DOMAIN done
        BY <1>3, <2>2
      <3> QED
        BY <1>2, <1>3, <3>1
    <2> QED
      BY <2>1, <2>2
  <1> QED
    BY <1>2, <1>4 DEF DoneFits, Delivery!Continues

\* A flush that was answered finds everything ahead of it done, and what is done
\* has been counted.
LEMMA FlushFollows == ShipperInv => FlushThenStats
  <1> SUFFICES ASSUME ShipperInv, NEW f \in Flushes, flush[f] = "true"
               PROVE  Ahead(f) \ Flushes \subseteq Settled
                      /\ (Complete => Ahead(f) \ Flushes \subseteq stored \union OverCap)
    BY DEF FlushThenStats
  <1>1. Ahead(f) \subseteq ToSet(done)
    <2>1. PICK k \in DOMAIN done : done[k] = f
      BY DEF ShipperInv, SignalledIsDone, ToSet
    <2>2. done \in Seq(Entries)
      BY DEF ShipperInv, TypeOK
    <2>3. \A i \in DOMAIN done : i \in DOMAIN accepted /\ accepted[i] = done[i]
      <3>1. Len(done) <= Len(accepted) /\ \A i \in DOMAIN done : accepted[i] = done[i]
        BY DoneComesFirst DEF DoneFits, Delivery!Continues
      <3>2. /\ DOMAIN done = 1 .. Len(done) /\ Len(done) \in Nat
            /\ DOMAIN accepted = 1 .. Len(accepted) /\ Len(accepted) \in Nat
        BY LenProperties DEF ShipperInv, TypeOK
      <3> QED
        BY <3>1, <3>2
    <2>4. k \in DOMAIN accepted /\ accepted[k] = f
      BY <2>1, <2>3
    <2>5. ASSUME NEW n \in DOMAIN accepted, NEW j \in DOMAIN accepted,
                 accepted[j] = f, n < j
          PROVE  accepted[n] \in ToSet(done)
      <3>1. j = k
        BY <2>4, <2>5 DEF ShipperInv, BarriersOnce
      <3>2. /\ DOMAIN done = 1 .. Len(done) /\ Len(done) \in Nat
            /\ DOMAIN accepted = 1 .. Len(accepted)
        BY <2>2, LenProperties DEF ShipperInv, TypeOK
      <3>3. n \in DOMAIN done
        BY <2>1, <2>5, <3>1, <3>2
      <3> QED
        BY <2>3, <3>3 DEF ToSet
    <2> QED
      BY <2>5 DEF Ahead
  <1>2. Ahead(f) \ Flushes \subseteq Settled
    BY <1>1 DEF ShipperInv, DoneIsSettled
  <1>3. Complete => Settled = delivered
    BY DEF Complete, Settled
  <1> QED
    BY <1>2, <1>3 DEF ShipperInv, DeliveredIsStored

\* When flush() returns True and stats() then says complete, whatever was
\* submitted before the flush is at the backend, apart from events over its cap;
\* whoever else submits and whenever shutdown() is called.
THEOREM ShipperFlushThenStats == Spec => []FlushThenStats
  BY FlushFollows, ShipperInvariant, PTL

\* What a step may do to the two histories.
LEMMA HistoriesGrow ==
  ASSUME ShipperInv, [Next]_vars
  PROVE  \/ done' = done /\ \E e \in Entries : accepted' = Append(accepted, e)
         \/ accepted' = accepted /\ \E s \in Seq(Entries) : done' = done \o s
  <1> DEFINE Taking   == done' = done /\ \E e \in Entries : accepted' = Append(accepted, e)
             Settling == accepted' = accepted /\ \E s \in Seq(Entries) : done' = done \o s
  <1>0. done \in Seq(Entries) /\ TypeOK
    BY DEF ShipperInv, TypeOK
  <1>1. UNCHANGED <<accepted, done>> => Settling
    BY <1>0, EmptySeq, ConcatEmptySeq
  <1>2. ASSUME NEW e \in Entries, accepted' = accepted, done' = Append(done, e)
        PROVE  Settling
    BY <1>0, <1>2, AppendIsConcat, Singleton
  <1>3. ASSUME accepted' = accepted, done' = done \o worker.batch
        PROVE  Settling
    BY <1>3, Parts DEF ShipperInv
  <1> HIDE DEF Settling
  <1>4. ASSUME UNCHANGED vars
        PROVE  Settling
    BY <1>1, <1>4 DEF vars
  <1>5. ASSUME NEW x \in Executions, Submit(x)
        PROVE  Taking \/ Settling
    <2>1. <<x, step[x]>> \in Entries
      BY <1>0, <1>5, ConstantsAssumption DEF Submit, TypeOK, Items, Entries
    <2> QED
      BY <1>1, <1>5, <2>1 DEF Submit, Put
  <1>6. ASSUME NEW f \in Flushes, Flush(f) \/ FlushTimesOut(f)
        PROVE  Taking \/ Settling
    BY <1>1, <1>6 DEF Flush, FlushTimesOut, Put, Entries
  <1>7. ASSUME Shutdown
        PROVE  Settling
    BY <1>1, <1>7 DEF Shutdown
  <1>8. ASSUME Worker
        PROVE  Settling
    <2>1. CASE TakeEvent \/ TakeOther \/ FlushInterval \/ LeaveLoop \/ Die
      BY <1>1, <2>1 DEF TakeEvent, TakeOther, FlushInterval, LeaveLoop, Die
    <2>2. CASE Dispatch
      <3>1. worker.next[1] \in Flushes => worker.next[1] \in Entries
        BY DEF Entries
      <3> QED
        BY <1>1, <1>2, <2>2, <3>1 DEF Dispatch
    <2>3. CASE Accepted \/ AnswerLost \/ Transient \/ Refused
      BY <1>1, <1>3, <2>3 DEF Accepted, AnswerLost, Transient, Refused, RetryOrGiveUp, Settle
    <2> QED
      BY <1>8, <2>1, <2>2, <2>3 DEF Worker
  <1> QED
    BY <1>4, <1>5, <1>6, <1>7, <1>8 DEF Settling, Next

\* The shipper implements the delivery, as one that is never closed: what it accepts it
\* settles in that order, nothing twice and nothing passed over, and for good; also
\* after shutdown().
THEOREM ShipperImplementsDelivery == Spec => ImplementsDelivery
  <1>1. Init => Delivery!Init
    BY DEF Init, Delivery!Init
  <1>2. ASSUME ShipperInv, [Next]_vars
        PROVE  [Delivery!Next]_<<accepted, done, TRUE>>
    <2>0. /\ ShipperInv' /\ accepted \in Seq(Entries) /\ done \in Seq(Entries)
          /\ accepted' \in Seq(Entries) /\ done' \in Seq(Entries)
      BY <1>2, NextShips DEF ShipperInv, TypeOK
    <2>1. DoneFits'
      BY <2>0, DoneComesFirst, PTL
    <2>2. CASE done' = done /\ \E e \in Entries : accepted' = Append(accepted, e)
      <3>1. PICK e \in Entries : accepted' = Append(accepted, e)
        BY <2>2
      <3>2. Len(accepted') = Len(accepted) + 1 /\ Delivery!Continues(accepted', accepted)
        BY <2>0, <3>1, AppendProperties, LenProperties DEF Delivery!Continues
      <3> QED
        BY <2>2, <3>2 DEF Delivery!Next, Delivery!Accept
    <2>3. CASE accepted' = accepted /\ \E s \in Seq(Entries) : done' = done \o s
      <3>1. Delivery!Continues(done', done)
        BY <2>0, <2>3, LenProperties, ConcatProperties, PrefixAgrees DEF Delivery!Continues
      <3>2. Delivery!Continues(accepted, done')
        BY <2>1, <2>3 DEF DoneFits, Delivery!Continues
      <3>3. Delivery!IsPartOf(done', accepted)
        BY <2>0, <3>2, LenProperties DEF Delivery!Continues, Delivery!IsPartOf
      <3> QED
        BY <2>3, <3>1, <3>2, <3>3 DEF Delivery!Next, Delivery!Settle
    <2> QED
      BY <1>2, <2>2, <2>3, HistoriesGrow
  <1> QED
    BY <1>1, <1>2, ShipperInvariant, PTL DEF Spec, ImplementsDelivery, Delivery!Spec

-----------------------------------------------------------------------------
(* The row of an execution, whose requests come one at a time.             *)

\* A new execution satisfies the invariant.
LEMMA InitSerial == LifecycleInit => SerialInv
  <1> SUFFICES ASSUME LifecycleInit PROVE SerialInv
    OBVIOUS
  <1>1. LifecycleTypeOK
    BY LifecycleConstants DEF LifecycleInit, LifecycleTypeOK, Free, Pcs, NULL, Status
  <1>2. WaitingIsPaused /\ pausedAt <= clock /\ PausedTimeFitsTheRun
    BY DEF LifecycleInit, WaitingIsPaused, PausedTimeFitsTheRun, CurrentPause, NULL
  <1>3. OneAtATime /\ \A r \in Requests : StillTrue(r)
    BY DEF LifecycleInit, OneAtATime, StillTrue, At, Free
  <1> QED
    BY <1>1, <1>2, <1>3 DEF SerialInv

\* When a request is being handled, no other one is.
LEMMA OnlyOneBusy ==
  ASSUME SerialInv, NEW r \in Requests, ~At(r, "free"),
         NEW q \in Requests, q # r
  PROVE  At(q, "free")
  BY DEF SerialInv, OneAtATime

\* A slot that holds no request constrains nothing but its own clock reading.
LEMMA FreeIsTrue ==
  ASSUME NEW r \in Requests, At(r, "free"), request[r].now <= clock
  PROVE  StillTrue(r)
  BY DEF StillTrue, At

LEMMA TickSerial == SerialInv /\ ClockTick => SerialInv'
  <1> SUFFICES ASSUME SerialInv, ClockTick PROVE SerialInv'
    OBVIOUS
  <1> USE DEF SerialInv, ClockTick, row
  <1>1. LifecycleTypeOK'
    BY DEF LifecycleTypeOK
  <1>2. WaitingIsPaused' /\ OneAtATime'
    BY DEF WaitingIsPaused, OneAtATime, At
  <1>3. (pausedAt <= clock)' /\ PausedTimeFitsTheRun'
    BY DEF LifecycleTypeOK, PausedTimeFitsTheRun, CurrentPause, NULL
  <1>4. ASSUME NEW r \in Requests PROVE StillTrue(r)'
    <2>1. StillTrue(r) /\ request[r].now \in Nat
      BY DEF LifecycleTypeOK
    <2> QED
      BY <2>1 DEF StillTrue, At, LifecycleTypeOK
  <1> QED
    BY <1>1, <1>2, <1>3, <1>4

\* Reading the row: the reading agrees with the row it was taken from.
LEMMA GetSerial ==
  ASSUME ~Overlap, SerialInv, NEW r \in Requests, NEW next \in Status,
         GetExecution(r, next)
  PROVE  SerialInv'
  <1> USE DEF SerialInv, GetExecution, row
  <1>2. Branch(status, next) \in Pcs
    BY DEF Branch, Pcs
  <1>3. LifecycleTypeOK'
    BY <1>2 DEF LifecycleTypeOK
  <1>4. \A q \in Requests : q # r => request'[q] = request[q] /\ At(q, "free")
    BY DEF LifecycleTypeOK
  <1>5. OneAtATime'
    BY <1>4 DEF OneAtATime, At
  <1>6. WaitingIsPaused' /\ (pausedAt <= clock)' /\ PausedTimeFitsTheRun'
    BY DEF WaitingIsPaused, PausedTimeFitsTheRun, CurrentPause
  <1>7. StillTrue(r)'
    <2>1. request'[r] = [pc |-> Branch(status, next), next |-> next,
                         now |-> clock, delta |-> 0]
      BY DEF LifecycleTypeOK
    <2>2. totalPaused <= clock
      BY DEF LifecycleTypeOK, PausedTimeFitsTheRun, CurrentPause, NULL
    <2>3. pausedAt # NULL => totalPaused + (clock - pausedAt) <= clock
      BY DEF PausedTimeFitsTheRun, CurrentPause
    <2>4. isValidLifecycleTransition(status, next)
      OBVIOUS
    <2> QED
      BY <2>1, <2>2, <2>3, <2>4, LifecycleConstants
      DEF StillTrue, At, Branch, isValidLifecycleTransition, LifecycleTypeOK
  <1>8. ASSUME NEW q \in Requests, q # r PROVE StillTrue(q)'
    BY <1>4, <1>8 DEF StillTrue, At
  <1> QED
    BY <1>3, <1>5, <1>6, <1>7, <1>8

\* After a handler's statement, the other slots are as free as before.
LEMMA OthersSerial ==
  ASSUME SerialInv, NEW r \in Requests, ~At(r, "free"), UNCHANGED clock,
         NEW h, request' = [request EXCEPT ![r] = h], LifecycleTypeOK'
  PROVE  OneAtATime' /\ \A q \in Requests : q # r => StillTrue(q)'
  <1>1. \A q \in Requests : q # r => request'[q] = request[q] /\ At(q, "free")
    BY OnlyOneBusy DEF SerialInv, LifecycleTypeOK
  <1>2. OneAtATime'
    BY <1>1 DEF OneAtATime, At
  <1>3. \A q \in Requests : q # r => StillTrue(q)'
    BY <1>1 DEF StillTrue, At, SerialInv
  <1> QED
    BY <1>2, <1>3

LEMMA AnswerIsTrue ==
  ASSUME SerialInv, NEW r \in Requests, Answer(r), UNCHANGED clock
  PROVE  /\ StillTrue(r)'
         /\ Free \in [pc : Pcs, next : Status, now : Nat, delta : Nat]
  <1>1. request'[r] = Free
    BY DEF Answer, SerialInv, LifecycleTypeOK
  <1> QED
    BY <1>1 DEF StillTrue, At, Free, Pcs, Status, SerialInv, LifecycleTypeOK

LEMMA PauseSerial ==
  ASSUME SerialInv, NEW r \in Requests, PauseExecution(r)
  PROVE  SerialInv'
  <1> USE DEF SerialInv, PauseExecution
  <1>1. ~At(r, "free") /\ status = "started" /\ totalPaused <= request[r].now
        /\ request[r].now <= clock /\ request[r].now \in Nat
    BY DEF At, StillTrue, LifecycleTypeOK
  <1>2. /\ status' = "awaiting_human" /\ pausedAt' = request[r].now
        /\ pauseCount' = pauseCount + 1
    BY <1>1
  <1>a. Answer(r) /\ UNCHANGED <<clock, totalPaused, endedAt>>
    OBVIOUS
  <1>b. Free \in [pc : Pcs, next : Status, now : Nat, delta : Nat] /\ StillTrue(r)'
    BY <1>a, AnswerIsTrue
  <1>3. LifecycleTypeOK'
    BY <1>1, <1>2, <1>a, <1>b DEF LifecycleTypeOK, Answer, Status
  <1>4. WaitingIsPaused' /\ (pausedAt <= clock)'
    BY <1>1, <1>2, <1>a DEF WaitingIsPaused, NULL
  <1>5. PausedTimeFitsTheRun'
    BY <1>1, <1>2, <1>a DEF PausedTimeFitsTheRun, CurrentPause, NULL, LifecycleTypeOK
  <1> QED
    BY <1>1, <1>3, <1>4, <1>5, <1>a, <1>b, OthersSerial DEF Answer

LEMMA ProbeSerial ==
  ASSUME SerialInv, NEW r \in Requests, ProbePause(r)
  PROVE  SerialInv'
  <1> USE DEF SerialInv, row
  <1>1. /\ ~At(r, "free")
        /\ At(r, "resume") \/ At(r, "flush")
        /\ status = "awaiting_human"
        /\ request[r].now <= clock /\ pausedAt <= request[r].now
        /\ pausedAt # NULL => totalPaused + (request[r].now - pausedAt) <= request[r].now
        /\ At(r, "flush") => request[r].next \in Terminal
        /\ UNCHANGED <<clock, row>>
    BY DEF ProbePause, At, StillTrue
  <1>2. WaitingIsPaused' /\ (pausedAt <= clock)' /\ PausedTimeFitsTheRun'
    BY <1>1 DEF WaitingIsPaused, PausedTimeFitsTheRun, CurrentPause
  <1>3. CASE PauseIsOpen
    <2> DEFINE h == [pc    |-> IF At(r, "resume") THEN "unpause" ELSE "flushWrite",
                     next  |-> request[r].next,
                     now   |-> request[r].now,
                     delta |-> IF request[r].now > pausedAt
                               THEN request[r].now - pausedAt ELSE 0]
    <2>1. request' = [request EXCEPT ![r] = h]
      BY <1>1, <1>3 DEF ProbePause, LifecycleTypeOK, At
    <2>2. /\ request[r] \in [pc : Pcs, next : Status, now : Nat, delta : Nat]
          /\ pausedAt \in Nat
      BY <1>3 DEF LifecycleTypeOK, PauseIsOpen
    <2>3. h \in [pc : Pcs, next : Status, now : Nat, delta : Nat]
      BY <2>2 DEF Pcs
    <2>4. LifecycleTypeOK'
      BY <1>1, <2>1, <2>3 DEF LifecycleTypeOK
    <2>5. StillTrue(r)'
      <3>1. request'[r] = h
        BY <2>1, <2>2 DEF LifecycleTypeOK
      <3>2. h.delta <= request[r].now - pausedAt
        BY <1>1, <2>2 DEF StillTrue
      <3>3. h.pc \in {"unpause", "flushWrite"} /\ (h.pc = "flushWrite" => h.next \in Terminal)
        BY <1>1
      <3> QED
        BY <1>1, <1>3, <3>1, <3>2, <3>3 DEF StillTrue, At, PauseIsOpen
    <2> QED
      BY <1>1, <1>2, <2>1, <2>4, <2>5, OthersSerial
  <1>4. CASE ~PauseIsOpen
    <2>1. Answer(r)
      BY <1>1, <1>4 DEF ProbePause
    <2>2. Free \in [pc : Pcs, next : Status, now : Nat, delta : Nat] /\ StillTrue(r)'
      BY <1>1, <2>1, AnswerIsTrue
    <2>3. LifecycleTypeOK'
      BY <1>1, <2>1, <2>2 DEF LifecycleTypeOK, Answer
    <2> QED
      BY <1>1, <1>2, <2>1, <2>2, <2>3, OthersSerial DEF Answer
  <1> QED
    BY <1>3, <1>4

LEMMA ResumeSerial ==
  ASSUME SerialInv, NEW r \in Requests, ResumeExecution(r)
  PROVE  SerialInv'
  <1> USE DEF SerialInv
  <1>1. /\ ~At(r, "free")
        /\ At(r, "unpause") \/ At(r, "flushWrite")
        /\ status = "awaiting_human"
        /\ request[r].now <= clock /\ pausedAt <= request[r].now
        /\ totalPaused + (request[r].now - pausedAt) <= request[r].now
        /\ request[r].delta <= request[r].now - pausedAt
        /\ At(r, "flushWrite") => request[r].next \in Terminal
    BY DEF ResumeExecution, At, StillTrue
  <1>2. /\ status' = "started" /\ pausedAt' = NULL
        /\ totalPaused' = totalPaused + request[r].delta
        /\ UNCHANGED <<clock, pauseCount, endedAt>>
    BY <1>1 DEF ResumeExecution
  <1>3. pausedAt \in Nat
    BY <1>1 DEF LifecycleTypeOK, WaitingIsPaused
  <1>4. request[r] \in [pc : Pcs, next : Status, now : Nat, delta : Nat]
    BY DEF LifecycleTypeOK
  <1>5. totalPaused' \in Nat /\ totalPaused' <= clock'
    BY <1>1, <1>2, <1>3, <1>4 DEF LifecycleTypeOK
  <1>6. WaitingIsPaused' /\ (pausedAt <= clock)' /\ PausedTimeFitsTheRun'
    BY <1>2, <1>5 DEF WaitingIsPaused, PausedTimeFitsTheRun, CurrentPause, NULL, LifecycleTypeOK
  <1>7. CASE At(r, "unpause")
    <2>1. Answer(r)
      BY <1>1, <1>7 DEF ResumeExecution
    <2>2. Free \in [pc : Pcs, next : Status, now : Nat, delta : Nat] /\ StillTrue(r)'
      BY <2>1, <1>2, AnswerIsTrue
    <2>3. LifecycleTypeOK'
      BY <1>2, <1>5, <2>1, <2>2 DEF LifecycleTypeOK, Answer, Status
    <2> QED
      BY <1>1, <1>2, <1>6, <2>1, <2>2, <2>3, OthersSerial DEF Answer
  <1>8. CASE At(r, "flushWrite")
    <2> DEFINE h == [pc |-> "update", next |-> request[r].next,
                     now |-> request[r].now, delta |-> request[r].delta]
    <2>1. request' = [request EXCEPT ![r] = h]
      BY <1>1, <1>4, <1>8 DEF ResumeExecution, Goto, At, LifecycleTypeOK
    <2>2. LifecycleTypeOK'
      BY <1>2, <1>4, <1>5, <2>1 DEF LifecycleTypeOK, Status, Pcs
    <2>3. StillTrue(r)'
      <3>1. request'[r] = h
        BY <2>1 DEF LifecycleTypeOK
      <3> QED
        BY <3>1, <1>1, <1>2, <1>8 DEF StillTrue, At
    <2> QED
      BY <1>1, <1>2, <1>6, <2>1, <2>2, <2>3, OthersSerial
  <1> QED
    BY <1>1, <1>7, <1>8

LEMMA UpdateSerial ==
  ASSUME SerialInv, NEW r \in Requests, UpdateExecution(r)
  PROVE  SerialInv'
  <1> USE DEF SerialInv
  <1>1. /\ ~At(r, "free") /\ Answer(r)
        /\ request[r].next = status
             \/ (status = "started" /\ request[r].next \in Terminal)
        /\ status' = request[r].next /\ endedAt' = request[r].now
        /\ UNCHANGED <<clock, pausedAt, totalPaused, pauseCount>>
    BY DEF UpdateExecution, At, StillTrue
  <1>2. request[r] \in [pc : Pcs, next : Status, now : Nat, delta : Nat]
    BY DEF LifecycleTypeOK
  <1>3. Free \in [pc : Pcs, next : Status, now : Nat, delta : Nat] /\ StillTrue(r)'
    BY <1>1, AnswerIsTrue
  <1>4. LifecycleTypeOK'
    BY <1>1, <1>2, <1>3 DEF LifecycleTypeOK, Answer
  <1>5. WaitingIsPaused'
    BY <1>1, LifecycleConstants DEF WaitingIsPaused
  <1>6. (pausedAt <= clock)' /\ PausedTimeFitsTheRun'
    BY <1>1 DEF PausedTimeFitsTheRun, CurrentPause
  <1> QED
    BY <1>1, <1>3, <1>4, <1>5, <1>6, OthersSerial DEF Answer

LEMMA AbortSerial ==
  ASSUME SerialInv, NEW r \in Requests, Abort(r)
  PROVE  SerialInv'
  <1> USE DEF SerialInv, row
  <1>1. ~At(r, "free") /\ Answer(r) /\ UNCHANGED <<clock, row>>
    BY DEF Abort
  <1>2. Free \in [pc : Pcs, next : Status, now : Nat, delta : Nat] /\ StillTrue(r)'
    BY <1>1, AnswerIsTrue
  <1>3. LifecycleTypeOK'
    BY <1>1, <1>2 DEF LifecycleTypeOK, Answer
  <1>4. WaitingIsPaused' /\ (pausedAt <= clock)' /\ PausedTimeFitsTheRun'
    BY <1>1 DEF WaitingIsPaused, PausedTimeFitsTheRun, CurrentPause
  <1> QED
    BY <1>1, <1>2, <1>3, <1>4, OthersSerial DEF Answer

\* Every step of serial requests preserves the invariant.
LEMMA NextSerial ==
  ASSUME ~Overlap, SerialInv, [LifecycleNext]_lifecycleVars
  PROVE  SerialInv'
  <1>1. CASE ClockTick
    BY <1>1, TickSerial
  <1>2. ASSUME NEW r \in Requests, Handler(r)
        PROVE  SerialInv'
    <2>1. ASSUME NEW next \in Status, GetExecution(r, next)
          PROVE  SerialInv'
      BY <2>1, GetSerial
    <2> QED
      BY <1>2, <2>1, PauseSerial, ProbeSerial, ResumeSerial, UpdateSerial, AbortSerial
      DEF Handler
  <1>3. CASE UNCHANGED lifecycleVars
    BY <1>3 DEF lifecycleVars, row, SerialInv, LifecycleTypeOK, OneAtATime, WaitingIsPaused,
                PausedTimeFitsTheRun, CurrentPause, StillTrue, At
  <1> QED
    BY <1>1, <1>2, <1>3 DEF LifecycleNext

\* When requests do not overlap, a handler's reading is still what the row says
\* when its statement runs (handlers_update_execution.go).
THEOREM SerialInvariant ==
  ASSUME ~Overlap
  PROVE  LifecycleSpec => []SerialInv
  <1>1. SerialInv /\ [LifecycleNext]_lifecycleVars => SerialInv'
    BY NextSerial
  <1> QED
    BY <1>1, InitSerial, PTL DEF LifecycleSpec

\* Every variable keeps its type.
THEOREM LifecycleTypes ==
  ASSUME ~Overlap
  PROVE  LifecycleSpec => []LifecycleTypeOK
  <1>1. SerialInv => LifecycleTypeOK
    BY DEF SerialInv
  <1> QED
    BY <1>1, SerialInvariant, PTL

\* An execution that was paused has, for as long as it waits, the paused_at it
\* needs to be resumed or ended, and none afterwards, whatever status it was
\* created with (CreateExecution, PauseExecution, ResumeExecution).
THEOREM WaitingAlwaysPaused ==
  ASSUME ~Overlap
  PROVE  LifecycleSpec => []WaitingIsPaused
  <1>1. SerialInv => WaitingIsPaused
    BY DEF SerialInv
  <1> QED
    BY <1>1, SerialInvariant, PTL

\* The pauses subtracted from the duration the detectors are given are disjoint
\* parts of the time since the row was created (total_paused_ms).
THEOREM PausesAlwaysFit ==
  ASSUME ~Overlap
  PROVE  LifecycleSpec => []PausedTimeFitsTheRun
  <1>1. SerialInv => PausedTimeFitsTheRun
    BY DEF SerialInv
  <1> QED
    BY <1>1, SerialInvariant, PTL

\* The row leaves no terminal status (isValidLifecycleTransition).
THEOREM TerminalStatusIsFinal ==
  ASSUME ~Overlap
  PROVE  LifecycleSpec => TerminalIsFinal
  <1>1. ASSUME SerialInv, [LifecycleNext]_lifecycleVars, status \in Terminal
        PROVE  status' = status
    <2> USE LifecycleConstants DEF row
    <2>0. status # "started" /\ status # "awaiting_human"
      BY <1>1
    <2>1. ASSUME NEW r \in Requests, Handler(r)
          PROVE  status' = status
      <3>0. StillTrue(r)
        BY <1>1 DEF SerialInv
      <3>1. CASE \E next \in Status : GetExecution(r, next)
        BY <3>1 DEF GetExecution
      <3>2. CASE PauseExecution(r)
        BY <3>2, <2>0 DEF PauseExecution
      <3>3. CASE ProbePause(r)
        BY <3>3 DEF ProbePause
      <3>4. CASE ResumeExecution(r)
        BY <3>4, <2>0 DEF ResumeExecution
      <3>5. CASE UpdateExecution(r)
        BY <3>5, <3>0, <2>0 DEF UpdateExecution, StillTrue
      <3>6. CASE Abort(r)
        BY <3>6 DEF Abort
      <3> QED
        BY <2>1, <3>1, <3>2, <3>3, <3>4, <3>5, <3>6 DEF Handler
    <2>2. CASE ClockTick
      BY <2>2 DEF ClockTick
    <2>3. CASE UNCHANGED lifecycleVars
      BY <2>3 DEF lifecycleVars
    <2> QED
      BY <1>1, <2>1, <2>2, <2>3 DEF LifecycleNext
  <1>2. SerialInv /\ [LifecycleNext]_lifecycleVars => [(status \in Terminal) => (status' = status)]_lifecycleVars
    BY <1>1
  <1> QED
    BY <1>2, SerialInvariant, PTL DEF LifecycleSpec, TerminalIsFinal

=============================================================================

------------------------- MODULE CheckpointChainProofs -------------------------
(***************************************************************************)
(* Proofs about CheckpointChain, for every value of its constants.         *)
(***************************************************************************)
EXTENDS CheckpointChainInvariants, FiniteSetTheorems, SequenceTheorems, TLAPS

(* Sequences, remainders and finite sets. *)

\* Appending to a table keeps it a table, adds one row and moves no other.
LEMMA AppendAddsLast ==
    ASSUME NEW q, IsSequence(q), NEW x
    PROVE  /\ IsSequence(Append(q, x))
           /\ DOMAIN q = 1..Len(q) /\ Len(q) \in Nat
           /\ Len(Append(q, x)) = Len(q) + 1
           /\ DOMAIN Append(q, x) = 1..(Len(q) + 1)
           /\ Append(q, x)[Len(q) + 1] = x
           /\ \A i \in 1..Len(q) : Append(q, x)[i] = q[i]
<1> DEFINE S == {q[i] : i \in DOMAIN q}
           T == {Append(q, x)[i] : i \in DOMAIN Append(q, x)}
<1>1. q \in Seq(S) BY DEF IsSequence
<1>2. q \in Seq(S \union {x}) BY <1>1
<1>3. Append(q, x) \in Seq(S \union {x}) BY <1>2
<1>4. /\ DOMAIN q = 1..Len(q) /\ Len(q) \in Nat
      /\ Len(Append(q, x)) = Len(q) + 1
      /\ DOMAIN Append(q, x) = 1..(Len(q) + 1)
      /\ Append(q, x)[Len(q) + 1] = x
      /\ \A i \in 1..Len(q) : Append(q, x)[i] = q[i]
  BY <1>2, <1>3
<1>5. Append(q, x) \in Seq(T)
  <2> DEFINE n == Len(q) + 1
             a == Append(q, x)
  <2>1. n \in Nat BY <1>4
  <2>2. a = [i \in 1..n |-> a[i]]
    <3>1. a \in [1..n -> S \union {x}] BY <1>3, <1>4, LenProperties
    <3> HIDE DEF a, n
    <3> QED BY <3>1
  <2>3. \A i \in 1..n : a[i] \in T BY <1>4
  <2> HIDE DEF a, n, T
  <2>4. [i \in 1..n |-> a[i]] \in Seq(T) BY <2>1, <2>3, IsASeq
  <2> QED BY <2>2, <2>4 DEF a
<1> QED BY <1>4, <1>5 DEF IsSequence

LEMMA TruncateIsInt ==
    ASSUME NEW t \in Nat  PROVE Truncate(t) \in Int /\ Truncate(t) <= t
BY ConstantsAssumption DEF Truncate

-----------------------------------------------------------------------------
(* Type correctness. *)

USE ConstantsAssumption

LEMMA EndTickOK ==
    ASSUME TicksOK, NEW s \in Schedulers, EndTick(s)
    PROVE  TicksOK'
<1>1. Idle \in Ticks BY DEF Idle, Ticks, Locations, Entries, NoEntry
<1>2. LeavesOK(<<>>) BY DEF LeavesOK
<1> QED BY <1>1, <1>2 DEF TicksOK, EndTick

LEMMA NextIterationOK ==
    ASSUME TicksOK, NEW s \in Schedulers, NextIteration(s)
    PROVE  TicksOK'
<1>1. CASE EndTick(s) BY <1>1, EndTickOK
<1>2. CASE /\ tick' = [tick EXCEPT ![s] = [Idle EXCEPT !.pc     = "head",
                                                       !.now    = tick[s].now,
                                                       !.closed = tick[s].closed + 1]]
           /\ leaves' = [leaves EXCEPT ![s] = <<>>]
  <2>1. [Idle EXCEPT !.pc = "head", !.now = tick[s].now, !.closed = tick[s].closed + 1] \in Ticks
    <3>1. tick[s] \in Ticks BY DEF TicksOK
    <3>2. tick[s].now \in Nat /\ tick[s].closed + 1 \in Nat BY <3>1 DEF Ticks
    <3> QED BY <3>2 DEF Idle, Ticks, Locations, Entries, NoEntry
  <2>2. LeavesOK(<<>>) BY DEF LeavesOK
  <2> QED BY <1>2, <2>1, <2>2 DEF TicksOK
<1> QED BY <1>1, <1>2 DEF NextIteration

LEMMA AnchorFailedOK ==
    ASSUME TicksOK, NEW s \in Schedulers, AnchorFailed(s)
    PROVE  TicksOK'
BY EndTickOK, NextIterationOK DEF AnchorFailed

LEMMA EnvironmentTypeOK ==
    ASSUME TypeOK, Environment
    PROVE  TypeOK'
<1> USE DEF TypeOK, StoreOK, store, chain
<1>1. CASE ClockTick
  BY <1>1 DEF ClockTick, ChainOK, TicksOK
<1>2. ASSUME NEW e \in Executions, HandleCreateExecution(e) PROVE TypeOK'
  BY <1>2 DEF HandleCreateExecution, ClientTimes, ChainOK, TicksOK
<1>3. ASSUME NEW e \in Executions, HandleIngestEvents(e) PROVE TypeOK'
  BY <1>3 DEF HandleIngestEvents, ChainOK, TicksOK
<1>4. ASSUME NEW e \in Executions, HandleUpdateExecution(e) PROVE TypeOK'
  BY <1>4 DEF HandleUpdateExecution, ClientTimes, ChainOK, TicksOK
<1>5. ASSUME NEW p \in Projects, DeleteExecutionsOlderThan(p) PROVE TypeOK'
  BY <1>5 DEF DeleteExecutionsOlderThan, ChainOK, TicksOK
<1> QED BY <1>1, <1>2, <1>3, <1>4, <1>5 DEF Environment

\* A leaf over executions of the store is well formed.
LEMMA RootIsFinite ==
    ASSUME StoreOK, NEW sealed \in SUBSET Executions
    PROVE  LET root == {<<e, events[e]>> : e \in sealed}
           IN  root \in SUBSET (Executions \X Nat) /\ IsFiniteSet(root)
<1> DEFINE root == {<<e, events[e]>> : e \in sealed}
           f == [e \in sealed |-> <<e, events[e]>>]
<1>1. root \in SUBSET (Executions \X Nat) BY DEF StoreOK
<1>2. IsFiniteSet(sealed) BY FS_Subset
<1>3. f \in Surjection(sealed, root) BY DEF Surjection
<1>4. IsFiniteSet(root)
  <2> HIDE DEF f, root
  <2> QED BY <1>2, <1>3, FS_Surjection
<1> QED BY <1>1, <1>4

LEMMA AddLeafOK ==
    ASSUME DOMAIN leaves = Schedulers, \A z \in Schedulers : LeavesOK(leaves[z]),
           NEW s \in Schedulers, NEW p \in Projects, NEW leaf, LeafOK(leaf), AddLeaf(s, p, leaf)
    PROVE  DOMAIN leaves' = Schedulers /\ \A z \in Schedulers : LeavesOK(leaves'[z])
BY DEF AddLeaf, LeavesOK

LEMMA AddTenantLeafOK ==
    ASSUME TypeOK, NEW s \in Schedulers, NEW p \in Projects, NEW root,
           root \in SUBSET (Executions \X Nat), IsFiniteSet(root), AddTenantLeaf(s, p, root)
    PROVE  DOMAIN leaves' = Schedulers /\ \A z \in Schedulers : LeavesOK(leaves'[z])
<1> USE DEF TypeOK, TicksOK
<1>1. Cardinality(root) \in Nat BY FS_CardinalityType
<1>2. CASE AddLeaf(s, p, [root |-> root, count |-> Cardinality(root),
                          cumulative |-> Cardinality(root), prevHash |-> ZeroHash])
  <2>1. LeafOK([root |-> root, count |-> Cardinality(root),
                cumulative |-> Cardinality(root), prevHash |-> ZeroHash])
    BY <1>1 DEF LeafOK
  <2> QED BY <1>2, <2>1, AddLeafOK
<1>3. ASSUME NEW i \in DOMAIN checkpoints, p \in DOMAIN checkpoints[i].leaves,
             AddLeaf(s, p, [root |-> root, count |-> Cardinality(root),
                            cumulative |-> checkpoints[i].leaves[p].cumulative + Cardinality(root),
                            prevHash |-> TenantLeafHash(checkpoints[i].leaves[p])])
      PROVE  DOMAIN leaves' = Schedulers /\ \A z \in Schedulers : LeavesOK(leaves'[z])
  <2>1. checkpoints[i].leaves[p].cumulative \in Nat
    BY <1>3 DEF ChainOK, CheckpointOK, LeavesOK, LeafOK
  <2>2. LeafOK([root |-> root, count |-> Cardinality(root),
                cumulative |-> checkpoints[i].leaves[p].cumulative + Cardinality(root),
                prevHash |-> TenantLeafHash(checkpoints[i].leaves[p])])
    BY <1>1, <2>1 DEF LeafOK
  <2> QED BY <1>3, <2>2, AddLeafOK
<1> QED BY <1>2, <1>3 DEF AddTenantLeaf, IsLatestLeaf

\* The members of a set of leaves can be counted.
LEMMA AddedIsNat ==
    ASSUME NEW ls, LeavesOK(ls)  PROVE Added(ls) \in Nat
<1> DEFINE f == [p \in DOMAIN ls |-> ls[p].root]
           roots == {ls[p].root : p \in DOMAIN ls}
<1>1. IsFiniteSet(DOMAIN ls) BY FS_Subset DEF LeavesOK
<1>2. f \in Surjection(DOMAIN ls, roots) BY DEF Surjection
<1>3. IsFiniteSet(roots)
  <2> HIDE DEF f, roots
  <2> QED BY <1>1, <1>2, FS_Surjection
<1>4. \A r \in roots : IsFiniteSet(r) BY DEF LeavesOK, LeafOK
<1>5. IsFiniteSet(UNION roots)
  <2> HIDE DEF roots
  <2> QED BY <1>3, <1>4, FS_UNION
<1> QED BY <1>5, FS_CardinalityType DEF Added

LEMMA IntervalIsInt ==
    ASSUME TypeOK, NEW s \in Schedulers, tick[s].head <= Len(checkpoints)
    PROVE  /\ IntervalStart(s) \in Int /\ IntervalEnd(s) \in Int
           /\ IntervalEnd(s) = IntervalStart(s) + CheckpointInterval
<1>1. tick[s].head \in Nat /\ tick[s].now \in Nat BY DEF TypeOK, TicksOK, Ticks
<1>2. tick[s].head # 0 => CheckpointOK(checkpoints[tick[s].head])
  BY <1>1, AppendAddsLast DEF TypeOK, ChainOK
<1>3. IntervalStart(s) \in Int BY <1>1, <1>2, TruncateIsInt DEF IntervalStart, CheckpointOK
<1> QED BY <1>3 DEF IntervalEnd

LEMMA BuildCheckpointOK ==
    ASSUME TypeOK, NEW s \in Schedulers, tick[s].head <= Len(checkpoints)
    PROVE  CheckpointOK(BuildCheckpoint(s))
<1> USE DEF TypeOK
<1>1. tick[s] \in Ticks /\ LeavesOK(leaves[s]) BY DEF TicksOK
<1>2. /\ tick[s].head \in Nat /\ tick[s].entry \in Entries /\ tick[s].now \in Nat
  BY <1>1 DEF Ticks
<1>3. tick[s].head # 0 => CheckpointOK(checkpoints[tick[s].head])
  BY <1>2, AppendAddsLast DEF ChainOK
<1>4. IntervalStart(s) \in Int /\ IntervalEnd(s) \in Int BY IntervalIsInt
<1>5. Added(leaves[s]) \in Nat BY <1>1, AddedIsNat
<1>7. BuildCheckpoint(s).cumulative \in Nat
  <2>1. tick[s].head # 0 => checkpoints[tick[s].head].cumulative \in Nat BY <1>3 DEF CheckpointOK
  <2> QED BY <1>5, <2>1 DEF BuildCheckpoint
<1>8. /\ BuildCheckpoint(s).seq \in Nat
      /\ BuildCheckpoint(s).prevEntry \in Entries
      /\ BuildCheckpoint(s).start \in Int
      /\ BuildCheckpoint(s).end \in Int
      /\ LeavesOK(BuildCheckpoint(s).leaves)
  BY <1>1, <1>2, <1>4 DEF BuildCheckpoint
<1> QED BY <1>7, <1>8 DEF CheckpointOK

\* Moving on with another head, or another entry, keeps a tick well typed.
LEMMA SetHeadOK ==
    ASSUME TicksOK, NEW s \in Schedulers, NEW h \in Nat, NEW l \in Locations
    PROVE  [tick EXCEPT ![s].head = h, ![s].pc = l] \in [Schedulers -> Ticks]
<1>1. tick[s] \in Ticks BY DEF TicksOK
<1>2. [tick EXCEPT ![s].head = h] \in [Schedulers -> Ticks] BY <1>1 DEF TicksOK, Ticks
<1> DEFINE t == [tick EXCEPT ![s].head = h]
<1>3. t[s] \in Ticks BY <1>2
<1>4. [t EXCEPT ![s].pc = l] \in [Schedulers -> Ticks]
  <2> HIDE DEF t
  <2>1. t \in [Schedulers -> Ticks] BY <1>2 DEF t
  <2> QED BY <1>3, <2>1 DEF Ticks
<1> QED BY <1>4

LEMMA SetEntryOK ==
    ASSUME TicksOK, NEW s \in Schedulers, NEW id \in Entries, NEW l \in Locations
    PROVE  [tick EXCEPT ![s].entry = id, ![s].pc = l] \in [Schedulers -> Ticks]
<1>1. tick[s] \in Ticks BY DEF TicksOK
<1>2. [tick EXCEPT ![s].entry = id] \in [Schedulers -> Ticks] BY <1>1 DEF TicksOK, Ticks
<1> DEFINE t == [tick EXCEPT ![s].entry = id]
<1>3. t[s] \in Ticks BY <1>2
<1>4. [t EXCEPT ![s].pc = l] \in [Schedulers -> Ticks]
  <2> HIDE DEF t
  <2>1. t \in [Schedulers -> Ticks] BY <1>2 DEF t
  <2> QED BY <1>3, <2>1 DEF Ticks
<1> QED BY <1>4

LEMMA SchedulerTypeOK ==
    ASSUME TypeOK, TicksAreGrounded, NEW s \in Schedulers, Scheduler(s)
    PROVE  TypeOK'
<1> USE DEF TypeOK, store, chain
<1>1. /\ tick[s] \in Ticks
      /\ tick[s].pc \in Locations /\ tick[s].now \in Nat /\ tick[s].head \in Nat
      /\ tick[s].entry \in Entries /\ tick[s].todo \in SUBSET Projects
      /\ tick[s].closed \in Nat
  BY DEF TicksOK, Ticks
<1>2. /\ DOMAIN checkpoints = 1..Len(checkpoints) /\ Len(checkpoints) \in Nat
      /\ DOMAIN anchors = 1..Len(checkpoints)
      /\ Len(log) \in Nat
      /\ tick[s].head <= Len(checkpoints)
  BY AppendAddsLast DEF ChainOK, TicksAreGrounded
<1>3. tick[s].head >= 1 => anchors[tick[s].head] \in Entries
  BY <1>1, <1>2 DEF ChainOK
<1>4. CASE Wake(s)
  BY <1>1, <1>4 DEF Wake, At, StoreOK, ChainOK, TicksOK, Ticks, Locations
<1>5. CASE SealExecutions(s)
  <2>1. StoreOK' BY <1>1, <1>5 DEF SealExecutions, StoreOK
  <2>2. TicksOK' BY <1>5 DEF SealExecutions, Goto, TicksOK, Ticks, Locations
  <2> QED BY <1>5, <2>1, <2>2 DEF SealExecutions, ChainOK
<1>6. CASE LatestCheckpoint(s)
  <2>1. \A l \in Locations : [tick EXCEPT ![s].head = Len(checkpoints), ![s].pc = l]
                                 \in [Schedulers -> Ticks]
    BY <1>2, SetHeadOK
  <2>2. "window" \in Locations /\ "anchorState" \in Locations BY DEF Locations
  <2>3. TicksOK' BY <1>6, <2>1, <2>2 DEF LatestCheckpoint, TicksOK
  <2> QED BY <1>6, <2>3 DEF LatestCheckpoint, StoreOK, ChainOK
<1>7. CASE GetCheckpointAnchor(s)
  <2>1. anchors[tick[s].head] \in Entries
    BY <1>3, <1>7 DEF GetCheckpointAnchor, TicksAreGrounded, At
  <2>2. TicksOK'
    <3>1. \A l \in Locations : [tick EXCEPT ![s].entry = anchors[tick[s].head], ![s].pc = l]
                                   \in [Schedulers -> Ticks]
      BY <2>1, SetEntryOK
    <3>2. "window" \in Locations /\ "submit" \in Locations BY DEF Locations
    <3> QED BY <1>7, <3>1, <3>2 DEF GetCheckpointAnchor, TicksOK
  <2> QED BY <1>7, <2>2 DEF GetCheckpointAnchor, StoreOK, ChainOK
<1>8. CASE RereadAnchor(s)
  <2>1. anchors[tick[s].head] \in Entries
    BY <1>3, <1>8 DEF RereadAnchor, TicksAreGrounded, At
  <2>2. TicksOK'
    <3>1. CASE anchors[tick[s].head] # NoEntry
      <4>1. "window" \in Locations BY DEF Locations
      <4>2. tick' = [tick EXCEPT ![s].entry = anchors[tick[s].head], ![s].pc = "window"]
        BY <1>8, <3>1 DEF RereadAnchor
      <4>3. tick' \in [Schedulers -> Ticks] BY <2>1, <4>1, <4>2, SetEntryOK
      <4> QED BY <1>8, <3>1, <4>3 DEF RereadAnchor, TicksOK
    <3>2. CASE anchors[tick[s].head] = NoEntry
      BY <1>8, <3>2, EndTickOK DEF RereadAnchor
    <3> QED BY <3>1, <3>2
  <2> QED BY <1>8, <2>2 DEF RereadAnchor, StoreOK, ChainOK
<1>9. CASE AnchorCheckpoint(s)
  <2>1. IsSequence(log') BY <1>9, AppendAddsLast DEF AnchorCheckpoint, Submit
  <2>2. TicksOK'
    <3>1. "mark" \in Locations /\ "markNew" \in Locations BY DEF Locations
    <3>2. \A l \in Locations : [tick EXCEPT ![s].entry = Len(log) + 1, ![s].pc = l]
                                   \in [Schedulers -> Ticks]
      <4>1. Len(log) + 1 \in Entries BY <1>2 DEF Entries
      <4> QED BY <4>1, SetEntryOK
    <3>3. tick' = [tick EXCEPT ![s].entry = Len(log) + 1,
                               ![s].pc = IF tick[s].pc = "submit" THEN "mark" ELSE "markNew"]
      BY <1>9 DEF AnchorCheckpoint
    <3> QED BY <1>9, <3>1, <3>2, <3>3 DEF AnchorCheckpoint, TicksOK
  <2> QED BY <1>9, <2>1, <2>2 DEF AnchorCheckpoint, StoreOK, ChainOK
<1>10. CASE AnchorCheckpointFails(s)
  <2>1. IsSequence(log')
    <3>1. log' = log \/ log' = Append(log, CheckpointHash(checkpoints[tick[s].head]))
      BY <1>10 DEF AnchorCheckpointFails, Submit
    <3>2. IsSequence(Append(log, CheckpointHash(checkpoints[tick[s].head])))
      <4>1. IsSequence(log) OBVIOUS
      <4> QED BY <4>1, AppendAddsLast
    <3> QED BY <3>1, <3>2
  <2>2. TicksOK' BY <1>10, AnchorFailedOK DEF AnchorCheckpointFails
  <2> QED BY <1>10, <2>1, <2>2 DEF AnchorCheckpointFails, StoreOK, ChainOK
<1>11. CASE MarkCheckpointAnchored(s)
  <2>1. ChainOK'
    <3>1. CASE anchors[tick[s].head] = NoEntry
      <4>1. anchors' \in Seq(Entries) /\ Len(anchors') = Len(anchors)
        BY <1>1, <1>11, <3>1 DEF MarkCheckpointAnchored, ChainOK
      <4> QED BY <1>11, <4>1 DEF MarkCheckpointAnchored, ChainOK
    <3>2. CASE anchors[tick[s].head] # NoEntry
      BY <1>11, <3>2 DEF MarkCheckpointAnchored, ChainOK
    <3> QED BY <3>1, <3>2
  <2>2. TicksOK'
    <3>1. CASE Goto(s, "reread") /\ UNCHANGED leaves
      BY <3>1 DEF Goto, TicksOK, Ticks, Locations
    <3>2. CASE NextIteration(s) BY <3>2, NextIterationOK
    <3>3. CASE AnchorFailed(s) BY <3>3, AnchorFailedOK
    <3> QED BY <1>11, <3>1, <3>2, <3>3 DEF MarkCheckpointAnchored
  <2> QED BY <1>11, <2>1, <2>2 DEF MarkCheckpointAnchored, StoreOK
<1>12. CASE MarkFails(s)
  BY <1>12, AnchorFailedOK DEF MarkFails, StoreOK, ChainOK
<1>13. CASE CountSealedByProject(s)
  <2>1. TicksOK'
    <3>1. CASE tick[s].now < IntervalEnd(s)
      BY <1>13, <3>1, EndTickOK DEF CountSealedByProject
    <3>2. CASE ~(tick[s].now < IntervalEnd(s))
      BY <1>13, <3>2 DEF CountSealedByProject, TicksOK, Ticks, Locations
    <3> QED BY <3>1, <3>2
  <2> QED BY <1>13, <2>1 DEF CountSealedByProject, StoreOK, ChainOK
<1>14. CASE BuildLeaf(s)
  <2> DEFINE p      == CHOOSE q \in tick[s].todo : TRUE
             sealed == SealedInInterval(s, p)
  <2>1. p \in Projects BY <1>1, <1>14 DEF BuildLeaf
  <2>2. TicksOK'
    <3>1. CASE sealed = {} BY <1>14, <3>1, EndTickOK DEF BuildLeaf
    <3>2. CASE sealed # {}
      <4>1. AddTenantLeaf(s, p, {<<e, events[e]>> : e \in sealed})
        BY <1>14, <3>2 DEF BuildLeaf
      <4>2. sealed \in SUBSET Executions BY DEF SealedInInterval
      <4>3. DOMAIN leaves' = Schedulers /\ \A z \in Schedulers : LeavesOK(leaves'[z])
        <5> HIDE DEF p, sealed
        <5> QED BY <2>1, <4>1, <4>2, RootIsFinite, AddTenantLeafOK
      <4>4. tick' \in [Schedulers -> Ticks]
        BY <1>1, <1>14, <3>2 DEF BuildLeaf, TicksOK, Ticks
      <4> QED BY <4>3, <4>4 DEF TicksOK
    <3> QED BY <3>1, <3>2
  <2> QED BY <1>14, <2>2 DEF BuildLeaf, StoreOK, ChainOK
<1>15. CASE InsertCheckpoint(s)
  <2>1. CASE Insertable(s)
    <3>1. CheckpointOK(BuildCheckpoint(s)) BY <1>2, BuildCheckpointOK
    <3>2. checkpoints' = Append(checkpoints, BuildCheckpoint(s)) /\ anchors' = Append(anchors, NoEntry)
      BY <1>15, <2>1 DEF InsertCheckpoint
    <3>3. IsSequence(checkpoints') /\ \A i \in DOMAIN checkpoints' : CheckpointOK(checkpoints'[i])
      <4> HIDE DEF TypeOK
      <4>1. IsSequence(checkpoints) /\ \A i \in DOMAIN checkpoints : CheckpointOK(checkpoints[i])
        BY DEF TypeOK, ChainOK
      <4> QED BY <3>1, <3>2, <4>1, AppendAddsLast
    <3>4. anchors' \in Seq(Entries) /\ Len(anchors') = Len(checkpoints')
      BY <3>2, AppendAddsLast DEF ChainOK, Entries, NoEntry
    <3>5. TicksOK'
      <4>1. "submitNew" \in Locations /\ tick[s].head + 1 \in Nat BY <1>1 DEF Locations
      <4>2. tick' = [tick EXCEPT ![s].head = tick[s].head + 1, ![s].pc = "submitNew"]
        BY <1>15, <2>1 DEF InsertCheckpoint
      <4>3. tick' \in [Schedulers -> Ticks] BY <4>1, <4>2, SetHeadOK
      <4> QED BY <1>15, <2>1, <4>3 DEF InsertCheckpoint, TicksOK
    <3> QED BY <1>15, <3>3, <3>4, <3>5 DEF InsertCheckpoint, StoreOK, ChainOK
  <2>2. CASE ~Insertable(s)
    BY <1>15, <2>2, EndTickOK DEF InsertCheckpoint, StoreOK, ChainOK
  <2> QED BY <2>1, <2>2
<1>16. CASE Abort(s)
  BY <1>16, EndTickOK DEF Abort, StoreOK, ChainOK
<1> QED BY <1>4, <1>5, <1>6, <1>7, <1>8, <1>9, <1>10, <1>11, <1>12, <1>13, <1>14, <1>15, <1>16
        DEF Scheduler

-----------------------------------------------------------------------------
(* What a step changes. *)

\* A tick that returns, or turns to the next interval, keeps nothing but the
\* instant it started.
Rests(s) == /\ tick'[s].pc \in {"idle", "head"} /\ tick'[s].head = 0
            /\ tick'[s].now \in {0, tick[s].now} /\ leaves'[s] = <<>>
            /\ \A z \in Schedulers \ {s} : tick'[z] = tick[z] /\ leaves'[z] = leaves[z]

LEMMA EndTickRests ==
    ASSUME TicksOK, NEW s \in Schedulers, EndTick(s)  PROVE Rests(s) /\ tick'[s].pc = "idle"
BY DEF TicksOK, EndTick, Rests, Idle

LEMMA NextIterationRests ==
    ASSUME TicksOK, NEW s \in Schedulers, NextIteration(s)  PROVE Rests(s)
<1>1. CASE EndTick(s) BY <1>1, EndTickRests
<1>2. CASE /\ tick' = [tick EXCEPT ![s] = [Idle EXCEPT !.pc     = "head",
                                                       !.now    = tick[s].now,
                                                       !.closed = tick[s].closed + 1]]
           /\ leaves' = [leaves EXCEPT ![s] = <<>>]
  BY <1>2 DEF TicksOK, Rests, Idle
<1> QED BY <1>1, <1>2 DEF NextIteration

LEMMA AnchorFailedRests ==
    ASSUME TicksOK, NEW s \in Schedulers, AnchorFailed(s)  PROVE Rests(s)
BY EndTickRests, NextIterationRests DEF AnchorFailed

\* The leaf that is added is over the given root and continues the project's
\* most recent one, of which there is one at most.
LEMMA AddLeafEffect ==
    ASSUME TicksOK, NEW s \in Schedulers, NEW p, NEW leaf, AddLeaf(s, p, leaf)
    PROVE  /\ \A z \in Schedulers \ {s} : leaves'[z] = leaves[z]
           /\ DOMAIN leaves'[s] = DOMAIN leaves[s] \union {p}
           /\ \A q \in DOMAIN leaves[s] \ {p} : leaves'[s][q] = leaves[s][q]
           /\ leaves'[s][p] = leaf
BY DEF AddLeaf, TicksOK

LEMMA AddTenantLeafEffect ==
    ASSUME TicksOK, NEW s \in Schedulers, NEW p, NEW root, AddTenantLeaf(s, p, root)
    PROVE  /\ \A z \in Schedulers \ {s} : leaves'[z] = leaves[z]
           /\ DOMAIN leaves'[s] = DOMAIN leaves[s] \union {p}
           /\ \A q \in DOMAIN leaves[s] \ {p} : leaves'[s][q] = leaves[s][q]
           /\ leaves'[s][p].root = root
           /\ ChainOK => Continues(p, leaves'[s][p])
<1>1. CASE /\ \A i \in DOMAIN checkpoints : p \notin DOMAIN checkpoints[i].leaves
           /\ AddLeaf(s, p, [root |-> root, count |-> Cardinality(root),
                             cumulative |-> Cardinality(root), prevHash |-> ZeroHash])
  <2>1. Continues(p, leaves'[s][p]) BY <1>1 DEF Continues, IsLatestLeaf
  <2> QED BY <1>1, <2>1, AddLeafEffect
<1>2. ASSUME NEW i \in DOMAIN checkpoints, IsLatestLeaf(i, p),
             AddLeaf(s, p, [root |-> root, count |-> Cardinality(root),
                            cumulative |-> checkpoints[i].leaves[p].cumulative + Cardinality(root),
                            prevHash |-> TenantLeafHash(checkpoints[i].leaves[p])])
      PROVE  /\ \A z \in Schedulers \ {s} : leaves'[z] = leaves[z]
             /\ DOMAIN leaves'[s] = DOMAIN leaves[s] \union {p}
             /\ \A q \in DOMAIN leaves[s] \ {p} : leaves'[s][q] = leaves[s][q]
             /\ leaves'[s][p].root = root
             /\ ChainOK => Continues(p, leaves'[s][p])
  <2> DEFINE leaf == [root |-> root, count |-> Cardinality(root),
                      cumulative |-> checkpoints[i].leaves[p].cumulative + Cardinality(root),
                      prevHash |-> TenantLeafHash(checkpoints[i].leaves[p])]
  <2>1. ASSUME ChainOK  PROVE Continues(p, leaf)
    <3>1. DOMAIN checkpoints = 1..Len(checkpoints) /\ Len(checkpoints) \in Nat
      BY <2>1, AppendAddsLast DEF ChainOK
    <3>2. \A j \in DOMAIN checkpoints : IsLatestLeaf(j, p) => j = i
      BY <1>2, <3>1 DEF IsLatestLeaf
    <3>3. leaf.count = Cardinality(root) /\ leaf.prevHash = TenantLeafHash(checkpoints[i].leaves[p])
          /\ leaf.cumulative = checkpoints[i].leaves[p].cumulative + Cardinality(root)
      OBVIOUS
    <3> HIDE DEF leaf
    <3> QED BY <3>2, <3>3 DEF Continues
  <2>2. leaf.root = root OBVIOUS
  <2>3. AddLeaf(s, p, leaf) BY <1>2
  <2> HIDE DEF leaf
  <2> QED BY <2>1, <2>2, <2>3, AddLeafEffect
<1> QED BY <1>1, <1>2 DEF AddTenantLeaf, IsLatestLeaf

\* A scheduler touches neither the clock nor what another scheduler holds.
LEMMA Frame ==
    ASSUME TicksOK, NEW s \in Schedulers, Scheduler(s)
    PROVE  /\ clock' = clock
           /\ \A z \in Schedulers \ {s} : tick'[z] = tick[z] /\ leaves'[z] = leaves[z]
<1> USE EndTickRests, NextIterationRests, AnchorFailedRests DEF TicksOK
<1>1. CASE Wake(s) BY <1>1 DEF Wake
<1>2. CASE SealExecutions(s) BY <1>2 DEF SealExecutions, Goto
<1>3. CASE LatestCheckpoint(s) BY <1>3 DEF LatestCheckpoint
<1>4. CASE GetCheckpointAnchor(s) BY <1>4 DEF GetCheckpointAnchor
<1>5. CASE RereadAnchor(s) BY <1>5 DEF RereadAnchor, Rests
<1>6. CASE AnchorCheckpoint(s) BY <1>6 DEF AnchorCheckpoint
<1>7. CASE AnchorCheckpointFails(s) BY <1>7 DEF AnchorCheckpointFails, Rests
<1>8. CASE MarkCheckpointAnchored(s)
  BY <1>8 DEF MarkCheckpointAnchored, Goto, Rests
<1>9. CASE MarkFails(s) BY <1>9 DEF MarkFails, Rests
<1>10. CASE CountSealedByProject(s)
  <2>1. CASE EndTick(s) BY <1>10, <2>1 DEF CountSealedByProject, Rests
  <2>2. CASE ~EndTick(s) BY <1>10, <2>2 DEF CountSealedByProject
  <2> QED BY <2>1, <2>2
<1>11. CASE BuildLeaf(s)
  <2>1. CASE EndTick(s) BY <1>11, <2>1 DEF BuildLeaf, Rests
  <2>2. ASSUME NEW p, NEW root, AddTenantLeaf(s, p, root)
        PROVE  \A z \in Schedulers \ {s} : leaves'[z] = leaves[z]
    BY <2>2, AddTenantLeafEffect DEF TicksOK
  <2>3. CASE ~EndTick(s) BY <1>11, <2>2, <2>3 DEF BuildLeaf
  <2> QED BY <2>1, <2>3
<1>12. CASE InsertCheckpoint(s) BY <1>12 DEF InsertCheckpoint, Rests
<1>13. CASE Abort(s) BY <1>13 DEF Abort, Rests
<1> QED BY <1>1, <1>2, <1>3, <1>4, <1>5, <1>6, <1>7, <1>8, <1>9, <1>10, <1>11, <1>12, <1>13
        DEF Scheduler

\* The tables of the chain and the log only grow.
Grows ==
    /\ clock <= clock'
    /\ Len(checkpoints) <= Len(checkpoints')
    /\ \A i \in DOMAIN checkpoints :
           /\ i \in DOMAIN checkpoints' /\ checkpoints'[i] = checkpoints[i]
           /\ anchors[i] # NoEntry => anchors'[i] = anchors[i]
    /\ Len(log) <= Len(log')
    /\ \A id \in DOMAIN log : id \in DOMAIN log' /\ log'[id] = log[id]

\* A new checkpoint goes to the end of the table, without an anchor.
LEMMA Insertion ==
    ASSUME TypeOK, TicksAreGrounded, NEW s \in Schedulers, InsertCheckpoint(s), Insertable(s)
    PROVE  /\ tick[s].head = Len(checkpoints)
           /\ Len(checkpoints) \in Nat
           /\ DOMAIN checkpoints = 1..Len(checkpoints)
           /\ Len(checkpoints') = Len(checkpoints) + 1
           /\ DOMAIN checkpoints' = 1..(Len(checkpoints) + 1)
           /\ \A i \in DOMAIN checkpoints : checkpoints'[i] = checkpoints[i] /\ anchors'[i] = anchors[i]
           /\ checkpoints'[Len(checkpoints) + 1] = BuildCheckpoint(s)
           /\ anchors'[Len(checkpoints) + 1] = NoEntry
           /\ log' = log /\ UNCHANGED store
<1>1. tick[s].head \in Nat /\ tick[s].head <= Len(checkpoints)
  BY DEF TypeOK, TicksOK, Ticks, TicksAreGrounded
<1>2. DOMAIN checkpoints = 1..Len(checkpoints) /\ Len(checkpoints) \in Nat
  BY AppendAddsLast DEF TypeOK, ChainOK
<1>3. tick[s].head = Len(checkpoints) BY <1>1, <1>2 DEF Insertable
<1>4. checkpoints' = Append(checkpoints, BuildCheckpoint(s)) /\ anchors' = Append(anchors, NoEntry)
  BY DEF InsertCheckpoint
<1>5. IsSequence(checkpoints) BY DEF TypeOK, ChainOK
<1>6. \A i \in 1..Len(checkpoints) : anchors'[i] = anchors[i]
  BY <1>2, <1>4 DEF TypeOK, ChainOK
<1>7. anchors'[Len(checkpoints) + 1] = NoEntry
  BY <1>2, <1>4 DEF TypeOK, ChainOK
<1>8. /\ Len(checkpoints') = Len(checkpoints) + 1
      /\ DOMAIN checkpoints' = 1..(Len(checkpoints) + 1)
      /\ \A i \in DOMAIN checkpoints : checkpoints'[i] = checkpoints[i]
      /\ checkpoints'[Len(checkpoints) + 1] = BuildCheckpoint(s)
  BY <1>2, <1>4, <1>5, AppendAddsLast
<1>9. log' = log /\ UNCHANGED store BY DEF InsertCheckpoint, store
<1> QED BY <1>2, <1>3, <1>6, <1>7, <1>8, <1>9

\* A step of a scheduler leaves the table of checkpoints, or inserts one.
LEMMA ChainSteps ==
    ASSUME NEW s \in Schedulers, Scheduler(s)
    PROVE  \/ UNCHANGED chain
           \/ InsertCheckpoint(s) /\ Insertable(s)
           \/ /\ MarkCheckpointAnchored(s) /\ UNCHANGED <<checkpoints, log>>
              /\ anchors[tick[s].head] = NoEntry
              /\ anchors' = [anchors EXCEPT ![tick[s].head] = tick[s].entry]
BY DEF Scheduler, chain, Wake, SealExecutions, LatestCheckpoint, GetCheckpointAnchor, RereadAnchor,
       AnchorCheckpoint, AnchorCheckpointFails, MarkCheckpointAnchored, MarkFails,
       CountSealedByProject, BuildLeaf, InsertCheckpoint, Abort

LEMMA LogSteps ==
    ASSUME NEW s \in Schedulers, Scheduler(s)
    PROVE  log' = log \/ (Submit(s) /\ UNCHANGED chain)
BY DEF Scheduler, chain, Wake, SealExecutions, LatestCheckpoint, GetCheckpointAnchor, RereadAnchor,
       AnchorCheckpoint, AnchorCheckpointFails, MarkCheckpointAnchored, MarkFails,
       CountSealedByProject, BuildLeaf, InsertCheckpoint, Abort

LEMMA Growth ==
    ASSUME TypeOK, TicksAreGrounded, [Next]_vars
    PROVE  Grows
<1>1. DOMAIN checkpoints = 1..Len(checkpoints) /\ Len(checkpoints) \in Nat /\ Len(log) \in Nat /\ clock \in Nat
  BY AppendAddsLast DEF TypeOK, ChainOK
<1>2. CASE Environment \/ UNCHANGED vars
  <2>1. UNCHANGED <<chain, log>> /\ clock <= clock'
    BY <1>1, <1>2 DEF Environment, vars, ClockTick, HandleCreateExecution, HandleIngestEvents,
                      HandleUpdateExecution, DeleteExecutionsOlderThan
  <2> QED BY <1>1, <2>1 DEF Grows, chain
<1>3. ASSUME NEW s \in Schedulers, Scheduler(s)  PROVE Grows
  <2>1. clock' = clock BY <1>3, Frame DEF TypeOK
  <2>2. Len(log) <= Len(log') /\ \A id \in DOMAIN log : id \in DOMAIN log' /\ log'[id] = log[id]
    <3>1. CASE log' = log BY <1>1, <3>1
    <3>2. CASE Submit(s)
      BY <3>2, AppendAddsLast DEF Submit, TypeOK
    <3> QED BY <1>3, <3>1, <3>2, LogSteps
  <2>3. CASE UNCHANGED chain BY <1>1, <2>1, <2>2, <2>3 DEF Grows, chain
  <2>4. CASE InsertCheckpoint(s) /\ Insertable(s)
    BY <1>1, <2>1, <2>2, <2>4, Insertion DEF Grows
  <2>5. CASE /\ MarkCheckpointAnchored(s) /\ UNCHANGED <<checkpoints, log>>
             /\ anchors[tick[s].head] = NoEntry
             /\ anchors' = [anchors EXCEPT ![tick[s].head] = tick[s].entry]
    BY <1>1, <2>1, <2>2, <2>5 DEF Grows, TypeOK, ChainOK
  <2> QED BY <1>3, <2>3, <2>4, <2>5, ChainSteps
<1> QED BY <1>2, <1>3 DEF Next

-----------------------------------------------------------------------------
(* What a tick holds stays true of the tables. *)

Grounded(s) ==
    /\ tick[s].now <= clock
    /\ tick[s].head <= Len(checkpoints)
    /\ At(s, {"anchorState", "submit", "mark", "reread", "submitNew", "markNew"})
           => tick[s].head >= 1
    /\ At(s, {"window", "leaves"}) /\ tick[s].head >= 1
           => tick[s].entry = anchors[tick[s].head] /\ tick[s].entry # NoEntry
    /\ At(s, {"mark", "markNew"})
           => /\ tick[s].entry \in DOMAIN log
              /\ log[tick[s].entry] = CheckpointHash(checkpoints[tick[s].head])
    /\ At(s, {"leaves"}) => IntervalEnd(s) <= tick[s].now

LEMMA TickFields ==
    ASSUME TypeOK, NEW s \in Schedulers
    PROVE  /\ tick[s].pc \in Locations /\ tick[s].now \in Nat /\ tick[s].head \in Nat
           /\ tick[s].entry \in Nat /\ tick[s].todo \in SUBSET Projects
           /\ clock \in Nat
           /\ DOMAIN checkpoints = 1..Len(checkpoints) /\ Len(checkpoints) \in Nat
           /\ DOMAIN log = 1..Len(log) /\ Len(log) \in Nat
           /\ DOMAIN anchors = DOMAIN checkpoints
BY AppendAddsLast DEF TypeOK, TicksOK, Ticks, ChainOK, Entries

\* A scheduler that does not move stays grounded when the tables grow.
LEMMA GrowsKeepsGrounded ==
    ASSUME TypeOK, TypeOK', TicksAreGrounded, Grows, NEW z \in Schedulers, tick'[z] = tick[z]
    PROVE  Grounded(z)'
<1>1. Grounded(z) BY DEF TicksAreGrounded, Grounded
<1>2. tick[z].head # 0 => /\ tick[z].head \in DOMAIN checkpoints
                          /\ checkpoints'[tick[z].head] = checkpoints[tick[z].head]
  BY <1>1, TickFields DEF Grounded, Grows
<1>3. IntervalEnd(z)' = IntervalEnd(z) BY <1>2 DEF IntervalEnd, IntervalStart, Truncate
<1>4. /\ tick'[z].now <= clock' /\ tick'[z].head <= Len(checkpoints)'
  <2>1. clock' \in Nat /\ Len(checkpoints)' \in Nat BY AppendAddsLast DEF TypeOK, ChainOK
  <2> QED BY <1>1, <2>1, TickFields DEF Grounded, Grows
<1>5. At(z, {"window", "leaves"})' /\ tick'[z].head >= 1
          => tick'[z].entry = anchors'[tick'[z].head] /\ tick'[z].entry # NoEntry
  BY <1>1, <1>2, TickFields DEF Grounded, Grows, At
<1>6. At(z, {"mark", "markNew"})'
          => /\ tick'[z].entry \in DOMAIN log'
             /\ log'[tick'[z].entry] = CheckpointHash(checkpoints'[tick'[z].head])
  BY <1>1, <1>2, TickFields DEF Grounded, Grows, At
<1>7. At(z, {"anchorState", "submit", "mark", "reread", "submitNew", "markNew"})'
          => tick'[z].head >= 1
  BY <1>1 DEF Grounded, At
<1>8. At(z, {"leaves"})' => IntervalEnd(z)' <= tick'[z].now
  BY <1>1, <1>3 DEF Grounded, At
<1> QED BY <1>4, <1>5, <1>6, <1>7, <1>8 DEF Grounded

LEMMA RestsAreGrounded ==
    ASSUME TypeOK, TypeOK', TicksAreGrounded, Grows, NEW s \in Schedulers, Rests(s)
    PROVE  Grounded(s)'
<1>1. tick'[s].now <= clock'
  <2>1. tick[s].now <= clock /\ clock' \in Nat BY DEF TicksAreGrounded, TypeOK
  <2> QED BY <2>1, TickFields DEF Rests, Grows
<1>2. 0 <= Len(checkpoints)' BY AppendAddsLast DEF TypeOK, ChainOK
<1> QED BY <1>1, <1>2 DEF Rests, Grounded, At

\* The fields of a tick that a step inside it changes.
LEMMA Moves ==
    ASSUME TypeOK, NEW s \in Schedulers
    PROVE  /\ Wake(s) => /\ tick'[s].pc = "seal" /\ tick'[s].now = clock
                         /\ tick'[s].head = tick[s].head
           /\ SealExecutions(s) => /\ tick'[s].pc = "head" /\ tick'[s].now = tick[s].now
                                   /\ tick'[s].head = tick[s].head
           /\ LatestCheckpoint(s) =>
                  /\ tick'[s].pc = IF checkpoints = <<>> THEN "window" ELSE "anchorState"
                  /\ tick'[s].head = Len(checkpoints) /\ tick'[s].now = tick[s].now
           /\ GetCheckpointAnchor(s) =>
                  /\ tick'[s].pc = IF anchors[tick[s].head] # NoEntry THEN "window" ELSE "submit"
                  /\ tick'[s].head = tick[s].head /\ tick'[s].now = tick[s].now
                  /\ tick'[s].entry = anchors[tick[s].head]
           /\ RereadAnchor(s) /\ anchors[tick[s].head] # NoEntry =>
                  /\ tick'[s].pc = "window" /\ tick'[s].entry = anchors[tick[s].head]
                  /\ tick'[s].head = tick[s].head /\ tick'[s].now = tick[s].now
           /\ AnchorCheckpoint(s) =>
                  /\ tick'[s].pc = IF tick[s].pc = "submit" THEN "mark" ELSE "markNew"
                  /\ tick'[s].entry = Len(log) + 1
                  /\ tick'[s].head = tick[s].head /\ tick'[s].now = tick[s].now
           /\ CountSealedByProject(s) /\ ~(tick[s].now < IntervalEnd(s)) =>
                  /\ tick'[s].pc = "leaves" /\ tick'[s].entry = tick[s].entry
                  /\ tick'[s].head = tick[s].head /\ tick'[s].now = tick[s].now
                  /\ tick'[s].todo = {p \in Projects : SealedInInterval(s, p) # {}}
           /\ InsertCheckpoint(s) /\ Insertable(s) =>
                  /\ tick'[s].pc = "submitNew"
                  /\ tick'[s].head = tick[s].head + 1 /\ tick'[s].now = tick[s].now
<1>1. TicksOK /\ DOMAIN tick = Schedulers /\ tick[s] \in Ticks BY DEF TypeOK, TicksOK
<1>2. Wake(s) => /\ tick'[s].pc = "seal" /\ tick'[s].now = clock
                 /\ tick'[s].head = tick[s].head
  BY <1>1 DEF Wake, Ticks
<1>3. SealExecutions(s) => /\ tick'[s].pc = "head" /\ tick'[s].now = tick[s].now
                           /\ tick'[s].head = tick[s].head
  BY <1>1 DEF SealExecutions, Goto, Ticks
<1>4. LatestCheckpoint(s) =>
          /\ tick'[s].pc = IF checkpoints = <<>> THEN "window" ELSE "anchorState"
          /\ tick'[s].head = Len(checkpoints) /\ tick'[s].now = tick[s].now
  BY <1>1 DEF LatestCheckpoint, Ticks
<1>5. GetCheckpointAnchor(s) =>
          /\ tick'[s].pc = IF anchors[tick[s].head] # NoEntry THEN "window" ELSE "submit"
          /\ tick'[s].head = tick[s].head /\ tick'[s].now = tick[s].now
          /\ tick'[s].entry = anchors[tick[s].head]
  BY <1>1 DEF GetCheckpointAnchor, Ticks
<1>6. RereadAnchor(s) /\ anchors[tick[s].head] # NoEntry =>
          /\ tick'[s].pc = "window" /\ tick'[s].entry = anchors[tick[s].head]
          /\ tick'[s].head = tick[s].head /\ tick'[s].now = tick[s].now
  BY <1>1 DEF RereadAnchor, Ticks
<1>7. AnchorCheckpoint(s) =>
          /\ tick'[s].pc = IF tick[s].pc = "submit" THEN "mark" ELSE "markNew"
          /\ tick'[s].entry = Len(log) + 1
          /\ tick'[s].head = tick[s].head /\ tick'[s].now = tick[s].now
  BY <1>1 DEF AnchorCheckpoint, Ticks
<1>8. CountSealedByProject(s) /\ ~(tick[s].now < IntervalEnd(s)) =>
          /\ tick'[s].pc = "leaves" /\ tick'[s].entry = tick[s].entry
          /\ tick'[s].head = tick[s].head /\ tick'[s].now = tick[s].now
          /\ tick'[s].todo = {p \in Projects : SealedInInterval(s, p) # {}}
  BY <1>1 DEF CountSealedByProject, Ticks
<1>9. InsertCheckpoint(s) /\ Insertable(s) =>
          /\ tick'[s].pc = "submitNew"
          /\ tick'[s].head = tick[s].head + 1 /\ tick'[s].now = tick[s].now
  BY <1>1 DEF InsertCheckpoint, Ticks
<1> QED BY <1>2, <1>3, <1>4, <1>5, <1>6, <1>7, <1>8, <1>9

LEMMA MovingTickIsGrounded ==
    ASSUME TypeOK, TypeOK', TicksAreGrounded, AnchorsAreLogged, Grows,
           NEW s \in Schedulers, Scheduler(s)
    PROVE  Grounded(s)'
<1>2. Grounded(s) BY DEF TicksAreGrounded, Grounded
<1>3. Rests(s) => Grounded(s)' BY RestsAreGrounded
<1>1. /\ TicksOK /\ DOMAIN tick = Schedulers /\ tick[s] \in Ticks
      /\ tick[s].now \in Nat /\ tick[s].head \in Nat /\ tick[s].entry \in Nat
      /\ clock \in Nat
      /\ DOMAIN checkpoints = 1..Len(checkpoints) /\ Len(checkpoints) \in Nat
      /\ DOMAIN log = 1..Len(log) /\ Len(log) \in Nat
      /\ DOMAIN anchors = DOMAIN checkpoints
  BY TickFields DEF TypeOK, TicksOK
<1>4. CASE Wake(s)
  <2>1. UNCHANGED <<clock, checkpoints>> BY <1>4 DEF Wake, chain
  <2> QED BY <1>1, <1>2, <1>4, <2>1, Moves DEF Grounded, At
<1>5. CASE SealExecutions(s)
  <2>1. UNCHANGED <<clock, checkpoints>> BY <1>5 DEF SealExecutions, chain
  <2> QED BY <1>1, <1>2, <1>5, <2>1, Moves DEF Grounded, At
<1>6. CASE LatestCheckpoint(s)
  <2>1. checkpoints # <<>> => Len(checkpoints) >= 1 BY EmptySeq DEF TypeOK, ChainOK, IsSequence
  <2>2. checkpoints = <<>> => Len(checkpoints) = 0 BY EmptySeq
  <2>3. UNCHANGED <<clock, checkpoints>> BY <1>6 DEF LatestCheckpoint, chain
  <2> QED BY <1>1, <1>2, <1>6, <2>1, <2>2, <2>3, Moves DEF Grounded, At
<1>7. CASE GetCheckpointAnchor(s)
  <2>1. At(s, {"anchorState"}) /\ UNCHANGED <<clock, checkpoints, anchors>>
    BY <1>7 DEF GetCheckpointAnchor, chain
  <2> QED BY <1>1, <1>2, <1>7, <2>1, Moves DEF Grounded, At
<1>8. CASE RereadAnchor(s)
  <2>1. At(s, {"reread"}) /\ UNCHANGED <<clock, checkpoints, anchors>>
    BY <1>8 DEF RereadAnchor, chain
  <2>2. CASE anchors[tick[s].head] # NoEntry
    BY <1>1, <1>2, <1>8, <2>1, <2>2, Moves DEF Grounded, At
  <2>3. CASE anchors[tick[s].head] = NoEntry
    BY <1>1, <1>3, <1>8, <2>3, EndTickRests DEF RereadAnchor
  <2> QED BY <2>2, <2>3
<1>9. CASE AnchorCheckpoint(s)
  <2>1. /\ At(s, {"submit", "submitNew"}) /\ UNCHANGED <<clock, checkpoints, anchors>>
        /\ log' = Append(log, CheckpointHash(checkpoints[tick[s].head]))
    BY <1>9 DEF AnchorCheckpoint, chain, Submit
  <2>2. Len(log) + 1 \in DOMAIN log' /\ log'[Len(log) + 1] = CheckpointHash(checkpoints[tick[s].head])
    BY <1>1, <2>1, AppendAddsLast DEF TypeOK
  <2>3. /\ tick'[s].pc \in {"mark", "markNew"} /\ tick'[s].entry = Len(log) + 1
        /\ tick'[s].head = tick[s].head /\ tick'[s].now = tick[s].now
    BY <1>9, Moves DEF At
  <2> QED BY <1>1, <1>2, <2>1, <2>2, <2>3 DEF Grounded, At
<1>10. CASE AnchorCheckpointFails(s) BY <1>1, <1>3, <1>10, AnchorFailedRests DEF AnchorCheckpointFails
<1>11. CASE MarkCheckpointAnchored(s)
  <2>1. CASE Rests(s) BY <1>3, <2>1
  <2>2. CASE Goto(s, "reread") /\ At(s, {"mark"})
    <3>1. tick'[s].pc = "reread" /\ tick'[s].head = tick[s].head /\ tick'[s].now = tick[s].now
      BY <1>1, <2>2 DEF Goto, Ticks
    <3>2. UNCHANGED <<clock, checkpoints>> BY <1>11 DEF MarkCheckpointAnchored
    <3> QED BY <1>1, <1>2, <2>2, <3>1, <3>2 DEF Grounded, At
  <2> QED BY <1>1, <1>11, <2>1, <2>2, NextIterationRests, AnchorFailedRests
          DEF MarkCheckpointAnchored
<1>12. CASE MarkFails(s) BY <1>1, <1>3, <1>12, AnchorFailedRests DEF MarkFails
<1>13. CASE CountSealedByProject(s)
  <2>1. CASE EndTick(s) BY <1>1, <1>3, <2>1, EndTickRests
  <2>2. CASE ~EndTick(s)
    <3>1. ~(tick[s].now < IntervalEnd(s)) /\ At(s, {"window"})
      BY <1>13, <2>2 DEF CountSealedByProject
    <3>2. /\ tick'[s].pc = "leaves" /\ tick'[s].now = tick[s].now
          /\ tick'[s].head = tick[s].head /\ tick'[s].entry = tick[s].entry
          /\ UNCHANGED <<clock, checkpoints, anchors, log>>
      BY <1>13, <3>1, Moves DEF CountSealedByProject, chain
    <3>3. IntervalEnd(s)' = IntervalEnd(s) BY <3>2 DEF IntervalEnd, IntervalStart, Truncate
    <3>4. IntervalEnd(s) \in Int BY <1>2, IntervalIsInt DEF Grounded
    <3> QED BY <1>1, <1>2, <3>1, <3>2, <3>3, <3>4 DEF Grounded, At
  <2> QED BY <2>1, <2>2
<1>14. CASE BuildLeaf(s)
  <2>1. CASE EndTick(s) BY <1>1, <1>3, <2>1, EndTickRests
  <2>2. CASE ~EndTick(s)
    <3>1. /\ tick'[s].pc = tick[s].pc /\ tick'[s].now = tick[s].now
          /\ tick'[s].head = tick[s].head /\ tick'[s].entry = tick[s].entry
          /\ UNCHANGED <<clock, checkpoints, anchors, log>>
      BY <1>1, <1>14, <2>2 DEF BuildLeaf, chain, Ticks
    <3>2. IntervalEnd(s)' = IntervalEnd(s) BY <3>1 DEF IntervalEnd, IntervalStart, Truncate
    <3> QED BY <1>1, <1>2, <3>1, <3>2 DEF Grounded, At
  <2> QED BY <2>1, <2>2
<1>15. CASE InsertCheckpoint(s)
  <2>1. CASE Insertable(s)
    <3>1. tick'[s].pc = "submitNew" /\ tick'[s].head = tick[s].head + 1 /\ tick'[s].now = tick[s].now
          /\ clock' = clock
      BY <1>15, <2>1, Moves DEF InsertCheckpoint
    <3>2. Len(checkpoints)' = tick[s].head + 1 BY <1>15, <2>1, Insertion
    <3> QED BY <1>1, <1>2, <3>1, <3>2 DEF Grounded, At
  <2>2. CASE ~Insertable(s) BY <1>1, <1>3, <1>15, <2>2, EndTickRests DEF InsertCheckpoint
  <2> QED BY <2>1, <2>2
<1>16. CASE Abort(s) BY <1>1, <1>3, <1>16, EndTickRests DEF Abort
<1> QED BY <1>4, <1>5, <1>6, <1>7, <1>8, <1>9, <1>10, <1>11, <1>12, <1>13, <1>14, <1>15, <1>16
        DEF Scheduler

LEMMA GroundedStep ==
    ASSUME TypeOK, TypeOK', TicksAreGrounded, AnchorsAreLogged, [Next]_vars
    PROVE  TicksAreGrounded'
<1>1. Grows BY Growth
<1>2. ASSUME UNCHANGED tick  PROVE \A z \in Schedulers : Grounded(z)'
  BY <1>1, <1>2, GrowsKeepsGrounded
<1>3. CASE Environment \/ UNCHANGED vars
  <2>1. UNCHANGED tick
    BY <1>3 DEF Environment, vars, ClockTick, HandleCreateExecution, HandleIngestEvents,
                HandleUpdateExecution, DeleteExecutionsOlderThan
  <2> QED BY <1>2, <2>1 DEF Grounded, TicksAreGrounded
<1>4. ASSUME NEW s \in Schedulers, Scheduler(s)  PROVE TicksAreGrounded'
  <2>1. \A z \in Schedulers \ {s} : Grounded(z)' BY <1>1, <1>4, Frame, GrowsKeepsGrounded DEF TypeOK
  <2>2. Grounded(s)' BY <1>1, <1>4, MovingTickIsGrounded
  <2> QED BY <2>1, <2>2 DEF Grounded, TicksAreGrounded
<1> QED BY <1>3, <1>4 DEF Next

-----------------------------------------------------------------------------
(* The table of checkpoints: its links, its anchors, its intervals. *)

Marks(s) == /\ At(s, {"mark", "markNew"}) /\ UNCHANGED <<checkpoints, log>>
            /\ anchors[tick[s].head] = NoEntry
            /\ anchors' = [anchors EXCEPT ![tick[s].head] = tick[s].entry]

LEMMA TableSteps ==
    ASSUME [Next]_vars
    PROVE  \/ UNCHANGED chain
           \/ \E s \in Schedulers : InsertCheckpoint(s) /\ Insertable(s)
           \/ \E s \in Schedulers : Marks(s)
<1>1. CASE Environment \/ UNCHANGED vars
  BY <1>1 DEF Environment, vars, ClockTick, HandleCreateExecution, HandleIngestEvents,
              HandleUpdateExecution, DeleteExecutionsOlderThan
<1>2. ASSUME NEW s \in Schedulers, Scheduler(s)
      PROVE  UNCHANGED chain \/ (InsertCheckpoint(s) /\ Insertable(s)) \/ Marks(s)
  BY <1>2, ChainSteps DEF Marks, MarkCheckpointAnchored
<1> QED BY <1>1, <1>2 DEF Next

\* What Grounded says of a scheduler that records an anchor.
LEMMA MarksAreGrounded ==
    ASSUME TypeOK, TicksAreGrounded, NEW s \in Schedulers, Marks(s)
    PROVE  /\ tick[s].head \in DOMAIN checkpoints /\ DOMAIN anchors = DOMAIN checkpoints
           /\ tick[s].entry \in DOMAIN log
           /\ log[tick[s].entry] = CheckpointHash(checkpoints[tick[s].head])
           /\ tick[s].entry # NoEntry
           /\ DOMAIN anchors' = DOMAIN anchors
           /\ anchors'[tick[s].head] = tick[s].entry
           /\ \A i \in DOMAIN anchors \ {tick[s].head} : anchors'[i] = anchors[i]
<1>1. Grounded(s) BY DEF TicksAreGrounded, Grounded
<1> QED BY <1>1, TickFields DEF Grounded, Marks, At, NoEntry

\* What Grounded says of a scheduler that inserts.
LEMMA InsertionIsGrounded ==
    ASSUME TypeOK, TicksAreGrounded, NEW s \in Schedulers, InsertCheckpoint(s), Insertable(s)
    PROVE  LET n == Len(checkpoints)
               c == BuildCheckpoint(s)
           IN  /\ tick[s].head = n /\ n \in Nat
               /\ n = 0 => /\ c.seq = 1 /\ c.prevHash = ZeroHash /\ c.prevEntry = NoEntry
               /\ n > 0 => /\ n \in DOMAIN checkpoints
                           /\ c.seq = n + 1 /\ c.prevHash = CheckpointHash(checkpoints[n])
                           /\ c.prevEntry = anchors[n] /\ anchors[n] # NoEntry
                           /\ c.start = checkpoints[n].end
                           /\ c.cumulative >= checkpoints[n].cumulative
               /\ c.start \in Int /\ c.end = c.start + CheckpointInterval
               /\ c.start = IntervalStart(s) /\ c.end = IntervalEnd(s)
               /\ c.start % CheckpointInterval = 0
               /\ c.end <= tick[s].now /\ c.end <= clock
               /\ c.leaves = leaves[s]
<1>1. Grounded(s) BY DEF TicksAreGrounded, Grounded
<1>2. tick[s].head = Len(checkpoints) /\ Len(checkpoints) \in Nat BY Insertion
<1>3. At(s, {"leaves"}) BY DEF InsertCheckpoint
<1>4. Added(leaves[s]) \in Nat BY AddedIsNat DEF TypeOK, TicksOK
<1>5. /\ IntervalStart(s) \in Int /\ IntervalEnd(s) \in Int
      /\ IntervalEnd(s) = IntervalStart(s) + CheckpointInterval
  BY <1>2, IntervalIsInt
<1>6. Len(checkpoints) > 0 => /\ Len(checkpoints) \in DOMAIN checkpoints
                              /\ checkpoints[Len(checkpoints)].cumulative \in Nat
  BY <1>2, TickFields DEF TypeOK, ChainOK, CheckpointOK
<1>7. tick[s].now \in Nat /\ clock \in Nat BY TickFields
<1> QED BY <1>1, <1>2, <1>3, <1>4, <1>5, <1>6, <1>7
        DEF Grounded, At, BuildCheckpoint, Insertable, IntervalStart

LEMMA AnchorsAreLoggedStep ==
    ASSUME TypeOK, TypeOK', TicksAreGrounded, AnchorsAreLogged, [Next]_vars
    PROVE  AnchorsAreLogged'
<1>1. Grows BY Growth
<1>2. CASE UNCHANGED chain BY <1>1, <1>2 DEF AnchorsAreLogged, Grows, chain
<1>3. ASSUME NEW s \in Schedulers, InsertCheckpoint(s), Insertable(s)  PROVE AnchorsAreLogged'
  BY <1>3, Insertion DEF AnchorsAreLogged
<1>4. ASSUME NEW s \in Schedulers, Marks(s)  PROVE AnchorsAreLogged'
  BY <1>4, MarksAreGrounded DEF AnchorsAreLogged, Marks
<1> QED BY <1>2, <1>3, <1>4, TableSteps

LEMMA OnlyHeadUnanchoredStep ==
    ASSUME TypeOK, TicksAreGrounded, OnlyHeadUnanchored, [Next]_vars
    PROVE  OnlyHeadUnanchored'
<1>1. CASE UNCHANGED chain BY <1>1 DEF OnlyHeadUnanchored, chain
<1>2. ASSUME NEW s \in Schedulers, InsertCheckpoint(s), Insertable(s)  PROVE OnlyHeadUnanchored'
  BY <1>2, Insertion, InsertionIsGrounded DEF OnlyHeadUnanchored
<1>3. ASSUME NEW s \in Schedulers, Marks(s)  PROVE OnlyHeadUnanchored'
  BY <1>3, MarksAreGrounded DEF OnlyHeadUnanchored, Marks
<1> QED BY <1>1, <1>2, <1>3, TableSteps

LEMMA RowsInOrderStep ==
    ASSUME TypeOK, TypeOK', TicksAreGrounded, ChainVerifies, RowsInOrder, [Next]_vars
    PROVE  RowsInOrder'
<1>1. Grows BY Growth
<1>2. \A i \in DOMAIN checkpoints : /\ checkpoints[i].start \in Int /\ checkpoints[i].end \in Int
                                    /\ checkpoints[i].start < checkpoints[i].end
  BY DEF TypeOK, ChainOK, CheckpointOK, ChainVerifies, VerifyChain
<1>3. clock \in Nat /\ clock' \in Nat BY DEF TypeOK
<1>4. CASE UNCHANGED checkpoints
  BY <1>1, <1>2, <1>3, <1>4 DEF RowsInOrder, Grows
<1>5. ASSUME NEW s \in Schedulers, InsertCheckpoint(s), Insertable(s)  PROVE RowsInOrder'
  <2>1. clock' = clock BY <1>5 DEF InsertCheckpoint
  <2> DEFINE n == Len(checkpoints)
             c == BuildCheckpoint(s)
  <2>2. /\ n \in Nat /\ DOMAIN checkpoints = 1..n /\ DOMAIN checkpoints' = 1..(n + 1)
        /\ \A i \in 1..n : checkpoints'[i] = checkpoints[i]
        /\ checkpoints'[n + 1] = c
    BY <1>5, Insertion
  <2>3. /\ c.seq = n + 1 /\ c.start \in Int /\ c.end \in Int /\ c.end <= clock
        /\ n > 0 => c.start = checkpoints[n].end
    BY <1>5, InsertionIsGrounded DEF BuildCheckpoint
  <2>4. ASSUME NEW i \in 1..n  PROVE checkpoints[i].end <= c.start
    <3>1. i \in DOMAIN checkpoints /\ n \in DOMAIN checkpoints /\ i \in Nat /\ n > 0 /\ i <= n
      BY <2>2
    <3>2. /\ checkpoints[i].end \in Int
          /\ checkpoints[n].start \in Int /\ checkpoints[n].end \in Int
          /\ checkpoints[n].start < checkpoints[n].end
      BY <1>2, <3>1
    <3>3. i < n => checkpoints[i].end <= checkpoints[n].start BY <3>1 DEF RowsInOrder
    <3> HIDE DEF n, c
    <3> QED BY <2>2, <2>3, <3>1, <3>2, <3>3
  <2> HIDE DEF c, n
  <2>5. \A i, j \in DOMAIN checkpoints' : i < j => checkpoints'[i].end <= checkpoints'[j].start
    BY <2>2, <2>4 DEF RowsInOrder
  <2>6. \A i \in DOMAIN checkpoints' : checkpoints'[i].end <= clock' /\ checkpoints'[i].seq = i
    BY <2>1, <2>2, <2>3 DEF RowsInOrder
  <2> QED BY <2>5, <2>6 DEF RowsInOrder
<1> QED BY <1>4, <1>5, TableSteps DEF chain, Marks

LEMMA ChainVerifiesStep ==
    ASSUME TypeOK, TypeOK', TicksAreGrounded, RowsInOrder, ChainVerifies, [Next]_vars
    PROVE  ChainVerifies'
<1>1. CASE UNCHANGED checkpoints BY <1>1 DEF ChainVerifies, VerifyChain, VerifyLink
<1>2. ASSUME NEW s \in Schedulers, InsertCheckpoint(s), Insertable(s)  PROVE ChainVerifies'
  <2> DEFINE n == Len(checkpoints)
             c == BuildCheckpoint(s)
  <2>1. \A i \in DOMAIN checkpoints' : /\ checkpoints'[i].end = checkpoints'[i].start + CheckpointInterval
                                       /\ checkpoints'[i].start % CheckpointInterval = 0
    BY <1>2, Insertion, InsertionIsGrounded DEF ChainVerifies, VerifyChain
  <2>2. checkpoints'[1].seq = 1 /\ checkpoints'[1].prevHash = ZeroHash /\ checkpoints'[1].prevEntry = NoEntry
    <3>1. CASE n = 0 BY <1>2, <3>1, Insertion, InsertionIsGrounded
    <3>2. CASE n > 0
      <4>1. 1 \in DOMAIN checkpoints /\ checkpoints # <<>> BY <1>2, <3>2, Insertion, EmptySeq
      <4> QED BY <1>2, <4>1, Insertion DEF ChainVerifies, VerifyChain
    <3> QED BY <1>2, <3>1, <3>2, Insertion
  <2>3. ASSUME NEW i \in DOMAIN checkpoints', i > 1
        PROVE  VerifyLink(checkpoints'[i - 1], checkpoints'[i])
    <3>1. CASE i = n + 1
      <4>1. n > 0 BY <1>2, <2>3, <3>1, Insertion
      <4>2. checkpoints[n].seq = n
        BY <1>2, <4>1, Insertion DEF RowsInOrder
      <4> QED BY <1>2, <3>1, <4>1, <4>2, Insertion, InsertionIsGrounded DEF VerifyLink
    <3>2. CASE i # n + 1
      BY <1>2, <2>3, <3>2, Insertion DEF ChainVerifies, VerifyChain
    <3> QED BY <3>1, <3>2
  <2> QED BY <2>1, <2>2, <2>3 DEF ChainVerifies, VerifyChain
<1> QED BY <1>1, <1>2, TableSteps DEF chain, Marks

LEMMA LinksReachTheLogStep ==
    ASSUME TypeOK, TypeOK', TicksAreGrounded, AnchorsAreLogged, ChainVerifies, LinksReachTheLog,
           [Next]_vars
    PROVE  LinksReachTheLog'
<1>1. Grows BY Growth
<1>2. DOMAIN checkpoints = 1..Len(checkpoints) /\ Len(checkpoints) \in Nat
  BY AppendAddsLast DEF TypeOK, ChainOK
<1>3. \A i \in DOMAIN checkpoints : i > 1 => /\ i - 1 \in DOMAIN checkpoints
                                             /\ checkpoints[i].prevEntry # NoEntry
  BY <1>2 DEF ChainVerifies, VerifyChain, VerifyLink
<1>4. CASE UNCHANGED checkpoints
  BY <1>1, <1>3, <1>4 DEF LinksReachTheLog, Grows
<1>5. ASSUME NEW s \in Schedulers, InsertCheckpoint(s), Insertable(s)  PROVE LinksReachTheLog'
  <2>1. ASSUME NEW i \in DOMAIN checkpoints, i > 1
        PROVE  /\ checkpoints'[i].prevEntry = anchors'[i - 1]
               /\ checkpoints'[i].prevEntry \in DOMAIN log'
               /\ log'[checkpoints'[i].prevEntry] = CheckpointHash(checkpoints'[i - 1])
    BY <1>3, <1>5, <2>1, Insertion DEF LinksReachTheLog
  <2>2. ASSUME Len(checkpoints) > 0
        PROVE  LET c == BuildCheckpoint(s)
               IN  /\ c.prevEntry = anchors'[Len(checkpoints)]
                   /\ c.prevEntry \in DOMAIN log'
                   /\ log'[c.prevEntry] = CheckpointHash(checkpoints'[Len(checkpoints)])
    BY <1>5, <2>2, Insertion, InsertionIsGrounded DEF AnchorsAreLogged
  <2> QED BY <1>2, <1>5, <2>1, <2>2, Insertion DEF LinksReachTheLog
<1> QED BY <1>4, <1>5, TableSteps DEF chain, Marks

-----------------------------------------------------------------------------
(* The leaves a tick builds. *)

\* The steps of a tick, as far as its leaves are concerned.
StartsLeaves(s) ==
    /\ At(s, {"window"}) /\ tick'[s].pc = "leaves"
    /\ tick'[s].head = tick[s].head /\ tick'[s].now = tick[s].now
    /\ tick'[s].todo = {p \in Projects : SealedInInterval(s, p) # {}}
    /\ UNCHANGED <<clock, store, chain, leaves>>

NextProject(s) == CHOOSE q \in tick[s].todo : TRUE
BuildsLeaf(s) ==
    LET p      == NextProject(s)
        sealed == SealedInInterval(s, p)
    IN  /\ At(s, {"leaves"}) /\ tick'[s].pc = "leaves"
        /\ tick'[s].head = tick[s].head /\ tick'[s].now = tick[s].now
        /\ p \in Projects
        /\ tick'[s].todo = tick[s].todo \ {p}
        /\ AddTenantLeaf(s, p, {<<e, events[e]>> : e \in sealed})
        /\ UNCHANGED <<clock, store, chain>>

KeepsLeaves(s) ==
    /\ tick'[s].pc # "leaves" /\ leaves' = leaves
    /\ ~At(s, {"idle"}) => tick'[s].now = tick[s].now
    /\ tick'[s].pc \notin {"submitNew", "markNew"}
           => ~At(s, {"leaves", "submitNew", "markNew"})

LEMMA LeafSteps ==
    ASSUME TypeOK, NEW s \in Schedulers, Scheduler(s)
    PROVE  Rests(s) \/ StartsLeaves(s) \/ BuildsLeaf(s) \/ KeepsLeaves(s)
<1>1. TicksOK /\ DOMAIN tick = Schedulers /\ tick[s] \in Ticks BY DEF TypeOK, TicksOK
<1>2. EndTick(s) \/ NextIteration(s) \/ AnchorFailed(s) => Rests(s)
  BY <1>1, EndTickRests, NextIterationRests, AnchorFailedRests
<1>3. CASE Wake(s) BY <1>3, Moves DEF Wake, KeepsLeaves, At
<1>4. CASE SealExecutions(s) BY <1>4, Moves DEF SealExecutions, KeepsLeaves, At
<1>5. CASE LatestCheckpoint(s)
  <2>1. tick'[s].pc \in {"window", "anchorState"} /\ tick'[s].now = tick[s].now BY <1>5, Moves
  <2> QED BY <1>5, <2>1 DEF LatestCheckpoint, KeepsLeaves, At
<1>6. CASE GetCheckpointAnchor(s)
  <2>1. tick'[s].pc \in {"window", "submit"} /\ tick'[s].now = tick[s].now BY <1>6, Moves
  <2> QED BY <1>6, <2>1 DEF GetCheckpointAnchor, KeepsLeaves, At
<1>7. CASE RereadAnchor(s)
  <2>1. CASE anchors[tick[s].head] # NoEntry
    <3>1. tick'[s].pc = "window" /\ tick'[s].now = tick[s].now BY <1>7, <2>1, Moves
    <3> QED BY <1>7, <2>1, <3>1 DEF RereadAnchor, KeepsLeaves, At
  <2>2. CASE anchors[tick[s].head] = NoEntry BY <1>2, <1>7, <2>2 DEF RereadAnchor
  <2> QED BY <2>1, <2>2
<1>8. CASE AnchorCheckpoint(s)
  <2>1. /\ tick'[s].pc = IF tick[s].pc = "submit" THEN "mark" ELSE "markNew"
        /\ tick'[s].now = tick[s].now
    BY <1>8, Moves
  <2> QED BY <1>8, <2>1 DEF AnchorCheckpoint, KeepsLeaves, At
<1>9. CASE AnchorCheckpointFails(s) BY <1>2, <1>9 DEF AnchorCheckpointFails
<1>10. CASE MarkCheckpointAnchored(s)
  <2>1. CASE Goto(s, "reread") /\ At(s, {"mark"}) /\ UNCHANGED leaves
    BY <1>1, <2>1 DEF Goto, KeepsLeaves, At, Ticks
  <2> QED BY <1>2, <1>10, <2>1 DEF MarkCheckpointAnchored
<1>11. CASE MarkFails(s) BY <1>2, <1>11 DEF MarkFails
<1>12. CASE CountSealedByProject(s)
  <2>1. CASE tick[s].now < IntervalEnd(s) BY <1>2, <1>12, <2>1 DEF CountSealedByProject
  <2>2. CASE ~(tick[s].now < IntervalEnd(s))
    BY <1>12, <2>2, Moves DEF CountSealedByProject, StartsLeaves
  <2> QED BY <2>1, <2>2
<1>13. CASE BuildLeaf(s)
  <2>1. CASE EndTick(s) BY <1>2, <2>1
  <2>2. CASE ~EndTick(s)
    <3>1. tick' = [tick EXCEPT ![s].todo = @ \ {NextProject(s)}]
      BY <1>13, <2>2 DEF BuildLeaf, NextProject
    <3>2. /\ tick'[s].pc = tick[s].pc /\ tick'[s].head = tick[s].head /\ tick'[s].now = tick[s].now
          /\ tick'[s].todo = tick[s].todo \ {NextProject(s)}
      BY <1>1, <3>1 DEF Ticks
    <3>3. NextProject(s) \in Projects
      BY <1>1, <1>13 DEF BuildLeaf, NextProject, Ticks
    <3> QED BY <1>13, <2>2, <3>2, <3>3 DEF BuildLeaf, BuildsLeaf, NextProject, At
  <2> QED BY <2>1, <2>2
<1>14. CASE InsertCheckpoint(s)
  <2>1. CASE Insertable(s) BY <1>14, <2>1, Moves DEF InsertCheckpoint, KeepsLeaves
  <2>2. CASE ~Insertable(s) BY <1>2, <1>14, <2>2 DEF InsertCheckpoint
  <2> QED BY <2>1, <2>2
<1>15. CASE Abort(s) BY <1>2, <1>15 DEF Abort
<1> QED BY <1>3, <1>4, <1>5, <1>6, <1>7, <1>8, <1>9, <1>10, <1>11, <1>12, <1>13, <1>14, <1>15
        DEF Scheduler

\* Steps that are not a scheduler's leave the ticks and the chain alone.
LEMMA Others ==
    ASSUME Environment \/ UNCHANGED vars
    PROVE  UNCHANGED <<chain, tick, leaves, log>>
BY DEF Environment, vars, ClockTick, HandleCreateExecution, HandleIngestEvents,
       HandleUpdateExecution, DeleteExecutionsOlderThan

LEMMA LeavesAreFreshStep ==
    ASSUME TypeOK, LeavesAreFresh, [Next]_vars
    PROVE  LeavesAreFresh'
<1>1. CASE Environment \/ UNCHANGED vars BY <1>1, Others DEF LeavesAreFresh, At
<1>2. ASSUME NEW s \in Schedulers, Scheduler(s)  PROVE LeavesAreFresh'
  <2>1. \A z \in Schedulers \ {s} : tick'[z] = tick[z] /\ leaves'[z] = leaves[z]
    BY <1>2, Frame DEF TypeOK
  <2>2. CASE Rests(s) BY <2>1, <2>2 DEF LeavesAreFresh, Rests, At
  <2>3. CASE StartsLeaves(s) \/ BuildsLeaf(s)
    BY <2>1, <2>3 DEF LeavesAreFresh, StartsLeaves, BuildsLeaf, At
  <2>4. CASE KeepsLeaves(s) BY <2>1, <2>4 DEF LeavesAreFresh, KeepsLeaves, At
  <2> QED BY <1>2, <2>2, <2>3, <2>4, LeafSteps
<1> QED BY <1>1, <1>2 DEF Next

\* A tick that is still in the race after a step was in it before, or has just
\* begun, and the table of checkpoints has not moved.
LEMMA StillRacing ==
    ASSUME TypeOK, TypeOK', TicksAreGrounded, NEW s \in Schedulers, Scheduler(s),
           NEW z \in Schedulers, Racing(z)'
    PROVE  /\ UNCHANGED checkpoints
           /\ tick[z].head = Len(checkpoints)
           /\ z # s => Racing(z) /\ leaves'[z] = leaves[z]
           /\ z = s => StartsLeaves(s) \/ (BuildsLeaf(s) /\ Racing(s))
<1>1. tick'[z].pc = "leaves" /\ tick'[z].head = Len(checkpoints') BY DEF Racing, At
<1>2. Grounded(z) /\ Grounded(s) BY DEF TicksAreGrounded, Grounded
<1>3. CASE z # s
  <2>1. tick'[z] = tick[z] /\ leaves'[z] = leaves[z] BY <1>3, <1>2, Frame DEF TypeOK
  <2>2. ~(InsertCheckpoint(s) /\ Insertable(s))
    BY <1>1, <1>2, <2>1, Insertion, TickFields DEF Grounded
  <2>3. UNCHANGED checkpoints BY <2>2, ChainSteps DEF chain
  <2> QED BY <1>1, <1>3, <2>1, <2>3 DEF Racing, At
<1>4. CASE z = s
  <2>1. StartsLeaves(s) \/ BuildsLeaf(s)
    BY <1>1, <1>4, LeafSteps DEF Rests, KeepsLeaves
  <2>2. UNCHANGED checkpoints /\ tick'[s].head = tick[s].head
    BY <2>1 DEF StartsLeaves, BuildsLeaf, chain
  <2>3. BuildsLeaf(s) => Racing(s) BY <1>1, <1>4, <2>2 DEF BuildsLeaf, Racing
  <2> QED BY <1>1, <1>4, <2>1, <2>2, <2>3
<1> QED BY <1>3, <1>4

LEMMA LeavesContinueStep ==
    ASSUME TypeOK, TypeOK', TicksAreGrounded, LeavesAreFresh, LeavesContinue, [Next]_vars
    PROVE  LeavesContinue'
<1>1. CASE Environment \/ UNCHANGED vars
  BY <1>1, Others DEF LeavesContinue, Racing, At, Continues, IsLatestLeaf, chain
<1>2. ASSUME NEW s \in Schedulers, Scheduler(s), NEW z \in Schedulers, Racing(z)',
             NEW p \in DOMAIN leaves'[z]
      PROVE  Continues(p, leaves[z][p])'
  <2>1. UNCHANGED checkpoints BY <1>2, StillRacing
  <2>2. SUFFICES Continues(p, leaves'[z][p]) BY <2>1 DEF Continues, IsLatestLeaf
  <2>3. CASE z # s BY <1>2, <2>3, StillRacing DEF LeavesContinue
  <2>4. CASE z = s /\ StartsLeaves(s)
    BY <1>2, <2>4 DEF StartsLeaves, LeavesAreFresh, At
  <2>5. CASE z = s /\ BuildsLeaf(s) /\ Racing(s)
    <3> DEFINE q == NextProject(s)
               root == {<<e, events[e]>> : e \in SealedInInterval(s, q)}
    <3>1. AddTenantLeaf(s, q, root) BY <2>5 DEF BuildsLeaf
    <3>2. p \in DOMAIN leaves[s] \ {q} \/ p = q
      BY <1>2, <2>5, <3>1, AddTenantLeafEffect DEF TypeOK
    <3>3. CASE p = q BY <2>5, <3>1, <3>3, AddTenantLeafEffect DEF TypeOK
    <3>4. CASE p \in DOMAIN leaves[s] \ {q}
      BY <2>5, <3>1, <3>4, AddTenantLeafEffect DEF TypeOK, LeavesContinue
    <3> QED BY <3>2, <3>3, <3>4
  <2> QED BY <1>2, <2>3, <2>4, <2>5, StillRacing
<1> QED BY <1>1, <1>2 DEF Next, LeavesContinue

LEMMA SubChainsVerifyStep ==
    ASSUME TypeOK, TypeOK', TicksAreGrounded, LeavesContinue, SubChainsVerify, [Next]_vars
    PROVE  SubChainsVerify'
<1>1. CASE UNCHANGED checkpoints
  BY <1>1 DEF SubChainsVerify, VerifyTenantSubChain, ConsecutiveLeaves
<1>2. ASSUME NEW s \in Schedulers, InsertCheckpoint(s), Insertable(s)  PROVE SubChainsVerify'
  <2> DEFINE n == Len(checkpoints)
  <2>1. /\ n \in Nat /\ DOMAIN checkpoints = 1..n /\ DOMAIN checkpoints' = 1..(n + 1)
        /\ \A i \in 1..n : checkpoints'[i] = checkpoints[i]
        /\ checkpoints'[n + 1].leaves = leaves[s]
    BY <1>2, Insertion, InsertionIsGrounded
  <2>2. Racing(s) BY <1>2, Insertion DEF InsertCheckpoint, Racing
  <2> HIDE DEF n
  <2>3. ASSUME NEW p \in Projects, NEW i \in DOMAIN checkpoints', NEW j \in DOMAIN checkpoints',
               ConsecutiveLeaves(i, j, p)'
        PROVE  /\ checkpoints'[j].leaves[p].prevHash = TenantLeafHash(checkpoints'[i].leaves[p])
               /\ checkpoints'[j].leaves[p].cumulative
                      = checkpoints'[i].leaves[p].cumulative + checkpoints'[j].leaves[p].count
    <3>1. i \in 1..n /\ i < j BY <2>1, <2>3 DEF ConsecutiveLeaves
    <3>2. CASE j \in 1..n
      <4>1. ConsecutiveLeaves(i, j, p) BY <2>1, <2>3, <3>1, <3>2 DEF ConsecutiveLeaves
      <4> QED BY <2>1, <3>1, <3>2, <4>1 DEF SubChainsVerify, VerifyTenantSubChain
    <3>3. CASE j = n + 1
      <4>1. p \in DOMAIN leaves[s] /\ IsLatestLeaf(i, p)
        BY <2>1, <2>3, <3>1, <3>3 DEF ConsecutiveLeaves, IsLatestLeaf
      <4>2. Continues(p, leaves[s][p]) BY <2>2, <4>1 DEF LeavesContinue
      <4> QED BY <2>1, <3>1, <3>3, <4>1, <4>2 DEF Continues
    <3> QED BY <2>1, <3>2, <3>3
  <2> QED BY <2>3 DEF SubChainsVerify, VerifyTenantSubChain
<1> QED BY <1>1, <1>2, TableSteps DEF chain, Marks

-----------------------------------------------------------------------------
(* Membership: an execution is in one leaf at most, that of the interval it *)
(* was sealed in. *)

\* What a step may do to a row: a seal is never moved, a row never comes back.
RowKept(e) ==
    /\ row[e] # "absent" => row'[e] # "absent"
    /\ row[e] # "absent" /\ row'[e] = "present" => row[e] = "present"
    /\ row'[e] = "present" /\ sealedAt[e] # NULL => sealedAt'[e] = sealedAt[e]
    /\ sealedAt'[e] # NULL \/ endedAt'[e] # NULL => row'[e] = "present"

LEMMA StoreSteps ==
    ASSUME TypeOK, BlankWithoutRow, [Next]_vars, NEW e \in Executions
    PROVE  RowKept(e)
<1>1. StoreOK /\ (sealedAt[e] # NULL \/ endedAt[e] # NULL => row[e] = "present")
  BY DEF TypeOK, BlankWithoutRow, Present
<1>2. CASE UNCHANGED <<row, endedAt, sealedAt>> BY <1>1, <1>2 DEF RowKept
<1>3. CASE Environment
  <2>1. CASE ClockTick BY <1>2, <2>1 DEF ClockTick, store
  <2>2. ASSUME NEW x \in Executions, HandleCreateExecution(x)  PROVE RowKept(e)
    BY <1>1, <2>2 DEF HandleCreateExecution, RowKept, StoreOK
  <2>3. ASSUME NEW x \in Executions, HandleIngestEvents(x) \/ HandleUpdateExecution(x)
        PROVE  RowKept(e)
    BY <1>1, <1>2, <2>3 DEF HandleIngestEvents, HandleUpdateExecution, RowKept, StoreOK, Present
  <2>4. ASSUME NEW p \in Projects, DeleteExecutionsOlderThan(p)  PROVE RowKept(e)
    BY <1>1, <2>4 DEF DeleteExecutionsOlderThan, RowKept, StoreOK
  <2> QED BY <1>3, <2>1, <2>2, <2>3, <2>4 DEF Environment
<1>4. ASSUME NEW s \in Schedulers, Scheduler(s)  PROVE RowKept(e)
  <2>1. CASE SealExecutions(s)
    BY <1>1, <2>1 DEF SealExecutions, Eligible, Present, RowKept, StoreOK
  <2>2. CASE ~SealExecutions(s)
    <3>1. UNCHANGED store
      BY <1>4, <2>2 DEF Scheduler, Wake, LatestCheckpoint, GetCheckpointAnchor, RereadAnchor,
           AnchorCheckpoint, AnchorCheckpointFails, MarkCheckpointAnchored, MarkFails,
           CountSealedByProject, BuildLeaf, InsertCheckpoint, Abort
    <3> QED BY <1>2, <3>1 DEF store
  <2> QED BY <2>1, <2>2
<1>5. CASE UNCHANGED vars BY <1>2, <1>5 DEF vars, store
<1> QED BY <1>3, <1>4, <1>5 DEF Next

\* The interval a tick works on does not change while it works on it.
LEMMA IntervalKept ==
    ASSUME TypeOK, TicksAreGrounded, Grows, NEW z \in Schedulers,
           tick'[z].head = tick[z].head, tick'[z].now = tick[z].now
    PROVE  IntervalStart(z)' = IntervalStart(z) /\ IntervalEnd(z)' = IntervalEnd(z)
<1>1. tick[z].head # 0 => /\ tick[z].head \in DOMAIN checkpoints
                          /\ checkpoints'[tick[z].head] = checkpoints[tick[z].head]
  BY TickFields DEF TicksAreGrounded, Grows
<1> QED BY <1>1 DEF IntervalEnd, IntervalStart, Truncate

\* A racing tick's interval comes after every interval of the chain.
LEMMA RacingIsAhead ==
    ASSUME TypeOK, RowsInOrder, ChainVerifies, NEW s \in Schedulers, Racing(s),
           NEW i \in DOMAIN checkpoints
    PROVE  checkpoints[i].end \in Int /\ IntervalStart(s) \in Int
           /\ checkpoints[i].end <= IntervalStart(s)
<1> DEFINE n == Len(checkpoints)
<1>1. n \in Nat /\ DOMAIN checkpoints = 1..n /\ n \in DOMAIN checkpoints /\ n > 0 /\ i <= n
  BY TickFields
<1>2. IntervalStart(s) = checkpoints[n].end BY <1>1 DEF Racing, IntervalStart
<1>3. /\ checkpoints[i].end \in Int /\ checkpoints[n].end \in Int /\ checkpoints[n].start \in Int
      /\ checkpoints[n].start < checkpoints[n].end
  BY <1>1 DEF TypeOK, ChainOK, CheckpointOK, ChainVerifies, VerifyChain
<1>4. i < n => checkpoints[i].end <= checkpoints[n].start BY <1>1 DEF RowsInOrder
<1> HIDE DEF n
<1> QED BY <1>1, <1>2, <1>3, <1>4

\* What building a leaf adds to the members of a tick's leaves.
LEMMA BuildsMembers ==
    ASSUME TypeOK, NEW s \in Schedulers, BuildsLeaf(s), NEW e \in Executions
    PROVE  /\ Holds(leaves'[s], e) =>
                  Holds(leaves[s], e) \/ e \in SealedInInterval(s, NextProject(s))
           /\ Holds(leaves[s], e) /\ ProjectOf[e] # NextProject(s) => Holds(leaves'[s], e)
           /\ e \in SealedInInterval(s, NextProject(s)) => Holds(leaves'[s], e)
<1> DEFINE p == NextProject(s)
           sealed == SealedInInterval(s, p)
           root == {<<x, events[x]>> : x \in sealed}
<1>1. AddTenantLeaf(s, p, root) BY DEF BuildsLeaf
<1>2. /\ DOMAIN leaves'[s] = DOMAIN leaves[s] \union {p}
      /\ \A q \in DOMAIN leaves[s] \ {p} : leaves'[s][q] = leaves[s][q]
      /\ leaves'[s][p].root = root
  BY <1>1, AddTenantLeafEffect DEF TypeOK
<1>3. Members(leaves'[s][p]) = sealed
  <2>1. \A x : <<x, events[x]>>[1] = x OBVIOUS
  <2>2. \A x : x \in sealed <=> \E d \in root : x = d[1] BY <2>1
  <2> HIDE DEF root, sealed, p
  <2> QED BY <1>2, <2>2 DEF Members
<1>4. \A x \in sealed : ProjectOf[x] = p BY DEF SealedInInterval
<1> HIDE DEF p, sealed, root
<1>5. Holds(leaves'[s], e) => Holds(leaves[s], e) \/ e \in sealed
  BY <1>2, <1>3 DEF Holds, Members
<1>6. Holds(leaves[s], e) /\ ProjectOf[e] # p => Holds(leaves'[s], e)
  BY <1>2 DEF Holds, Members
<1>7. e \in sealed => Holds(leaves'[s], e) BY <1>2, <1>3, <1>4 DEF Holds
<1> QED BY <1>5, <1>6, <1>7 DEF p, sealed

\* The two halves of MembersAreSealed, for one checkpoint and for one tick.
RowIsSealed(i, e) ==
    Covers(i, e) => /\ row[e] # "absent"
                    /\ Present(e) => SealedIn(e, checkpoints[i].start, checkpoints[i].end)
HeldIsSealed(s, e) ==
    At(s, {"leaves"}) /\ Holds(leaves[s], e) =>
        /\ row[e] # "absent"
        /\ Present(e) => SealedIn(e, IntervalStart(s), IntervalEnd(s))
        /\ Racing(s) => \A i \in DOMAIN checkpoints : ~Covers(i, e)

LEMMA RowIsSealedStep ==
    ASSUME TypeOK, TypeOK', TicksAreGrounded, BlankWithoutRow, MembersAreSealed, [Next]_vars,
           NEW e \in Executions, NEW i \in DOMAIN checkpoints'
    PROVE  RowIsSealed(i, e)'
<1>1. \A j \in DOMAIN checkpoints : RowIsSealed(j, e) BY DEF MembersAreSealed, RowIsSealed
<1>2. CASE i \in DOMAIN checkpoints /\ checkpoints'[i] = checkpoints[i]
  BY <1>1, <1>2, StoreSteps DEF RowKept, RowIsSealed, Covers, Present, SealedIn
<1>3. CASE UNCHANGED checkpoints BY <1>2, <1>3
<1>4. ASSUME NEW s \in Schedulers, InsertCheckpoint(s), Insertable(s), i \notin DOMAIN checkpoints
      PROVE  RowIsSealed(i, e)'
  <2>1. /\ i = Len(checkpoints) + 1 /\ checkpoints'[i] = BuildCheckpoint(s)
        /\ UNCHANGED store
    BY <1>4, Insertion
  <2>2. /\ checkpoints'[i].start = IntervalStart(s) /\ checkpoints'[i].end = IntervalEnd(s)
        /\ checkpoints'[i].leaves = leaves[s]
    BY <1>4, <2>1, InsertionIsGrounded
  <2>3. HeldIsSealed(s, e) BY DEF MembersAreSealed, HeldIsSealed
  <2>4. At(s, {"leaves"}) BY <1>4 DEF InsertCheckpoint
  <2> QED BY <2>1, <2>2, <2>3, <2>4
          DEF RowIsSealed, HeldIsSealed, Covers, Holds, Present, SealedIn, store, Members
<1> QED BY <1>2, <1>3, <1>4, Growth, TableSteps DEF Grows, chain, Marks

LEMMA HeldIsSealedStep ==
    ASSUME TypeOK, TypeOK', TicksAreGrounded, RowsInOrder, ChainVerifies, LeavesAreFresh,
           BlankWithoutRow, MembersAreSealed, [Next]_vars,
           NEW e \in Executions, NEW z \in Schedulers
    PROVE  HeldIsSealed(z, e)'
<1>1. Grows BY Growth
<1>2. HeldIsSealed(z, e) BY DEF MembersAreSealed, HeldIsSealed
<1>3. ASSUME tick'[z] = tick[z], leaves'[z] = leaves[z],
             Racing(z)' => Racing(z) /\ UNCHANGED checkpoints
      PROVE  HeldIsSealed(z, e)'
  <2>1. IntervalStart(z)' = IntervalStart(z) /\ IntervalEnd(z)' = IntervalEnd(z)
    BY <1>1, <1>3, IntervalKept
  <2> QED BY <1>2, <1>3, <2>1, StoreSteps DEF RowKept, HeldIsSealed, At, Present, SealedIn, Covers
<1>4. CASE Environment \/ UNCHANGED vars
  <2>1. UNCHANGED <<tick, leaves, checkpoints>> BY <1>4, Others DEF chain
  <2> QED BY <1>3, <2>1 DEF Racing, At
<1>5. ASSUME NEW s \in Schedulers, Scheduler(s), z # s  PROVE HeldIsSealed(z, e)'
  BY <1>3, <1>5, Frame, StillRacing DEF TypeOK
<1>6. ASSUME Scheduler(z)  PROVE HeldIsSealed(z, e)'
  <2>1. CASE Rests(z) \/ KeepsLeaves(z) BY <2>1 DEF Rests, KeepsLeaves, HeldIsSealed, At
  <2>2. CASE StartsLeaves(z)
    <3>1. leaves'[z] = <<>> BY <2>2 DEF StartsLeaves, LeavesAreFresh, At
    <3> QED BY <3>1 DEF HeldIsSealed, Holds
  <2>3. CASE BuildsLeaf(z)
    <3>1. IntervalStart(z)' = IntervalStart(z) /\ IntervalEnd(z)' = IntervalEnd(z)
      BY <1>1, <2>3, IntervalKept DEF BuildsLeaf
    <3>2. UNCHANGED <<store, checkpoints>> /\ (Racing(z)' => Racing(z))
      BY <2>3 DEF BuildsLeaf, chain, Racing, At
    <3>3. CASE Holds(leaves[z], e)
      BY <1>2, <2>3, <3>1, <3>2, <3>3
         DEF HeldIsSealed, BuildsLeaf, At, Present, SealedIn, Covers, store
    <3>4. CASE e \in SealedInInterval(z, NextProject(z))
      <4>1. SealedIn(e, IntervalStart(z), IntervalEnd(z)) /\ Present(e)
        BY <3>4 DEF SealedInInterval, BlankWithoutRow, SealedIn
      <4>2. ASSUME Racing(z), NEW i \in DOMAIN checkpoints, Covers(i, e)  PROVE FALSE
        <5>1. SealedIn(e, checkpoints[i].start, checkpoints[i].end)
          BY <4>1, <4>2 DEF MembersAreSealed
        <5>2. sealedAt[e] \in Int BY <5>1 DEF TypeOK, StoreOK, NULL
        <5> QED BY <4>1, <4>2, <5>1, <5>2, RacingIsAhead DEF SealedIn
      <4> QED BY <3>1, <3>2, <4>1, <4>2 DEF HeldIsSealed, Present, SealedIn, Covers, store
    <3> QED BY <2>3, <3>3, <3>4, BuildsMembers DEF HeldIsSealed
  <2> QED BY <1>6, <2>1, <2>2, <2>3, LeafSteps
<1> QED BY <1>4, <1>5, <1>6 DEF Next

LEMMA MembersAreSealedStep ==
    ASSUME TypeOK, TypeOK', TicksAreGrounded, RowsInOrder, ChainVerifies, LeavesAreFresh,
           BlankWithoutRow, MembersAreSealed, [Next]_vars
    PROVE  MembersAreSealed' /\ BlankWithoutRow'
<1>1. \A e \in Executions, i \in DOMAIN checkpoints' : RowIsSealed(i, e)' BY RowIsSealedStep
<1>2. \A e \in Executions, z \in Schedulers : HeldIsSealed(z, e)' BY HeldIsSealedStep
<1>3. BlankWithoutRow' BY StoreSteps DEF RowKept, BlankWithoutRow, Present
<1> QED BY <1>1, <1>2, <1>3 DEF MembersAreSealed, RowIsSealed, HeldIsSealed

LEMMA ChainedAtMostOnceStep ==
    ASSUME TypeOK, TypeOK', TicksAreGrounded, MembersAreSealed, ChainedAtMostOnce, [Next]_vars
    PROVE  ChainedAtMostOnce'
<1>1. CASE UNCHANGED checkpoints BY <1>1 DEF ChainedAtMostOnce, Covers
<1>2. ASSUME NEW s \in Schedulers, InsertCheckpoint(s), Insertable(s)  PROVE ChainedAtMostOnce'
  <2>0. PICK n : n = Len(checkpoints) OBVIOUS
  <2>1. /\ DOMAIN checkpoints = 1..n /\ DOMAIN checkpoints' = 1..(n + 1) /\ n \in Nat
        /\ \A i \in DOMAIN checkpoints : checkpoints'[i] = checkpoints[i]
        /\ checkpoints'[n + 1].leaves = leaves[s]
    BY <1>2, <2>0, Insertion, InsertionIsGrounded
  <2>2. Racing(s) /\ At(s, {"leaves"}) BY <1>2, Insertion DEF InsertCheckpoint, Racing
  <2>3. \A e \in Executions : Covers(n + 1, e)' => \A i \in DOMAIN checkpoints : ~Covers(i, e)
    BY <2>0, <2>1, <2>2 DEF MembersAreSealed, Covers, Holds, Members
  <2>4. \A e \in Executions, i \in DOMAIN checkpoints : Covers(i, e)' => Covers(i, e)
    BY <2>1 DEF Covers, Members
  <2> QED BY <2>1, <2>3, <2>4 DEF ChainedAtMostOnce
<1> QED BY <1>1, <1>2, TableSteps DEF chain, Marks

-----------------------------------------------------------------------------
(* No omission: nothing can be sealed into an interval that is closed. *)

\* A step brings forward nothing that may still be sealed: an execution gets
\* ripe when it was going to, or not before the clock.
LEMMA RipensLater ==
    ASSUME TypeOK, BlankWithoutRow, PromptClients, [Next]_vars, NEW e \in Executions,
           row'[e] = "present", sealedAt'[e] = NULL
    PROVE  \/ Present(e) /\ sealedAt[e] = NULL /\ RipeAt(e)' = RipeAt(e)
           \/ RipeAt(e)' \in Int /\ RipeAt(e)' >= clock
<1> USE DEF Present, RipeAt
<1>1. StoreOK /\ clock \in Nat BY DEF TypeOK
<1>2. row[e] = "present" => sealedAt[e] = NULL BY StoreSteps DEF RowKept
<1>3. CASE row' = row /\ startedAt' = startedAt /\ endedAt' = endedAt BY <1>2, <1>3
<1>4. CASE Environment
  <2>1. CASE ClockTick BY <1>3, <2>1 DEF ClockTick, store
  <2>2. ASSUME NEW x \in Executions, HandleCreateExecution(x)
        PROVE  \/ row[e] = "present" /\ sealedAt[e] = NULL /\ RipeAt(e)' = RipeAt(e)
               \/ RipeAt(e)' \in Int /\ RipeAt(e)' >= clock
    <3>1. CASE x = e
      <4>1. endedAt'[e] = NULL BY <2>2, <3>1 DEF HandleCreateExecution, BlankWithoutRow
      <4>2. startedAt'[e] \in Nat /\ clock - startedAt'[e] <= ClientSkew
        BY <1>1, <2>2, <3>1 DEF HandleCreateExecution, ClientTimes, StoreOK
      <4> QED BY <1>1, <4>1, <4>2 DEF PromptClients
    <3>2. CASE x # e BY <1>1, <1>2, <2>2, <3>2 DEF HandleCreateExecution, StoreOK
    <3> QED BY <3>1, <3>2
  <2>3. ASSUME NEW x \in Executions, HandleIngestEvents(x)
        PROVE  row[e] = "present" /\ sealedAt[e] = NULL /\ RipeAt(e)' = RipeAt(e)
    BY <1>2, <2>3 DEF HandleIngestEvents
  <2>4. ASSUME NEW x \in Executions, HandleUpdateExecution(x)
        PROVE  \/ row[e] = "present" /\ sealedAt[e] = NULL /\ RipeAt(e)' = RipeAt(e)
               \/ RipeAt(e)' \in Int /\ RipeAt(e)' >= clock
    <3>1. CASE x = e
      <4>1. endedAt'[e] \in Nat /\ clock - endedAt'[e] <= ClientSkew
        BY <1>1, <2>4, <3>1 DEF HandleUpdateExecution, ClientTimes, StoreOK
      <4> QED BY <1>1, <4>1 DEF PromptClients, NULL
    <3>2. CASE x # e BY <1>1, <1>2, <2>4, <3>2 DEF HandleUpdateExecution, StoreOK
    <3> QED BY <3>1, <3>2
  <2>5. ASSUME NEW p \in Projects, DeleteExecutionsOlderThan(p)
        PROVE  row[e] = "present" /\ sealedAt[e] = NULL /\ RipeAt(e)' = RipeAt(e)
    BY <1>1, <1>2, <2>5 DEF DeleteExecutionsOlderThan, StoreOK
  <2> QED BY <1>4, <2>1, <2>2, <2>3, <2>4, <2>5 DEF Environment
<1>5. ASSUME NEW s \in Schedulers, Scheduler(s)
      PROVE  row' = row /\ startedAt' = startedAt /\ endedAt' = endedAt
  BY <1>5 DEF Scheduler, store, Wake, SealExecutions, LatestCheckpoint, GetCheckpointAnchor,
       RereadAnchor, AnchorCheckpoint, AnchorCheckpointFails, MarkCheckpointAnchored, MarkFails,
       CountSealedByProject, BuildLeaf, InsertCheckpoint, Abort
<1>6. CASE UNCHANGED vars BY <1>3, <1>6 DEF vars, store
<1> QED BY <1>3, <1>4, <1>5, <1>6 DEF Next

\* A new seal is not earlier than the instant the execution got ripe.
LEMMA NewSeals ==
    ASSUME TypeOK, [Next]_vars, NEW e \in Executions,
           sealedAt'[e] # NULL, sealedAt'[e] # sealedAt[e]
    PROVE  Present(e) /\ sealedAt[e] = NULL /\ sealedAt'[e] \in Nat
           /\ RipeAt(e) \in Int /\ RipeAt(e) <= sealedAt'[e]
<1>1. StoreOK BY DEF TypeOK
<1>2. ~(Environment \/ UNCHANGED vars)
  BY <1>1 DEF Environment, vars, store, ClockTick, HandleCreateExecution, HandleIngestEvents,
              HandleUpdateExecution, DeleteExecutionsOlderThan, StoreOK
<1>3. ASSUME NEW s \in Schedulers, Scheduler(s)
      PROVE  Present(e) /\ sealedAt[e] = NULL /\ sealedAt'[e] \in Nat
             /\ RipeAt(e) \in Int /\ RipeAt(e) <= sealedAt'[e]
  <2>1. SealExecutions(s)
    BY <1>3 DEF Scheduler, store, Wake, LatestCheckpoint, GetCheckpointAnchor,
       RereadAnchor, AnchorCheckpoint, AnchorCheckpointFails, MarkCheckpointAnchored, MarkFails,
       CountSealedByProject, BuildLeaf, InsertCheckpoint, Abort
  <2>2. Eligible(e, tick[s].now) /\ sealedAt'[e] = tick[s].now
    BY <2>1 DEF SealExecutions
  <2>3. tick[s].now \in Nat BY TickFields
  <2> QED BY <1>1, <2>2, <2>3 DEF Eligible, RipeAt, StoreOK, NULL
<1> QED BY <1>2, <1>3 DEF Next

\* A tick gets past its seal by sealing, and keeps its instant from then on.
LEMMA PastSealSteps ==
    ASSUME TypeOK, NEW s \in Schedulers, Scheduler(s), At(s, PastSeal)'
    PROVE  SealExecutions(s) \/ (At(s, PastSeal) /\ tick'[s].now \in {0, tick[s].now})
<1>1. TicksOK BY DEF TypeOK
<1>2. CASE At(s, {"idle"})
  <2>1. Wake(s)
    BY <1>2, <1>1 DEF At, Scheduler, SealExecutions, LatestCheckpoint, GetCheckpointAnchor,
       RereadAnchor, AnchorCheckpoint, AnchorCheckpointFails, MarkCheckpointAnchored, MarkFails,
       CountSealedByProject, BuildLeaf, InsertCheckpoint, Abort
  <2> QED BY <2>1, Moves DEF At, PastSeal
<1>3. CASE At(s, {"seal"})
  <2>1. SealExecutions(s) \/ Abort(s)
    BY <1>3, <1>1 DEF At, Scheduler, Wake, LatestCheckpoint, GetCheckpointAnchor,
       RereadAnchor, AnchorCheckpoint, AnchorCheckpointFails, MarkCheckpointAnchored, MarkFails,
       CountSealedByProject, BuildLeaf, InsertCheckpoint
  <2> QED BY <1>1, <2>1, EndTickRests DEF Abort, At, PastSeal
<1>4. CASE ~At(s, {"idle", "seal"})
  <2>1. At(s, PastSeal) BY <1>4, TickFields DEF At, PastSeal, Locations
  <2>2. tick'[s].now \in {0, tick[s].now}
    BY <1>4, LeafSteps DEF Rests, StartsLeaves, BuildsLeaf, KeepsLeaves, At
  <2> QED BY <2>1, <2>2
<1> QED BY <1>2, <1>3, <1>4 DEF At

LEMMA NothingRipensInThePastStep ==
    ASSUME TypeOK, TypeOK', TicksAreGrounded, TicksAreGrounded', RowsInOrder, BlankWithoutRow,
           PromptClients, NothingRipensInThePast, [Next]_vars
    PROVE  NothingRipensInThePast'
<1>1. SUFFICES ASSUME NEW e \in Executions, row'[e] = "present", sealedAt'[e] = NULL
               PROVE  /\ \A i \in DOMAIN checkpoints' : checkpoints'[i].end <= RipeAt(e)'
                      /\ \A z \in Schedulers : At(z, PastSeal)' => tick'[z].now <= RipeAt(e)'
  BY DEF NothingRipensInThePast, Present
<1>2. \/ Present(e) /\ sealedAt[e] = NULL /\ RipeAt(e)' = RipeAt(e)
      \/ RipeAt(e)' \in Int /\ RipeAt(e)' >= clock
  BY <1>1, RipensLater
<1>3. RipeAt(e)' \in Int /\ 0 <= RipeAt(e)'
  BY DEF TypeOK, StoreOK, RipeAt, NULL
<1>4. \A i \in DOMAIN checkpoints : checkpoints[i].end <= RipeAt(e)'
  <2>1. \A i \in DOMAIN checkpoints : checkpoints[i].end \in Int /\ checkpoints[i].end <= clock
    BY DEF TypeOK, ChainOK, CheckpointOK, RowsInOrder
  <2>2. clock \in Nat BY DEF TypeOK
  <2> QED BY <1>2, <1>3, <2>1, <2>2 DEF NothingRipensInThePast
<1>5. \A z \in Schedulers : At(z, PastSeal) => tick[z].now <= RipeAt(e)'
  BY <1>2, <1>3, TickFields DEF NothingRipensInThePast, TicksAreGrounded
<1>6. CASE Environment \/ UNCHANGED vars
  BY <1>4, <1>5, <1>6, Others DEF chain, At
<1>7. ASSUME NEW s \in Schedulers, Scheduler(s)
      PROVE  /\ \A i \in DOMAIN checkpoints' : checkpoints'[i].end <= RipeAt(e)'
             /\ \A z \in Schedulers : At(z, PastSeal)' => tick'[z].now <= RipeAt(e)'
  <2>1. \A i \in DOMAIN checkpoints' : checkpoints'[i].end <= RipeAt(e)'
    <3>1. CASE UNCHANGED checkpoints BY <1>4, <3>1
    <3>2. CASE InsertCheckpoint(s) /\ Insertable(s)
      <4>1. /\ \A i \in DOMAIN checkpoints' : \/ i \in DOMAIN checkpoints
                                              \/ i = Len(checkpoints) + 1
            /\ \A i \in DOMAIN checkpoints : checkpoints'[i] = checkpoints[i]
            /\ checkpoints'[Len(checkpoints) + 1].end <= tick[s].now
            /\ checkpoints'[Len(checkpoints) + 1].end \in Int
        BY <3>2, Insertion, InsertionIsGrounded
      <4>2. tick[s].now <= RipeAt(e)' /\ tick[s].now \in Nat
        BY <1>5, <3>2, TickFields DEF InsertCheckpoint, At, PastSeal
      <4> QED BY <1>3, <1>4, <4>1, <4>2
    <3> QED BY <1>7, <3>1, <3>2, ChainSteps DEF chain
  <2>2. ASSUME NEW z \in Schedulers, At(z, PastSeal)'  PROVE tick'[z].now <= RipeAt(e)'
    <3>1. CASE z # s BY <1>5, <1>7, <2>2, <3>1, Frame DEF TypeOK, At
    <3>2. CASE z = s /\ SealExecutions(s)
      <4>1. ~Eligible(e, tick[s].now) /\ row[e] = "present" /\ sealedAt[e] = NULL
        <5>1. sealedAt'[e] = IF Eligible(e, tick[s].now) THEN tick[s].now ELSE sealedAt[e]
          BY <3>2 DEF SealExecutions
        <5>2. tick[s].now # NULL BY TickFields DEF NULL
        <5>3. row' = row BY <3>2 DEF SealExecutions
        <5> QED BY <1>1, <5>1, <5>2, <5>3
      <4>2. tick'[s].now = tick[s].now /\ tick[s].now \in Nat BY <3>2, Moves, TickFields
      <4>3. RipeAt(e)' = RipeAt(e) BY <3>2 DEF SealExecutions, RipeAt
      <4> QED BY <3>2, <4>1, <4>2, <4>3 DEF Eligible, RipeAt, Present, TypeOK, StoreOK, NULL
    <3>3. CASE z = s /\ ~SealExecutions(s)
      BY <1>3, <1>5, <1>7, <2>2, <3>3, PastSealSteps
    <3> QED BY <3>1, <3>2, <3>3
  <2> QED BY <2>1, <2>2
<1> QED BY <1>6, <1>7 DEF Next

LEMMA LeavesAreCompleteStep ==
    ASSUME TypeOK, TypeOK', TicksAreGrounded, TicksAreGrounded', LeavesAreFresh,
           NothingRipensInThePast, LeavesAreComplete, [Next]_vars
    PROVE  LeavesAreComplete'
<1>1. Grows BY Growth
<1>2. SUFFICES ASSUME NEW z \in Schedulers, NEW e \in Executions, tick'[z].pc = "leaves",
                      SealedIn(e, IntervalStart(z), IntervalEnd(z))'
               PROVE  ProjectOf[e] \in tick'[z].todo \/ Holds(leaves'[z], e)
  BY DEF LeavesAreComplete, At, Holds, Members
<1>3. \* An interval that a tick has started on gets no new seal.
      ASSUME At(z, {"leaves"}), tick'[z].head = tick[z].head, tick'[z].now = tick[z].now
      PROVE  SealedIn(e, IntervalStart(z), IntervalEnd(z))
  <2>1. IntervalStart(z)' = IntervalStart(z) /\ IntervalEnd(z)' = IntervalEnd(z)
    BY <1>1, <1>3, IntervalKept
  <2>2. ASSUME sealedAt'[e] # sealedAt[e]  PROVE FALSE
    <3>1. /\ Present(e) /\ sealedAt[e] = NULL /\ sealedAt'[e] \in Nat
          /\ RipeAt(e) \in Int /\ RipeAt(e) <= sealedAt'[e]
      BY <1>2, <2>2, NewSeals DEF SealedIn
    <3>2. tick[z].now <= RipeAt(e) /\ tick[z].now \in Nat
      BY <1>3, <3>1, TickFields DEF NothingRipensInThePast, At, PastSeal
    <3>3. IntervalEnd(z) <= tick[z].now /\ IntervalEnd(z) \in Int
      BY <1>3, IntervalIsInt DEF TicksAreGrounded
    <3>4. sealedAt'[e] < IntervalEnd(z) BY <1>2, <2>1 DEF SealedIn
    <3> QED BY <3>1, <3>2, <3>3, <3>4
  <2> QED BY <1>2, <2>1, <2>2 DEF SealedIn
<1>4. ASSUME tick'[z] = tick[z], leaves'[z] = leaves[z]
      PROVE  ProjectOf[e] \in tick'[z].todo \/ Holds(leaves'[z], e)
  BY <1>2, <1>3, <1>4 DEF LeavesAreComplete, At
<1>5. CASE Environment \/ UNCHANGED vars BY <1>4, <1>5, Others
<1>6. ASSUME NEW s \in Schedulers, Scheduler(s), z # s
      PROVE  ProjectOf[e] \in tick'[z].todo \/ Holds(leaves'[z], e)
  BY <1>4, <1>6, Frame DEF TypeOK
<1>7. ASSUME Scheduler(z)  PROVE ProjectOf[e] \in tick'[z].todo \/ Holds(leaves'[z], e)
  <2>1. CASE StartsLeaves(z)
    <3>1. IntervalStart(z)' = IntervalStart(z) /\ IntervalEnd(z)' = IntervalEnd(z)
      BY <1>1, <2>1, IntervalKept DEF StartsLeaves
    <3>2. SealedIn(e, IntervalStart(z), IntervalEnd(z))
      BY <1>2, <2>1, <3>1 DEF StartsLeaves, SealedIn, store
    <3> QED BY <2>1, <3>2 DEF StartsLeaves, SealedInInterval
  <2>2. CASE BuildsLeaf(z)
    <3>1. SealedIn(e, IntervalStart(z), IntervalEnd(z)) BY <1>3, <2>2 DEF BuildsLeaf
    <3>2. ProjectOf[e] \in tick[z].todo \/ Holds(leaves[z], e)
      BY <2>2, <3>1 DEF LeavesAreComplete, BuildsLeaf
    <3>3. ProjectOf[e] = NextProject(z) => e \in SealedInInterval(z, NextProject(z))
      BY <3>1 DEF SealedInInterval
    <3> QED BY <2>2, <3>2, <3>3, BuildsMembers DEF BuildsLeaf
  <2> QED BY <1>2, <1>7, <2>1, <2>2, LeafSteps DEF Rests, KeepsLeaves
<1> QED BY <1>5, <1>6, <1>7 DEF Next

LEMMA NoOmissionStep ==
    ASSUME TypeOK, TypeOK', TicksAreGrounded, NothingRipensInThePast, LeavesAreComplete,
           NoOmission, [Next]_vars
    PROVE  NoOmission'
<1>1. SUFFICES ASSUME NEW e \in Executions, NEW i \in DOMAIN checkpoints',
                      SealedIn(e, checkpoints[i].start, checkpoints[i].end)'
               PROVE  Covers(i, e)'
  BY DEF NoOmission
<1>2. CASE i \in DOMAIN checkpoints /\ checkpoints'[i] = checkpoints[i]
  <2>1. ASSUME sealedAt'[e] # sealedAt[e]  PROVE FALSE
    <3>1. /\ Present(e) /\ sealedAt[e] = NULL /\ sealedAt'[e] \in Nat
          /\ RipeAt(e) \in Int /\ RipeAt(e) <= sealedAt'[e]
      BY <1>1, <2>1, NewSeals DEF SealedIn
    <3>2. checkpoints[i].end <= RipeAt(e) /\ checkpoints[i].end \in Int
      BY <1>2, <3>1 DEF NothingRipensInThePast, TypeOK, ChainOK, CheckpointOK
    <3>3. sealedAt'[e] < checkpoints[i].end BY <1>1, <1>2 DEF SealedIn
    <3> QED BY <3>1, <3>2, <3>3
  <2>2. Covers(i, e) BY <1>1, <1>2, <2>1 DEF NoOmission, SealedIn
  <2> QED BY <1>2, <2>2 DEF Covers, Members
<1>3. CASE UNCHANGED checkpoints BY <1>1, <1>2, <1>3
<1>4. ASSUME NEW s \in Schedulers, InsertCheckpoint(s), Insertable(s), i \notin DOMAIN checkpoints
      PROVE  Covers(i, e)'
  <2>1. i = Len(checkpoints) + 1 /\ checkpoints'[i] = BuildCheckpoint(s) /\ UNCHANGED store
    BY <1>4, Insertion
  <2>2. /\ checkpoints'[i].start = IntervalStart(s) /\ checkpoints'[i].end = IntervalEnd(s)
        /\ checkpoints'[i].leaves = leaves[s]
    BY <1>4, <2>1, InsertionIsGrounded
  <2>3. SealedIn(e, IntervalStart(s), IntervalEnd(s))
    BY <1>1, <2>1, <2>2 DEF SealedIn, store
  <2>4. At(s, {"leaves"}) /\ tick[s].todo = {} BY <1>4 DEF InsertCheckpoint
  <2>5. Holds(leaves[s], e) BY <2>3, <2>4 DEF LeavesAreComplete
  <2> QED BY <2>2, <2>5 DEF Covers, Holds, Members
<1> QED BY <1>2, <1>3, <1>4, Growth, TableSteps DEF Grows, chain, Marks

-----------------------------------------------------------------------------
(* The theorems. *)

LEMMA InitChainInv ==
    ASSUME Init  PROVE ChainInv /\ OmissionInv
<1> USE DEF Init, Idle, At
<1>1. TypeOK
  <2>1. clock \in Nat /\ StoreOK BY DEF StoreOK
  <2>2. IsSequence(checkpoints) /\ IsSequence(log) /\ anchors \in Seq(Entries)
    BY EmptySeq DEF IsSequence
  <2>3. ChainOK BY <2>2, EmptySeq DEF ChainOK
  <2>4. TicksOK BY DEF TicksOK, Ticks, Locations, Entries, NoEntry, LeavesOK
  <2> QED BY <2>1, <2>2, <2>3, <2>4 DEF TypeOK
<1>2. Len(checkpoints) = 0 /\ DOMAIN checkpoints = {} /\ DOMAIN anchors = {}
  BY EmptySeq
<1>3. TicksAreGrounded BY <1>2 DEF TicksAreGrounded
<1>4. AnchorsAreLogged /\ OnlyHeadUnanchored /\ RowsInOrder /\ ChainVerifies
  BY <1>2 DEF AnchorsAreLogged, OnlyHeadUnanchored, RowsInOrder, ChainVerifies, VerifyChain
<1>5. LeavesAreFresh /\ LeavesContinue BY DEF LeavesAreFresh, LeavesContinue, Racing
<1>6. BlankWithoutRow /\ MembersAreSealed
  BY <1>2 DEF BlankWithoutRow, MembersAreSealed, Present
<1>7. SubChainsVerify /\ LinksReachTheLog /\ ChainedAtMostOnce
  BY <1>2 DEF SubChainsVerify, VerifyTenantSubChain, LinksReachTheLog, ChainedAtMostOnce
<1>8. OmissionInv
  BY <1>2 DEF OmissionInv, NothingRipensInThePast, LeavesAreComplete, NoOmission, Present
<1> QED BY <1>1, <1>3, <1>4, <1>5, <1>6, <1>7, <1>8 DEF ChainInv

LEMMA NextTypeOK ==
    ASSUME TypeOK, TicksAreGrounded, [Next]_vars  PROVE TypeOK'
<1>1. CASE UNCHANGED vars
  BY <1>1 DEF TypeOK, vars, store, chain, StoreOK, ChainOK, TicksOK, IsSequence
<1>2. CASE Environment BY <1>2, EnvironmentTypeOK
<1>3. ASSUME NEW s \in Schedulers, Scheduler(s)  PROVE TypeOK' BY <1>3, SchedulerTypeOK
<1> QED BY <1>1, <1>2, <1>3 DEF Next

LEMMA ChainInvStep ==
    ASSUME ChainInv, [Next]_vars  PROVE ChainInv'
<1> USE DEF ChainInv
<1>1. TypeOK' BY NextTypeOK
<1>2. TicksAreGrounded' BY <1>1, GroundedStep
<1>3. AnchorsAreLogged' /\ OnlyHeadUnanchored'
  BY <1>1, AnchorsAreLoggedStep, OnlyHeadUnanchoredStep
<1>4. RowsInOrder' /\ ChainVerifies' BY <1>1, RowsInOrderStep, ChainVerifiesStep
<1>5. LeavesAreFresh' /\ LeavesContinue' BY <1>1, LeavesAreFreshStep, LeavesContinueStep
<1>6. BlankWithoutRow' /\ MembersAreSealed' BY <1>1, MembersAreSealedStep
<1>7. SubChainsVerify' BY <1>1, SubChainsVerifyStep
<1>8. LinksReachTheLog' BY <1>1, LinksReachTheLogStep
<1>9. ChainedAtMostOnce' BY <1>1, ChainedAtMostOnceStep
<1> QED BY <1>1, <1>2, <1>3, <1>4, <1>5, <1>6, <1>7, <1>8, <1>9

LEMMA OmissionInvStep ==
    ASSUME PromptClients, ChainInv, ChainInv', OmissionInv, [Next]_vars  PROVE OmissionInv'
<1> USE DEF ChainInv, OmissionInv
<1>1. NothingRipensInThePast' BY NothingRipensInThePastStep
<1>2. LeavesAreComplete' BY LeavesAreCompleteStep
<1>3. NoOmission' BY NoOmissionStep
<1> QED BY <1>1, <1>2, <1>3

\* The inductive invariant holds in every reachable state, however many
\* schedulers run and whatever fails.
THEOREM InductiveInvariant == Spec => []IInv
<1>1. Init => IInv BY InitChainInv DEF IInv
<1>2. IInv /\ [Next]_vars => IInv'
  <2> SUFFICES ASSUME IInv, [Next]_vars  PROVE IInv' OBVIOUS
  <2>1. ChainInv' BY ChainInvStep DEF IInv
  <2>2. PromptClients => OmissionInv' BY <2>1, OmissionInvStep DEF IInv
  <2>3. PromptClients' <=> PromptClients BY DEF PromptClients
  <2> QED BY <2>1, <2>2, <2>3 DEF IInv
<1> QED BY <1>1, <1>2, PTL DEF Spec

\* Every column and every local variable of a tick keeps its type.
THEOREM TypeCorrect == Spec => []TypeOK
<1>1. IInv => TypeOK BY DEF IInv, ChainInv
<1> QED BY <1>1, InductiveInvariant, PTL

\* The exported chain verifies, with any number of schedulers.
THEOREM ChainAlwaysVerifies == Spec => []ChainVerifies
<1>1. IInv => ChainVerifies BY DEF IInv, ChainInv
<1> QED BY <1>1, InductiveInvariant, PTL

\* Each tenant's sub-chain verifies: the race between reading the previous leaf
\* and inserting the next one is always lost at the primary key.
THEOREM SubChainsAlwaysVerify == Spec => []SubChainsVerify
<1>1. IInv => SubChainsVerify BY DEF IInv, ChainInv
<1> QED BY <1>1, InductiveInvariant, PTL

\* Every checkpoint names a log entry that holds its predecessor's hash.
THEOREM LinksAlwaysReachTheLog == Spec => []LinksReachTheLog
<1>1. IInv => LinksReachTheLog BY DEF IInv, ChainInv
<1> QED BY <1>1, InductiveInvariant, PTL

\* No execution is chained twice.
THEOREM NeverChainedTwice == Spec => []ChainedAtMostOnce
<1>1. IInv => ChainedAtMostOnce BY DEF IInv, ChainInv
<1> QED BY <1>1, InductiveInvariant, PTL

\* Nothing sealed in the period of the chain is omitted from it, provided that
\* clients date nothing further back than the rests before a seal.
THEOREM NothingOmitted == PromptClients => (Spec => []NoOmission)
<1>1. PromptClients /\ IInv => NoOmission BY DEF IInv, OmissionInv
<1>2. PromptClients => []PromptClients
  <2>1. PromptClients => PromptClients' BY DEF PromptClients
  <2> QED BY <2>1, PTL
<1> QED BY <1>1, <1>2, InductiveInvariant, PTL

\* Seals, checkpoints and anchors are never changed once they are made.
THEOREM ChainIsPermanent == Spec => Permanent
<1>1. ASSUME IInv, [Next]_vars
      PROVE  /\ \A e \in Executions :
                    sealedAt[e] # NULL => sealedAt'[e] = sealedAt[e] \/ row'[e] = "deleted"
             /\ Len(checkpoints') >= Len(checkpoints)
             /\ \A i \in DOMAIN checkpoints :
                    /\ checkpoints'[i] = checkpoints[i]
                    /\ anchors[i] # NoEntry => anchors'[i] = anchors[i]
  <2>1. TypeOK /\ TicksAreGrounded /\ BlankWithoutRow BY <1>1 DEF IInv, ChainInv
  <2>2. Grows /\ TypeOK' BY <1>1, <2>1, Growth, NextTypeOK
  <2>3. ASSUME NEW e \in Executions, sealedAt[e] # NULL
        PROVE  sealedAt'[e] = sealedAt[e] \/ row'[e] = "deleted"
    <3>1. row[e] = "present" BY <2>1, <2>3 DEF BlankWithoutRow, Present
    <3>2. RowKept(e) BY <1>1, <2>1, StoreSteps
    <3>3. row'[e] \in {"absent", "present", "deleted"} BY <2>2 DEF TypeOK, StoreOK
    <3> QED BY <2>3, <3>1, <3>2, <3>3 DEF RowKept
  <2>4. Len(checkpoints) \in Nat /\ Len(checkpoints') \in Nat
    BY <2>1, <2>2, AppendAddsLast DEF TypeOK, ChainOK
  <2> QED BY <2>2, <2>3, <2>4 DEF Grows
<1> QED BY <1>1, InductiveInvariant, PTL DEF Spec, Permanent

\* The schedulers, however many, implement the append-only ledger: inserting
\* extends it, recording an anchor anchors its head, all else stutters.
THEOREM ChainImplementsLedger == Spec => ImplementsLedger
<1>1. Init => Ledger!Init BY DEF Init, Ledger!Init
<1>2. ASSUME IInv, [Next]_vars  PROVE [Ledger!Next]_<<checkpoints, anchors>>
  <2>1. TypeOK /\ TicksAreGrounded /\ OnlyHeadUnanchored BY <1>2 DEF IInv, ChainInv
  <2>2. CASE UNCHANGED chain BY <2>2 DEF chain
  <2>3. ASSUME NEW s \in Schedulers, InsertCheckpoint(s), Insertable(s)  PROVE Ledger!Extend
    <3>1. Ledger!HeadIsAnchored
      <4>1. Len(checkpoints) = 0 => checkpoints = <<>>
        BY <2>1, EmptySeq DEF TypeOK, ChainOK, IsSequence
      <4> QED BY <2>1, <2>3, <4>1, InsertionIsGrounded
              DEF Ledger!HeadIsAnchored, Ledger!NoAnchor, NoEntry
    <3>2. anchors' = Append(anchors, Ledger!NoAnchor)
      BY <2>3 DEF InsertCheckpoint, Ledger!NoAnchor, NoEntry
    <3> QED BY <2>1, <2>3, <3>1, <3>2, Insertion DEF Ledger!Extend
  <2>4. ASSUME NEW s \in Schedulers, Marks(s)  PROVE Ledger!AnchorHead
    <3>1. /\ tick[s].head \in DOMAIN checkpoints /\ DOMAIN checkpoints = 1..Len(checkpoints)
          /\ Len(checkpoints) \in Nat
          /\ anchors'[tick[s].head] = tick[s].entry /\ tick[s].entry # NoEntry
      BY <2>1, <2>4, MarksAreGrounded, TickFields
    <3>2. tick[s].head = Len(checkpoints)
      BY <2>1, <2>4, <3>1 DEF OnlyHeadUnanchored, Marks
    <3>3. checkpoints # <<>> BY <3>1, EmptySeq
    <3> QED BY <2>4, <3>1, <3>2, <3>3
            DEF Ledger!AnchorHead, Ledger!HeadIsAnchored, Ledger!NoAnchor, NoEntry, Marks
  <2> QED BY <1>2, <2>2, <2>3, <2>4, TableSteps DEF Ledger!Next
<1> QED BY <1>1, <1>2, InductiveInvariant, PTL DEF Spec, ImplementsLedger, Ledger!Spec

=============================================================================

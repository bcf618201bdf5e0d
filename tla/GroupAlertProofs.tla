--------------------------- MODULE GroupAlertProofs ---------------------------
(***************************************************************************)
(* From a classified execution to the alert about its group: what the      *)
(* grouping statements guarantee without a transaction around them, for     *)
(* any number of executions, groups and calls in flight, and what the       *)
(* dispatches of a group's webhooks guarantee, for any number of them and   *)
(* of webhooks, and any timeouts.                                           *)
(***************************************************************************)
EXTENDS FailureGrouping, WebhookDispatch, FiniteSetTheorems, TLAPS

-----------------------------------------------------------------------------
(* Grouping: counting.                                                     *)

\* The sets that are counted are finite.
LEMMA Sizes ==
  ASSUME NEW g \in Groups
  PROVE  /\ IsFiniteSet(Members(g)) /\ Cardinality(Members(g)) \in Nat
         /\ IsFiniteSet(Speculative(g)) /\ Cardinality(Speculative(g)) \in Nat
  <1>1. IsFiniteSet(Members(g)) /\ IsFiniteSet(Speculative(g))
    BY GroupingConstants, FS_Subset DEF Members, Speculative
  <1> QED
    BY <1>1, FS_CardinalityType

LEMMA SizesAfter ==
  ASSUME NEW g \in Groups
  PROVE  /\ IsFiniteSet(Members(g)') /\ Cardinality(Members(g)') \in Nat
         /\ IsFiniteSet(Speculative(g)') /\ Cardinality(Speculative(g)') \in Nat
  <1>1. IsFiniteSet(Members(g)') /\ IsFiniteSet(Speculative(g)')
    BY GroupingConstants, FS_Subset DEF Members, Speculative
  <1> QED
    BY <1>1, FS_CardinalityType

\* How one call's new state changes the increments that may be taken back.
LEMMA SpeculativeAfter ==
  ASSUME call \in [Calls -> CallType], NEW c \in Calls, NEW h,
         call' = [call EXCEPT ![c] = h], NEW g
  PROVE  Speculative(g)' = IF h.group = g /\ h.pc \in {"link", "undo"}
                           THEN Speculative(g) \union {c}
                           ELSE Speculative(g) \ {c}
  <1>1. \A d \in Calls : call'[d] = IF d = c THEN h ELSE call[d]
    OBVIOUS
  <1> QED
    BY <1>1 DEF Speculative

\* A step that moves a call between two states that count alike, or a step of
\* no call, leaves the sums as they are.
LEMMA SameCounts ==
  ASSUME CountInv, UNCHANGED <<count, links>>,
         \A g \in Groups : Speculative(g)' = Speculative(g),
         failed \subseteq failed'
  PROVE  NeverUndercounts' /\ CountsExactly'
  <1>1. \A g \in Groups : Members(g)' = Members(g)
    BY DEF Members
  <1>2. \A g \in Groups : Spoiled(g) => Spoiled(g)'
    BY DEF Spoiled
  <1> QED
    BY <1>1, <1>2 DEF CountInv, NeverUndercounts, CountsExactly

LEMMA InitCounts == GroupingInit => CountInv
  <1> SUFFICES ASSUME GroupingInit PROVE CountInv
    OBVIOUS
  <1>1. GroupingTypeOK
    BY GroupingConstants DEF GroupingInit, GroupingTypeOK, Free, CallType, Pcs
  <1>2. \A c \in Calls : CallIsNamed(c)
    BY DEF GroupingInit, CallIsNamed, CallAt, Free
  <1>3. ASSUME NEW g \in Groups
        PROVE  count[g] = Cardinality(Members(g)) + Cardinality(Speculative(g))
    <2>1. Members(g) = {} /\ Speculative(g) = {}
      BY DEF GroupingInit, Members, Speculative, Free
    <2>2. Cardinality({}) = 0
      BY FS_EmptySet
    <2> QED
      BY <2>1, <2>2 DEF GroupingInit
  <1>4. NeverUndercounts /\ CountsExactly
    BY <1>3, Sizes DEF NeverUndercounts, CountsExactly, GroupingInit
  <1> QED
    BY <1>1, <1>2, <1>4 DEF CountInv

-----------------------------------------------------------------------------
(* The counters are right however calls overlap.                           *)

LEMMA ReadCounts ==
  ASSUME CountInv, NEW c \in Calls, NEW e \in Executions, NEW g \in Groups,
         ReadPrimary(c, e, g)
  PROVE  CountInv'
  <1> USE DEF CountInv, ReadPrimary, tables, history
  <1> DEFINE h == [pc |-> "probe", execution |-> e, group |-> g,
                   isPrimary |-> primary[e] = NoGroup, isNew |-> FALSE]
  <1>1. call' = [call EXCEPT ![c] = h] /\ h \in CallType /\ h.pc = "probe"
    BY DEF CallType, Pcs
  <1>2. GroupingTypeOK'
    BY <1>1 DEF GroupingTypeOK
  <1>3. \A d \in Calls : CallIsNamed(d)'
    BY <1>1 DEF CallIsNamed, CallAt, GroupingTypeOK
  <1>4. ASSUME NEW k \in Groups PROVE Speculative(k)' = Speculative(k)
    <2>1. \A d \in Calls : d # c => call'[d] = call[d]
      BY DEF GroupingTypeOK
    <2>2. call'[c].pc = "probe" /\ call[c].pc = "free"
      BY <1>1 DEF GroupingTypeOK, CallAt
    <2> QED
      BY <2>1, <2>2 DEF Speculative
  <1> QED
    BY <1>2, <1>3, <1>4, SameCounts

LEMMA ProbeCounts ==
  ASSUME CountInv, NEW c \in Calls, ProbeExistence(c)
  PROVE  CountInv'
  <1> USE DEF CountInv, ProbeExistence, tables, history
  <1> DEFINE h == [call[c] EXCEPT !.pc = "upsert", !.isNew = call[c].group \notin known]
  <1>0. call[c] \in CallType
    BY DEF GroupingTypeOK
  <1>1. /\ call' = [call EXCEPT ![c] = h] /\ h \in CallType
        /\ h.pc = "upsert" /\ h.isNew = (call[c].group \notin known)
        /\ h.group = call[c].group /\ h.execution = call[c].execution
    BY <1>0 DEF CallType, Pcs, GroupingTypeOK
  <1>2. GroupingTypeOK'
    BY <1>1 DEF GroupingTypeOK
  <1>3. \A d \in Calls : CallIsNamed(d)'
    BY <1>1 DEF CallIsNamed, CallAt, GroupingTypeOK
  <1>4. ASSUME NEW k \in Groups PROVE Speculative(k)' = Speculative(k)
    <2>1. Speculative(k)' = Speculative(k) \ {c}
      BY <1>1, SpeculativeAfter DEF GroupingTypeOK
    <2>2. c \notin Speculative(k)
      BY DEF Speculative, CallAt
    <2> QED
      BY <2>1, <2>2
  <1> QED
    BY <1>2, <1>3, <1>4, SameCounts

LEMMA UpsertCounts ==
  ASSUME CountInv, NEW c \in Calls, UpsertGroup(c)
  PROVE  CountInv'
  <1> USE DEF CountInv, UpsertGroup, history
  <1> DEFINE g == call[c].group
             h == [call[c] EXCEPT !.pc = "link"]
  <1>0. call[c] \in CallType /\ g \in Groups /\ call[c].execution \in Executions
    BY DEF GroupingTypeOK, CallIsNamed, CallAt
  <1>1. /\ call' = [call EXCEPT ![c] = h] /\ h \in CallType
        /\ h.pc = "link" /\ h.group = g /\ h.execution = call[c].execution
    BY <1>0 DEF CallType, Pcs, CallGoto, GroupingTypeOK
  <1>2. GroupingTypeOK'
    BY <1>0, <1>1 DEF GroupingTypeOK
  <1>3. \A d \in Calls : CallIsNamed(d)'
    BY <1>0, <1>1 DEF CallIsNamed, CallAt, GroupingTypeOK
  <1>4. ASSUME NEW k \in Groups
        PROVE  /\ Members(k)' = Members(k)
               /\ count'[k] - Cardinality(Speculative(k)')
                    = count[k] - Cardinality(Speculative(k))
               /\ Spoiled(k)' = Spoiled(k)
    <2>1. Members(k)' = Members(k) /\ Spoiled(k)' = Spoiled(k)
      BY DEF Members, Spoiled
    <2>2. c \notin Speculative(k)
      BY DEF Speculative, CallAt
    <2>3. CASE k = g
      <3>1. Speculative(k)' = Speculative(k) \union {c}
        BY <1>1, <2>3, SpeculativeAfter DEF GroupingTypeOK
      <3>2. Cardinality(Speculative(k)') = Cardinality(Speculative(k)) + 1
        BY <3>1, <2>2, Sizes, FS_AddElement
      <3>3. count'[k] = count[k] + 1
        BY <2>3 DEF GroupingTypeOK
      <3> QED
        BY <2>1, <3>2, <3>3, Sizes DEF GroupingTypeOK
    <2>4. CASE k # g
      <3>1. Speculative(k)' = Speculative(k) \ {c}
        BY <1>1, <2>4, SpeculativeAfter DEF GroupingTypeOK
      <3>2. count'[k] = count[k]
        BY <2>4 DEF GroupingTypeOK
      <3> QED
        BY <2>1, <2>2, <3>1, <3>2
    <2> QED
      BY <2>3, <2>4
  <1>5. \A k \in Groups : count[k] \in Nat /\ count'[k] \in Nat
    BY <1>2 DEF GroupingTypeOK
  <1>6. NeverUndercounts'
    BY <1>4, <1>5, Sizes, SizesAfter DEF NeverUndercounts
  <1>7. CountsExactly'
    BY <1>4, <1>5, Sizes, SizesAfter DEF CountsExactly
  <1> QED
    BY <1>2, <1>3, <1>6, <1>7

LEMMA LinkCounts ==
  ASSUME CountInv, NEW c \in Calls, LinkExecution(c)
  PROVE  CountInv'
  <1> USE DEF CountInv, history
  <1> DEFINE g == call[c].group
             e == call[c].execution
             Moved(pc) == [call[c] EXCEPT !.pc = pc]
  <1>0. /\ call[c] \in CallType /\ g \in Groups /\ g \in known /\ e \in Executions
        /\ call[c].pc = "link"
        /\ UNCHANGED <<known, count, resolved, primary, announced, failed>>
    BY DEF LinkExecution, GroupingTypeOK, CallIsNamed, CallAt
  <1>1. CASE Link(c) \in links
    <2>1. /\ call' = [call EXCEPT ![c] = Moved("undo")]
          /\ UNCHANGED <<links, primaryLinks>>
      BY <1>1 DEF LinkExecution, CallGoto, GroupingTypeOK
    <2>2. Moved("undo") \in CallType /\ Moved("undo").pc = "undo" /\ Moved("undo").group = g
          /\ Moved("undo").execution = e
      BY <1>0 DEF CallType, Pcs
    <2>3. GroupingTypeOK'
      BY <1>0, <2>1, <2>2 DEF GroupingTypeOK
    <2>4. \A d \in Calls : CallIsNamed(d)'
      BY <1>0, <2>1, <2>2 DEF CallIsNamed, CallAt, GroupingTypeOK
    <2>5. ASSUME NEW k \in Groups PROVE Speculative(k)' = Speculative(k)
      <3>1. \A d \in Calls : d # c => call'[d] = call[d]
        BY <2>1 DEF GroupingTypeOK
      <3>2. call'[c].pc = "undo" /\ call'[c].group = call[c].group
        BY <2>1, <2>2 DEF GroupingTypeOK
      <3> QED
        BY <1>0, <3>1, <3>2 DEF Speculative
    <2> QED
      BY <1>0, <2>1, <2>3, <2>4, <2>5, SameCounts
  <1>2. CASE Link(c) \notin links
    <2> DEFINE pc == IF call[c].isPrimary THEN "primary" ELSE "announce"
    <2>1. /\ call' = [call EXCEPT ![c] = Moved(pc)]
          /\ links' = links \union {<<e, g>>}
          /\ primaryLinks' = IF call[c].isPrimary
                             THEN primaryLinks \union {<<e, g>>} ELSE primaryLinks
      BY <1>2 DEF LinkExecution, CallGoto, Link, GroupingTypeOK
    <2>2. /\ Moved(pc) \in CallType /\ Moved(pc).pc \in {"primary", "announce"}
          /\ Moved(pc).group = g /\ Moved(pc).execution = e
      BY <1>0 DEF CallType, Pcs
    <2>3. GroupingTypeOK'
      BY <1>0, <2>1, <2>2 DEF GroupingTypeOK
    <2>4. \A d \in Calls : CallIsNamed(d)'
      BY <1>0, <2>1, <2>2 DEF CallIsNamed, CallAt, GroupingTypeOK
    <2>5. ASSUME NEW k \in Groups
          PROVE  /\ Cardinality(Members(k)') + Cardinality(Speculative(k)')
                      = Cardinality(Members(k)) + Cardinality(Speculative(k))
                 /\ Spoiled(k)' = Spoiled(k)
      <3>0. Spoiled(k)' = Spoiled(k)
        BY <1>0 DEF Spoiled
      <3>1. \A d \in Calls : d # c => call'[d] = call[d]
        BY <2>1 DEF GroupingTypeOK
      <3>2. call'[c].pc \in {"primary", "announce"}
        BY <2>1, <2>2 DEF GroupingTypeOK
      <3>3. Speculative(k)' = Speculative(k) \ {c}
        BY <3>1, <3>2 DEF Speculative
      <3>4. CASE k = g
        <4>1. c \in Speculative(k)
          BY <1>0, <3>4 DEF Speculative
        <4>2. Cardinality(Speculative(k)') = Cardinality(Speculative(k)) - 1
          BY <3>3, <4>1, Sizes, FS_RemoveElement
        <4>3. Members(k)' = Members(k) \union {e} /\ e \notin Members(k)
          BY <1>0, <1>2, <2>1, <3>4 DEF Members, Link
        <4>4. Cardinality(Members(k)') = Cardinality(Members(k)) + 1
          BY <4>3, Sizes, FS_AddElement
        <4> QED
          BY <3>0, <4>2, <4>4, Sizes
      <3>5. CASE k # g
        <4>1. c \notin Speculative(k)
          BY <3>5 DEF Speculative
        <4>2. Members(k)' = Members(k)
          BY <2>1, <3>5 DEF Members
        <4>3. Speculative(k)' = Speculative(k)
          BY <3>3, <4>1
        <4> QED
          BY <3>0, <4>2, <4>3
      <3> QED
        BY <3>4, <3>5
    <2>6. \A k \in Groups : count[k] \in Nat /\ count'[k] = count[k]
      BY <1>0 DEF GroupingTypeOK
    <2>7. NeverUndercounts'
      BY <2>5, <2>6, Sizes, SizesAfter DEF NeverUndercounts
    <2>8. CountsExactly'
      BY <2>5, <2>6, Sizes, SizesAfter DEF CountsExactly
    <2> QED
      BY <2>3, <2>4, <2>7, <2>8
  <1> QED
    BY <1>1, <1>2

LEMMA UndoCounts ==
  ASSUME CountInv, NEW c \in Calls, UndoCount(c)
  PROVE  CountInv'
  <1> USE DEF CountInv, history
  <1> DEFINE g == call[c].group
  <1>0. /\ call[c].pc = "undo" /\ g \in Groups
        /\ call' = [call EXCEPT ![c] = Free]
        /\ count' = [count EXCEPT ![g] = @ - 1]
        /\ UNCHANGED <<known, resolved, links, primaryLinks, primary, announced, failed>>
    BY DEF UndoCount, Return, CallIsNamed, CallAt
  <1>1. Free \in CallType /\ Free.pc = "free" /\ Free.group = NoGroup /\ Free.execution = NoGroup
    BY DEF Free, CallType, Pcs
  <1>2. \A d \in Calls : CallIsNamed(d)'
    BY <1>0, <1>1 DEF CallIsNamed, CallAt, GroupingTypeOK
  <1>3. ASSUME NEW k \in Groups
        PROVE  /\ Members(k)' = Members(k) /\ Spoiled(k)' = Spoiled(k)
               /\ count'[k] - Cardinality(Speculative(k)')
                    = count[k] - Cardinality(Speculative(k))
               /\ count'[k] \in Nat
    <2>1. Members(k)' = Members(k) /\ Spoiled(k)' = Spoiled(k)
      BY <1>0 DEF Members, Spoiled
    <2>2. Speculative(k)' = Speculative(k) \ {c}
      <3>1. \A d \in Calls : d # c => call'[d] = call[d]
        BY <1>0 DEF GroupingTypeOK
      <3>2. call'[c].pc = "free"
        BY <1>0, <1>1 DEF GroupingTypeOK
      <3> QED
        BY <3>1, <3>2 DEF Speculative
    <2>3. CASE k = g
      <3>1. c \in Speculative(k)
        BY <1>0, <2>3 DEF Speculative
      <3>2. Cardinality(Speculative(k)') = Cardinality(Speculative(k)) - 1
        BY <2>2, <3>1, Sizes, FS_RemoveElement
      <3>3. count'[k] = count[k] - 1
        BY <1>0, <2>3 DEF GroupingTypeOK
      <3>4. Cardinality(Speculative(k)') \in Nat
        BY SizesAfter
      <3>5. count[k] \in Nat /\ count[k] >= Cardinality(Members(k)) + Cardinality(Speculative(k))
        BY DEF GroupingTypeOK, NeverUndercounts
      <3> QED
        BY <2>1, <3>2, <3>3, <3>4, <3>5, Sizes
    <2>4. CASE k # g
      <3>1. c \notin Speculative(k)
        BY <2>4 DEF Speculative
      <3>2. Speculative(k)' = Speculative(k) /\ count'[k] = count[k]
        BY <1>0, <2>2, <2>4, <3>1 DEF GroupingTypeOK
      <3> QED
        BY <2>1, <3>2 DEF GroupingTypeOK
    <2> QED
      BY <2>3, <2>4
  <1>4. GroupingTypeOK'
    <2>1. count' \in [Groups -> Nat]
      BY <1>0, <1>3 DEF GroupingTypeOK
    <2> QED
      BY <1>0, <1>1, <2>1 DEF GroupingTypeOK
  <1>5. \A k \in Groups : count[k] \in Nat
    BY DEF GroupingTypeOK
  <1>6. NeverUndercounts'
    BY <1>3, <1>5, Sizes, SizesAfter DEF NeverUndercounts
  <1>7. CountsExactly'
    BY <1>3, <1>5, Sizes, SizesAfter DEF CountsExactly
  <1> QED
    BY <1>2, <1>4, <1>6, <1>7

LEMMA PrimaryCounts ==
  ASSUME CountInv, NEW c \in Calls, SetPrimary(c)
  PROVE  CountInv'
  <1> USE DEF CountInv, history
  <1> DEFINE h == [call[c] EXCEPT !.pc = "announce"]
  <1>0. /\ call[c].pc = "primary" /\ call[c] \in CallType
        /\ call[c].group \in known /\ call[c].group \in Groups
        /\ call[c].execution \in Executions
        /\ call' = [call EXCEPT ![c] = h]
        /\ primary' = [primary EXCEPT ![call[c].execution] = call[c].group]
        /\ UNCHANGED <<known, count, resolved, links, primaryLinks, announced, failed>>
    BY DEF SetPrimary, CallGoto, CallIsNamed, CallAt, GroupingTypeOK
  <1>1. /\ h \in CallType /\ h.pc = "announce"
        /\ h.group = call[c].group /\ h.execution = call[c].execution
    BY <1>0 DEF CallType, Pcs
  <1>2. GroupingTypeOK'
    BY <1>0, <1>1 DEF GroupingTypeOK
  <1>3. \A d \in Calls : CallIsNamed(d)'
    BY <1>0, <1>1 DEF CallIsNamed, CallAt, GroupingTypeOK
  <1>4. ASSUME NEW k \in Groups PROVE Speculative(k)' = Speculative(k)
    <2>1. \A d \in Calls : d # c => call'[d] = call[d]
      BY <1>0 DEF GroupingTypeOK
    <2>2. call'[c].pc = "announce"
      BY <1>0, <1>1 DEF GroupingTypeOK
    <2> QED
      BY <1>0, <2>1, <2>2 DEF Speculative
  <1> QED
    BY <1>0, <1>2, <1>3, <1>4, SameCounts

LEMMA AnnounceCounts ==
  ASSUME CountInv, NEW c \in Calls, FireForNewGroup(c)
  PROVE  CountInv'
  <1> USE DEF CountInv, tables
  <1>0. /\ call[c].pc = "announce" /\ call[c].group \in known
        /\ call' = [call EXCEPT ![c] = Free]
        /\ announced' \subseteq announced \union {call[c].group}
        /\ UNCHANGED <<tables, failed>>
    BY DEF FireForNewGroup, Return, CallIsNamed, CallAt
  <1>1. Free \in CallType /\ Free.pc = "free" /\ Free.group = NoGroup /\ Free.execution = NoGroup
    BY DEF Free, CallType, Pcs
  <1>2. GroupingTypeOK'
    BY <1>0, <1>1 DEF GroupingTypeOK
  <1>3. \A d \in Calls : CallIsNamed(d)'
    BY <1>0, <1>1 DEF CallIsNamed, CallAt, GroupingTypeOK
  <1>4. ASSUME NEW k \in Groups PROVE Speculative(k)' = Speculative(k)
    <2>1. \A d \in Calls : d # c => call'[d] = call[d]
      BY <1>0 DEF GroupingTypeOK
    <2>2. call'[c].pc = "free"
      BY <1>0, <1>1 DEF GroupingTypeOK
    <2> QED
      BY <1>0, <2>1, <2>2 DEF Speculative
  <1> QED
    BY <1>0, <1>2, <1>3, <1>4, SameCounts

\* A call that fails leaves its increment behind: the group counts too much.
LEMMA FailCounts ==
  ASSUME CountInv, NEW c \in Calls, Fail(c)
  PROVE  CountInv'
  <1> USE DEF CountInv, tables
  <1> DEFINE g == call[c].group
             e == call[c].execution
  <1>0. /\ call[c].pc # "free" /\ g \in Groups /\ e \in Executions
        /\ call[c] \in CallType
        /\ call' = [call EXCEPT ![c] = Free]
        /\ UNCHANGED <<tables, announced>>
    BY DEF Fail, Return, CallIsNamed, CallAt, GroupingTypeOK
  <1>a. /\ failed \subseteq failed' /\ failed' \subseteq failed \union {<<e, g>>}
        /\ call[c].pc \in {"link", "undo"} => <<e, g>> \in failed'
        /\ failed' # failed => g \in known
    BY <1>0 DEF Fail, CallAt, Link, CallIsNamed, CallType, Pcs
  <1>1. Free \in CallType /\ Free.pc = "free" /\ Free.group = NoGroup /\ Free.execution = NoGroup
    BY DEF Free, CallType, Pcs
  <1>2. GroupingTypeOK'
    BY <1>0, <1>a, <1>1 DEF GroupingTypeOK
  <1>3. \A d \in Calls : CallIsNamed(d)'
    BY <1>0, <1>1 DEF CallIsNamed, CallAt, GroupingTypeOK
  <1>4. ASSUME NEW k \in Groups
        PROVE  /\ Members(k)' = Members(k) /\ count'[k] = count[k]
               /\ Cardinality(Speculative(k)') <= Cardinality(Speculative(k))
               /\ Speculative(k)' = Speculative(k) \/ Spoiled(k)'
               /\ Spoiled(k) => Spoiled(k)'
    <2>1. Members(k)' = Members(k) /\ count'[k] = count[k]
      BY <1>0 DEF Members
    <2>2. Spoiled(k) => Spoiled(k)'
      BY <1>a DEF Spoiled
    <2>3. Speculative(k)' = Speculative(k) \ {c}
      <3>1. \A d \in Calls : d # c => call'[d] = call[d]
        BY <1>0 DEF GroupingTypeOK
      <3>2. call'[c].pc = "free"
        BY <1>0, <1>1 DEF GroupingTypeOK
      <3> QED
        BY <3>1, <3>2 DEF Speculative
    <2>4. Cardinality(Speculative(k)') <= Cardinality(Speculative(k))
      BY <2>3, Sizes, FS_Subset
    <2>5. c \in Speculative(k) => Spoiled(k)'
      BY <1>0, <1>a DEF Speculative, Spoiled
    <2>6. Speculative(k)' = Speculative(k) \/ Spoiled(k)'
      BY <2>3, <2>5
    <2> QED
      BY <2>1, <2>2, <2>4, <2>6
  <1>5. \A k \in Groups : count[k] \in Nat
    BY DEF GroupingTypeOK
  <1>6. NeverUndercounts'
    BY <1>4, <1>5, Sizes, SizesAfter DEF NeverUndercounts
  <1>7. CountsExactly'
    BY <1>4, <1>5, Sizes, SizesAfter DEF CountsExactly
  <1> QED
    BY <1>2, <1>3, <1>6, <1>7

\* Resolving and reopening touch no counter.
LEMMA ResolveCounts ==
  ASSUME CountInv, NEW g \in Groups, ResolveFailureGroup(g) \/ UnresolveFailureGroup(g)
  PROVE  CountInv'
  <1> USE DEF CountInv, history
  <1>0. /\ resolved' \subseteq known
        /\ UNCHANGED <<known, count, links, primaryLinks, primary, announced, failed, call>>
    BY DEF ResolveFailureGroup, UnresolveFailureGroup, GroupingTypeOK
  <1>1. GroupingTypeOK' /\ \A d \in Calls : CallIsNamed(d)'
    BY <1>0 DEF GroupingTypeOK, CallIsNamed, CallAt
  <1>2. \A k \in Groups : Speculative(k)' = Speculative(k)
    BY <1>0 DEF Speculative
  <1> QED
    BY <1>0, <1>1, <1>2, SameCounts

LEMMA NextCounts ==
  ASSUME CountInv, [GroupingNext]_groupingVars
  PROVE  CountInv'
  <1>1. ASSUME NEW c \in Calls, groupExecutionInternalPg(c)
        PROVE  CountInv'
    BY <1>1, ReadCounts, ProbeCounts, UpsertCounts, LinkCounts, UndoCounts,
       PrimaryCounts, AnnounceCounts, FailCounts
    DEF groupExecutionInternalPg
  <1>2. ASSUME NEW g \in Groups, ResolveFailureGroup(g) \/ UnresolveFailureGroup(g)
        PROVE  CountInv'
    BY <1>2, ResolveCounts
  <1>3. CASE UNCHANGED groupingVars
    BY <1>3 DEF groupingVars, tables, history, CountInv, GroupingTypeOK, CallIsNamed, CallAt, NeverUndercounts,
                CountsExactly, Members, Speculative, Spoiled
  <1> QED
    BY <1>1, <1>2, <1>3 DEF GroupingNext

\* The counters of failure_groups are kept by statements, not by a transaction,
\* and are right all the same (groupExecutionInternalPg).
THEOREM CountsInvariant == GroupingSpec => []CountInv
  <1>1. CountInv /\ [GroupingNext]_groupingVars => CountInv'
    BY NextCounts
  <1> QED
    BY <1>1, InitCounts, PTL DEF GroupingSpec

\* Every variable keeps its type, and every link its group (the foreign key).
THEOREM GroupingTypes == GroupingSpec => []GroupingTypeOK
  <1>1. CountInv => GroupingTypeOK
    BY DEF CountInv
  <1> QED
    BY <1>1, CountsInvariant, PTL

\* affected_executions is never less than the executions linked to the group.
THEOREM GroupsNeverUndercount == GroupingSpec => []NeverUndercounts
  <1>1. CountInv => NeverUndercounts
    BY DEF CountInv
  <1> QED
    BY <1>1, CountsInvariant, PTL

\* affected_executions is their number when no call on the group has failed.
THEOREM GroupsCountExactly == GroupingSpec => []CountsExactly
  <1>1. CountInv => CountsExactly
    BY DEF CountInv
  <1> QED
    BY <1>1, CountsInvariant, PTL

-----------------------------------------------------------------------------
(* What calls that do not overlap guarantee besides.                       *)

LEMMA InitGrouping == GroupingInit => GroupingInv
  <1> SUFFICES ASSUME GroupingInit PROVE GroupingInv
    OBVIOUS
  <1>1. \A c \in Calls : CallIsTrue(c)
    BY DEF GroupingInit, CallIsTrue, CallAt, Free
  <1>2. PrimaryIsTheFirst /\ NewGroupsAreAnnounced
    BY DEF GroupingInit, PrimaryIsTheFirst, NewGroupsAreAnnounced
  <1> QED
    BY <1>1, <1>2, InitCounts DEF GroupingInv

\* A step of one call changes no other call.
LEMMA Elsewhere ==
  ASSUME GroupingTypeOK, NEW c \in Calls, NEW h, call' = [call EXCEPT ![c] = h]
  PROVE  call'[c] = h /\ \A d \in Calls : d # c => call'[d] = call[d]
  BY DEF GroupingTypeOK

\* The step of a call that moves it on, or ends it, and leaves the tables alone
\* apart from counts; what the others rely on is still so.
LEMMA QuietCalls ==
  ASSUME GroupingInv, NEW c \in Calls, call[c].pc # "free",
         UNCHANGED <<links, primaryLinks, primary>>, failed \subseteq failed',
         \/ call'[c] = Free
         \/ /\ call'[c].execution = call[c].execution
            /\ call'[c].isPrimary = call[c].isPrimary
            /\ call'[c].pc \in {"upsert", "link", "undo"}
            /\ call[c].pc # "announce",
         \A d \in Calls : d # c => call'[d] = call[d]
  PROVE  \A d \in Calls : CallIsTrue(d)'
  <1>1. ASSUME NEW e \in Executions, Orderly(e)' PROVE Orderly(e)
    BY <1>1 DEF Orderly
  <1>2. ASSUME NEW d \in Calls, d # c PROVE CallIsTrue(d)'
    <2>1. CallIsTrue(d) /\ call'[d] = call[d]
      BY <1>2 DEF GroupingInv
    <2>2. Alone(d) /\ call[d].pc # "free" => Alone(d)'
      BY <2>1, GroupingConstants DEF Alone, Free, GroupingInv, CountInv, CallIsNamed, CallAt
    <2>3. call[d].pc # "free" => call[d].execution \in Executions
      BY DEF GroupingInv, CountInv, CallIsNamed, CallAt
    <2> QED
      BY <2>1, <2>2, <2>3, <1>1 DEF CallIsTrue, CallAt, Link
  <1>3. CallIsTrue(c)'
    <2>1. CASE call'[c] = Free
      BY <2>1 DEF CallIsTrue, CallAt, Free
    <2>2. CASE /\ call'[c].execution = call[c].execution
               /\ call'[c].isPrimary = call[c].isPrimary
               /\ call'[c].pc \in {"upsert", "link", "undo"}
               /\ call[c].pc # "announce"
      <3>1. Alone(c) => Alone(c)'
        BY <2>2 DEF Alone
      <3>2. CallIsTrue(c)
        BY DEF GroupingInv
      <3> QED
        BY <2>2, <3>1, <3>2 DEF CallIsTrue, CallAt
    <2> QED
      BY <2>1, <2>2
  <1> QED
    BY <1>2, <1>3

\* Such a step also leaves every execution's primary group as it was, when it
\* is not the one that sets it or it fails.
LEMMA QuietPrimary ==
  ASSUME GroupingInv, NEW c \in Calls,
         UNCHANGED <<links, primaryLinks, primary>>, failed \subseteq failed',
         call[c].pc = "primary" => <<call[c].execution, call[c].group>> \in failed',
         call'[c].pc # "primary",
         \A d \in Calls : d # c => call'[d] = call[d]
  PROVE  PrimaryIsTheFirst'
  <1> SUFFICES ASSUME NEW e \in Executions, Orderly(e)', ~SettingPrimary(e)'
               PROVE  /\ {g \in Groups : <<e, g>> \in primaryLinks} = {primary[e]} \ {NoGroup}
                      /\ (\E g \in Groups : <<e, g>> \in links) => primary[e] # NoGroup
    BY DEF PrimaryIsTheFirst
  <1>1. Orderly(e)
    BY DEF Orderly
  <1>2. ~SettingPrimary(e)
    <2> SUFFICES ASSUME NEW d \in Calls, call[d].pc = "primary", call[d].execution = e
                 PROVE  FALSE
      BY DEF SettingPrimary, CallAt
    <2>1. CASE d = c
      <3>1. call[c].group \in Groups
        BY <2>1 DEF GroupingInv, CountInv, CallIsNamed, CallAt
      <3> QED
        BY <2>1, <3>1 DEF Orderly
    <2>2. CASE d # c
      BY <2>2 DEF SettingPrimary, CallAt
    <2> QED
      BY <2>1, <2>2
  <1> QED
    BY <1>1, <1>2 DEF GroupingInv, PrimaryIsTheFirst

\* Such a step also leaves every group announced or about to be.
LEMMA QuietAnnounced ==
  ASSUME GroupingInv, NEW c \in Calls,
         UNCHANGED <<known, links>>, failed \subseteq failed', announced \subseteq announced',
         call[c].pc \in {"link", "primary", "announce"} /\ call[c].isNew =>
            \/ <<call[c].execution, call[c].group>> \in failed'
            \/ call[c].group \in announced'
            \/ call[c].pc = "link" /\ <<call[c].execution, call[c].group>> \in links
            \/ /\ call'[c].group = call[c].group /\ call'[c].isNew
               /\ call'[c].pc \in {"primary", "announce"},
         \A d \in Calls : d # c => call'[d] = call[d]
  PROVE  NewGroupsAreAnnounced'
  <1> SUFFICES ASSUME NEW g \in known, ~Spoiled(g)', g \notin announced',
                      ~\E e \in Retried : <<e, g>> \in links
               PROVE  Announcing(g)'
    BY DEF NewGroupsAreAnnounced, IsAnnounced
  <1>0. g \in Groups
    BY DEF GroupingInv, CountInv, GroupingTypeOK
  <1>1. ~Spoiled(g)
    BY DEF Spoiled
  <1>2. PICK d \in Calls :
          /\ call[d].group = g /\ call[d].isNew
          /\ \/ call[d].pc = "link" /\ <<call[d].execution, call[d].group>> \notin links
             \/ call[d].pc = "primary"
             \/ call[d].pc = "announce"
    BY <1>1 DEF GroupingInv, NewGroupsAreAnnounced, IsAnnounced, Announcing, CallAt, Link
  <1>3. CASE d # c
    BY <1>2, <1>3 DEF Announcing, CallAt, Link
  <1>4. CASE d = c
    <2>1. call[c].execution \in Executions
      BY <1>2, <1>4 DEF GroupingInv, CountInv, CallIsNamed, CallAt
    <2>2. <<call[c].execution, call[c].group>> \notin failed'
      BY <1>2, <1>4, <2>1 DEF Spoiled
    <2> QED
      BY <1>2, <1>4, <2>2 DEF Announcing, CallAt
  <1> QED
    BY <1>3, <1>4

LEMMA ReadGroups ==
  ASSUME GroupingInv, NEW c \in Calls, NEW e \in Executions, NEW g \in Groups,
         ReadPrimary(c, e, g)
  PROVE  GroupingInv'
  <1> USE DEF ReadPrimary, tables, history
  <1> DEFINE h == [pc |-> "probe", execution |-> e, group |-> g,
                   isPrimary |-> primary[e] = NoGroup, isNew |-> FALSE]
  <1>0. CountInv /\ GroupingTypeOK
    BY DEF GroupingInv, CountInv
  <1>1. call' = [call EXCEPT ![c] = h] /\ call[c].pc = "free"
    BY DEF CallAt
  <1>2. call'[c] = h /\ \A d \in Calls : d # c => call'[d] = call[d]
    BY <1>0, <1>1 DEF GroupingTypeOK
  <1>3. \A x \in Executions : Orderly(x)' <=> Orderly(x)
    BY DEF Orderly
  <1>4. CallIsTrue(c)'
    <2>1. e \in Retried \/ Alone(c)'
      BY <1>2 DEF Alone
    <2>2. /\ call'[c].pc = "probe" /\ call'[c].execution = e
          /\ call'[c].isPrimary = (primary'[e] = NoGroup)
      BY <1>2
    <2> QED
      BY <2>1, <2>2 DEF CallIsTrue, CallAt
  <1>5. ASSUME NEW d \in Calls, d # c PROVE CallIsTrue(d)'
    <2>1. CallIsTrue(d) /\ call'[d] = call[d]
      BY <1>2, <1>5 DEF GroupingInv
    <2>2. /\ call[d].pc # "free" => call[d].execution \in Executions
          /\ call[c].execution = NoGroup
      BY <1>0, <1>1 DEF CountInv, CallIsNamed, CallAt
    <2>3. call[d].pc # "free" /\ call[d].execution \notin Retried /\ Alone(d) => Alone(d)'
      BY <1>2, <2>1, <2>2 DEF Alone
    <2> QED
      BY <2>1, <2>2, <2>3, <1>3 DEF CallIsTrue, CallAt, Link
  <1>6. PrimaryIsTheFirst'
    <2>1. call'[c].pc # "primary"
      BY <1>2
    <2> QED
      BY <1>1, <1>2, <2>1, QuietPrimary
  <1>7. NewGroupsAreAnnounced'
    BY <1>1, <1>2, QuietAnnounced
  <1> QED
    BY <1>0, <1>4, <1>5, <1>6, <1>7, ReadCounts DEF GroupingInv

LEMMA ProbeGroups ==
  ASSUME GroupingInv, NEW c \in Calls, ProbeExistence(c)
  PROVE  GroupingInv'
  <1> USE DEF ProbeExistence, tables, history
  <1>0. CountInv /\ GroupingTypeOK /\ call[c].pc = "probe" /\ call[c] \in CallType
    BY DEF GroupingInv, CountInv, CallAt, GroupingTypeOK
  <1>1. \A d \in Calls : d # c => call'[d] = call[d]
    BY <1>0, Elsewhere DEF GroupingTypeOK
  <1>2. /\ call'[c].pc = "upsert"
        /\ call'[c].execution = call[c].execution
        /\ call'[c].isPrimary = call[c].isPrimary
    BY <1>0 DEF GroupingTypeOK, CallType
  <1>3. \A d \in Calls : CallIsTrue(d)'
    BY <1>0, <1>1, <1>2, QuietCalls
  <1>4. PrimaryIsTheFirst'
    BY <1>0, <1>1, <1>2, QuietPrimary
  <1>5. NewGroupsAreAnnounced'
    BY <1>0, <1>1, QuietAnnounced
  <1> QED
    BY <1>0, <1>3, <1>4, <1>5, ProbeCounts DEF GroupingInv

LEMMA UpsertGroups ==
  ASSUME GroupingInv, NEW c \in Calls, UpsertGroup(c)
  PROVE  GroupingInv'
  <1> USE DEF UpsertGroup, history
  <1> DEFINE g == call[c].group
  <1>0. /\ CountInv /\ GroupingTypeOK /\ call[c].pc = "upsert" /\ call[c] \in CallType
        /\ g \in Groups /\ call[c].execution \in Executions
        /\ call[c].isNew \/ g \in known
    BY DEF GroupingInv, CountInv, CallIsNamed, CallAt, GroupingTypeOK
  <1>1. \A d \in Calls : d # c => call'[d] = call[d]
    BY <1>0 DEF GroupingTypeOK, CallGoto
  <1>2. /\ call'[c].pc = "link"
        /\ call'[c].execution = call[c].execution /\ call'[c].group = g
        /\ call'[c].isPrimary = call[c].isPrimary /\ call'[c].isNew = call[c].isNew
    BY <1>0 DEF GroupingTypeOK, CallType, CallGoto
  <1>3. \A d \in Calls : CallIsTrue(d)'
    BY <1>0, <1>1, <1>2, QuietCalls
  <1>4. PrimaryIsTheFirst'
    BY <1>0, <1>1, <1>2, QuietPrimary
  <1>5. NewGroupsAreAnnounced'
    <2> SUFFICES ASSUME NEW k \in known', ~Spoiled(k), k \notin announced,
                        ~\E e \in Retried : <<e, k>> \in links
                 PROVE  Announcing(k)'
      BY DEF NewGroupsAreAnnounced, IsAnnounced, Spoiled
    <2>1. CASE k \in known
      <3>1. PICK d \in Calls :
              /\ call[d].group = k /\ call[d].isNew
              /\ \/ call[d].pc = "link" /\ <<call[d].execution, call[d].group>> \notin links
                 \/ call[d].pc = "primary"
                 \/ call[d].pc = "announce"
        BY <2>1 DEF GroupingInv, NewGroupsAreAnnounced, IsAnnounced, Announcing, CallAt, Link
      <3>2. d # c
        BY <1>0, <3>1
      <3> QED
        BY <1>1, <3>1, <3>2 DEF Announcing, CallAt, Link
    <2>2. CASE k \notin known
      <3>1. k = g /\ call[c].isNew
        BY <1>0, <2>2
      <3>2. <<call[c].execution, k>> \notin links
        BY <1>0, <2>2 DEF GroupingTypeOK
      <3> QED
        BY <1>2, <3>1, <3>2 DEF Announcing, CallAt, Link
    <2> QED
      BY <2>1, <2>2
  <1> QED
    BY <1>0, <1>3, <1>4, <1>5, UpsertCounts DEF GroupingInv

LEMMA UndoGroups ==
  ASSUME GroupingInv, NEW c \in Calls, UndoCount(c)
  PROVE  GroupingInv'
  <1> USE DEF UndoCount, history
  <1>0. CountInv /\ GroupingTypeOK /\ call[c].pc = "undo" /\ call' = [call EXCEPT ![c] = Free]
    BY DEF GroupingInv, CountInv, CallAt, Return
  <1>1. call'[c] = Free /\ \A d \in Calls : d # c => call'[d] = call[d]
    BY <1>0, Elsewhere
  <1>2. \A d \in Calls : CallIsTrue(d)'
    BY <1>0, <1>1, QuietCalls
  <1>3. PrimaryIsTheFirst'
    <2>1. call'[c].pc # "primary"
      BY <1>1 DEF Free
    <2>2. UNCHANGED <<links, primaryLinks, primary>> /\ failed \subseteq failed'
      OBVIOUS
    <2>3. call[c].pc # "primary"
      BY <1>0
    <2> QED
      BY <1>0, <1>1, <2>1, <2>2, <2>3, QuietPrimary
  <1>4. NewGroupsAreAnnounced'
    BY <1>0, <1>1, QuietAnnounced
  <1> QED
    BY <1>0, <1>2, <1>3, <1>4, UndoCounts DEF GroupingInv

LEMMA AnnounceGroups ==
  ASSUME GroupingInv, NEW c \in Calls, FireForNewGroup(c)
  PROVE  GroupingInv'
  <1> USE DEF FireForNewGroup, tables
  <1>0. CountInv /\ GroupingTypeOK /\ call[c].pc = "announce" /\ call' = [call EXCEPT ![c] = Free]
    BY DEF GroupingInv, CountInv, CallAt, Return
  <1>1. call'[c] = Free /\ \A d \in Calls : d # c => call'[d] = call[d]
    BY <1>0, Elsewhere
  <1>2. \A d \in Calls : CallIsTrue(d)'
    BY <1>0, <1>1, QuietCalls
  <1>3. PrimaryIsTheFirst'
    <2>1. call'[c].pc # "primary"
      BY <1>1 DEF Free
    <2>2. UNCHANGED <<links, primaryLinks, primary>> /\ failed \subseteq failed'
      OBVIOUS
    <2>3. call[c].pc # "primary"
      BY <1>0
    <2> QED
      BY <1>0, <1>1, <2>1, <2>2, <2>3, QuietPrimary
  <1>4. NewGroupsAreAnnounced'
    BY <1>0, <1>1, QuietAnnounced
  <1> QED
    BY <1>0, <1>2, <1>3, <1>4, AnnounceCounts DEF GroupingInv

LEMMA FailGroups ==
  ASSUME GroupingInv, NEW c \in Calls, Fail(c)
  PROVE  GroupingInv'
  <1> USE DEF tables
  <1>0. /\ CountInv /\ GroupingTypeOK /\ call[c].pc # "free" /\ call[c].pc \in Pcs
        /\ call' = [call EXCEPT ![c] = Free]
        /\ UNCHANGED <<tables, announced>>
    BY DEF Fail, GroupingInv, CountInv, CallAt, Return, GroupingTypeOK, CallType
  <1>1. call'[c] = Free /\ \A d \in Calls : d # c => call'[d] = call[d]
    BY <1>0, Elsewhere
  <1>2. /\ failed \subseteq failed'
        /\ call[c].pc \in {"link", "undo", "primary", "announce"} =>
              <<call[c].execution, call[c].group>> \in failed'
    BY <1>0 DEF Fail, CallAt, Link
  <1>3. \A d \in Calls : CallIsTrue(d)'
    BY <1>0, <1>1, <1>2, QuietCalls
  <1>4. PrimaryIsTheFirst'
    BY <1>0, <1>1, <1>2, QuietPrimary DEF Free
  <1>5. NewGroupsAreAnnounced'
    BY <1>0, <1>1, <1>2, QuietAnnounced
  <1> QED
    BY <1>0, <1>3, <1>4, <1>5, FailCounts DEF GroupingInv

LEMMA ResolveGroups ==
  ASSUME GroupingInv, NEW g \in Groups, ResolveFailureGroup(g) \/ UnresolveFailureGroup(g)
  PROVE  GroupingInv'
  <1>1. UNCHANGED <<known, count, links, primaryLinks, primary, announced, failed, call>>
    BY DEF ResolveFailureGroup, UnresolveFailureGroup, history
  <1>2. CountInv'
    BY ResolveCounts DEF GroupingInv
  <1>3. \A c \in Calls : CallIsTrue(c)'
    BY <1>1 DEF GroupingInv, CallIsTrue, Alone, Orderly, CallAt, Link
  <1>4. PrimaryIsTheFirst'
    BY <1>1 DEF GroupingInv, PrimaryIsTheFirst, Orderly, SettingPrimary, CallAt
  <1>5. NewGroupsAreAnnounced'
    BY <1>1 DEF GroupingInv, NewGroupsAreAnnounced, IsAnnounced, Spoiled, Announcing, CallAt, Link
  <1> QED
    BY <1>2, <1>3, <1>4, <1>5 DEF GroupingInv

\* The step that makes an execution a member: the first one claims the primary
\* slot, and the call that found the group new goes on to announce it.
LEMMA LinkGroups ==
  ASSUME GroupingInv, NEW c \in Calls, LinkExecution(c)
  PROVE  GroupingInv'
  <1> USE DEF history
  <1> DEFINE g == call[c].group
             e == call[c].execution
  <1>0. /\ CountInv /\ GroupingTypeOK /\ call[c].pc = "link" /\ call[c] \in CallType
        /\ g \in Groups /\ g \in known /\ e \in Executions
        /\ UNCHANGED <<known, count, resolved, primary, announced, failed>>
        /\ CallIsTrue(c)
    BY DEF GroupingInv, CountInv, CallIsNamed, CallAt, GroupingTypeOK, LinkExecution
  <1>1. CountInv'
    BY LinkCounts DEF GroupingInv
  <1>2. \A d \in Calls : d # c => call'[d] = call[d]
    BY <1>0 DEF GroupingTypeOK, LinkExecution, CallGoto
  <1>3. CASE <<e, g>> \in links
    <2>1. /\ call'[c].pc = "undo" /\ call'[c].execution = e
          /\ call'[c].isPrimary = call[c].isPrimary
          /\ UNCHANGED <<links, primaryLinks>>
      BY <1>0, <1>3 DEF LinkExecution, CallGoto, Link, GroupingTypeOK, CallType
    <2>2. \A d \in Calls : CallIsTrue(d)'
      BY <1>0, <1>2, <2>1, QuietCalls
    <2>3. PrimaryIsTheFirst'
      BY <1>0, <1>2, <2>1, QuietPrimary
    <2>4. NewGroupsAreAnnounced'
      BY <1>0, <1>2, <1>3, <2>1, QuietAnnounced
    <2> QED
      BY <1>1, <2>2, <2>3, <2>4 DEF GroupingInv
  <1>4. CASE <<e, g>> \notin links
    <2>1. /\ call'[c].pc = IF call[c].isPrimary THEN "primary" ELSE "announce"
          /\ call'[c].execution = e /\ call'[c].group = g
          /\ call'[c].isPrimary = call[c].isPrimary /\ call'[c].isNew = call[c].isNew
          /\ links' = links \union {<<e, g>>}
          /\ primaryLinks' = IF call[c].isPrimary
                             THEN primaryLinks \union {<<e, g>>} ELSE primaryLinks
      BY <1>0, <1>4 DEF LinkExecution, CallGoto, Link, GroupingTypeOK, CallType
    <2>2. \A x \in Executions : Orderly(x)' <=> Orderly(x)
      BY <1>0 DEF Orderly
    <2>3. e \notin Retried =>
            /\ Alone(c)
            /\ call[c].isPrimary = (primary[e] = NoGroup)
      BY <1>0 DEF CallIsTrue, CallAt
    <2>4. e \notin Retried => ~SettingPrimary(e)
      BY <1>0, <2>3 DEF SettingPrimary, Alone, CallAt
    <2>5. CallIsTrue(c)'
      <3>1. Alone(c) => Alone(c)'
        BY <1>2, <2>1 DEF Alone
      <3>2. CASE ~call[c].isPrimary
        BY <1>0, <2>1, <2>3, <3>1, <3>2 DEF CallIsTrue, CallAt
      <3>3. CASE call[c].isPrimary
        <4>1. Orderly(e) => \A k \in Groups : <<e, k>> \notin links
          BY <1>0, <2>3, <2>4, <3>3 DEF GroupingInv, PrimaryIsTheFirst, Orderly
        <4>2. /\ call'[c].pc = "primary"
              /\ <<call'[c].execution, call'[c].group>> \in primaryLinks'
          BY <2>1, <3>3
        <4>3. Orderly(e) => \A k \in Groups : <<e, k>> \in links' => k = g
          BY <2>1, <4>1
        <4>4. e \notin Retried => call'[c].isPrimary = (primary'[e] = NoGroup)
          BY <1>0, <2>1, <2>3
        <4> QED
          BY <1>0, <2>1, <2>2, <2>3, <3>1, <4>2, <4>3, <4>4 DEF CallIsTrue, CallAt, Link
      <3> QED
        BY <3>2, <3>3
    <2>6. ASSUME NEW d \in Calls, d # c PROVE CallIsTrue(d)'
      <3> DEFINE x == call[d].execution
      <3> SUFFICES ASSUME call[d].pc # "free", x \notin Retried PROVE CallIsTrue(d)'
        BY <1>2, <2>6 DEF CallIsTrue, CallAt
      <3>1. /\ CallIsTrue(d) /\ call'[d] = call[d] /\ x \in Executions
            /\ Alone(d)
        BY <1>0, <1>2, <2>6 DEF GroupingInv, CountInv, CallIsNamed, CallIsTrue, CallAt
      <3>2. x # e
        BY <2>6, <3>1 DEF Alone
      <3>3. Alone(d)'
        BY <1>2, <2>1, <3>1, <3>2 DEF Alone
      <3>4. \A k \in Groups : <<x, k>> \in links' <=> <<x, k>> \in links
        BY <2>1, <3>2
      <3>5. primaryLinks \subseteq primaryLinks'
        BY <2>1
      <3> QED
        BY <1>0, <2>2, <3>1, <3>3, <3>4, <3>5 DEF CallIsTrue, CallAt, Link
    <2>7. PrimaryIsTheFirst'
      <3> SUFFICES ASSUME NEW x \in Executions, Orderly(x), ~SettingPrimary(x)'
                   PROVE  /\ {k \in Groups : <<x, k>> \in primaryLinks'} = {primary[x]} \ {NoGroup}
                          /\ (\E k \in Groups : <<x, k>> \in links') => primary[x] # NoGroup
        BY <1>0, <2>2 DEF PrimaryIsTheFirst
      <3>1. CASE x # e
        <4>1. ~SettingPrimary(x)
          BY <1>0, <1>2 DEF SettingPrimary, CallAt
        <4>2. \A k \in Groups : /\ <<x, k>> \in links' <=> <<x, k>> \in links
                                /\ <<x, k>> \in primaryLinks' <=> <<x, k>> \in primaryLinks
          BY <2>1, <3>1
        <4> QED
          BY <4>1, <4>2 DEF GroupingInv, PrimaryIsTheFirst
      <3>2. CASE x = e
        <4>1. ~call[c].isPrimary
          BY <2>1, <3>2 DEF SettingPrimary, CallAt
        <4>2. e \notin Retried
          BY <3>2 DEF Orderly
        <4>3. primary[e] # NoGroup /\ primaryLinks' = primaryLinks
          BY <2>1, <2>3, <4>1, <4>2
        <4> QED
          BY <2>4, <3>2, <4>2, <4>3 DEF GroupingInv, PrimaryIsTheFirst
      <3> QED
        BY <3>1, <3>2
    <2>8. NewGroupsAreAnnounced'
      <3> SUFFICES ASSUME NEW k \in known, ~Spoiled(k), k \notin announced,
                          ~\E x \in Retried : <<x, k>> \in links'
                   PROVE  Announcing(k)'
        BY <1>0 DEF NewGroupsAreAnnounced, IsAnnounced, Spoiled
      <3>1. PICK d \in Calls :
              /\ call[d].group = k /\ call[d].isNew
              /\ \/ call[d].pc = "link" /\ <<call[d].execution, call[d].group>> \notin links
                 \/ call[d].pc = "primary"
                 \/ call[d].pc = "announce"
        BY <2>1 DEF GroupingInv, NewGroupsAreAnnounced, IsAnnounced, Announcing, CallAt, Link
      <3>2. CASE d = c
        BY <2>1, <3>1, <3>2 DEF Announcing, CallAt
      <3>3. CASE d # c
        <4>1. call[d].execution = e => e \in Retried
          BY <1>0, <2>3, <3>3 DEF Alone
        <4>2. call[d].pc = "link" => <<call[d].execution, call[d].group>> \notin links'
          BY <2>1, <3>1, <4>1
        <4> QED
          BY <1>2, <3>1, <3>3, <4>2 DEF Announcing, CallAt, Link
      <3> QED
        BY <3>2, <3>3
    <2> QED
      BY <1>1, <2>5, <2>6, <2>7, <2>8 DEF GroupingInv
  <1> QED
    BY <1>3, <1>4

LEMMA PrimaryGroups ==
  ASSUME GroupingInv, NEW c \in Calls, SetPrimary(c)
  PROVE  GroupingInv'
  <1> USE DEF history
  <1> DEFINE g == call[c].group
             e == call[c].execution
  <1>0. /\ CountInv /\ GroupingTypeOK /\ call[c].pc = "primary" /\ call[c] \in CallType
        /\ g \in Groups /\ g # NoGroup /\ e \in Executions
        /\ UNCHANGED <<known, count, resolved, links, primaryLinks, announced, failed>>
        /\ primary' = [primary EXCEPT ![e] = g]
        /\ CallIsTrue(c)
    BY GroupingConstants
    DEF GroupingInv, CountInv, CallIsNamed, CallAt, GroupingTypeOK, SetPrimary
  <1>1. CountInv'
    BY PrimaryCounts DEF GroupingInv
  <1>2. \A d \in Calls : d # c => call'[d] = call[d]
    BY <1>0 DEF GroupingTypeOK, SetPrimary, CallGoto
  <1>3. /\ call'[c].pc = "announce" /\ call'[c].execution = e /\ call'[c].group = g
        /\ call'[c].isNew = call[c].isNew
    BY <1>0 DEF GroupingTypeOK, SetPrimary, CallGoto, CallType
  <1>4. \A x \in Executions : /\ Orderly(x)' <=> Orderly(x)
                              /\ x # e => primary'[x] = primary[x]
    BY <1>0 DEF Orderly, GroupingTypeOK
  <1>5. CallIsTrue(c)'
    <2>1. Alone(c) => Alone(c)'
      BY <1>2, <1>3 DEF Alone
    <2> QED
      BY <1>0, <1>3, <2>1 DEF CallIsTrue, CallAt
  <1>6. ASSUME NEW d \in Calls, d # c PROVE CallIsTrue(d)'
    <2> DEFINE x == call[d].execution
    <2> SUFFICES ASSUME call[d].pc # "free", x \notin Retried PROVE CallIsTrue(d)'
      BY <1>2, <1>6 DEF CallIsTrue, CallAt
    <2>1. /\ CallIsTrue(d) /\ call'[d] = call[d] /\ x \in Executions
          /\ Alone(d)
      BY <1>0, <1>2, <1>6 DEF GroupingInv, CountInv, CallIsNamed, CallIsTrue, CallAt
    <2>2. x # e
      BY <1>6, <2>1 DEF Alone
    <2>3. Alone(d)'
      BY <1>2, <1>3, <2>1, <2>2 DEF Alone
    <2> QED
      BY <1>0, <1>4, <2>1, <2>2, <2>3 DEF CallIsTrue, CallAt, Link
  <1>7. PrimaryIsTheFirst'
    <2> SUFFICES ASSUME NEW x \in Executions, Orderly(x), ~SettingPrimary(x)'
                 PROVE  /\ {k \in Groups : <<x, k>> \in primaryLinks} = {primary'[x]} \ {NoGroup}
                        /\ (\E k \in Groups : <<x, k>> \in links) => primary'[x] # NoGroup
      BY <1>0, <1>4 DEF PrimaryIsTheFirst
    <2>1. CASE x # e
      <3>1. ~SettingPrimary(x)
        BY <1>0, <1>2, <2>1 DEF SettingPrimary, CallAt
      <3> QED
        BY <1>4, <2>1, <3>1 DEF GroupingInv, PrimaryIsTheFirst
    <2>2. CASE x = e
      <3>1. e \notin Retried
        BY <2>2 DEF Orderly
      <3>2. /\ <<e, g>> \in primaryLinks
            /\ \A k \in Groups : <<e, k>> \in links => k = g
        BY <1>0, <2>2, <3>1 DEF CallIsTrue, CallAt, Link
      <3>3. primaryLinks \subseteq links /\ primary'[e] = g
        BY <1>0 DEF GroupingTypeOK
      <3> QED
        BY <1>0, <2>2, <3>2, <3>3
    <2> QED
      BY <2>1, <2>2
  <1>8. NewGroupsAreAnnounced'
    BY <1>0, <1>2, <1>3, QuietAnnounced
  <1> QED
    BY <1>1, <1>5, <1>6, <1>7, <1>8 DEF GroupingInv

LEMMA NextGroups ==
  ASSUME GroupingInv, [GroupingNext]_groupingVars
  PROVE  GroupingInv'
  <1>1. ASSUME NEW c \in Calls, groupExecutionInternalPg(c)
        PROVE  GroupingInv'
    BY <1>1, ReadGroups, ProbeGroups, UpsertGroups, LinkGroups, UndoGroups,
       PrimaryGroups, AnnounceGroups, FailGroups
    DEF groupExecutionInternalPg
  <1>2. ASSUME NEW g \in Groups, ResolveFailureGroup(g) \/ UnresolveFailureGroup(g)
        PROVE  GroupingInv'
    BY <1>2, ResolveGroups
  <1>3. CASE UNCHANGED groupingVars
    <2> USE <1>3 DEF groupingVars, tables, history
    <2>1. CountInv'
      BY NextCounts DEF GroupingInv
    <2>2. \A c \in Calls : CallIsTrue(c)'
      BY DEF GroupingInv, CallIsTrue, Alone, Orderly, CallAt, Link
    <2>3. PrimaryIsTheFirst'
      BY DEF GroupingInv, PrimaryIsTheFirst, Orderly, SettingPrimary, CallAt
    <2>4. NewGroupsAreAnnounced'
      BY DEF GroupingInv, NewGroupsAreAnnounced, IsAnnounced, Spoiled, Announcing, CallAt, Link
    <2> QED
      BY <2>1, <2>2, <2>3, <2>4 DEF GroupingInv
  <1> QED
    BY <1>1, <1>2, <1>3 DEF GroupingNext

\* What the executions that are not retried keep in order.
THEOREM GroupingInvariant == GroupingSpec => []GroupingInv
  <1>1. GroupingInv /\ [GroupingNext]_groupingVars => GroupingInv'
    BY NextGroups
  <1> QED
    BY <1>1, InitGrouping, PTL DEF GroupingSpec

\* The primary link of an execution is its first group and the one its row names
\* (failure_group_id, is_primary).
THEOREM PrimaryAlwaysTheFirst == GroupingSpec => []PrimaryIsTheFirst
  <1>1. GroupingInv => PrimaryIsTheFirst
    BY DEF GroupingInv
  <1> QED
    BY <1>1, GroupingInvariant, PTL

\* However executions race for a new group, it is announced (maybeFireWebhook).
THEOREM NewGroupsAlwaysAnnounced == GroupingSpec => []NewGroupsAreAnnounced
  <1>1. GroupingInv => NewGroupsAreAnnounced
    BY DEF GroupingInv
  <1> QED
    BY <1>1, GroupingInvariant, PTL

-----------------------------------------------------------------------------
(* The dispatches of the webhooks.                                         *)

-----------------------------------------------------------------------------
(* The invariants.                                                         *)

\* A wait ends by the deadline, and the deadline is not past.
InTime ==
    \A d \in Dispatches : Running(d) =>
        /\ clock <= dispatch[d].deadline
        /\ Waiting(d) => clock <= dispatch[d].wake /\ dispatch[d].wake <= dispatch[d].deadline

BoundedInv == TypeOK /\ InTime

\* A dispatch that has begun and was not killed.
Kept(d) == dispatch[d].pc \notin {"unborn", "killed"}

\* A dispatch of a recurrence that has left webhook h in time to record it.
LeftInTime(d, h) ==
    /\ Kept(d) /\ dispatch[d].recurrence
    /\ dispatch[d].left[h] # NULL /\ dispatch[d].left[h] < dispatch[d].deadline

\* The throttle lets e post to h: whoever else left it did so this instant, or a window ago.
MayPost(e, h) ==
    errors = 0 => \A d \in Dispatches \ {e} :
        LeftInTime(d, h) => dispatch[d].left[h] = clock \/ clock - dispatch[d].left[h] >= Window

\* No post and no departure is in the future.
NothingAhead ==
    \A d \in Dispatches, h \in Throttled :
        Kept(d) => dispatch[d].sent[h] <= clock /\ dispatch[d].left[h] <= clock

\* Who waits has posted, unless there was no time left.
WaitersHavePosted ==
    \A d \in Dispatches :
        Waiting(d) /\ dispatch[d].recurrence /\ Hook(d) \in Throttled =>
            dispatch[d].sent[Hook(d)] # NULL \/ Expired(d)

\* While no statement fails: every dispatch knows its group, a departure is on record,
\* and whoever is to post for the first time saw at the gate that the throttle allows.
GroupKnown == errors = 0 => \A d \in Dispatches : Kept(d) => dispatch[d].known
LeavesOnRecord ==
    errors = 0 => \A d \in Dispatches, h \in Throttled :
        LeftInTime(d, h) => dispatch[d].left[h] <= lastFired[h]
GateHolds ==
    \A e \in Dispatches, h \in Throttled :
        /\ At(e, "post") /\ dispatch[e].recurrence /\ Hook(e) = h
        /\ dispatch[e].sent[h] = NULL /\ ~Expired(e)
        => MayPost(e, h)

ThrottleInv ==
    /\ TypeOK
    /\ NothingAhead /\ WaitersHavePosted
    /\ GroupKnown /\ LeavesOnRecord /\ GateHolds /\ ThrottleHolds

-----------------------------------------------------------------------------
(* A receiver that does not answer.                                        *)

\* The deadline is long enough for one receiver that hangs in every attempt: waits[n] is
\* the backoff after attempt n, and attempt n starts starts[n] after the dispatch at the
\* latest.  The code's own values (in seconds: 3 attempts of 10, backoffs of 1 and 4, a
\* deadline of 60) satisfy it with starts = <<0, 11, 25>>.
FitsDeadline(waits, starts) ==
    /\ waits \in [1 .. MaxAttempts -> Nat] /\ waits[1] = InitialBackoff
    /\ starts \in [1 .. MaxAttempts -> Nat]
    /\ \A n \in 1 .. MaxAttempts - 1 :
        /\ waits[n + 1] = waits[n] * BackoffMultiplier
        /\ starts[n] + PerAttemptTimeout + waits[n] <= starts[n + 1]
    /\ \A n \in 1 .. MaxAttempts : starts[n] + PerAttemptTimeout < DispatchTimeout

Begun(t) == t.deadline - DispatchTimeout

\* What has come of the webhooks so far when at most one did not answer.
ToldSoFar(t) ==
    /\ 1 .. t.hook - 1 \subseteq t.heard \union t.slow
    /\ t.slow \subseteq 1 .. t.hook
    /\ t.pc = "fired" => t.hook \in t.heard \union t.slow
    /\ t.pc \in {"hang", "backoff"} => t.hook \in t.slow
    /\ t.pc \in {"load", "gate"} => t.hook \notin t.slow
    /\ t.pc = "post" => (t.hook \in t.slow <=> t.attempt > 1)
    /\ t.pc = "done" => Hooks \subseteq t.heard \union t.slow

\* And how late it is: that one receiver has taken all the time there is.
OnSchedule(t, waits, starts) ==
    /\ t.pc \in {"post", "hang", "backoff"} => t.backoff = waits[t.attempt]
    /\ t.pc # "done" =>
        /\ clock < t.deadline
        /\ t.slow = {} => clock = Begun(t)
        /\ t.pc \in {"load", "gate"} => t.attempt = 1 /\ t.backoff = waits[1]
        /\ t.pc = "post" /\ t.attempt > 1 => clock <= Begun(t) + starts[t.attempt]
        /\ t.pc = "hang" => clock <= t.wake /\ t.wake <= Begun(t) + starts[t.attempt] + PerAttemptTimeout
        /\ t.pc = "backoff" =>
              /\ t.attempt < MaxAttempts
              /\ clock <= t.wake /\ t.wake <= Begun(t) + starts[t.attempt + 1]

Punctual(waits, starts) ==
    errors = 0 =>
        \A d \in Dispatches :
            LET t == dispatch[d] IN
            Kept(d) /\ ~t.recurrence /\ (\A h, k \in t.slow : h = k) =>
                ToldSoFar(t) /\ OnSchedule(t, waits, starts)

-----------------------------------------------------------------------------
(* The operators.                                                          *)

LEMMA MinOfTwo == ASSUME NEW x \in Int, NEW y \in Int PROVE Min({x, y}) = IF x <= y THEN x ELSE y
  BY DEF Min

LEMMA MaxOfTwo == ASSUME NEW x \in Int, NEW y \in Int PROVE Max({x, y}) = IF x <= y THEN y ELSE x
  BY DEF Max

\* The constants are numbers, and the webhooks are listed.
LEMMA Constants ==
  /\ Window \in Nat \ {0} /\ MaxAttempts \in Nat \ {0} /\ PerAttemptTimeout \in Nat \ {0}
  /\ DispatchTimeout \in Nat \ {0} /\ InitialBackoff \in Nat /\ BackoffMultiplier \in Nat
  /\ MaxErrors \in Nat /\ MaxClock \in Nat
  /\ Len(Modes) \in Nat /\ Hooks = 1 .. Len(Modes) /\ Throttled \subseteq Hooks
  BY ConstantsAssumption DEF Hooks, Throttled

LEMMA AfreshType ==
  ASSUME NEW t \in DispatchType, NEW b \in Nat
  PROVE  [t EXCEPT !.backoff = b, !.wake = 0, !.outcome = "none"] \in DispatchType
  BY DEF DispatchType

\* The next webhook of the list, or the end of it.
LEMMA NextHookEffect ==
  ASSUME NEW t \in DispatchType, t.hook \in Hooks
  PROVE  /\ NextHook(t) \in DispatchType
         /\ NextHook(t).recurrence = t.recurrence /\ NextHook(t).known = t.known
         /\ NextHook(t).deadline = t.deadline
         /\ NextHook(t).sent = t.sent /\ NextHook(t).left = t.left
         /\ NextHook(t).heard = t.heard /\ NextHook(t).slow = t.slow
         /\ NextHook(t).attempt = 1 /\ NextHook(t).backoff = InitialBackoff
         /\ \/ NextHook(t).pc = "gate" /\ NextHook(t).hook = t.hook + 1 /\ t.hook + 1 \in Hooks
            \/ NextHook(t).pc = "done" /\ NextHook(t).hook = t.hook /\ t.hook = Len(Modes)
  <1>1. /\ t.hook \in 1 .. Len(Modes) /\ Len(Modes) \in Nat /\ Hooks = 1 .. Len(Modes)
        /\ InitialBackoff \in Nat /\ 1 \in 1 .. MaxAttempts /\ t.hook \in Nat \ {0}
    BY Constants
  <1>2. CASE t.hook < Len(Modes)
    <2>1. NextHook(t) = [t EXCEPT !.pc = "gate", !.hook = @ + 1, !.attempt = 1,
                           !.backoff = InitialBackoff, !.wake = 0, !.outcome = "none"]
      BY <1>2, Zenon DEF NextHook
    <2>2. t.hook + 1 \in Nat \ {0} /\ t.hook + 1 \in Hooks
      BY <1>1, <1>2
    <2>3. NextHook(t) \in DispatchType
      <3> DEFINE u == [t EXCEPT !.pc = "gate", !.hook = t.hook + 1, !.attempt = 1]
      <3>1. u \in DispatchType
        BY <1>1, <2>2 DEF DispatchType
      <3>2. NextHook(t) = [u EXCEPT !.backoff = InitialBackoff, !.wake = 0, !.outcome = "none"]
        BY <2>1
      <3> HIDE DEF u
      <3>3. InitialBackoff \in Nat
        BY <1>1
      <3>4. [u EXCEPT !.backoff = InitialBackoff, !.wake = 0, !.outcome = "none"] \in DispatchType
        BY <3>1, <3>3, AfreshType, Zenon
      <3> QED
        BY <3>2, <3>4, Zenon
    <2>4. /\ NextHook(t).recurrence = t.recurrence /\ NextHook(t).known = t.known
          /\ NextHook(t).deadline = t.deadline
          /\ NextHook(t).sent = t.sent /\ NextHook(t).left = t.left
          /\ NextHook(t).heard = t.heard /\ NextHook(t).slow = t.slow
      BY <2>1 DEF DispatchType
    <2>5. /\ NextHook(t).attempt = 1 /\ NextHook(t).backoff = InitialBackoff
          /\ NextHook(t).pc = "gate" /\ NextHook(t).hook = t.hook + 1
      BY <2>1 DEF DispatchType
    <2> QED
      BY <2>2, <2>3, <2>4, <2>5
  <1>3. CASE ~(t.hook < Len(Modes))
    <2>1. NextHook(t) = [t EXCEPT !.pc = "done", !.attempt = 1, !.backoff = InitialBackoff,
                           !.wake = 0, !.outcome = "none"]
      BY <1>3, Zenon DEF NextHook
    <2>2. t.hook = Len(Modes)
      BY <1>1, <1>3
    <2>3. NextHook(t) \in DispatchType
      <3> DEFINE u == [t EXCEPT !.pc = "done", !.attempt = 1]
      <3>1. u \in DispatchType
        BY <1>1 DEF DispatchType
      <3>2. NextHook(t) = [u EXCEPT !.backoff = InitialBackoff, !.wake = 0, !.outcome = "none"]
        BY <2>1
      <3> HIDE DEF u
      <3>3. InitialBackoff \in Nat
        BY <1>1
      <3>4. [u EXCEPT !.backoff = InitialBackoff, !.wake = 0, !.outcome = "none"] \in DispatchType
        BY <3>1, <3>3, AfreshType, Zenon
      <3> QED
        BY <3>2, <3>4, Zenon
    <2>4. /\ NextHook(t).recurrence = t.recurrence /\ NextHook(t).known = t.known
          /\ NextHook(t).deadline = t.deadline
          /\ NextHook(t).sent = t.sent /\ NextHook(t).left = t.left
          /\ NextHook(t).heard = t.heard /\ NextHook(t).slow = t.slow
      BY <2>1 DEF DispatchType
    <2>5. /\ NextHook(t).attempt = 1 /\ NextHook(t).backoff = InitialBackoff
          /\ NextHook(t).pc = "done" /\ NextHook(t).hook = t.hook
      BY <2>1 DEF DispatchType
    <2> QED
      BY <2>2, <2>3, <2>4, <2>5
  <1> QED
    BY <1>2, <1>3

\* A failed attempt waits for the next one, for no longer than the deadline allows, or
\* is the last.
LEMMA AfterFailureEffect ==
  ASSUME NEW t \in DispatchType, clock \in Nat
  PROVE  /\ AfterFailure(t) \in DispatchType
         /\ AfterFailure(t).recurrence = t.recurrence /\ AfterFailure(t).known = t.known
         /\ AfterFailure(t).deadline = t.deadline /\ AfterFailure(t).hook = t.hook
         /\ AfterFailure(t).sent = t.sent /\ AfterFailure(t).left = t.left
         /\ AfterFailure(t).heard = t.heard /\ AfterFailure(t).slow = t.slow
         /\ AfterFailure(t).attempt = t.attempt /\ AfterFailure(t).backoff = t.backoff
         /\ \/ /\ AfterFailure(t).pc = "backoff" /\ t.attempt < MaxAttempts
               /\ clock <= AfterFailure(t).wake
               /\ AfterFailure(t).wake <= clock + t.backoff
               /\ clock <= t.deadline => AfterFailure(t).wake <= t.deadline
            \/ AfterFailure(t).pc = "fired"
  <1>1. t.backoff \in Nat /\ t.deadline \in Nat /\ t.attempt \in 1 .. MaxAttempts
    BY DEF DispatchType
  <1>2. Backoff(t) = IF clock + t.backoff <= t.deadline THEN clock + t.backoff ELSE t.deadline
    BY <1>1, MinOfTwo DEF Backoff
  <1> DEFINE w == Max({clock, Backoff(t)})
  <1>3. w = IF clock <= Backoff(t) THEN Backoff(t) ELSE clock
    BY <1>1, <1>2, MaxOfTwo
  <1>4. w \in Nat /\ clock <= w /\ w <= clock + t.backoff /\ (clock <= t.deadline => w <= t.deadline)
    BY <1>1, <1>2, <1>3
  <1> HIDE DEF w
  <1>5. AfterFailure(t) = IF t.attempt < MaxAttempts
                          THEN [t EXCEPT !.pc = "backoff", !.wake = w]
                          ELSE [t EXCEPT !.pc = "fired", !.outcome = "failed"]
    BY DEF AfterFailure, w
  <1>6. CASE t.attempt < MaxAttempts
    <2>1. AfterFailure(t) = [t EXCEPT !.pc = "backoff", !.wake = w]
      BY <1>5, <1>6
    <2>2. AfterFailure(t) \in DispatchType
      BY <1>4, <2>1 DEF DispatchType
    <2>3. /\ AfterFailure(t).recurrence = t.recurrence /\ AfterFailure(t).known = t.known
          /\ AfterFailure(t).deadline = t.deadline /\ AfterFailure(t).hook = t.hook
          /\ AfterFailure(t).sent = t.sent /\ AfterFailure(t).left = t.left
          /\ AfterFailure(t).heard = t.heard /\ AfterFailure(t).slow = t.slow
          /\ AfterFailure(t).attempt = t.attempt /\ AfterFailure(t).backoff = t.backoff
      BY <2>1 DEF DispatchType
    <2>4. AfterFailure(t).pc = "backoff" /\ AfterFailure(t).wake = w
      BY <2>1 DEF DispatchType
    <2> QED
      BY <1>4, <1>6, <2>2, <2>3, <2>4
  <1>7. CASE ~(t.attempt < MaxAttempts)
    <2>1. AfterFailure(t) = [t EXCEPT !.pc = "fired", !.outcome = "failed"]
      BY <1>5, <1>7
    <2>2. AfterFailure(t) \in DispatchType
      BY <2>1 DEF DispatchType
    <2>3. /\ AfterFailure(t).recurrence = t.recurrence /\ AfterFailure(t).known = t.known
          /\ AfterFailure(t).deadline = t.deadline /\ AfterFailure(t).hook = t.hook
          /\ AfterFailure(t).sent = t.sent /\ AfterFailure(t).left = t.left
          /\ AfterFailure(t).heard = t.heard /\ AfterFailure(t).slow = t.slow
          /\ AfterFailure(t).attempt = t.attempt /\ AfterFailure(t).backoff = t.backoff
      BY <2>1 DEF DispatchType
    <2>4. AfterFailure(t).pc = "fired"
      BY <2>1 DEF DispatchType
    <2> QED
      BY <2>2, <2>3, <2>4
  <1> QED
    BY <1>6, <1>7

\* A step of one dispatch.
LEMMA GotoEffect ==
  ASSUME TypeOK, NEW d \in Dispatches, NEW t, Goto(d, t)
  PROVE  dispatch'[d] = t /\ \A e \in Dispatches : e # d => dispatch'[e] = dispatch[e]
  BY DEF TypeOK, Goto

\* What a dispatch under way is.
LEMMA KeptType ==
  ASSUME TypeOK, NEW d \in Dispatches, Kept(d)
  PROVE  dispatch[d] \in DispatchType
  BY DEF TypeOK, Kept, Unborn

\* The clock and the numbers of a dispatch.
LEMMA Numbers ==
  ASSUME TypeOK
  PROVE  /\ clock \in Nat /\ errors \in Nat
         /\ \A h \in Hooks : lastFired[h] \in Int /\ lastFired[h] <= clock
  BY Constants DEF TypeOK, NULL

LEMMA Counted ==
  ASSUME errors \in 0 .. MaxErrors, NEW ok \in Outcomes, CountError(ok)
  PROVE  errors' \in 0 .. MaxErrors /\ errors' >= errors /\ (~ok => errors' > 0)
  <1>1. CASE ok
    BY <1>1 DEF CountError
  <1>2. CASE ~ok
    <2>1. errors < MaxErrors
      BY <1>2 DEF Outcomes
    <2> QED
      BY <1>2, <2>1, Constants DEF CountError
  <1> QED
    BY <1>1, <1>2

LEMMA MayFail == TRUE \in Outcomes /\ Outcomes \subseteq BOOLEAN
  BY DEF Outcomes

\* What a post that goes out leaves on the dispatch: a recurrence notes when it first
\* posted, news of a group who has not answered.
Sent(t) ==
    IF t.recurrence
    THEN [t EXCEPT !.sent = [k \in Throttled |-> IF k = t.hook /\ @[k] = NULL THEN clock ELSE @[k]]]
    ELSE t

Slowed(t) == IF t.recurrence THEN Sent(t) ELSE [t EXCEPT !.slow = @ \union {t.hook}]

\* The fields no post touches.
SameErrand(t, u) ==
    /\ u.recurrence = t.recurrence /\ u.known = t.known /\ u.deadline = t.deadline
    /\ u.hook = t.hook /\ u.attempt = t.attempt /\ u.backoff = t.backoff /\ u.left = t.left

\* The first post of a recurrence is noted at the instant it goes out.
NotesFirstPost(t, u) ==
    \A k \in Throttled : u.sent[k] = IF t.recurrence /\ k = t.hook /\ t.sent[k] = NULL
                                     THEN clock ELSE t.sent[k]

LEMMA SentEffect ==
  ASSUME NEW t \in DispatchType, clock \in Nat
  PROVE  /\ Sent(t) \in DispatchType /\ SameErrand(t, Sent(t)) /\ NotesFirstPost(t, Sent(t))
         /\ Sent(t).heard = t.heard /\ Sent(t).slow = t.slow
  <1>1. CASE t.recurrence
    <2> DEFINE s == [k \in Throttled |-> IF k = t.hook /\ t.sent[k] = NULL THEN clock ELSE t.sent[k]]
    <2>1. s \in [Throttled -> Nat \union {NULL}]
      BY DEF DispatchType
    <2>2. \A k \in Throttled : s[k] = IF k = t.hook /\ t.sent[k] = NULL THEN clock ELSE t.sent[k]
      OBVIOUS
    <2>3. Sent(t) = [t EXCEPT !.sent = s]
      BY <1>1 DEF Sent
    <2> HIDE DEF s
    <2>4. Sent(t) \in DispatchType
      BY <2>1, <2>3 DEF DispatchType
    <2>5. SameErrand(t, Sent(t)) /\ Sent(t).heard = t.heard /\ Sent(t).slow = t.slow
      BY <2>3 DEF DispatchType, SameErrand
    <2>6. Sent(t).sent = s
      BY <2>3 DEF DispatchType
    <2> QED
      BY <1>1, <2>2, <2>4, <2>5, <2>6 DEF NotesFirstPost
  <1>2. CASE ~t.recurrence
    <2>1. Sent(t) = t
      BY <1>2 DEF Sent
    <2> QED
      BY <1>2, <2>1 DEF SameErrand, NotesFirstPost
  <1> QED
    BY <1>1, <1>2

LEMMA SlowedEffect ==
  ASSUME NEW t \in DispatchType, t.hook \in Hooks, clock \in Nat
  PROVE  /\ Slowed(t) \in DispatchType /\ SameErrand(t, Slowed(t)) /\ NotesFirstPost(t, Slowed(t))
         /\ Slowed(t).heard = t.heard
         /\ ~t.recurrence => Slowed(t).slow = t.slow \union {t.hook}
  <1>1. CASE t.recurrence
    BY <1>1, SentEffect DEF Slowed
  <1>2. CASE ~t.recurrence
    <2>1. Slowed(t) = [t EXCEPT !.slow = t.slow \union {t.hook}]
      BY <1>2 DEF Slowed
    <2>2. t.slow \union {t.hook} \in SUBSET Hooks
      BY DEF DispatchType
    <2>3. Slowed(t) \in DispatchType
      BY <2>1, <2>2 DEF DispatchType
    <2>4. /\ SameErrand(t, Slowed(t)) /\ Slowed(t).sent = t.sent
          /\ Slowed(t).heard = t.heard /\ Slowed(t).slow = t.slow \union {t.hook}
      BY <2>1 DEF DispatchType, SameErrand
    <2> QED
      BY <1>2, <2>3, <2>4 DEF NotesFirstPost
  <1> QED
    BY <1>1, <1>2

\* The step of a post: nothing goes out late; what goes out is answered, fails or hangs.
LEMMA PostEffect ==
  ASSUME TypeOK, NEW d \in Dispatches, Post(d)
  PROVE  \E u \in DispatchType :
            /\ Goto(d, u) /\ SameErrand(dispatch[d], u)
            /\ \/ Expired(d) /\ u.sent = dispatch[d].sent
                  /\ u.heard = dispatch[d].heard /\ u.slow = dispatch[d].slow
                  /\ u.pc \in {"backoff", "fired"}
               \/ ~Expired(d) /\ NotesFirstPost(dispatch[d], u)
                  /\ \/ /\ u.pc = "fired" /\ u.slow = dispatch[d].slow
                        /\ ~u.recurrence => u.heard = dispatch[d].heard \union {u.hook}
                     \/ /\ u.pc \in {"hang", "backoff", "fired"} /\ u.heard = dispatch[d].heard
                        /\ ~u.recurrence => u.slow = dispatch[d].slow \union {u.hook}
            /\ u.pc = "backoff" =>
                  /\ u.attempt < MaxAttempts
                  /\ clock <= u.wake /\ u.wake <= clock + u.backoff
                  /\ clock <= u.deadline => u.wake <= u.deadline
            /\ u.pc = "hang" => /\ clock <= u.wake /\ u.wake <= clock + PerAttemptTimeout
                                /\ u.wake <= u.deadline
  <1> DEFINE t == dispatch[d]
  <1>1. t \in DispatchType /\ t.hook \in Hooks /\ clock \in Nat
    BY KeptType, Numbers DEF Post, At, Kept, TypeOK, Running, Hook
  <1>2. \/ Expired(d) /\ Goto(d, AfterFailure(t))
        \/ /\ ~Expired(d)
           /\ \/ \E answer \in {"delivered", "refused"} :
                   Goto(d, [Sent(t) EXCEPT !.pc = "fired", !.outcome = answer,
                                      !.heard = IF t.recurrence THEN {} ELSE @ \union {t.hook}])
              \/ Goto(d, AfterFailure(Slowed(t)))
              \/ Goto(d, [Slowed(t) EXCEPT !.pc = "hang",
                                     !.wake = Min({clock + PerAttemptTimeout, t.deadline})])
    BY DEF Post, Hook, Sent, Slowed
  <1> HIDE DEF t
  <1>3. CASE Expired(d) /\ Goto(d, AfterFailure(t))
    BY <1>1, <1>3, AfterFailureEffect DEF SameErrand, t
  <1>4. ASSUME ~Expired(d), NEW answer \in {"delivered", "refused"},
               Goto(d, [Sent(t) EXCEPT !.pc = "fired", !.outcome = answer,
                                  !.heard = IF t.recurrence THEN {} ELSE @ \union {t.hook}])
        PROVE  \E u \in DispatchType :
                  /\ Goto(d, u) /\ SameErrand(t, u) /\ NotesFirstPost(t, u)
                  /\ u.pc = "fired" /\ u.slow = t.slow
                  /\ ~u.recurrence => u.heard = t.heard \union {u.hook}
    <2> DEFINE s == Sent(t)
               heard == IF t.recurrence THEN {} ELSE t.heard \union {t.hook}
               u == [s EXCEPT !.pc = "fired", !.outcome = answer, !.heard = heard]
    <2>1. /\ s \in DispatchType /\ SameErrand(t, s) /\ NotesFirstPost(t, s)
          /\ s.heard = t.heard /\ s.slow = t.slow
      BY <1>1, SentEffect
    <2>2. heard \in SUBSET Hooks
      BY <1>1 DEF DispatchType
    <2> HIDE DEF s
    <2>3. Goto(d, u)
      BY <1>4, <2>1 DEF s
    <2> HIDE DEF heard
    <2>4. u \in DispatchType
      BY <2>1, <2>2 DEF DispatchType
    <2>5. SameErrand(s, u) /\ u.sent = s.sent /\ u.pc = "fired" /\ u.slow = s.slow /\ u.heard = heard
      BY <2>1 DEF DispatchType, SameErrand
    <2> HIDE DEF u
    <2>6. SameErrand(t, u) /\ NotesFirstPost(t, u)
      BY <2>1, <2>5 DEF SameErrand, NotesFirstPost
    <2>7. ~u.recurrence => u.heard = t.heard \union {u.hook}
      BY <2>5, <2>6 DEF heard, SameErrand
    <2> QED
      BY <2>1, <2>3, <2>4, <2>5, <2>6, <2>7
  <1>5. ASSUME ~Expired(d), Goto(d, AfterFailure(Slowed(t)))
        PROVE  \E u \in DispatchType :
                  /\ Goto(d, u) /\ SameErrand(t, u) /\ NotesFirstPost(t, u)
                  /\ u.pc \in {"backoff", "fired"} /\ u.heard = t.heard
                  /\ ~u.recurrence => u.slow = t.slow \union {u.hook}
                  /\ u.pc = "backoff" =>
                        /\ u.attempt < MaxAttempts
                        /\ clock <= u.wake /\ u.wake <= clock + u.backoff
                        /\ clock <= u.deadline => u.wake <= u.deadline
    <2> DEFINE s == Slowed(t)
               u == AfterFailure(s)
    <2>1. /\ s \in DispatchType /\ SameErrand(t, s) /\ NotesFirstPost(t, s)
          /\ s.heard = t.heard /\ (~t.recurrence => s.slow = t.slow \union {t.hook})
      BY <1>1, SlowedEffect
    <2> HIDE DEF s
    <2>2. /\ u \in DispatchType /\ SameErrand(s, u)
          /\ u.sent = s.sent /\ u.heard = s.heard /\ u.slow = s.slow
          /\ u.pc \in {"backoff", "fired"}
          /\ u.pc = "backoff" =>
                /\ u.attempt < MaxAttempts
                /\ clock <= u.wake /\ u.wake <= clock + u.backoff
                /\ clock <= u.deadline => u.wake <= u.deadline
      BY <1>1, <2>1, AfterFailureEffect DEF SameErrand
    <2>3. Goto(d, u)
      BY <1>5 DEF s
    <2> HIDE DEF u
    <2>4. SameErrand(t, u) /\ NotesFirstPost(t, u)
      BY <2>1, <2>2 DEF SameErrand, NotesFirstPost
    <2>5. ~u.recurrence => u.slow = t.slow \union {u.hook}
      BY <2>1, <2>2, <2>4 DEF SameErrand
    <2>6. u.heard = t.heard
      BY <2>1, <2>2
    <2> QED
      BY <2>2, <2>3, <2>4, <2>5, <2>6
  <1>6. ASSUME ~Expired(d),
               Goto(d, [Slowed(t) EXCEPT !.pc = "hang",
                                   !.wake = Min({clock + PerAttemptTimeout, t.deadline})])
        PROVE  \E u \in DispatchType :
                  /\ Goto(d, u) /\ SameErrand(t, u) /\ NotesFirstPost(t, u)
                  /\ u.pc = "hang" /\ u.heard = t.heard
                  /\ ~u.recurrence => u.slow = t.slow \union {u.hook}
                  /\ clock <= u.wake /\ u.wake <= clock + PerAttemptTimeout
                  /\ u.wake <= u.deadline
    <2> DEFINE s == Slowed(t)
               w == Min({clock + PerAttemptTimeout, t.deadline})
               u == [s EXCEPT !.pc = "hang", !.wake = w]
    <2>1. /\ s \in DispatchType /\ SameErrand(t, s) /\ NotesFirstPost(t, s)
          /\ s.heard = t.heard /\ (~t.recurrence => s.slow = t.slow \union {t.hook})
      BY <1>1, SlowedEffect
    <2>2. t.deadline \in Nat /\ clock < t.deadline
      BY <1>1, <1>6 DEF Expired, DispatchType, t
    <2>3. w = IF clock + PerAttemptTimeout <= t.deadline THEN clock + PerAttemptTimeout ELSE t.deadline
      BY <1>1, <2>2, MinOfTwo, Constants
    <2>4. w \in Nat /\ clock <= w /\ w <= clock + PerAttemptTimeout /\ w <= t.deadline
      BY <1>1, <2>2, <2>3, Constants
    <2>5. Goto(d, u)
      BY <1>6
    <2> HIDE DEF s, w
    <2>6. u \in DispatchType
      BY <2>1, <2>4 DEF DispatchType
    <2>7. SameErrand(s, u) /\ u.sent = s.sent /\ u.pc = "hang" /\ u.slow = s.slow
          /\ u.heard = s.heard /\ u.wake = w
      BY <2>1 DEF DispatchType, SameErrand
    <2> HIDE DEF u
    <2>8. SameErrand(t, u) /\ NotesFirstPost(t, u)
      BY <2>1, <2>7 DEF SameErrand, NotesFirstPost
    <2>9. ~u.recurrence => u.slow = t.slow \union {u.hook}
      BY <2>1, <2>7, <2>8 DEF SameErrand
    <2>10. u.wake <= u.deadline /\ u.heard = t.heard
      BY <2>1, <2>4, <2>7, <2>8 DEF SameErrand
    <2> QED
      BY <2>4, <2>5, <2>6, <2>7, <2>8, <2>9, <2>10
  <1>7. CASE ~Expired(d)
    BY <1>2, <1>4, <1>5, <1>6, <1>7 DEF t
  <1> QED
    BY <1>2, <1>3, <1>7

\* The group and the list are read, or a statement fails.
LEMMA LoadEffect ==
  ASSUME TypeOK, NEW d \in Dispatches, LoadGroupAndHooks(d)
  PROVE  /\ dispatch[d] \in DispatchType /\ dispatch[d].hook = 1 /\ (1 \in Hooks \/ Hooks = {})
         /\ \E v \in DispatchType :
              /\ Goto(d, v) /\ v.pc \in {"gate", "done"} /\ (v.pc = "gate" => Hooks # {})
              /\ v.recurrence = dispatch[d].recurrence /\ v.deadline = dispatch[d].deadline
              /\ v.hook = 1 /\ v.attempt = dispatch[d].attempt /\ v.backoff = dispatch[d].backoff
              /\ v.sent = dispatch[d].sent /\ v.left = dispatch[d].left
              /\ v.heard = dispatch[d].heard /\ v.slow = dispatch[d].slow
              /\ \/ errors' = errors + 1
                 \/ errors' = errors /\ v.known = dispatch[d].known /\ (v.pc = "done" => Hooks = {})
         /\ errors' \in 0 .. MaxErrors
  <1>1. dispatch[d] \in DispatchType /\ dispatch[d].hook = 1
    BY KeptType DEF LoadGroupAndHooks, At, Kept, TypeOK, Running, Hook
  <1>2. PICK pc \in {"gate", "done"}, isKnown \in BOOLEAN :
            /\ Goto(d, [dispatch[d] EXCEPT !.pc = pc, !.known = isKnown])
            /\ pc = "gate" => Hooks # {}
            /\ \/ errors' = errors + 1
               \/ errors' = errors /\ isKnown = dispatch[d].known /\ (pc = "done" => Hooks = {})
    <2>1. dispatch[d].known \in BOOLEAN
          /\ \A pc : [dispatch[d] EXCEPT !.pc = pc] =
                     [dispatch[d] EXCEPT !.pc = pc, !.known = dispatch[d].known]
      BY <1>1 DEF DispatchType
    <2> QED
      BY <2>1 DEF LoadGroupAndHooks
  <1>3. 1 \in Hooks \/ Hooks = {}
    BY Constants
  <1>4. errors' \in 0 .. MaxErrors
    BY Constants DEF LoadGroupAndHooks, TypeOK
  <1> DEFINE v == [dispatch[d] EXCEPT !.pc = pc, !.known = isKnown]
  <1>5. v \in DispatchType
    BY <1>1 DEF DispatchType
  <1>6. /\ v.pc = pc /\ v.known = isKnown /\ v.hook = 1
        /\ v.recurrence = dispatch[d].recurrence /\ v.deadline = dispatch[d].deadline
        /\ v.attempt = dispatch[d].attempt /\ v.backoff = dispatch[d].backoff
    BY <1>1 DEF DispatchType
  <1>7. /\ v.sent = dispatch[d].sent /\ v.left = dispatch[d].left
        /\ v.heard = dispatch[d].heard /\ v.slow = dispatch[d].slow
    BY <1>1 DEF DispatchType
  <1>8. Goto(d, v)
    BY <1>2
  <1> HIDE DEF v
  <1> QED
    BY <1>1, <1>2, <1>3, <1>4, <1>5, <1>6, <1>7, <1>8

\* A dispatch that has finished with a webhook goes on to the next, or is over.
MovesOn(t, v) ==
    /\ v.recurrence = t.recurrence /\ v.known = t.known /\ v.deadline = t.deadline
    /\ v.sent = t.sent /\ v.heard = t.heard /\ v.slow = t.slow
    /\ v.attempt = 1 /\ v.backoff = InitialBackoff
    /\ \/ v.pc = "gate" /\ v.hook = t.hook + 1 /\ v.hook \in Hooks
       \/ v.pc = "done" /\ v.hook = t.hook /\ t.hook = Len(Modes)

LEMMA AdvanceEffect ==
  ASSUME TypeOK, NEW d \in Dispatches, AdvanceBaseline(d)
  PROVE  \E v \in DispatchType :
            /\ Goto(d, v) /\ MovesOn(dispatch[d], v)
            /\ \A k \in Throttled :
                  v.left[k] = IF dispatch[d].recurrence /\ k = Hook(d) THEN clock ELSE dispatch[d].left[k]
  <1> DEFINE t == dispatch[d]
             left == [k \in Throttled |-> IF t.recurrence /\ k = Hook(d) THEN clock ELSE t.left[k]]
             u == [t EXCEPT !.left = left]
             v == NextHook(u)
  <1>1. t \in DispatchType /\ t.hook \in Hooks /\ clock \in Nat
    BY KeptType, Numbers DEF AdvanceBaseline, At, Kept, TypeOK, Running, Hook
  <1>2. Goto(d, v)
    BY DEF AdvanceBaseline
  <1> HIDE DEF t
  <1>3. left \in [Throttled -> Nat \union {NULL}]
    BY <1>1 DEF DispatchType
  <1>4. \A k \in Throttled : left[k] = IF t.recurrence /\ k = Hook(d) THEN clock ELSE t.left[k]
    OBVIOUS
  <1> HIDE DEF left
  <1>5. u \in DispatchType
    BY <1>1, <1>3 DEF DispatchType
  <1>6. /\ u.recurrence = t.recurrence /\ u.known = t.known /\ u.deadline = t.deadline
        /\ u.sent = t.sent /\ u.heard = t.heard /\ u.slow = t.slow /\ u.hook = t.hook
        /\ u.left = left
    BY <1>1 DEF DispatchType
  <1> HIDE DEF u
  <1>7. v \in DispatchType /\ MovesOn(t, v) /\ v.left = left
    BY <1>1, <1>5, <1>6, NextHookEffect DEF MovesOn
  <1> HIDE DEF v
  <1> QED
    BY <1>2, <1>4, <1>7 DEF t

\* The gate lets the dispatch post, or sends it on.
LEMMA GateEffect ==
  ASSUME TypeOK, NEW d \in Dispatches, RecurrenceShouldFire(d)
  PROVE  /\ dispatch[d] \in DispatchType /\ dispatch[d].hook \in Hooks
         /\ \E v \in DispatchType :
              /\ Goto(d, v) /\ v.left = dispatch[d].left
              /\ \/ /\ v.pc = "post" /\ SameErrand(dispatch[d], v)
                    /\ v.sent = dispatch[d].sent
                    /\ v.heard = dispatch[d].heard /\ v.slow = dispatch[d].slow
                 \/ MovesOn(dispatch[d], v)
  <1>1. dispatch[d] \in DispatchType /\ dispatch[d].hook \in Hooks
    BY KeptType DEF RecurrenceShouldFire, At, Kept, TypeOK, Running, Hook
  <1>2. Goto(d, [dispatch[d] EXCEPT !.pc = "post"]) \/ Goto(d, NextHook(dispatch[d]))
    BY DEF RecurrenceShouldFire
  <1>3. CASE Goto(d, [dispatch[d] EXCEPT !.pc = "post"])
    <2> DEFINE v == [dispatch[d] EXCEPT !.pc = "post"]
    <2>1. v \in DispatchType
      BY <1>1 DEF DispatchType
    <2>2. /\ v.pc = "post" /\ SameErrand(dispatch[d], v) /\ v.sent = dispatch[d].sent
          /\ v.heard = dispatch[d].heard /\ v.slow = dispatch[d].slow
      BY <1>1 DEF DispatchType, SameErrand
    <2>3. v.left = dispatch[d].left
      BY <2>2 DEF SameErrand
    <2>4. Goto(d, v)
      BY <1>3
    <2> HIDE DEF v
    <2> QED
      BY <1>1, <2>1, <2>2, <2>3, <2>4
  <1>4. CASE Goto(d, NextHook(dispatch[d]))
    <2> DEFINE v == NextHook(dispatch[d])
    <2>1. v \in DispatchType /\ v.left = dispatch[d].left /\ MovesOn(dispatch[d], v)
      BY <1>1, NextHookEffect DEF MovesOn
    <2> HIDE DEF v
    <2> QED
      BY <1>1, <1>4, <2>1 DEF v
  <1> QED
    BY <1>2, <1>3, <1>4

\* The next post comes with its own attempt and a longer backoff.
LEMMA RetryEffect ==
  ASSUME TypeOK, NEW d \in Dispatches, Retry(d)
  PROVE  /\ dispatch[d] \in DispatchType /\ dispatch[d].hook \in Hooks
         /\ \E v \in DispatchType :
              /\ Goto(d, v) /\ v.pc = "post" /\ v.attempt = dispatch[d].attempt + 1
              /\ v.backoff = dispatch[d].backoff * BackoffMultiplier
              /\ v.recurrence = dispatch[d].recurrence /\ v.known = dispatch[d].known
              /\ v.deadline = dispatch[d].deadline /\ v.hook = dispatch[d].hook
              /\ v.sent = dispatch[d].sent /\ v.left = dispatch[d].left
              /\ v.heard = dispatch[d].heard /\ v.slow = dispatch[d].slow
  <1> DEFINE t == dispatch[d]
             n == t.attempt + 1
             b == t.backoff * BackoffMultiplier
             v == [t EXCEPT !.pc = "post", !.attempt = n, !.backoff = b, !.wake = 0]
  <1>1. t \in DispatchType /\ t.hook \in Hooks /\ t.attempt < MaxAttempts
    BY KeptType DEF Retry, At, Kept, TypeOK, Running, Hook
  <1>2. Goto(d, v)
    BY DEF Retry
  <1> HIDE DEF t
  <1>3. t.attempt \in 1 .. MaxAttempts /\ t.attempt < MaxAttempts /\ t.backoff \in Nat
    BY <1>1 DEF DispatchType
  <1>4. n \in 1 .. MaxAttempts
    BY <1>3, Constants
  <1>5. b \in Nat
    BY <1>3, Constants
  <1>6. n = t.attempt + 1 /\ b = t.backoff * BackoffMultiplier
    OBVIOUS
  <1> HIDE DEF n, b
  <1>7. v \in DispatchType
    <2> DEFINE u == [t EXCEPT !.pc = "post", !.attempt = n]
    <2>1. u \in DispatchType
      BY <1>1, <1>4 DEF DispatchType
    <2>2. v = [u EXCEPT !.backoff = b, !.wake = 0]
      OBVIOUS
    <2> HIDE DEF u, v
    <2> QED
      BY <1>5, <2>1, <2>2 DEF DispatchType
  <1>8. /\ v.pc = "post" /\ v.attempt = n /\ v.backoff = b /\ v.recurrence = t.recurrence
        /\ v.known = t.known /\ v.deadline = t.deadline /\ v.hook = t.hook
    BY <1>1 DEF DispatchType
  <1>9. v.sent = t.sent /\ v.left = t.left /\ v.heard = t.heard /\ v.slow = t.slow
    BY <1>1 DEF DispatchType
  <1> HIDE DEF v
  <1> QED
    BY <1>1, <1>2, <1>6, <1>7, <1>8, <1>9 DEF t

\* A request that times out.
LEMMA TimeOutEffect ==
  ASSUME TypeOK, NEW d \in Dispatches, TimeOut(d)
  PROVE  /\ dispatch[d] \in DispatchType /\ dispatch[d].hook \in Hooks
         /\ \E v \in DispatchType :
              /\ Goto(d, v) /\ SameErrand(dispatch[d], v) /\ v.sent = dispatch[d].sent
              /\ v.heard = dispatch[d].heard /\ v.slow = dispatch[d].slow
              /\ \/ v.pc = "fired"
                 \/ /\ v.pc = "backoff" /\ v.attempt < MaxAttempts
                    /\ clock <= v.wake /\ v.wake <= clock + v.backoff
                    /\ clock <= v.deadline => v.wake <= v.deadline
  <1>1. dispatch[d] \in DispatchType /\ dispatch[d].hook \in Hooks /\ clock \in Nat
    BY KeptType, Numbers DEF TimeOut, At, Kept, TypeOK, Running, Hook
  <1>2. Goto(d, AfterFailure(dispatch[d]))
    BY DEF TimeOut
  <1> QED
    BY <1>1, <1>2, AfterFailureEffect DEF SameErrand

-----------------------------------------------------------------------------
(* Types, and the deadline.                                                *)

LEMMA InitTypes == Init => TypeOK
  <1> SUFFICES ASSUME Init PROVE TypeOK
    OBVIOUS
  <1>1. clock \in 0 .. MaxClock /\ errors \in 0 .. MaxErrors
    BY Constants DEF Init
  <1>2. /\ dispatch \in [Dispatches ->
              DispatchType \union {Unborn} \union [pc : {"killed"}, recurrence : BOOLEAN]]
        /\ \A d \in Dispatches : ~Running(d) /\ ~At(d, "backoff")
    BY DEF Init, Running, Unborn, At
  <1>3. lastFired \in [Hooks -> (0 .. clock) \union {NULL}]
    BY DEF Init
  <1>4. signalledAt \in (0 .. clock) \union {NULL} /\ cutShort \in BOOLEAN /\ restarts \in Nat
    BY DEF Init
  <1> QED
    BY <1>1, <1>2, <1>3, <1>4 DEF TypeOK

\* A step of one dispatch keeps the types when what it becomes is of its type.
LEMMA TypesStep ==
  ASSUME TypeOK, NEW d \in Dispatches, NEW t \in DispatchType, Goto(d, t),
         t.pc = "load" => t.hook = 1, t.pc \notin {"load", "done"} => t.hook \in Hooks,
         t.pc = "backoff" => t.attempt < MaxAttempts,
         errors' \in 0 .. MaxErrors, lastFired' \in [Hooks -> (0 .. clock) \union {NULL}],
         UNCHANGED <<clock, signalledAt, cutShort, restarts>>
  PROVE  TypeOK'
  <1>1. dispatch' \in [Dispatches ->
              DispatchType \union {Unborn} \union [pc : {"killed"}, recurrence : BOOLEAN]]
    BY DEF TypeOK, Goto
  <1>2. \A e \in Dispatches :
            /\ Running(e)' => IF At(e, "load")' THEN Hook(e)' = 1 ELSE Hook(e)' \in Hooks
            /\ At(e, "backoff")' => dispatch'[e].attempt < MaxAttempts
    BY GotoEffect DEF TypeOK, Running, At, Hook
  <1> QED
    BY <1>1, <1>2 DEF TypeOK

LEMMA StepTypes ==
  ASSUME TypeOK, NEW d \in Dispatches, Step(d)
  PROVE  TypeOK'
  <1>0. /\ clock \in Nat /\ errors \in 0 .. MaxErrors
        /\ lastFired \in [Hooks -> (0 .. clock) \union {NULL}]
    BY Numbers DEF TypeOK
  <1>1. ASSUME NEW recurrence \in BOOLEAN, MaybeFireWebhook(d, recurrence) PROVE TypeOK'
    <2> DEFINE t == [pc |-> "load", recurrence |-> recurrence, known |-> TRUE,
                deadline |-> clock + DispatchTimeout, hook |-> 1, attempt |-> 1,
                backoff |-> InitialBackoff, wake |-> 0, outcome |-> "none",
                sent |-> [h \in Throttled |-> NULL],
                left |-> [h \in Throttled |-> NULL], heard |-> {}, slow |-> {}]
    <2>1. t \in DispatchType
      <3>1. /\ clock + DispatchTimeout \in Nat /\ InitialBackoff \in Nat /\ 1 \in 1 .. MaxAttempts
            /\ [h \in Throttled |-> NULL] \in [Throttled -> Nat \union {NULL}]
        BY <1>0, Constants
      <3> QED
        BY <3>1 DEF DispatchType
    <2>2. Goto(d, t) /\ t.pc = "load" /\ t.hook = 1
      BY <1>1 DEF MaybeFireWebhook
    <2> HIDE DEF t
    <2> QED
      BY <1>0, <1>1, <2>1, <2>2, TypesStep DEF MaybeFireWebhook
  <1>2. ASSUME LoadGroupAndHooks(d) PROVE TypeOK'
    <2>1. PICK v \in DispatchType : Goto(d, v) /\ v.pc \in {"gate", "done"}
                                    /\ (v.pc = "gate" => v.hook \in Hooks)
      BY <1>2, LoadEffect
    <2>2. errors' \in 0 .. MaxErrors
      BY <1>2, LoadEffect
    <2> QED
      BY <1>0, <1>2, <2>1, <2>2, TypesStep DEF LoadGroupAndHooks
  <1>3. ASSUME RecurrenceShouldFire(d) PROVE TypeOK'
    <2>1. errors' \in 0 .. MaxErrors
      <3>1. PICK ok \in Outcomes \union {TRUE} : CountError(ok)
        BY <1>3 DEF RecurrenceShouldFire
      <3> QED
        BY <1>0, <3>1, MayFail, Counted
    <2>2. PICK v \in DispatchType : Goto(d, v) /\ v.pc \in {"post", "gate", "done"}
                                    /\ (v.pc # "done" => v.hook \in Hooks)
      BY <1>3, GateEffect DEF SameErrand, MovesOn
    <2> QED
      BY <1>0, <1>3, <2>1, <2>2, TypesStep DEF RecurrenceShouldFire
  <1>4. ASSUME Post(d) PROVE TypeOK'
    <2>1. dispatch[d].hook \in Hooks
      BY <1>4 DEF Post, At, TypeOK, Running, Hook
    <2>2. PICK v \in DispatchType : Goto(d, v) /\ v.pc \in {"hang", "backoff", "fired"}
                                    /\ v.hook \in Hooks
                                    /\ (v.pc = "backoff" => v.attempt < MaxAttempts)
      BY <1>4, <2>1, PostEffect DEF SameErrand
    <2> QED
      BY <1>0, <1>4, <2>2, TypesStep DEF Post
  <1>5. ASSUME TimeOut(d) PROVE TypeOK'
    <2>1. PICK v \in DispatchType : Goto(d, v) /\ v.pc \in {"backoff", "fired"} /\ v.hook \in Hooks
                                    /\ (v.pc = "backoff" => v.attempt < MaxAttempts)
      BY <1>5, TimeOutEffect DEF SameErrand
    <2> QED
      BY <1>0, <1>5, <2>1, TypesStep DEF TimeOut
  <1>6. ASSUME Retry(d) PROVE TypeOK'
    <2>1. PICK v \in DispatchType : Goto(d, v) /\ v.pc = "post" /\ v.hook \in Hooks
      BY <1>6, RetryEffect
    <2> QED
      BY <1>0, <1>6, <2>1, TypesStep DEF Retry
  <1>7. ASSUME AdvanceBaseline(d) PROVE TypeOK'
    <2>1. PICK v \in DispatchType : Goto(d, v) /\ v.pc \in {"gate", "done"}
                                    /\ (v.pc = "gate" => v.hook \in Hooks)
      BY <1>7, AdvanceEffect DEF MovesOn
    <2>2. PICK ok \in Outcomes \union {TRUE} :
            /\ CountError(ok)
            /\ lastFired' \in {lastFired, UpsertWebhookRecurrenceLastFired(dispatch[d])}
      BY <1>7 DEF AdvanceBaseline
    <2>3. errors' \in 0 .. MaxErrors
      BY <1>0, <2>2, MayFail, Counted
    <2>4. lastFired' \in [Hooks -> (0 .. clock) \union {NULL}]
      BY <1>0, <2>2 DEF UpsertWebhookRecurrenceLastFired
    <2> QED
      BY <1>0, <1>7, <2>1, <2>3, <2>4, TypesStep DEF AdvanceBaseline
  <1> QED
    BY <1>1, <1>2, <1>3, <1>4, <1>5, <1>6, <1>7 DEF Step

LEMMA NextTypes == TypeOK /\ [Next]_vars => TypeOK'
  <1> SUFFICES ASSUME TypeOK, [Next]_vars PROVE TypeOK'
    OBVIOUS
  <1>1. ASSUME NEW d \in Dispatches, Step(d) PROVE TypeOK'
    BY <1>1, StepTypes
  <1>2. CASE Shutdown
    BY <1>2, Numbers DEF Shutdown, TypeOK, Running, At, Hook
  <1>3. CASE MainReturns
    <2>1. dispatch' \in [Dispatches ->
              DispatchType \union {Unborn} \union [pc : {"killed"}, recurrence : BOOLEAN]]
      <3>1. ASSUME NEW d \in Dispatches, Running(d)
            PROVE  [pc |-> "killed", recurrence |-> dispatch[d].recurrence]
                        \in [pc : {"killed"}, recurrence : BOOLEAN]
        BY <3>1, KeptType DEF Running, Kept, DispatchType
      <3> QED
        BY <1>3, <3>1 DEF MainReturns, TypeOK
    <2>2. \A d \in Dispatches : ~Running(d)' /\ ~At(d, "backoff")'
      BY <1>3 DEF MainReturns, Running, At
    <2>3. cutShort' \in BOOLEAN /\ restarts' \in Nat /\ signalledAt' = NULL
      BY <1>3 DEF MainReturns, TypeOK
    <2> QED
      BY <1>3, <2>1, <2>2, <2>3 DEF MainReturns, TypeOK
  <1>4. CASE Advance
    <2>1. clock' \in 0 .. MaxClock /\ clock' = clock + 1 /\ clock \in Nat
      BY <1>4, Numbers, Constants DEF Advance, TypeOK
    <2>2. lastFired' \in [Hooks -> (0 .. clock') \union {NULL}]
      BY <1>4, <2>1 DEF Advance, TypeOK
    <2>3. signalledAt' \in (0 .. clock') \union {NULL}
      BY <1>4, <2>1 DEF Advance, TypeOK
    <2> QED
      BY <1>4, <2>1, <2>2, <2>3 DEF Advance, TypeOK, Running, At, Hook
  <1>5. CASE UNCHANGED vars
    BY <1>5 DEF vars, TypeOK, Running, At, Hook
  <1> QED
    BY <1>1, <1>2, <1>3, <1>4, <1>5 DEF Next

\* Every dispatch has a webhook of the list, an attempt within bounds and its own record
\* of what it posted, whatever fails and whenever the process stops.
THEOREM DispatchTypes == Spec => []TypeOK
  BY InitTypes, NextTypes, PTL DEF Spec

\* A step of one dispatch keeps everybody in time when it does so itself.
LEMMA InTimeStep ==
  ASSUME TypeOK, InTime, NEW d \in Dispatches, NEW t \in DispatchType, Goto(d, t), UNCHANGED clock,
         t.pc # "done" => clock <= t.deadline,
         t.pc \in {"hang", "backoff"} => clock <= t.wake /\ t.wake <= t.deadline
  PROVE  InTime'
  BY GotoEffect DEF InTime, Running, Waiting

LEMMA StepInTime ==
  ASSUME TypeOK, InTime, NEW d \in Dispatches, Step(d)
  PROVE  InTime'
  <1>1. ASSUME NEW recurrence \in BOOLEAN, MaybeFireWebhook(d, recurrence) PROVE InTime'
    <2>1. PICK t : Goto(d, t) /\ t.pc = "load" /\ t.deadline = clock + DispatchTimeout
      BY <1>1 DEF MaybeFireWebhook
    <2>2. clock <= t.deadline
      BY <2>1, Numbers, Constants
    <2>3. UNCHANGED clock
      BY <1>1 DEF MaybeFireWebhook
    <2> QED
      BY <2>1, <2>2, <2>3, GotoEffect DEF InTime, Running, Waiting
  <1>2. ASSUME LoadGroupAndHooks(d) PROVE InTime'
    <2>1. clock <= dispatch[d].deadline
      BY <1>2 DEF LoadGroupAndHooks, At, InTime, Running
    <2>2. PICK t \in DispatchType : Goto(d, t) /\ t.pc \in {"gate", "done"}
                                    /\ t.deadline = dispatch[d].deadline
      BY <1>2, LoadEffect
    <2> QED
      BY <1>2, <2>1, <2>2, InTimeStep DEF LoadGroupAndHooks
  <1>3. ASSUME RecurrenceShouldFire(d) PROVE InTime'
    <2>1. clock <= dispatch[d].deadline
      BY <1>3 DEF RecurrenceShouldFire, At, InTime, Running
    <2>2. PICK t \in DispatchType : Goto(d, t) /\ t.pc \in {"post", "gate", "done"}
                                    /\ t.deadline = dispatch[d].deadline
      BY <1>3, GateEffect DEF SameErrand, MovesOn
    <2> QED
      BY <1>3, <2>1, <2>2, InTimeStep DEF RecurrenceShouldFire
  <1>4. ASSUME Post(d) PROVE InTime'
    <2>1. clock <= dispatch[d].deadline
      BY <1>4 DEF Post, At, InTime, Running
    <2>2. PICK t \in DispatchType :
              /\ Goto(d, t) /\ t.deadline = dispatch[d].deadline
              /\ t.pc = "backoff" => clock <= t.wake /\ (clock <= t.deadline => t.wake <= t.deadline)
              /\ t.pc = "hang" => clock <= t.wake /\ t.wake <= t.deadline
      BY <1>4, PostEffect DEF SameErrand
    <2> QED
      BY <1>4, <2>1, <2>2, InTimeStep DEF Post
  <1>5. ASSUME TimeOut(d) PROVE InTime'
    <2>1. clock <= dispatch[d].deadline
      BY <1>5 DEF TimeOut, At, InTime, Running
    <2>2. PICK t \in DispatchType :
              /\ Goto(d, t) /\ t.deadline = dispatch[d].deadline /\ t.pc \in {"fired", "backoff"}
              /\ t.pc = "backoff" => clock <= t.wake /\ (clock <= t.deadline => t.wake <= t.deadline)
      BY <1>5, TimeOutEffect DEF SameErrand
    <2> QED
      BY <1>5, <2>1, <2>2, InTimeStep DEF TimeOut
  <1>6. ASSUME Retry(d) PROVE InTime'
    <2>1. clock <= dispatch[d].deadline
      BY <1>6 DEF Retry, At, InTime, Running
    <2>2. PICK t \in DispatchType : Goto(d, t) /\ t.pc = "post" /\ t.deadline = dispatch[d].deadline
      BY <1>6, RetryEffect
    <2> QED
      BY <1>6, <2>1, <2>2, InTimeStep DEF Retry
  <1>7. ASSUME AdvanceBaseline(d) PROVE InTime'
    <2>1. clock <= dispatch[d].deadline
      BY <1>7 DEF AdvanceBaseline, At, InTime, Running
    <2>2. PICK t \in DispatchType : Goto(d, t) /\ t.pc \in {"gate", "done"}
                                    /\ t.deadline = dispatch[d].deadline
      BY <1>7, AdvanceEffect DEF MovesOn
    <2> QED
      BY <1>7, <2>1, <2>2, InTimeStep DEF AdvanceBaseline
  <1> QED
    BY <1>1, <1>2, <1>3, <1>4, <1>5, <1>6, <1>7 DEF Step

\* Time passes only while everybody waits, and for no longer than their waits last.
LEMMA AdvanceWaits ==
  ASSUME TypeOK, Advance, NEW d \in Dispatches, Running(d)
  PROVE  /\ dispatch[d] \in DispatchType /\ Waiting(d)
         /\ clock + 1 <= dispatch[d].wake /\ clock' = clock + 1 /\ dispatch' = dispatch
  BY KeptType, Numbers DEF Advance, Running, Kept, DispatchType

LEMMA NextInTime == BoundedInv /\ [Next]_vars => InTime'
  <1> SUFFICES ASSUME TypeOK, InTime, [Next]_vars PROVE InTime'
    BY DEF BoundedInv
  <1>1. ASSUME NEW d \in Dispatches, Step(d) PROVE InTime'
    BY <1>1, StepInTime
  <1>2. CASE Shutdown
    BY <1>2 DEF Shutdown, InTime, Running, Waiting
  <1>3. CASE MainReturns
    <2>1. \A d \in Dispatches : ~Running(d)'
      BY <1>3 DEF MainReturns, Running
    <2> QED
      BY <2>1 DEF InTime
  <1>4. CASE Advance
    <2> SUFFICES ASSUME NEW d \in Dispatches, Running(d)'
                 PROVE  clock' <= dispatch'[d].wake /\ dispatch'[d].wake <= dispatch'[d].deadline
                        /\ clock' <= dispatch'[d].deadline
      BY DEF InTime, Running, Waiting
    <2>1. Running(d)
      BY <1>4 DEF Advance, Running
    <2>2. /\ clock + 1 <= dispatch[d].wake /\ clock' = clock + 1 /\ dispatch' = dispatch
          /\ Waiting(d) /\ dispatch[d].wake \in Nat /\ dispatch[d].deadline \in Nat
      BY <1>4, <2>1, AdvanceWaits DEF DispatchType
    <2>3. dispatch[d].wake <= dispatch[d].deadline
      BY <2>1, <2>2 DEF InTime
    <2> QED
      BY <2>2, <2>3, Numbers
  <1>5. CASE UNCHANGED vars
    BY <1>5 DEF vars, InTime, Running, Waiting
  <1> QED
    BY <1>1, <1>2, <1>3, <1>4, <1>5 DEF Next

\* A dispatch never outlives its deadline, however many receivers hang: the request that
\* hangs and the backoff that follows are both cut short by it.
THEOREM DispatchesAreBounded == Spec => []DispatchIsBounded
  <1>1. Init => InTime
    BY DEF Init, InTime, Running, Unborn
  <1>2. Init => BoundedInv
    BY <1>1, InitTypes DEF BoundedInv
  <1>3. BoundedInv /\ [Next]_vars => BoundedInv'
    BY NextTypes, NextInTime DEF BoundedInv
  <1>4. BoundedInv => DispatchIsBounded
    BY DEF BoundedInv, InTime, DispatchIsBounded
  <1> QED
    BY <1>2, <1>3, <1>4, PTL DEF Spec

-----------------------------------------------------------------------------
(* The throttle.                                                           *)

\* How a step of one dispatch goes on: what it posts the gate allows, and what it leaves
\* in time is on record.
GoesOn(d, v) ==
    LET t == dispatch[d] IN
    /\ Kept(d)
    /\ v.recurrence = t.recurrence /\ v.deadline = t.deadline
    /\ errors' = 0 => v.known = t.known
    /\ \A k \in Throttled : v.sent[k] = t.sent[k] \/ (v.sent[k] = clock /\ MayPost(d, k))
    /\ \A k \in Throttled :
        \/ v.left[k] = t.left[k]
        \/ /\ v.left[k] = clock
           /\ errors' = 0 /\ v.recurrence /\ clock < v.deadline => clock <= lastFired'[k]

\* How one begins.
Begins(d, v) ==
    /\ ~Kept(d) /\ v.known
    /\ \A k \in Throttled : v.sent[k] = NULL /\ v.left[k] = NULL

\* Where a dispatch of a recurrence may stand.
StandsWell(d, v) ==
    v.recurrence /\ v.hook \in Throttled =>
        /\ v.pc \in {"hang", "backoff"} => v.sent[v.hook] # NULL \/ clock >= v.deadline
        /\ errors' = 0 /\ v.pc = "post" /\ v.sent[v.hook] = NULL /\ clock < v.deadline
           => MayPost(d, v.hook)

LEMMA Departures ==
  ASSUME TypeOK, NEW d \in Dispatches, NEW h \in Throttled, Kept(d)
  PROVE  /\ dispatch[d].sent[h] \in Nat \union {NULL} /\ dispatch[d].left[h] \in Nat \union {NULL}
         /\ dispatch[d].deadline \in Nat /\ dispatch[d].recurrence \in BOOLEAN
  BY KeptType DEF DispatchType

LEMMA ThrottleStep ==
  ASSUME ThrottleInv, NEW d \in Dispatches, NEW v \in DispatchType, Goto(d, v), UNCHANGED clock,
         errors' = 0 => errors = 0,
         \A h \in Throttled : lastFired'[h] \in Int /\ lastFired[h] <= lastFired'[h],
         GoesOn(d, v) \/ Begins(d, v), StandsWell(d, v)
  PROVE  /\ NothingAhead' /\ WaitersHavePosted'
         /\ GroupKnown' /\ LeavesOnRecord' /\ GateHolds' /\ ThrottleHolds'
  <1>1. /\ dispatch'[d] = v
        /\ \A e \in Dispatches : e # d => dispatch'[e] = dispatch[e]
        /\ clock' = clock /\ clock \in Nat
    BY GotoEffect, Numbers DEF ThrottleInv
  <1>2. \A k \in Throttled : v.sent[k] \in Nat \union {NULL} /\ v.left[k] \in Nat \union {NULL}
        /\ v.deadline \in Nat /\ v.recurrence \in BOOLEAN /\ v.known \in BOOLEAN
    BY DEF DispatchType
  <1>3. \A e \in Dispatches, h \in Throttled : Kept(e) =>
            /\ dispatch[e].sent[h] \in Nat \union {NULL} /\ dispatch[e].left[h] \in Nat \union {NULL}
            /\ dispatch[e].deadline \in Nat /\ dispatch[e].recurrence \in BOOLEAN
    BY Departures DEF ThrottleInv
  <1>4. NothingAhead'
    <2>1. \A k \in Throttled : v.sent[k] <= clock /\ v.left[k] <= clock
      BY <1>1 DEF ThrottleInv, NothingAhead, GoesOn, Begins, NULL
    <2> QED
      BY <1>1, <2>1 DEF ThrottleInv, NothingAhead, Kept
  <1>5. WaitersHavePosted'
    BY <1>1 DEF ThrottleInv, WaitersHavePosted, StandsWell, Waiting, Hook, Expired
  <1>6. GroupKnown'
    BY <1>1, <1>2 DEF ThrottleInv, GroupKnown, GoesOn, Begins, Kept
  \* A dispatch that has left now in time either had before, or leaves this instant.
  <1>7. ASSUME errors' = 0, NEW e \in Dispatches, NEW h \in Throttled, LeftInTime(e, h)'
        PROVE  \/ LeftInTime(e, h) /\ dispatch'[e].left[h] = dispatch[e].left[h]
               \/ dispatch'[e].left[h] = clock /\ clock <= lastFired'[h]
    <2>1. CASE e # d
      BY <1>1, <1>7, <2>1 DEF LeftInTime, Kept
    <2>2. CASE e = d
      <3>1. GoesOn(d, v)
        BY <1>1, <1>7, <2>2 DEF Begins, LeftInTime
      <3> QED
        BY <1>1, <1>7, <2>2, <3>1 DEF LeftInTime, GoesOn
    <2> QED
      BY <2>1, <2>2
  <1>8. LeavesOnRecord'
    <2> SUFFICES ASSUME errors' = 0, NEW e \in Dispatches, NEW h \in Throttled, LeftInTime(e, h)'
                 PROVE  dispatch'[e].left[h] <= lastFired'[h]
      BY DEF LeavesOnRecord
    <2>1. CASE LeftInTime(e, h) /\ dispatch'[e].left[h] = dispatch[e].left[h]
      <3>1. dispatch[e].left[h] <= lastFired[h] /\ dispatch[e].left[h] \in Int
        BY <1>3, <2>1 DEF ThrottleInv, LeavesOnRecord, LeftInTime, NULL
      <3>2. lastFired[h] \in Int /\ lastFired'[h] \in Int /\ lastFired[h] <= lastFired'[h]
        BY Numbers, Constants DEF ThrottleInv
      <3> QED
        BY <2>1, <3>1, <3>2
    <2>2. CASE dispatch'[e].left[h] = clock /\ clock <= lastFired'[h]
      BY <2>2
    <2> QED
      BY <1>7, <2>1, <2>2
  <1>9. ASSUME NEW e \in Dispatches, NEW h \in Throttled, MayPost(e, h) PROVE MayPost(e, h)'
    BY <1>1, <1>7, <1>9 DEF MayPost
  <1>10. GateHolds'
    <2> SUFFICES ASSUME NEW e \in Dispatches, NEW h \in Throttled, At(e, "post")',
                        dispatch'[e].recurrence, Hook(e)' = h, dispatch'[e].sent[h] = NULL, ~Expired(e)'
                 PROVE  MayPost(e, h)'
      BY DEF GateHolds
    <2>1. CASE e # d
      <3>1. MayPost(e, h)
        BY <1>1, <2>1 DEF ThrottleInv, GateHolds, At, Hook, Expired
      <3> QED
        BY <1>9, <3>1
    <2>2. CASE e = d
      <3>1. errors' = 0 => MayPost(d, h)
        BY <1>1, <1>2, <2>2 DEF StandsWell, At, Hook, Expired
      <3>2. errors' # 0 => MayPost(e, h)'
        BY DEF MayPost
      <3> QED
        BY <1>9, <2>2, <3>1, <3>2
    <2> QED
      BY <2>1, <2>2
  <1>11. ThrottleHolds'
    <2> SUFFICES ASSUME errors' = 0, NEW s \in Dispatches, NEW e \in Dispatches, NEW h \in Throttled,
                        s # e, LeftInTime(s, h)', Kept(e)', dispatch'[e].recurrence,
                        dispatch'[e].sent[h] > dispatch'[s].left[h]
                 PROVE  dispatch'[e].sent[h] - dispatch'[s].left[h] >= Window
      BY DEF ThrottleHolds, LeftInTime, Kept
    <2>1. dispatch'[e].sent[h] <= clock
      BY <1>1, <1>4 DEF NothingAhead
    <2>2. /\ dispatch'[e].sent[h] \in Nat \union {NULL}
          /\ dispatch'[s].left[h] \in Nat
      BY <1>1, <1>2, <1>3 DEF LeftInTime, Kept
    <2>3. LeftInTime(s, h) /\ dispatch'[s].left[h] = dispatch[s].left[h]
      BY <1>1, <1>7, <2>1, <2>2 DEF NULL
    <2>4. CASE Kept(e) /\ dispatch'[e].sent[h] = dispatch[e].sent[h]
               /\ dispatch'[e].recurrence = dispatch[e].recurrence
      BY <2>3, <2>4 DEF ThrottleInv, ThrottleHolds, LeftInTime, Kept
    <2>5. CASE e = d /\ dispatch'[e].sent[h] = clock /\ MayPost(d, h)
      <3>1. \/ dispatch[s].left[h] = clock
            \/ clock - dispatch[s].left[h] >= Window
        BY <2>3, <2>5 DEF MayPost
      <3> QED
        BY <1>1, <2>2, <2>3, <2>5, <3>1
    <2>6. CASE e = d /\ Begins(d, v)
      BY <1>1, <2>2, <2>6 DEF Begins, NULL
    <2>7. CASE e # d
      BY <1>1, <2>4, <2>7 DEF Kept
    <2>8. CASE e = d /\ GoesOn(d, v)
      BY <1>1, <2>4, <2>5, <2>8 DEF GoesOn
    <2> QED
      BY <2>6, <2>7, <2>8
  <1> QED
    BY <1>4, <1>5, <1>6, <1>8, <1>10, <1>11

\* A step that changes neither what was posted nor what was left.
LEMMA QuietStep ==
  ASSUME TypeOK, NEW d \in Dispatches, NEW v, Kept(d),
         v.recurrence = dispatch[d].recurrence, v.deadline = dispatch[d].deadline,
         errors' = 0 => v.known = dispatch[d].known,
         v.sent = dispatch[d].sent, v.left = dispatch[d].left
  PROVE  GoesOn(d, v)
  BY DEF GoesOn

LEMMA SameBaseline ==
  ASSUME TypeOK, UNCHANGED lastFired
  PROVE  \A h \in Throttled : lastFired'[h] \in Int /\ lastFired[h] <= lastFired'[h]
  BY Numbers, Constants

\* While no statement fails, the gate lets a recurrence post to a throttled webhook that
\* has not been told yet, or not for a window.
LEMMA GateReadsBaseline ==
  ASSUME TypeOK, NEW d \in Dispatches, RecurrenceShouldFire(d), errors' = 0,
         dispatch[d].recurrence, dispatch[d].known, ~Expired(d), Hook(d) \in Throttled,
         dispatch'[d].pc = "post"
  PROVE  lastFired[Hook(d)] = NULL \/ clock - lastFired[Hook(d)] >= Window
  <1> DEFINE t == dispatch[d]
             unread(ok) == ~ok \/ ~t.known \/ Expired(d) \/ lastFired[Hook(d)] = NULL
             fires(ok) == \/ ~t.recurrence
                          \/ Modes[Hook(d)] = "every_event"
                          \/ /\ Modes[Hook(d)] = "throttled"
                             /\ unread(ok) \/ clock - lastFired[Hook(d)] >= Window
  <1>1. Modes[Hook(d)] = "throttled"
    BY DEF Throttled
  <1>2. PICK ok \in Outcomes :
            Goto(d, IF fires(ok) THEN [t EXCEPT !.pc = "post"] ELSE NextHook(t)) /\ CountError(ok)
    <2> HIDE DEF fires
    <2> QED
      BY <1>1, Zenon DEF RecurrenceShouldFire, fires, unread
  <1>3. ok
    BY <1>2, Counted DEF TypeOK
  <1>4. fires(ok)
    <2> SUFFICES ASSUME ~fires(ok) PROVE FALSE
      OBVIOUS
    <2>1. Goto(d, NextHook(t))
      BY <1>2, Zenon
    <2>2. t \in DispatchType /\ t.hook \in Hooks
      BY GateEffect
    <2>3. NextHook(t).pc # "post"
      BY <2>2, NextHookEffect
    <2> QED
      BY <2>1, <2>3, GotoEffect
  <1> QED
    BY <1>1, <1>3, <1>4, Zenon

LEMMA StepThrottle ==
  ASSUME ThrottleInv, NEW d \in Dispatches, Step(d)
  PROVE  /\ NothingAhead' /\ WaitersHavePosted'
         /\ GroupKnown' /\ LeavesOnRecord' /\ GateHolds' /\ ThrottleHolds'
  <1> DEFINE Goal == /\ NothingAhead' /\ WaitersHavePosted'
                     /\ GroupKnown' /\ LeavesOnRecord' /\ GateHolds' /\ ThrottleHolds'
             t == dispatch[d]
  <1>0. TypeOK /\ clock \in Nat /\ errors \in Nat
    BY Numbers DEF ThrottleInv
  <1>1. ASSUME NEW recurrence \in BOOLEAN, MaybeFireWebhook(d, recurrence) PROVE Goal
    <2>1. PICK v : /\ Goto(d, v) /\ v.pc = "load" /\ v.known
                   /\ v.sent = [h \in Throttled |-> NULL] /\ v.left = [h \in Throttled |-> NULL]
      BY <1>1 DEF MaybeFireWebhook
    <2>2. Kept(d)' /\ TypeOK' /\ dispatch'[d] = v
      BY <1>0, <1>1, <2>1, StepTypes, GotoEffect DEF Kept
    <2>3. v \in DispatchType
      BY <2>2 DEF TypeOK, Kept, Unborn
    <2>4. Begins(d, v)
      BY <1>1, <2>1 DEF MaybeFireWebhook, Begins, Kept, At
    <2>5. StandsWell(d, v)
      BY <2>1 DEF StandsWell
    <2>6. UNCHANGED <<clock, lastFired, errors>>
      BY <1>1 DEF MaybeFireWebhook
    <2> QED
      BY <1>0, <2>1, <2>3, <2>4, <2>5, <2>6, SameBaseline, ThrottleStep
  <1>2. ASSUME LoadGroupAndHooks(d) PROVE Goal
    <2>1. Kept(d) /\ UNCHANGED <<clock, lastFired>>
      BY <1>2 DEF LoadGroupAndHooks, At, Kept
    <2>2. PICK v \in DispatchType :
              /\ Goto(d, v) /\ v.pc \in {"gate", "done"}
              /\ v.recurrence = t.recurrence /\ v.deadline = t.deadline
              /\ v.sent = t.sent /\ v.left = t.left
              /\ (errors' = errors + 1 \/ (errors' = errors /\ v.known = t.known))
      BY <1>0, <1>2, LoadEffect
    <2>3. GoesOn(d, v)
      BY <1>0, <2>1, <2>2, QuietStep
    <2>4. StandsWell(d, v)
      BY <2>2 DEF StandsWell
    <2> QED
      BY <1>0, <2>1, <2>2, <2>3, <2>4, SameBaseline, ThrottleStep
  <1>3. ASSUME RecurrenceShouldFire(d) PROVE Goal
    <2>1. Kept(d) /\ UNCHANGED <<clock, lastFired>> /\ t \in DispatchType
      BY <1>0, <1>3, GateEffect DEF RecurrenceShouldFire, At, Kept
    <2>3. errors' = 0 => errors = 0
      <3>1. PICK ok \in Outcomes \union {TRUE} : CountError(ok)
        BY <1>3 DEF RecurrenceShouldFire
      <3>2. ok \in Outcomes /\ errors \in 0 .. MaxErrors
        BY <1>0, <3>1, MayFail DEF TypeOK
      <3>3. errors' >= errors /\ errors' \in 0 .. MaxErrors
        BY <3>1, <3>2, Counted
      <3> QED
        BY <1>0, <3>3, Constants
    <2>4. PICK v \in DispatchType :
              /\ Goto(d, v) /\ v.left = t.left
              /\ v.recurrence = t.recurrence /\ v.deadline = t.deadline /\ v.known = t.known
              /\ v.sent = t.sent
              /\ (v.pc = "post" /\ v.hook = t.hook) \/ v.pc \in {"gate", "done"}
      BY <1>0, <1>3, GateEffect DEF SameErrand, MovesOn
    <2>5. GoesOn(d, v)
      BY <1>0, <2>1, <2>4, QuietStep
    <2>6. ASSUME v.pc = "post", v.recurrence, t.hook \in Throttled, clock < v.deadline, errors' = 0,
                 NEW e \in Dispatches \ {d}, LeftInTime(e, t.hook)
          PROVE  clock - dispatch[e].left[t.hook] >= Window
      <3> DEFINE h == t.hook
      <3>1. dispatch[e].left[h] \in Nat /\ dispatch[e].left[h] <= lastFired[h]
        BY <1>0, <2>3, <2>6, Departures DEF ThrottleInv, LeavesOnRecord, LeftInTime
      <3>2. lastFired[h] \in Int /\ lastFired[h] # NULL
        <4>1. lastFired[h] \in Int
          BY <1>0, <2>6, Numbers, Constants
        <4> QED
          BY <3>1, <4>1 DEF NULL
      <3>3. t.known /\ ~Expired(d) /\ t.recurrence
        BY <1>0, <2>1, <2>3, <2>4, <2>6 DEF ThrottleInv, GroupKnown, Expired, DispatchType
      <3>4. dispatch'[d].pc = "post"
        BY <1>0, <2>4, <2>6, GotoEffect
      <3>5. clock - lastFired[h] >= Window
        <4>1. Hook(d) = h /\ Hook(d) \in Throttled
          BY <2>6 DEF Hook
        <4>2. lastFired[Hook(d)] = NULL \/ clock - lastFired[Hook(d)] >= Window
          BY <1>0, <1>3, <2>6, <3>3, <3>4, <4>1, GateReadsBaseline
        <4> QED
          BY <3>2, <4>1, <4>2
      <3>6. clock \in Nat /\ Window \in Nat
        BY <1>0, Numbers, Constants
      <3> QED
        BY <3>1, <3>2, <3>5, <3>6
    <2>7. StandsWell(d, v)
      BY <2>4, <2>6 DEF StandsWell, MayPost
    <2> QED
      BY <1>0, <2>1, <2>3, <2>4, <2>5, <2>7, SameBaseline, ThrottleStep
  <1>4. ASSUME Post(d) PROVE Goal
    <2>1. Kept(d) /\ UNCHANGED <<clock, lastFired, errors>> /\ t.hook \in Hooks
      BY <1>0, <1>4 DEF Post, At, Kept, TypeOK, Running, Hook
    <2>2. PICK v \in DispatchType :
              /\ Goto(d, v) /\ SameErrand(t, v) /\ v.pc \in {"hang", "backoff", "fired"}
              /\ \/ Expired(d) /\ v.sent = t.sent
                 \/ ~Expired(d) /\ NotesFirstPost(t, v)
      BY <1>0, <1>4, PostEffect
    <2>3. t.recurrence \in BOOLEAN /\ t.deadline \in Nat /\ \A k \in Throttled : t.sent[k] \in Nat \union {NULL}
      BY <1>0, <2>1, KeptType DEF DispatchType
    <2>4. ASSUME ~Expired(d), t.recurrence, t.hook \in Throttled, t.sent[t.hook] = NULL
          PROVE  MayPost(d, t.hook)
      BY <1>4, <2>4 DEF ThrottleInv, GateHolds, Post, Hook
    <2>5. GoesOn(d, v)
      <3>1. CASE Expired(d) /\ v.sent = t.sent
        BY <1>0, <2>1, <2>2, <3>1, QuietStep DEF SameErrand
      <3>2. CASE ~Expired(d) /\ NotesFirstPost(t, v)
        <4>1. \A k \in Throttled : v.sent[k] = t.sent[k] \/ (v.sent[k] = clock /\ MayPost(d, k))
          BY <2>3, <2>4, <3>2 DEF NotesFirstPost
        <4> QED
          BY <2>1, <2>2, <4>1 DEF GoesOn, SameErrand
      <3> QED
        BY <2>2, <3>1, <3>2
    <2>6. StandsWell(d, v)
      <3> SUFFICES ASSUME v.recurrence, v.hook \in Throttled
                   PROVE  v.sent[v.hook] # NULL \/ clock >= v.deadline
        BY <2>2 DEF StandsWell
      <3>1. CASE Expired(d)
        BY <2>2, <3>1 DEF Expired, SameErrand
      <3>2. CASE ~Expired(d) /\ NotesFirstPost(t, v)
        BY <1>0, <2>2, <3>2 DEF NotesFirstPost, SameErrand, NULL
      <3> QED
        BY <2>2, <3>1, <3>2
    <2> QED
      BY <1>0, <2>1, <2>2, <2>5, <2>6, SameBaseline, ThrottleStep
  <1>5. ASSUME TimeOut(d) PROVE Goal
    <2>1. Kept(d) /\ UNCHANGED <<clock, lastFired, errors>>
      BY <1>5 DEF TimeOut, At, Kept
    <2>2. PICK v \in DispatchType :
              /\ Goto(d, v) /\ SameErrand(t, v) /\ v.sent = t.sent /\ v.pc \in {"backoff", "fired"}
      BY <1>0, <1>5, TimeOutEffect
    <2>3. GoesOn(d, v)
      BY <1>0, <2>1, <2>2, QuietStep DEF SameErrand
    <2>4. StandsWell(d, v)
      BY <1>5, <2>2 DEF StandsWell, ThrottleInv, WaitersHavePosted, TimeOut, At, Waiting, Hook,
                        Expired, SameErrand
    <2> QED
      BY <1>0, <2>1, <2>2, <2>3, <2>4, SameBaseline, ThrottleStep
  <1>6. ASSUME Retry(d) PROVE Goal
    <2>1. Kept(d) /\ UNCHANGED <<clock, lastFired, errors>>
      BY <1>6 DEF Retry, At, Kept
    <2>2. PICK v \in DispatchType :
              /\ Goto(d, v) /\ v.pc = "post" /\ v.sent = t.sent /\ v.left = t.left
              /\ v.recurrence = t.recurrence /\ v.deadline = t.deadline /\ v.known = t.known
              /\ v.hook = t.hook
      BY <1>0, <1>6, RetryEffect
    <2>3. GoesOn(d, v)
      BY <1>0, <2>1, <2>2, QuietStep
    <2>4. v.deadline \in Nat
      BY DEF DispatchType
    <2>5. v.recurrence /\ v.hook \in Throttled => v.sent[v.hook] # NULL \/ clock >= v.deadline
      BY <1>6, <2>2 DEF ThrottleInv, WaitersHavePosted, Retry, At, Waiting, Hook, Expired
    <2>6. StandsWell(d, v)
      BY <1>0, <2>2, <2>4, <2>5 DEF StandsWell
    <2> QED
      BY <1>0, <2>1, <2>2, <2>3, <2>6, SameBaseline, ThrottleStep
  <1>7. ASSUME AdvanceBaseline(d) PROVE Goal
    <2>1. Kept(d) /\ UNCHANGED clock /\ t.hook \in Hooks /\ t \in DispatchType
      BY <1>0, <1>7, KeptType DEF AdvanceBaseline, At, Kept, TypeOK, Running, Hook
    <2>2. PICK v \in DispatchType :
              /\ Goto(d, v) /\ v.pc \in {"gate", "done"}
              /\ v.recurrence = t.recurrence /\ v.deadline = t.deadline /\ v.known = t.known
              /\ v.sent = t.sent
              /\ \A k \in Throttled :
                    v.left[k] = IF t.recurrence /\ k = t.hook THEN clock ELSE t.left[k]
      BY <1>0, <1>7, AdvanceEffect DEF MovesOn, Hook
    <2>3. PICK ok \in Outcomes :
            /\ CountError(ok)
            /\ lastFired' = IF ok /\ t.recurrence /\ t.known /\ ~Expired(d)
                            THEN UpsertWebhookRecurrenceLastFired(t) ELSE lastFired
      BY <1>7, MayFail, Zenon DEF AdvanceBaseline
    <2>4. errors' = 0 => errors = 0 /\ ok
      <3>1. errors' >= errors /\ errors' \in Nat /\ (~ok => errors' > 0)
        BY <1>0, <2>3, Counted, Constants DEF TypeOK
      <3>2. (errors' = 0 => errors = 0) /\ (errors' = 0 => ~(errors' > 0))
        BY <1>0, <3>1
      <3> QED
        BY <3>1, <3>2, Zenon
    <2>5. /\ \A h \in Throttled : lastFired'[h] \in Int /\ lastFired[h] <= lastFired'[h]
          /\ ok /\ t.recurrence /\ t.known /\ ~Expired(d) => lastFired'[t.hook] = clock
      <3>1. CASE ok /\ t.recurrence /\ t.known /\ ~Expired(d)
        <4>1. lastFired' = [lastFired EXCEPT ![t.hook] = clock] /\ DOMAIN lastFired = Hooks
          BY <1>0, <2>3, <3>1 DEF UpsertWebhookRecurrenceLastFired, TypeOK
        <4> QED
          BY <1>0, <2>1, <4>1, Numbers, Constants
      <3>2. CASE ~(ok /\ t.recurrence /\ t.known /\ ~Expired(d))
        BY <1>0, <2>3, <3>2, SameBaseline
      <3> QED
        BY <3>1, <3>2
    <2>6. errors' = 0 => t.known
      BY <2>1, <2>4 DEF ThrottleInv, GroupKnown
    <2>7. t.recurrence \in BOOLEAN /\ t.deadline \in Nat
      BY <2>1 DEF DispatchType
    <2>8. \A k \in Throttled :
            \/ v.left[k] = t.left[k]
            \/ /\ v.left[k] = clock
               /\ errors' = 0 /\ v.recurrence /\ clock < v.deadline => clock <= lastFired'[k]
      <3> SUFFICES ASSUME t.recurrence, t.hook \in Throttled, errors' = 0, clock < t.deadline
                   PROVE  lastFired'[t.hook] = clock
        BY <1>0, <2>2, <2>7
      <3>1. ~Expired(d)
        BY <1>0, <2>7 DEF Expired
      <3> QED
        BY <2>4, <2>5, <2>6, <3>1
    <2>9. GoesOn(d, v)
      BY <2>1, <2>2, <2>8 DEF GoesOn
    <2>10. StandsWell(d, v)
      BY <2>2 DEF StandsWell
    <2> QED
      BY <1>0, <2>1, <2>2, <2>4, <2>5, <2>9, <2>10, ThrottleStep
  <1> QED
    BY <1>1, <1>2, <1>3, <1>4, <1>5, <1>6, <1>7 DEF Step

LEMMA NextThrottle == ThrottleInv /\ [Next]_vars => ThrottleInv'
  <1> SUFFICES ASSUME ThrottleInv, [Next]_vars
               PROVE  /\ NothingAhead' /\ WaitersHavePosted'
                      /\ GroupKnown' /\ LeavesOnRecord' /\ GateHolds' /\ ThrottleHolds'
    BY NextTypes DEF ThrottleInv
  <1>0. TypeOK /\ clock \in Nat
    BY Numbers DEF ThrottleInv
  <1>1. ASSUME NEW d \in Dispatches, Step(d)
        PROVE  /\ NothingAhead' /\ WaitersHavePosted'
               /\ GroupKnown' /\ LeavesOnRecord' /\ GateHolds' /\ ThrottleHolds'
    BY <1>1, StepThrottle
  <1>2. CASE UNCHANGED <<clock, dispatch, lastFired, errors>>
    BY <1>2 DEF ThrottleInv, NothingAhead, WaitersHavePosted, GroupKnown, LeavesOnRecord, GateHolds,
                ThrottleHolds, MayPost, Kept, LeftInTime, Waiting, Hook, At, Expired
  <1>3. CASE MainReturns
    <2>1. UNCHANGED <<clock, lastFired, errors>>
      BY <1>3 DEF MainReturns
    <2>2. \A d \in Dispatches : Kept(d)' => Kept(d) /\ dispatch'[d] = dispatch[d]
      BY <1>3 DEF MainReturns, Kept, Running
    <2>3. \A d \in Dispatches : ~At(d, "post")' /\ ~Waiting(d)'
      BY <1>3 DEF MainReturns, At, Waiting, Running
    <2>4. \A d \in Dispatches, h \in Throttled : LeftInTime(d, h)' => LeftInTime(d, h)
      BY <2>2 DEF LeftInTime, Kept
    <2>5. NothingAhead' /\ GroupKnown'
      BY <2>1, <2>2 DEF ThrottleInv, NothingAhead, GroupKnown
    <2>6. WaitersHavePosted' /\ GateHolds'
      BY <2>3 DEF WaitersHavePosted, GateHolds
    <2>7. LeavesOnRecord'
      BY <2>1, <2>2, <2>4 DEF ThrottleInv, LeavesOnRecord, LeftInTime
    <2>8. ThrottleHolds'
      BY <2>1, <2>2 DEF ThrottleInv, ThrottleHolds, Kept
    <2> QED
      BY <2>5, <2>6, <2>7, <2>8
  <1>4. CASE Advance
    <2>1. clock' = clock + 1 /\ UNCHANGED <<dispatch, lastFired, errors>>
      BY <1>4 DEF Advance
    <2>2. \A d \in Dispatches : ~At(d, "post")
      BY <1>4 DEF Advance, At, Running, Waiting
    <2>3. NothingAhead'
      BY <1>0, <2>1, Departures DEF ThrottleInv, NothingAhead, Kept, NULL
    <2>4. WaitersHavePosted'
      <3> SUFFICES ASSUME NEW d \in Dispatches, Waiting(d), Expired(d) PROVE Expired(d)'
        BY <2>1 DEF ThrottleInv, WaitersHavePosted, Waiting, Hook
      <3>1. dispatch[d].deadline \in Nat
        BY <1>0, KeptType DEF Waiting, Kept, DispatchType
      <3> QED
        BY <1>0, <2>1, <3>1 DEF Expired
    <2>5. GroupKnown' /\ LeavesOnRecord' /\ ThrottleHolds'
      BY <2>1 DEF ThrottleInv, GroupKnown, LeavesOnRecord, ThrottleHolds, Kept, LeftInTime
    <2>6. GateHolds'
      BY <2>1, <2>2 DEF GateHolds, At
    <2> QED
      BY <2>3, <2>4, <2>5, <2>6
  <1> QED
    BY <1>1, <1>2, <1>3, <1>4 DEF Next, Shutdown, vars

\* While no statement fails, a throttled webhook is not told of a recurrence again within
\* the window after a dispatch has finished with it in time, however many dispatches
\* there are, in whatever order they run, and however often the process restarts.
THEOREM ThrottleIsKept == Spec => []ThrottleHolds
  <1>1. Init => ThrottleInv
    <2> SUFFICES ASSUME Init PROVE ThrottleInv
      OBVIOUS
    <2>1. \A d \in Dispatches : ~Kept(d) /\ ~Waiting(d) /\ ~At(d, "post")
      BY DEF Init, Kept, Waiting, At, Unborn
    <2> QED
      BY <2>1, InitTypes DEF ThrottleInv, NothingAhead, WaitersHavePosted, GroupKnown,
                             LeavesOnRecord, LeftInTime, GateHolds, ThrottleHolds, Kept
  <1>2. ThrottleInv => ThrottleHolds
    BY DEF ThrottleInv
  <1> QED
    BY <1>1, <1>2, NextThrottle, PTL DEF Spec

-----------------------------------------------------------------------------
(* A receiver that does not answer.                                        *)

LEMMA FitsAt ==
  ASSUME NEW waits, NEW starts, FitsDeadline(waits, starts), NEW n \in 1 .. MaxAttempts
  PROVE  /\ n \in Nat /\ waits[n] \in Nat /\ starts[n] \in Nat
         /\ starts[n] + PerAttemptTimeout < DispatchTimeout
         /\ n < MaxAttempts =>
              /\ n + 1 \in 1 .. MaxAttempts /\ waits[n + 1] = waits[n] * BackoffMultiplier
              /\ starts[n + 1] \in Nat
              /\ starts[n] + PerAttemptTimeout + waits[n] <= starts[n + 1]
  BY Constants DEF FitsDeadline

\* The end of a backoff, from the start of the attempt before it.
LEMMA NextStart ==
  ASSUME NEW wake \in Int, NEW now \in Int, NEW begun \in Int, NEW start \in Int, NEW next \in Int,
         NEW wait \in Int, NEW took \in Int,
         wake <= now + wait, now <= begun + start + took, start + took + wait <= next
  PROVE  wake <= begun + next
  OBVIOUS

\* News of a group passes every gate.
LEMMA GateLetsNewsPass ==
  ASSUME TypeOK, NEW d \in Dispatches, RecurrenceShouldFire(d), ~dispatch[d].recurrence
  PROVE  dispatch'[d].pc = "post"
  <1>1. dispatch[d] \in DispatchType
    BY GateEffect
  <1>2. Goto(d, [dispatch[d] EXCEPT !.pc = "post"])
    BY DEF RecurrenceShouldFire
  <1>3. [dispatch[d] EXCEPT !.pc = "post"].pc = "post"
    BY <1>1 DEF DispatchType
  <1> QED
    BY <1>2, <1>3, GotoEffect

\* A dispatch is on course while at most one webhook did not answer it.
OnCourse(t, waits, starts) ==
    ~t.recurrence /\ (\A h, k \in t.slow : h = k) => ToldSoFar(t) /\ OnSchedule(t, waits, starts)

LEMMA PunctualStep ==
  ASSUME TypeOK, NEW waits, NEW starts, Punctual(waits, starts),
         NEW d \in Dispatches, NEW v \in DispatchType, Goto(d, v), UNCHANGED clock,
         errors' = 0 => errors = 0,
         errors' = 0 => OnCourse(v, waits, starts)
  PROVE  Punctual(waits, starts)'
  <1> SUFFICES ASSUME errors' = 0, NEW e \in Dispatches, Kept(e)', ~dispatch'[e].recurrence,
                      \A h, k \in dispatch'[e].slow : h = k
               PROVE  ToldSoFar(dispatch'[e]) /\ OnSchedule(dispatch[e], waits, starts)'
    BY DEF Punctual, ToldSoFar
  <1>1. CASE e = d
    BY <1>1, GotoEffect DEF OnCourse, OnSchedule, Begun
  <1>2. CASE e # d
    <2>1. dispatch'[e] = dispatch[e]
      BY <1>2, GotoEffect
    <2> QED
      BY <2>1 DEF Punctual, OnSchedule, Kept, Begun
  <1> QED
    BY <1>1, <1>2

\* What a dispatch on course is at before the step that leaves it on course.
LEMMA StillOnCourse ==
  ASSUME TypeOK, NEW waits, NEW starts, FitsDeadline(waits, starts), Punctual(waits, starts),
         errors = 0, NEW d \in Dispatches, Kept(d), ~dispatch[d].recurrence,
         \A h, k \in dispatch[d].slow : h = k
  PROVE  /\ ToldSoFar(dispatch[d]) /\ OnSchedule(dispatch[d], waits, starts)
         /\ dispatch[d] \in DispatchType /\ clock \in Nat
         /\ dispatch[d].attempt \in 1 .. MaxAttempts /\ dispatch[d].backoff \in Nat
         /\ dispatch[d].deadline \in Nat /\ dispatch[d].wake \in Nat /\ Begun(dispatch[d]) \in Int
  <1>1. dispatch[d] \in DispatchType /\ clock \in Nat
    BY KeptType, Numbers
  <1>2. /\ dispatch[d].attempt \in 1 .. MaxAttempts /\ dispatch[d].backoff \in Nat
        /\ dispatch[d].deadline \in Nat /\ dispatch[d].wake \in Nat
    BY <1>1 DEF DispatchType
  <1>3. Begun(dispatch[d]) \in Int
    BY <1>2, Constants DEF Begun
  <1> QED
    BY <1>1, <1>2, <1>3 DEF Punctual

\* Whoever does not answer a post takes its share of the time, and no more.
LEMMA PostOnCourse ==
  ASSUME TypeOK, NEW waits, NEW starts, FitsDeadline(waits, starts), Punctual(waits, starts),
         errors = 0, NEW d \in Dispatches, Post(d), ~dispatch[d].recurrence,
         NEW v \in DispatchType, Goto(d, v), SameErrand(dispatch[d], v), ~Expired(d),
         v.heard = dispatch[d].heard, v.slow = dispatch[d].slow \union {v.hook},
         v.pc \in {"hang", "backoff", "fired"},
         v.pc = "backoff" => v.attempt < MaxAttempts /\ clock <= v.wake /\ v.wake <= clock + v.backoff,
         v.pc = "hang" => clock <= v.wake /\ v.wake <= clock + PerAttemptTimeout
  PROVE  OnCourse(v, waits, starts)
  <1> DEFINE t == dispatch[d]
             n == t.attempt
  <1> SUFFICES ASSUME \A h, k \in v.slow : h = k
               PROVE  ToldSoFar(v) /\ OnSchedule(v, waits, starts)
    BY DEF OnCourse
  <1>1. Kept(d) /\ t.pc = "post" /\ \A h, k \in t.slow : h = k
    BY DEF Post, At, Kept
  <1>2. /\ ToldSoFar(t) /\ OnSchedule(t, waits, starts) /\ clock \in Nat
        /\ n \in 1 .. MaxAttempts /\ t.deadline \in Nat /\ Begun(t) \in Int /\ v.wake \in Nat
    BY <1>1, StillOnCourse DEF DispatchType
  <1>3. v.hook = t.hook /\ v.attempt = n /\ v.backoff = t.backoff /\ Begun(v) = Begun(t)
        /\ v.deadline = t.deadline
    BY DEF SameErrand, Begun
  <1>4. ToldSoFar(v)
    <2>1. t.hook \in 1 .. t.hook
      BY <1>1, KeptType DEF DispatchType
    <2> QED
      BY <1>1, <1>2, <1>3, <2>1 DEF ToldSoFar
  <1>5. clock <= Begun(t) + starts[n]
    <2>1. CASE n > 1
      BY <1>1, <1>2, <2>1 DEF OnSchedule
    <2>2. CASE ~(n > 1)
      <3>1. t.slow = {}
        BY <1>1, <1>2, <1>3, <2>2 DEF ToldSoFar
      <3>2. clock = Begun(t)
        BY <1>1, <1>2, <3>1 DEF OnSchedule
      <3> QED
        BY <1>2, <3>2, FitsAt
    <2> QED
      BY <2>1, <2>2
  <1>6. clock < v.deadline /\ v.slow # {}
    BY <1>1, <1>2, <1>3 DEF OnSchedule
  <1>7. v.backoff = waits[n]
    BY <1>1, <1>2, <1>3 DEF OnSchedule
  <1>8. v.pc = "hang" => v.wake <= Begun(v) + starts[v.attempt] + PerAttemptTimeout
    BY <1>2, <1>3, <1>5, FitsAt, Constants
  <1>9. v.pc = "backoff" => v.wake <= Begun(v) + starts[v.attempt + 1]
    <2> SUFFICES ASSUME v.pc = "backoff" PROVE v.wake <= Begun(t) + starts[n + 1]
      BY <1>3
    <2>1. /\ waits[n] \in Nat /\ starts[n] \in Nat /\ starts[n + 1] \in Nat
          /\ starts[n] + PerAttemptTimeout + waits[n] <= starts[n + 1]
      BY <1>2, <1>3, FitsAt
    <2>2. v.wake <= clock + waits[n] /\ v.wake \in Int /\ clock \in Int
      BY <1>2, <1>7
    <2>3. PerAttemptTimeout \in Int /\ clock <= Begun(t) + starts[n] + PerAttemptTimeout
      BY <1>2, <1>5, <2>1, Constants
    <2> QED
      BY <1>2, <2>1, <2>2, <2>3, NextStart
  <1> QED
    BY <1>3, <1>4, <1>6, <1>7, <1>8, <1>9 DEF OnSchedule

\* A receiver that answers lets the dispatch go on at once.
LEMMA AnswerOnCourse ==
  ASSUME TypeOK, NEW waits, NEW starts, FitsDeadline(waits, starts), Punctual(waits, starts),
         errors = 0, NEW d \in Dispatches, Post(d), ~dispatch[d].recurrence,
         NEW v \in DispatchType, Goto(d, v), SameErrand(dispatch[d], v),
         v.heard = dispatch[d].heard \union {v.hook}, v.slow = dispatch[d].slow, v.pc = "fired"
  PROVE  OnCourse(v, waits, starts)
  <1> DEFINE t == dispatch[d]
  <1> SUFFICES ASSUME \A h, k \in v.slow : h = k
               PROVE  ToldSoFar(v) /\ OnSchedule(v, waits, starts)
    BY DEF OnCourse
  <1>1. Kept(d) /\ t.pc = "post"
    BY DEF Post, At, Kept
  <1>2. ToldSoFar(t) /\ OnSchedule(t, waits, starts)
    BY <1>1, StillOnCourse
  <1>3. v.hook = t.hook /\ Begun(v) = Begun(t) /\ v.deadline = t.deadline
    BY DEF SameErrand, Begun
  <1>4. ToldSoFar(v)
    BY <1>1, <1>2, <1>3 DEF ToldSoFar
  <1>5. OnSchedule(v, waits, starts)
    BY <1>1, <1>2, <1>3 DEF OnSchedule
  <1> QED
    BY <1>4, <1>5

\* A receiver that hung takes the time of an attempt.
LEMMA TimeOutOnCourse ==
  ASSUME TypeOK, NEW waits, NEW starts, FitsDeadline(waits, starts), Punctual(waits, starts),
         errors = 0, NEW d \in Dispatches, TimeOut(d), ~dispatch[d].recurrence,
         NEW v \in DispatchType, SameErrand(dispatch[d], v),
         v.heard = dispatch[d].heard, v.slow = dispatch[d].slow, v.pc \in {"backoff", "fired"},
         v.pc = "backoff" => v.attempt < MaxAttempts /\ clock <= v.wake /\ v.wake <= clock + v.backoff
  PROVE  OnCourse(v, waits, starts)
  <1> DEFINE t == dispatch[d]
             n == t.attempt
  <1> SUFFICES ASSUME \A h, k \in v.slow : h = k
               PROVE  ToldSoFar(v) /\ OnSchedule(v, waits, starts)
    BY DEF OnCourse
  <1>1. Kept(d) /\ t.pc = "hang" /\ t.wake <= clock
    BY DEF TimeOut, At, Kept
  <1>2. /\ ToldSoFar(t) /\ OnSchedule(t, waits, starts) /\ clock \in Nat
        /\ n \in 1 .. MaxAttempts /\ Begun(t) \in Int /\ t.wake \in Nat
    BY <1>1, StillOnCourse
  <1>3. v.hook = t.hook /\ v.attempt = n /\ v.backoff = t.backoff /\ Begun(v) = Begun(t)
        /\ v.deadline = t.deadline
    BY DEF SameErrand, Begun
  <1>4. ToldSoFar(v)
    BY <1>1, <1>2, <1>3 DEF ToldSoFar
  <1>5. clock < v.deadline /\ v.slow # {} /\ v.backoff = waits[n]
        /\ clock <= t.wake /\ t.wake <= Begun(t) + starts[n] + PerAttemptTimeout
    BY <1>1, <1>2, <1>3 DEF OnSchedule, ToldSoFar
  <1>6. ASSUME v.pc = "backoff" PROVE v.wake <= Begun(v) + starts[v.attempt + 1]
    <2>1. /\ waits[n] \in Nat /\ starts[n] \in Nat /\ starts[n + 1] \in Nat
          /\ starts[n] + PerAttemptTimeout + waits[n] <= starts[n + 1]
      BY <1>2, <1>3, <1>6, FitsAt
    <2>2. v.wake <= clock + waits[n] /\ v.wake \in Int /\ clock \in Int /\ PerAttemptTimeout \in Int
      BY <1>2, <1>5, <1>6, Constants DEF DispatchType
    <2>3. clock <= Begun(t) + starts[n] + PerAttemptTimeout
      BY <1>1, <1>2, <1>5, <2>1, <2>2
    <2>4. v.wake <= Begun(t) + starts[n + 1]
      BY <1>2, <2>1, <2>2, <2>3, NextStart
    <2> QED
      BY <1>3, <2>4
  <1> QED
    BY <1>3, <1>4, <1>5, <1>6 DEF OnSchedule

\* The next attempt starts when the schedule has it.
LEMMA RetryOnCourse ==
  ASSUME TypeOK, NEW waits, NEW starts, FitsDeadline(waits, starts), Punctual(waits, starts),
         errors = 0, NEW d \in Dispatches, Retry(d), ~dispatch[d].recurrence,
         NEW v \in DispatchType, v.pc = "post", v.attempt = dispatch[d].attempt + 1,
         v.backoff = dispatch[d].backoff * BackoffMultiplier,
         v.deadline = dispatch[d].deadline, v.hook = dispatch[d].hook,
         v.heard = dispatch[d].heard, v.slow = dispatch[d].slow
  PROVE  OnCourse(v, waits, starts)
  <1> DEFINE t == dispatch[d]
             n == t.attempt
  <1> SUFFICES ASSUME \A h, k \in v.slow : h = k
               PROVE  ToldSoFar(v) /\ OnSchedule(v, waits, starts)
    BY DEF OnCourse
  <1>1. Kept(d) /\ t.pc = "backoff" /\ t.wake <= clock
    BY DEF Retry, At, Kept
  <1>2. /\ ToldSoFar(t) /\ OnSchedule(t, waits, starts) /\ clock \in Nat
        /\ n \in 1 .. MaxAttempts /\ Begun(t) \in Int /\ t.wake \in Nat
    BY <1>1, StillOnCourse
  <1>3. Begun(v) = Begun(t) /\ n + 1 > 1
    BY <1>2 DEF Begun
  <1>4. ToldSoFar(v)
    BY <1>1, <1>2, <1>3 DEF ToldSoFar
  <1>5. /\ clock < v.deadline /\ v.slow # {} /\ t.backoff = waits[n]
        /\ n < MaxAttempts /\ clock <= t.wake /\ t.wake <= Begun(t) + starts[n + 1]
    BY <1>1, <1>2, <1>3 DEF OnSchedule, ToldSoFar
  <1>6. v.backoff = waits[v.attempt]
    BY <1>2, <1>5, FitsAt
  <1>7. clock <= Begun(v) + starts[v.attempt]
    <2>1. starts[n + 1] \in Nat
      BY <1>2, <1>5, FitsAt
    <2> QED
      BY <1>1, <1>2, <1>3, <1>5, <2>1
  <1> QED
    BY <1>4, <1>5, <1>6, <1>7 DEF OnSchedule

\* The next webhook finds the dispatch where the last one left it.
LEMMA MoveOnCourse ==
  ASSUME TypeOK, NEW waits, NEW starts, FitsDeadline(waits, starts), Punctual(waits, starts),
         errors = 0, NEW d \in Dispatches, At(d, "fired"), ~dispatch[d].recurrence,
         NEW v \in DispatchType, MovesOn(dispatch[d], v)
  PROVE  OnCourse(v, waits, starts)
  <1> DEFINE t == dispatch[d]
  <1> SUFFICES ASSUME \A h, k \in v.slow : h = k
               PROVE  ToldSoFar(v) /\ OnSchedule(v, waits, starts)
    BY DEF OnCourse
  <1>1. Kept(d) /\ t.pc = "fired" /\ \A h, k \in t.slow : h = k
    BY DEF At, Kept, MovesOn
  <1>2. ToldSoFar(t) /\ OnSchedule(t, waits, starts) /\ t.hook \in Nat \ {0}
    BY <1>1, StillOnCourse DEF DispatchType
  <1>3. /\ v.deadline = t.deadline /\ v.heard = t.heard /\ v.slow = t.slow
        /\ v.attempt = 1 /\ v.backoff = waits[1] /\ Begun(v) = Begun(t)
    BY DEF MovesOn, FitsDeadline, Begun
  <1>4. 1 .. t.hook \subseteq t.heard \union t.slow /\ t.slow \subseteq 1 .. t.hook
    <2>1. 1 .. t.hook = (1 .. t.hook - 1) \union {t.hook}
      BY <1>2
    <2> QED
      BY <1>1, <1>2, <2>1 DEF ToldSoFar
  <1>5. CASE v.pc = "gate" /\ v.hook = t.hook + 1
    <2>1. v.hook - 1 = t.hook /\ 1 .. t.hook \subseteq 1 .. v.hook /\ v.hook \notin 1 .. t.hook
      BY <1>2, <1>5
    <2>2. ToldSoFar(v)
      BY <1>3, <1>4, <1>5, <2>1 DEF ToldSoFar
    <2>3. OnSchedule(v, waits, starts)
      BY <1>1, <1>2, <1>3, <1>5 DEF OnSchedule
    <2> QED
      BY <2>2, <2>3
  <1>6. CASE v.pc = "done" /\ v.hook = t.hook /\ t.hook = Len(Modes)
    <2>1. Hooks = 1 .. t.hook /\ 1 .. v.hook - 1 \subseteq 1 .. t.hook
      BY <1>2, <1>6, Constants
    <2>2. ToldSoFar(v)
      BY <1>3, <1>4, <1>6, <2>1 DEF ToldSoFar
    <2>3. OnSchedule(v, waits, starts)
      BY <1>6 DEF OnSchedule
    <2> QED
      BY <2>2, <2>3
  <1> QED
    BY <1>5, <1>6 DEF MovesOn

LEMMA StepPunctual ==
  ASSUME TypeOK, NEW waits, NEW starts, FitsDeadline(waits, starts), Punctual(waits, starts),
         NEW d \in Dispatches, Step(d)
  PROVE  Punctual(waits, starts)'
  <1> DEFINE t == dispatch[d]
             Course(v) == OnCourse(v, waits, starts)
  <1>0. clock \in Nat /\ errors \in 0 .. MaxErrors /\ MaxErrors \in Nat
    BY Numbers, Constants DEF TypeOK
  <1>1. ASSUME NEW recurrence \in BOOLEAN, MaybeFireWebhook(d, recurrence)
        PROVE  Punctual(waits, starts)'
    <2>1. PICK v : /\ Goto(d, v) /\ v.pc = "load" /\ v.deadline = clock + DispatchTimeout
                   /\ v.hook = 1 /\ v.attempt = 1 /\ v.backoff = InitialBackoff
                   /\ v.heard = {} /\ v.slow = {}
      BY <1>1 DEF MaybeFireWebhook
    <2>2. TypeOK' /\ dispatch'[d] = v
      BY <1>1, <2>1, StepTypes, GotoEffect DEF Step
    <2>3. v \in DispatchType
      BY <2>1, <2>2 DEF TypeOK, Unborn
    <2>4. Begun(v) = clock /\ clock < v.deadline
      BY <1>0, <2>1, Constants DEF Begun
    <2>5. ToldSoFar(v)
      BY <2>1 DEF ToldSoFar
    <2>6. OnSchedule(v, waits, starts)
      BY <2>1, <2>4 DEF OnSchedule, FitsDeadline
    <2>7. UNCHANGED <<clock, errors>>
      BY <1>1 DEF MaybeFireWebhook
    <2> QED
      BY <2>1, <2>3, <2>5, <2>6, <2>7, PunctualStep DEF OnCourse
  <1>2. ASSUME LoadGroupAndHooks(d) PROVE Punctual(waits, starts)'
    <2>1. Kept(d) /\ t.pc = "load" /\ UNCHANGED clock
      BY <1>2 DEF LoadGroupAndHooks, At, Kept
    <2>2. PICK v \in DispatchType :
              /\ Goto(d, v) /\ v.pc \in {"gate", "done"}
              /\ v.recurrence = t.recurrence /\ v.deadline = t.deadline
              /\ v.hook = 1 /\ t.hook = 1 /\ v.attempt = t.attempt /\ v.backoff = t.backoff
              /\ v.heard = t.heard /\ v.slow = t.slow
              /\ (errors' = errors + 1 \/ (errors' = errors /\ (v.pc = "done" => Hooks = {})))
      BY <1>2, LoadEffect
    <2>3. errors' = 0 => errors = 0 /\ (v.pc = "done" => Hooks = {})
      BY <1>0, <2>2
    <2>4. ASSUME errors' = 0, ~v.recurrence, \A h, k \in v.slow : h = k
          PROVE  ToldSoFar(v) /\ OnSchedule(v, waits, starts)
      <3>1. ToldSoFar(t) /\ OnSchedule(t, waits, starts)
        BY <2>1, <2>2, <2>3, <2>4, StillOnCourse
      <3>2. ToldSoFar(v)
        BY <2>1, <2>2, <2>3, <2>4, <3>1 DEF ToldSoFar
      <3>3. OnSchedule(v, waits, starts)
        BY <2>1, <2>2, <3>1 DEF OnSchedule, Begun
      <3> QED
        BY <3>2, <3>3
    <2>5. errors' = 0 => Course(v)
      BY <2>4 DEF OnCourse
    <2> QED
      BY <2>1, <2>2, <2>3, <2>5, PunctualStep
  <1>3. ASSUME RecurrenceShouldFire(d) PROVE Punctual(waits, starts)'
    <2>1. Kept(d) /\ t.pc = "gate" /\ UNCHANGED clock
      BY <1>3 DEF RecurrenceShouldFire, At, Kept
    <2>2. errors' = 0 => errors = 0
      <3>1. PICK ok \in Outcomes \union {TRUE} : CountError(ok)
        BY <1>3 DEF RecurrenceShouldFire
      <3>2. ok \in Outcomes
        BY <3>1, MayFail
      <3>3. errors' >= errors /\ errors' \in 0 .. MaxErrors
        BY <1>0, <3>1, <3>2, Counted
      <3> QED
        BY <1>0, <3>3
    <2>3. PICK v \in DispatchType :
              /\ Goto(d, v) /\ v.recurrence = t.recurrence
              /\ v.pc = "post" => /\ SameErrand(t, v) /\ v.heard = t.heard /\ v.slow = t.slow
      BY <1>3, GateEffect DEF SameErrand, MovesOn
    <2>4. ASSUME errors' = 0, ~v.recurrence, \A h, k \in v.slow : h = k
          PROVE  ToldSoFar(v) /\ OnSchedule(v, waits, starts)
      <3>1. v.pc = "post"
        BY <1>3, <2>3, <2>4, GateLetsNewsPass, GotoEffect
      <3>2. ToldSoFar(t) /\ OnSchedule(t, waits, starts)
        BY <2>1, <2>2, <2>3, <2>4, <3>1, StillOnCourse
      <3>3. t.attempt = 1 /\ t.hook \notin t.slow
        BY <2>1, <3>2 DEF OnSchedule, ToldSoFar
      <3>4. ToldSoFar(v)
        BY <2>1, <2>3, <3>1, <3>2, <3>3 DEF ToldSoFar, SameErrand
      <3>5. OnSchedule(v, waits, starts)
        BY <2>1, <2>3, <3>1, <3>2, <3>3 DEF OnSchedule, Begun, SameErrand
      <3> QED
        BY <3>4, <3>5
    <2>5. errors' = 0 => Course(v)
      BY <2>4 DEF OnCourse
    <2> QED
      BY <2>1, <2>2, <2>3, <2>5, PunctualStep
  <1>4. ASSUME Post(d) PROVE Punctual(waits, starts)'
    <2>1. Kept(d) /\ t.pc = "post" /\ UNCHANGED <<clock, errors>>
      BY <1>4 DEF Post, At, Kept
    <2>2. PICK v \in DispatchType :
              /\ Goto(d, v) /\ SameErrand(t, v)
              /\ \/ Expired(d) /\ v.slow = t.slow
                 \/ /\ ~Expired(d)
                    /\ \/ /\ v.pc = "fired" /\ v.slow = t.slow
                          /\ ~v.recurrence => v.heard = t.heard \union {v.hook}
                       \/ /\ v.pc \in {"hang", "backoff", "fired"} /\ v.heard = t.heard
                          /\ ~v.recurrence => v.slow = t.slow \union {v.hook}
              /\ v.pc = "backoff" =>
                    v.attempt < MaxAttempts /\ clock <= v.wake /\ v.wake <= clock + v.backoff
              /\ v.pc = "hang" => clock <= v.wake /\ v.wake <= clock + PerAttemptTimeout
      BY <1>4, PostEffect
    <2>3. ASSUME errors = 0, ~v.recurrence, \A h, k \in v.slow : h = k
          PROVE  Course(v)
      <3>1. ~t.recurrence
        BY <2>2, <2>3 DEF SameErrand
      <3>2. CASE Expired(d) /\ v.slow = t.slow
        <4>1. OnSchedule(t, waits, starts) /\ t.deadline \in Nat
          BY <2>1, <2>3, <3>1, <3>2, StillOnCourse
        <4> QED
          BY <1>0, <2>1, <3>2, <4>1 DEF OnSchedule, Expired
      <3>3. CASE ~Expired(d) /\ v.pc = "fired" /\ v.slow = t.slow /\ v.heard = t.heard \union {v.hook}
        BY <1>4, <2>2, <2>3, <3>1, <3>3, AnswerOnCourse
      <3>4. CASE /\ ~Expired(d) /\ v.pc \in {"hang", "backoff", "fired"} /\ v.heard = t.heard
                 /\ v.slow = t.slow \union {v.hook}
        BY <1>4, <2>2, <2>3, <3>1, <3>4, PostOnCourse
      <3> QED
        BY <2>2, <2>3, <3>2, <3>3, <3>4
    <2>4. errors = 0 => Course(v)
      BY <2>3 DEF OnCourse
    <2> QED
      BY <2>1, <2>2, <2>4, PunctualStep
  <1>5. ASSUME TimeOut(d) PROVE Punctual(waits, starts)'
    <2>1. UNCHANGED <<clock, errors>>
      BY <1>5 DEF TimeOut
    <2>2. PICK v \in DispatchType :
              /\ Goto(d, v) /\ SameErrand(t, v) /\ v.heard = t.heard /\ v.slow = t.slow
              /\ v.pc \in {"backoff", "fired"}
              /\ v.pc = "backoff" =>
                    v.attempt < MaxAttempts /\ clock <= v.wake /\ v.wake <= clock + v.backoff
      BY <1>5, TimeOutEffect
    <2>3. errors = 0 => Course(v)
      <3>1. CASE v.recurrence
        BY <3>1 DEF OnCourse
      <3>2. CASE ~v.recurrence
        BY <1>5, <2>2, <3>2, TimeOutOnCourse DEF SameErrand
      <3> QED
        BY <3>1, <3>2
    <2> QED
      BY <2>1, <2>2, <2>3, PunctualStep
  <1>6. ASSUME Retry(d) PROVE Punctual(waits, starts)'
    <2>1. UNCHANGED <<clock, errors>>
      BY <1>6 DEF Retry
    <2>2. PICK v \in DispatchType :
              /\ Goto(d, v) /\ v.pc = "post" /\ v.attempt = t.attempt + 1
              /\ v.backoff = t.backoff * BackoffMultiplier /\ v.recurrence = t.recurrence
              /\ v.deadline = t.deadline /\ v.hook = t.hook
              /\ v.heard = t.heard /\ v.slow = t.slow
      BY <1>6, RetryEffect
    <2>3. errors = 0 => Course(v)
      <3>1. CASE v.recurrence
        BY <3>1 DEF OnCourse
      <3>2. CASE ~v.recurrence
        BY <1>6, <2>2, <3>2, RetryOnCourse
      <3> QED
        BY <3>1, <3>2
    <2> QED
      BY <2>1, <2>2, <2>3, PunctualStep
  <1>7. ASSUME AdvanceBaseline(d) PROVE Punctual(waits, starts)'
    <2>1. UNCHANGED clock /\ At(d, "fired")
      BY <1>7 DEF AdvanceBaseline
    <2>2. errors' = 0 => errors = 0
      <3>1. PICK ok \in Outcomes \union {TRUE} : CountError(ok)
        BY <1>7 DEF AdvanceBaseline
      <3>2. ok \in Outcomes
        BY <3>1, MayFail
      <3>3. errors' >= errors /\ errors' \in 0 .. MaxErrors
        BY <1>0, <3>1, <3>2, Counted
      <3> QED
        BY <1>0, <3>3
    <2>3. PICK v \in DispatchType : Goto(d, v) /\ MovesOn(t, v)
      BY <1>7, AdvanceEffect
    <2>4. errors = 0 => Course(v)
      <3>1. CASE v.recurrence
        BY <3>1 DEF OnCourse
      <3>2. CASE ~v.recurrence
        BY <2>1, <2>3, <3>2, MoveOnCourse DEF MovesOn
      <3> QED
        BY <3>1, <3>2
    <2> QED
      BY <2>1, <2>2, <2>3, <2>4, PunctualStep
  <1> QED
    BY <1>1, <1>2, <1>3, <1>4, <1>5, <1>6, <1>7 DEF Step

LEMMA NextPunctual ==
  ASSUME NEW waits, NEW starts, FitsDeadline(waits, starts),
         TypeOK, Punctual(waits, starts), [Next]_vars
  PROVE  Punctual(waits, starts)'
  <1>1. ASSUME NEW d \in Dispatches, Step(d) PROVE Punctual(waits, starts)'
    BY <1>1, StepPunctual
  <1>2. CASE UNCHANGED <<clock, dispatch, errors>>
    BY <1>2 DEF Punctual, Kept, ToldSoFar, OnSchedule, Begun
  <1>3. CASE MainReturns
    <2>1. \A d \in Dispatches : Kept(d)' => Kept(d) /\ dispatch'[d] = dispatch[d]
      BY <1>3 DEF MainReturns, Kept, Running
    <2>2. UNCHANGED <<clock, errors>>
      BY <1>3 DEF MainReturns
    <2> QED
      BY <2>1, <2>2 DEF Punctual, OnSchedule, Begun
  <1>4. CASE Advance
    <2>1. dispatch' = dispatch /\ clock' = clock + 1 /\ errors' = errors /\ clock \in Nat
      BY <1>4, Numbers DEF Advance
    <2> SUFFICES ASSUME errors = 0, NEW d \in Dispatches, Kept(d), ~dispatch[d].recurrence,
                        \A h, k \in dispatch[d].slow : h = k
                 PROVE  ToldSoFar(dispatch[d]) /\ OnSchedule(dispatch[d], waits, starts)'
      BY <2>1 DEF Punctual, Kept
    <2> DEFINE t == dispatch[d]
               n == t.attempt
    <2>2. /\ ToldSoFar(t) /\ OnSchedule(t, waits, starts)
          /\ n \in 1 .. MaxAttempts /\ t.deadline \in Nat /\ t.wake \in Nat /\ Begun(t) \in Int
      BY StillOnCourse
    <2>3. CASE ~Running(d)
      <3>1. t.pc = "done"
        BY <2>3 DEF Kept, Running
      <3> QED
        BY <2>1, <2>2, <3>1 DEF OnSchedule, Begun
    <2>4. CASE Running(d)
      <3>1. t.pc \in {"hang", "backoff"} /\ clock + 1 <= t.wake
        BY <1>4, <2>4, AdvanceWaits DEF Waiting
      <3>2. t.slow # {} /\ t.deadline = Begun(t) + DispatchTimeout
        BY <2>2, <3>1, Constants DEF ToldSoFar, Begun
      <3>3. clock + 1 < t.deadline
        <4>1. CASE t.pc = "hang"
          <5>1. t.wake <= Begun(t) + starts[n] + PerAttemptTimeout
            BY <2>2, <4>1 DEF OnSchedule
          <5>2. starts[n] \in Nat /\ starts[n] + PerAttemptTimeout < DispatchTimeout
            BY <2>2, FitsAt
          <5> QED
            BY <2>1, <2>2, <3>1, <3>2, <5>1, <5>2, Constants
        <4>2. CASE t.pc = "backoff"
          <5>1. t.wake <= Begun(t) + starts[n + 1] /\ n < MaxAttempts
            BY <2>2, <4>2 DEF OnSchedule
          <5>2. n + 1 \in 1 .. MaxAttempts
            BY <2>2, <5>1, FitsAt
          <5>3. starts[n + 1] \in Nat /\ starts[n + 1] + PerAttemptTimeout < DispatchTimeout
            BY <5>2, FitsAt
          <5> QED
            BY <2>1, <2>2, <3>1, <3>2, <5>1, <5>3, Constants
        <4> QED
          BY <3>1, <4>1, <4>2
      <3> QED
        BY <2>1, <2>2, <3>1, <3>2, <3>3 DEF OnSchedule, Begun
    <2> QED
      BY <2>2, <2>3, <2>4
  <1> QED
    BY <1>1, <1>2, <1>3, <1>4 DEF Next, Shutdown, vars

\* While no statement fails, a receiver that never answers keeps no other webhook from
\* hearing of a new group, as long as the deadline of a dispatch allows for one receiver
\* that hangs in every attempt.
THEOREM OneDeadReceiverIsBorne ==
  ASSUME NEW waits, NEW starts, FitsDeadline(waits, starts)
  PROVE  Spec => []OneDeadReceiverDelaysNobody
  <1> DEFINE Inv == TypeOK /\ Punctual(waits, starts)
  <1>1. Init => Inv
    BY InitTypes DEF Init, Punctual, Kept, Unborn
  <1>2. Inv /\ [Next]_vars => Inv'
    BY NextTypes, NextPunctual
  <1>3. Inv => OneDeadReceiverDelaysNobody
    BY DEF Punctual, OneDeadReceiverDelaysNobody, ToldSoFar, At, Kept
  <1> HIDE DEF Inv
  <1> QED
    BY <1>1, <1>2, <1>3, PTL DEF Spec
=============================================================================

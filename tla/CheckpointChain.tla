---------------------------- MODULE CheckpointChain ----------------------------
(***************************************************************************)
(* The checkpoint chain of the backend: executions are ingested, sealed,   *)
(* gathered into one checkpoint per clock interval by a scheduler, and     *)
(* each checkpoint is anchored in a public transparency log before its     *)
(* successor may be built.                                                 *)
(*                                                                         *)
(* A scheduler is a goroutine of one backend process; a rolling deploy     *)
(* runs two of them for a while, so they are a set.  One action is one     *)
(* statement the scheduler sends to the database, or one request to the    *)
(* log, because other actors run between any two of them.  The reads that  *)
(* make up one tenant leaf are a single step.                              *)
(*                                                                         *)
(* Times count abstract ticks of the wall clock.  A hash is collision      *)
(* free: it is a tagged copy of what it commits to.                        *)
(***************************************************************************)
EXTENDS Integers, Sequences, FiniteSets

CONSTANTS Executions,           \* the execution ids clients may create
          Projects,             \* the tenants
          ProjectOf,            \* the tenant that owns each execution
          Schedulers,           \* the scheduler goroutines alive at once
          CheckpointInterval,   \* length of one interval
          Settle,               \* rest after ended_at before a run is sealed
          Timeout,              \* age at which an unfinished run is sealed
          Retention,            \* age at which a run is pruned
          maxIntervalsPerTick,  \* intervals one tick may close
          ClientSkew,           \* how far back a client may date a timestamp
          MaxClock,             \* bound: last clock value
          MaxEvents,            \* bound: events of one execution
          MaxWasted             \* bound: log entries no checkpoint records

ASSUME ConstantsAssumption ==
    /\ IsFiniteSet(Executions)
    /\ IsFiniteSet(Projects)
    /\ ProjectOf \in [Executions -> Projects]
    /\ CheckpointInterval \in Nat \ {0}
    /\ Settle \in Nat
    /\ Timeout \in Nat \ {0}
    /\ Retention \in Nat
    /\ maxIntervalsPerTick \in Nat \ {0}
    /\ ClientSkew \in Nat
    /\ MaxClock \in Nat
    /\ MaxEvents \in Nat
    /\ MaxWasted \in Nat

VARIABLES clock,        \* the wall clock
          row,          \* whether an execution's row exists
          startedAt,    \* executions.started_at
          endedAt,      \* executions.ended_at
          sealedAt,     \* executions.sealed_at
          events,       \* how many events are stored for an execution
          checkpoints,  \* the table checkpoints with its tenant leaves, by seq
          anchors,      \* checkpoints.log_entry_id, by seq
          log,          \* the transparency log: an entry id is an index
          tick,         \* what each scheduler's tick is doing, and what it holds
          leaves        \* the tenant leaves it has built for the open interval

store == <<row, startedAt, endedAt, sealedAt, events>>
chain == <<checkpoints, anchors>>
vars  == <<clock, store, chain, log, tick, leaves>>

NULL    == -1           \* an SQL NULL timestamp
NoEntry == 0            \* the empty log_entry_id
ZeroHash == <<"zero">>
TenantLeafHash(l) == <<"leaf", l>>
CheckpointHash(c) == <<"checkpoint", c>>

Present(e)        == row[e] = "present"
\* Mutant: an interval includes its last instant.
SealedUpTo(e, t, u) == sealedAt[e] # NULL /\ t <= sealedAt[e] /\ sealedAt[e] <= u
SealedIn(e, t, u) == sealedAt[e] # NULL /\ t <= sealedAt[e] /\ sealedAt[e] < u
Members(leaf)     == {d[1] : d \in leaf.root}
Covers(i, e)      == /\ ProjectOf[e] \in DOMAIN checkpoints[i].leaves
                     /\ e \in Members(checkpoints[i].leaves[ProjectOf[e]])
WastedEntries     == Len(log) - Cardinality({i \in DOMAIN anchors : anchors[i] # NoEntry})

\* A scheduler between two ticks; a tick's fields are its local variables.
Idle == [pc     |-> "idle",     \* what it does next
         now    |-> 0,          \* the instant it started
         head   |-> 0,          \* seq of the checkpoint it works from
         entry  |-> NoEntry,    \* the log entry id it holds
         todo   |-> {},         \* counted projects whose leaf is still to build
         closed |-> 0]          \* intervals it has closed

Init ==
    /\ clock = CheckpointInterval
    /\ row = [e \in Executions |-> "absent"]
    /\ startedAt = [e \in Executions |-> NULL]
    /\ endedAt = [e \in Executions |-> NULL]
    /\ sealedAt = [e \in Executions |-> NULL]
    /\ events = [e \in Executions |-> 0]
    /\ checkpoints = <<>>
    /\ anchors = <<>>
    /\ log = <<>>
    /\ tick = [s \in Schedulers |-> Idle]
    /\ leaves = [s \in Schedulers |-> <<>>]

-----------------------------------------------------------------------------
(* Ingest, the clock and retention: what happens around the scheduler.     *)

ClockTick ==
    /\ clock < MaxClock
    /\ clock' = clock + 1
    /\ UNCHANGED <<store, chain, log, tick, leaves>>

\* A client's timestamp is the backend's clock or a little behind it.
ClientTimes == {t \in 0..clock : clock - t <= ClientSkew}

\* A row that comes with its ended_at is one whose PATCH follows at once.
HandleCreateExecution(e) ==
    /\ row[e] = "absent"
    /\ \E t \in ClientTimes : startedAt' = [startedAt EXCEPT ![e] = t]
    /\ row' = [row EXCEPT ![e] = "present"]
    /\ UNCHANGED <<clock, endedAt, sealedAt, events, chain, log, tick, leaves>>

\* Nothing on this path looks at sealed_at.
HandleIngestEvents(e) ==
    /\ Present(e)
    /\ events[e] < MaxEvents
    /\ events' = [events EXCEPT ![e] = @ + 1]
    /\ UNCHANGED <<clock, row, startedAt, endedAt, sealedAt, chain, log, tick, leaves>>

\* Any PATCH that reaches the update stamps ended_at, a repeated one again.
HandleUpdateExecution(e) ==
    /\ Present(e)
    /\ \E t \in ClientTimes : endedAt' = [endedAt EXCEPT ![e] = t]
    /\ UNCHANGED <<clock, row, startedAt, sealedAt, events, chain, log, tick, leaves>>

\* The retention worker prunes by age alone; events go with the row.
DeleteExecutionsOlderThan(p) ==
    LET old == {e \in Executions : /\ Present(e)
                                   /\ ProjectOf[e] = p
                                   /\ startedAt[e] < clock - Retention}
        Without(column, blank) == [e \in Executions |-> IF e \in old THEN blank ELSE column[e]]
    IN  /\ old # {}
        /\ row' = Without(row, "deleted")
        /\ startedAt' = Without(startedAt, NULL)
        /\ endedAt' = Without(endedAt, NULL)
        /\ sealedAt' = Without(sealedAt, NULL)
        /\ events' = Without(events, 0)
        /\ UNCHANGED <<clock, chain, log, tick, leaves>>

-----------------------------------------------------------------------------
(* One tick of a scheduler.                                                *)

At(s, pcs) == tick[s].pc \in pcs
Goto(s, l) == tick' = [tick EXCEPT ![s].pc = l]

\* The tick returns; what it held is gone.
EndTick(s) ==
    /\ tick' = [tick EXCEPT ![s] = Idle]
    /\ leaves' = [leaves EXCEPT ![s] = <<>>]

\* closeNextInterval closed one interval; the loop in tick goes round.
NextIteration(s) ==
    IF tick[s].closed + 1 < maxIntervalsPerTick
    THEN /\ tick' = [tick EXCEPT ![s] = [Idle EXCEPT !.pc     = "head",
                                                     !.now    = tick[s].now,
                                                     !.closed = tick[s].closed + 1]]
         /\ leaves' = [leaves EXCEPT ![s] = <<>>]
    ELSE EndTick(s)

\* The ticker fires; the tick reads the clock once, for everything it does.
Wake(s) ==
    /\ At(s, {"idle"})
    /\ tick' = [tick EXCEPT ![s].pc = "seal", ![s].now = clock]
    /\ UNCHANGED <<clock, store, chain, log, leaves>>

Eligible(e, t) ==
    /\ Present(e)
    /\ sealedAt[e] = NULL
    /\ \/ endedAt[e] # NULL /\ endedAt[e] <= t - Settle
       \/ endedAt[e] = NULL /\ startedAt[e] <= t - Timeout

\* Mutant: seals are stamped with the end of the execution.
SealAtEnd(s) ==
    /\ At(s, {"seal"})
    /\ sealedAt' = [e \in Executions |->
                       IF Eligible(e, tick[s].now) THEN endedAt[e] ELSE sealedAt[e]]
    /\ Goto(s, "head")
    /\ UNCHANGED <<clock, row, startedAt, endedAt, events, chain, log, leaves>>

SealExecutions(s) ==
    /\ At(s, {"seal"})
    /\ sealedAt' = [e \in Executions |->
                       IF Eligible(e, tick[s].now) THEN tick[s].now ELSE sealedAt[e]]
    /\ Goto(s, "head")
    /\ UNCHANGED <<clock, row, startedAt, endedAt, events, chain, log, leaves>>

LatestCheckpoint(s) ==
    /\ At(s, {"head"})
    /\ tick' = [tick EXCEPT
                   ![s].head = Len(checkpoints),
                   ![s].pc   = IF checkpoints = <<>> THEN "window" ELSE "anchorState"]
    /\ UNCHANGED <<clock, store, chain, log, leaves>>

\* Mutant: a tick gives up on an unanchored head.
GiveUpOnUnanchored(s) ==
    /\ At(s, {"anchorState"})
    /\ IF anchors[tick[s].head] # NoEntry
       THEN /\ tick' = [tick EXCEPT ![s].entry = anchors[tick[s].head], ![s].pc = "window"]
            /\ UNCHANGED leaves
       ELSE EndTick(s)
    /\ UNCHANGED <<clock, store, chain, log>>

\* An unanchored head is anchored before anything is built on it.
GetCheckpointAnchor(s) ==
    /\ At(s, {"anchorState"})
    /\ tick' = [tick EXCEPT
                   ![s].entry = anchors[tick[s].head],
                   ![s].pc    = IF anchors[tick[s].head] # NoEntry THEN "window" ELSE "submit"]
    /\ UNCHANGED <<clock, store, chain, log, leaves>>

\* The re-read after a retried anchor.
RereadAnchor(s) ==
    /\ At(s, {"reread"})
    /\ IF anchors[tick[s].head] # NoEntry
       THEN /\ tick' = [tick EXCEPT ![s].entry = anchors[tick[s].head], ![s].pc = "window"]
            /\ UNCHANGED leaves
       ELSE EndTick(s)
    /\ UNCHANGED <<clock, store, chain, log>>

\* anchor() failed: a retry ends the tick, a fresh checkpoint stays as it is.
AnchorFailed(s) == IF At(s, {"submit", "mark"}) THEN EndTick(s) ELSE NextIteration(s)

Submit(s) == log' = Append(log, CheckpointHash(checkpoints[tick[s].head]))

\* The log takes the hash and answers with an entry id.
AnchorCheckpoint(s) ==
    /\ At(s, {"submit", "submitNew"})
    /\ Submit(s)
    /\ tick' = [tick EXCEPT ![s].entry = Len(log) + 1,
                            ![s].pc    = IF @ = "submit" THEN "mark" ELSE "markNew"]
    /\ UNCHANGED <<clock, store, chain, leaves>>

\* No anchorer, no answer, or an answer that is refused.  The log may have
\* taken the hash all the same.
AnchorCheckpointFails(s) ==
    /\ At(s, {"submit", "submitNew"})
    /\ UNCHANGED log \/ (WastedEntries < MaxWasted /\ Submit(s))
    /\ AnchorFailed(s)
    /\ UNCHANGED <<clock, store, chain>>

\* Mutant: the update does not ask that anchored_at be NULL.
MarkAgain(s) ==
    /\ At(s, {"mark", "markNew"})
    /\ anchors' = [anchors EXCEPT ![tick[s].head] = tick[s].entry]
    /\ IF At(s, {"mark"})
       THEN Goto(s, "reread") /\ UNCHANGED leaves
       ELSE NextIteration(s)
    /\ UNCHANGED <<clock, store, checkpoints, log>>

\* UPDATE ... WHERE seq = $6 AND anchored_at IS NULL
MarkCheckpointAnchored(s) ==
    /\ At(s, {"mark", "markNew"})
    /\ IF anchors[tick[s].head] = NoEntry
       THEN /\ anchors' = [anchors EXCEPT ![tick[s].head] = tick[s].entry]
            /\ IF At(s, {"mark"})
               THEN Goto(s, "reread") /\ UNCHANGED leaves
               ELSE NextIteration(s)
       ELSE AnchorFailed(s) /\ UNCHANGED anchors
    /\ UNCHANGED <<clock, store, checkpoints, log>>

\* Anchored in the log but not recorded here.
MarkFails(s) ==
    /\ At(s, {"mark", "markNew"})
    /\ WastedEntries <= MaxWasted
    /\ AnchorFailed(s)
    /\ UNCHANGED <<clock, store, chain, log>>

Truncate(t) == t - (t % CheckpointInterval)

\* Mutant: after an outage the chain resumes at the latest elapsed interval.
LatestElapsedStart(s) == Truncate(tick[s].now) - CheckpointInterval

\* The interval to close: fixed to the clock at genesis, else the next one.
IntervalStart(s) ==
    IF tick[s].head = 0
    THEN Truncate(tick[s].now) - CheckpointInterval
    ELSE checkpoints[tick[s].head].end
IntervalEnd(s) == IntervalStart(s) + CheckpointInterval

SealedInInterval(s, p) ==
    {e \in Executions : /\ ProjectOf[e] = p
                        /\ SealedIn(e, IntervalStart(s), IntervalEnd(s))}

\* nextInterval, then the count that starts buildLeaves.
CountSealedByProject(s) ==
    /\ At(s, {"window"})
    /\ IF tick[s].now < IntervalEnd(s)
       THEN EndTick(s)
       ELSE /\ tick' = [tick EXCEPT ![s].pc   = "leaves",
                                    ![s].todo = {p \in Projects : SealedInInterval(s, p) # {}}]
            /\ UNCHANGED leaves
    /\ UNCHANGED <<clock, store, chain, log>>

\* The project's most recent leaf is in checkpoint i.
IsLatestLeaf(i, p) ==
    /\ i \in DOMAIN checkpoints
    /\ p \in DOMAIN checkpoints[i].leaves
    /\ \A j \in DOMAIN checkpoints : j > i => p \notin DOMAIN checkpoints[j].leaves

AddLeaf(s, p, leaf) ==
    leaves' = [leaves EXCEPT ![s] =
                  [q \in DOMAIN leaves[s] \union {p} |->
                      IF q = p THEN leaf ELSE leaves[s][q]]]

\* The leaf of project p over a root, continuing the project's sub-chain.
AddTenantLeaf(s, p, root) ==
    \/ /\ \A i \in DOMAIN checkpoints : p \notin DOMAIN checkpoints[i].leaves
       /\ AddLeaf(s, p, [root |-> root, count |-> Cardinality(root),
                         cumulative |-> Cardinality(root), prevHash |-> ZeroHash])
    \/ \E i \in DOMAIN checkpoints :
           /\ IsLatestLeaf(i, p)
           /\ LET prev == checkpoints[i].leaves[p]
              IN  AddLeaf(s, p, [root |-> root, count |-> Cardinality(root),
                                 cumulative |-> prev.cumulative + Cardinality(root),
                                 prevHash |-> TenantLeafHash(prev)])

\* A leaf's root commits to the digest of each execution, that is to the
\* events stored for it.  Projects are taken in a fixed order.  The interval
\* is refused when a counted project has lost its rows since the count.
BuildLeaf(s) ==
    /\ At(s, {"leaves"})
    /\ tick[s].todo # {}
    /\ LET p == CHOOSE q \in tick[s].todo : TRUE
           sealed == SealedInInterval(s, p)
       IN  IF sealed = {}
           THEN EndTick(s)
           ELSE /\ AddTenantLeaf(s, p, {<<e, events[e]>> : e \in sealed})
                /\ tick' = [tick EXCEPT ![s].todo = @ \ {p}]
    /\ UNCHANGED <<clock, store, chain, log>>

\* Executions in a set of leaves; no execution is in the leaves of two projects.
Added(ls) == Cardinality(UNION {ls[p].root : p \in DOMAIN ls})

BuildCheckpoint(s) ==
    LET h == tick[s].head
    IN  [seq        |-> h + 1,
         prevHash   |-> IF h = 0 THEN ZeroHash ELSE CheckpointHash(checkpoints[h]),
         prevEntry  |-> tick[s].entry,
         start      |-> IntervalStart(s),
         end        |-> IntervalEnd(s),
         leaves     |-> leaves[s],
         cumulative |-> Added(leaves[s]) + (IF h = 0 THEN 0 ELSE checkpoints[h].cumulative)]

\* Mutant: the table has no primary key.
InsertableTwice(s) ==
    /\ IntervalStart(s) % CheckpointInterval = 0
    /\ (tick[s].head = 0) = (tick[s].entry = NoEntry)

\* What BuildCheckpoint refuses, and the primary key of the table.
Insertable(s) ==
    /\ IntervalStart(s) % CheckpointInterval = 0
    /\ (tick[s].head = 0) = (tick[s].entry = NoEntry)
    /\ tick[s].head + 1 \notin DOMAIN checkpoints

\* The checkpoint and its leaves are written in one transaction.
InsertCheckpoint(s) ==
    /\ At(s, {"leaves"})
    /\ tick[s].todo = {}
    /\ IF Insertable(s)
       THEN /\ checkpoints' = Append(checkpoints, BuildCheckpoint(s))
            /\ anchors' = Append(anchors, NoEntry)
            /\ tick' = [tick EXCEPT ![s].head = @ + 1, ![s].pc = "submitNew"]
            /\ UNCHANGED leaves
       ELSE EndTick(s) /\ UNCHANGED chain
    /\ UNCHANGED <<clock, store, log>>

\* A statement fails, the context is cancelled, or the process dies: the next
\* tick starts from the database.
Abort(s) ==
    /\ ~At(s, {"idle"})
    /\ At(s, {"mark", "markNew"}) => WastedEntries <= MaxWasted
    /\ EndTick(s)
    /\ UNCHANGED <<clock, store, chain, log>>

Scheduler(s) ==
    \/ Wake(s)
    \/ SealExecutions(s)
    \/ LatestCheckpoint(s)
    \/ GetCheckpointAnchor(s)
    \/ RereadAnchor(s)
    \/ AnchorCheckpoint(s)
    \/ AnchorCheckpointFails(s)
    \/ MarkCheckpointAnchored(s)
    \/ MarkFails(s)
    \/ CountSealedByProject(s)
    \/ BuildLeaf(s)
    \/ InsertCheckpoint(s)
    \/ Abort(s)

Environment ==
    \/ ClockTick
    \/ \E e \in Executions : \/ HandleCreateExecution(e)
                             \/ HandleIngestEvents(e)
                             \/ HandleUpdateExecution(e)
    \/ \E p \in Projects : DeleteExecutionsOlderThan(p)

Next == Environment \/ \E s \in Schedulers : Scheduler(s)

Spec == Init /\ [][Next]_vars

-----------------------------------------------------------------------------
(* Verification, as an auditor runs it over an export.                     *)

VerifyLink(prev, c) ==
    /\ c.seq = prev.seq + 1
    /\ c.prevHash = CheckpointHash(prev)
    /\ c.prevEntry # NoEntry
    /\ c.start = prev.end
    /\ c.cumulative >= prev.cumulative

VerifyChain(cps) ==
    /\ \A i \in DOMAIN cps : /\ cps[i].end = cps[i].start + CheckpointInterval
                             /\ cps[i].start % CheckpointInterval = 0
    /\ cps # <<>> => cps[1].seq = 1 /\ cps[1].prevHash = ZeroHash /\ cps[1].prevEntry = NoEntry
    /\ \A i \in DOMAIN cps : i > 1 => VerifyLink(cps[i - 1], cps[i])

\* Checkpoints i and j hold consecutive leaves of project p.
ConsecutiveLeaves(i, j, p) ==
    /\ i < j
    /\ p \in DOMAIN checkpoints[i].leaves /\ p \in DOMAIN checkpoints[j].leaves
    /\ \A k \in DOMAIN checkpoints : i < k /\ k < j => p \notin DOMAIN checkpoints[k].leaves

VerifyTenantSubChain(p) ==
    \A i, j \in DOMAIN checkpoints : ConsecutiveLeaves(i, j, p) =>
        LET prev == checkpoints[i].leaves[p]
            l    == checkpoints[j].leaves[p]
        IN  /\ l.prevHash = TenantLeafHash(prev)
            /\ l.cumulative = prev.cumulative + l.count

-----------------------------------------------------------------------------
(* Properties.                                                             *)

Entries   == Nat                \* log entry ids, NoEntry included
Locations == {"idle", "seal", "head", "anchorState", "submit", "mark", "reread",
              "window", "leaves", "submitNew", "markNew"}
Ticks     == [pc : Locations, now : Nat, head : Nat, entry : Entries,
              todo : SUBSET Projects, closed : Nat]

LeafOK(l) ==
    /\ l.root \in SUBSET (Executions \X Nat) /\ IsFiniteSet(l.root)
    /\ l.count = Cardinality(l.root)
    /\ l.cumulative \in Nat

LeavesOK(ls) == DOMAIN ls \in SUBSET Projects /\ \A p \in DOMAIN ls : LeafOK(ls[p])

CheckpointOK(c) ==
    /\ c.seq \in Nat /\ c.prevEntry \in Entries
    /\ c.start \in Int /\ c.end \in Int
    /\ LeavesOK(c.leaves)
    /\ c.cumulative \in Nat

IsSequence(q) == q \in Seq({q[i] : i \in DOMAIN q})

StoreOK ==
    /\ row \in [Executions -> {"absent", "present", "deleted"}]
    /\ startedAt \in [Executions -> Nat \union {NULL}]
    /\ endedAt \in [Executions -> Nat \union {NULL}]
    /\ sealedAt \in [Executions -> Nat \union {NULL}]
    /\ events \in [Executions -> Nat]

ChainOK ==
    /\ IsSequence(checkpoints) /\ \A i \in DOMAIN checkpoints : CheckpointOK(checkpoints[i])
    /\ anchors \in Seq(Entries) /\ Len(anchors) = Len(checkpoints)

TicksOK ==
    /\ tick \in [Schedulers -> Ticks]
    /\ DOMAIN leaves = Schedulers /\ \A s \in Schedulers : LeavesOK(leaves[s])

\* Every variable has its type: the types of the columns and of a tick's locals.
TypeOK == clock \in Nat /\ StoreOK /\ ChainOK /\ IsSequence(log) /\ TicksOK

\* What the verifier checks of the whole chain holds of what the schedulers
\* write, however many of them run and whatever fails between two statements:
\* consecutive sequence numbers, linked hashes, tiled intervals, counts that
\* never go down.
ChainVerifies == VerifyChain(checkpoints)

\* Every tenant's leaves form an unbroken sub-chain, although a tick reads the
\* previous leaf long before it writes the next one.
SubChainsVerify == \A p \in Projects : VerifyTenantSubChain(p)

\* A checkpoint names the log entry its predecessor is recorded under, and that
\* entry does hold the predecessor's hash; duplicate submissions never make the
\* chain point at an entry the table does not know.
LinksReachTheLog ==
    \A i \in DOMAIN checkpoints : i > 1 =>
        LET id == checkpoints[i].prevEntry
        IN  /\ id = anchors[i - 1]
            /\ id \in DOMAIN log
            /\ log[id] = CheckpointHash(checkpoints[i - 1])

\* No execution is counted in two checkpoints.
ChainedAtMostOnce ==
    \A e \in Executions, i, j \in DOMAIN checkpoints :
        Covers(i, e) /\ Covers(j, e) => i = j

\* No omission: every execution on record that was sealed inside the period
\* the chain claims to cover is in the leaf of the interval it was sealed in.
NoOmission ==
    \A e \in Executions, i \in DOMAIN checkpoints :
        SealedIn(e, checkpoints[i].start, checkpoints[i].end) => Covers(i, e)

\* Interval membership is recorded once and checkpoints are permanent: no step
\* moves sealed_at, rewrites or removes a checkpoint, or replaces an anchor.
Permanent ==
    [][/\ \A e \in Executions :
              sealedAt[e] # NULL => sealedAt'[e] = sealedAt[e] \/ row'[e] = "deleted"
       /\ Len(checkpoints') >= Len(checkpoints)
       /\ \A i \in DOMAIN checkpoints :
              /\ checkpoints'[i] = checkpoints[i]
              /\ anchors[i] # NoEntry => anchors'[i] = anchors[i]]_vars

\* The chain covers every fully elapsed interval and its head is anchored.
CaughtUp ==
    /\ checkpoints # <<>>
    /\ clock < checkpoints[Len(checkpoints)].end + CheckpointInterval
    /\ anchors[Len(checkpoints)] # NoEntry

\* Stalls are never for ever: after any outage the chain catches up again.
CatchesUp == []<>CaughtUp

\* The chain is an append-only ledger that only grows behind anchored entries.
Ledger == INSTANCE AnchoredLedger WITH ledger <- checkpoints, anchor <- anchors
ImplementsLedger == Ledger!Spec

-----------------------------------------------------------------------------
(* What the repository says of the chain and the code does not keep.       *)

\* The anchored root of an interval is the root an export derives again from
\* the events stored now, for executions still on record.
AnchoredRootsRederive ==
    \A i \in DOMAIN checkpoints : anchors[i] # NoEntry =>
        \A p \in DOMAIN checkpoints[i].leaves :
            \A d \in checkpoints[i].leaves[p].root : Present(d[1]) => d[2] = events[d[1]]

\* A failed pass stalls the chain and skips nothing: what was sealed is in an
\* interval of the chain, or in one still to come.
SealsAreNotSkipped ==
    \A e \in Executions :
        sealedAt[e] # NULL /\ checkpoints # <<>>
            => sealedAt[e] >= checkpoints[1].start

-----------------------------------------------------------------------------
(* Fairness: the ticker keeps firing, and a statement or a submission that *)
(* is tried again and again in later ticks succeeds once.                  *)

TickSucceeds(s) ==
    /\ WF_vars(Wake(s))
    /\ SF_vars(SealExecutions(s))
    /\ SF_vars(LatestCheckpoint(s))
    /\ SF_vars(GetCheckpointAnchor(s))
    /\ SF_vars(AnchorCheckpoint(s))
    /\ SF_vars(MarkCheckpointAnchored(s))
    /\ SF_vars(RereadAnchor(s))
    /\ SF_vars(CountSealedByProject(s))
    /\ SF_vars(BuildLeaf(s))
    /\ SF_vars(InsertCheckpoint(s))

FairSpec == Spec /\ \A s \in Schedulers : TickSucceeds(s)

=============================================================================

----------------------- MODULE CheckpointChainInvariants -----------------------
(***************************************************************************)
(* The inductive strengthening of the safety properties of CheckpointChain. *)
(* Each conjunct is named for the thing it says; together with TypeOK they  *)
(* are preserved by every step, for any number of schedulers.               *)
(***************************************************************************)
EXTENDS CheckpointChain

\* What a tick holds is true of the tables: it works from a checkpoint that
\* exists, builds on an anchored one only, records an entry that is its own
\* submission, and closes no interval that is not over.
TicksAreGrounded ==
    \A s \in Schedulers :
        /\ tick[s].now <= clock
        /\ tick[s].head <= Len(checkpoints)
        /\ At(s, {"anchorState", "submit", "mark", "reread", "submitNew", "markNew"})
               => tick[s].head >= 1
        /\ At(s, {"window", "leaves"}) /\ tick[s].head >= 1
               => tick[s].entry = anchors[tick[s].head] /\ tick[s].entry # NoEntry
        /\ At(s, {"mark", "markNew"})
               => /\ tick[s].entry \in DOMAIN log
                  /\ log[tick[s].entry] = CheckpointHash(checkpoints[tick[s].head])
        /\ At(s, {"leaves"}) => IntervalEnd(s) <= tick[s].now

\* A recorded anchor is an entry of the log that holds the checkpoint's hash.
AnchorsAreLogged ==
    \A i \in DOMAIN checkpoints : anchors[i] # NoEntry =>
        anchors[i] \in DOMAIN log /\ log[anchors[i]] = CheckpointHash(checkpoints[i])

\* Only the head may be without an anchor.
OnlyHeadUnanchored ==
    \A i \in DOMAIN checkpoints : i < Len(checkpoints) => anchors[i] # NoEntry

\* Rows are numbered by their place, and their intervals follow each other;
\* none reaches past the clock.
RowsInOrder ==
    /\ \A i \in DOMAIN checkpoints : checkpoints[i].seq = i
    /\ \A i, j \in DOMAIN checkpoints : i < j => checkpoints[i].end <= checkpoints[j].start
    /\ \A i \in DOMAIN checkpoints : checkpoints[i].end <= clock

\* A scheduler holds leaves only from the moment it starts to build them.
LeavesAreFresh ==
    \A s \in Schedulers : ~At(s, {"leaves", "submitNew", "markNew"}) => leaves[s] = <<>>

\* A scheduler that has not lost the race for its interval holds leaves that
\* continue their tenants' sub-chains.
Racing(s) == At(s, {"leaves"}) /\ tick[s].head = Len(checkpoints)
Continues(p, l) ==
    \A i \in DOMAIN checkpoints : IsLatestLeaf(i, p) =>
        LET prev == checkpoints[i].leaves[p]
        IN  /\ l.prevHash = TenantLeafHash(prev)
            /\ l.cumulative = prev.cumulative + l.count
LeavesContinue ==
    \A s \in Schedulers : Racing(s) =>
        \A p \in DOMAIN leaves[s] : Continues(p, leaves[s][p])

\* What is known of an execution goes with its row.
BlankWithoutRow ==
    \A e \in Executions : ~Present(e) => sealedAt[e] = NULL /\ endedAt[e] = NULL

\* A leaf holds executions sealed in its interval, as long as they are on
\* record; a leaf still to be inserted holds none that is chained already.
Holds(ls, e) == ProjectOf[e] \in DOMAIN ls /\ e \in Members(ls[ProjectOf[e]])
MembersAreSealed ==
    \A e \in Executions :
        /\ \A i \in DOMAIN checkpoints : Covers(i, e) =>
               /\ row[e] # "absent"
               /\ Present(e) => SealedIn(e, checkpoints[i].start, checkpoints[i].end)
        /\ \A s \in Schedulers : At(s, {"leaves"}) /\ Holds(leaves[s], e) =>
               /\ row[e] # "absent"
               /\ Present(e) => SealedIn(e, IntervalStart(s), IntervalEnd(s))
               /\ Racing(s) => \A i \in DOMAIN checkpoints : ~Covers(i, e)

\* The conjuncts that hold of every instance.
ChainInv ==
    /\ TypeOK
    /\ TicksAreGrounded
    /\ AnchorsAreLogged
    /\ OnlyHeadUnanchored
    /\ RowsInOrder
    /\ LeavesAreFresh
    /\ LeavesContinue
    /\ BlankWithoutRow
    /\ MembersAreSealed
    /\ ChainVerifies
    /\ SubChainsVerify
    /\ LinksReachTheLog
    /\ ChainedAtMostOnce

-----------------------------------------------------------------------------
(* No omission needs timestamps that are not older than the rests a seal    *)
(* waits for.                                                               *)

PromptClients == ClientSkew <= Settle /\ ClientSkew <= Timeout

\* The first instant at which an execution may be sealed.
RipeAt(e) == IF endedAt[e] # NULL THEN endedAt[e] + Settle ELSE startedAt[e] + Timeout

\* Nothing can be sealed any more into an interval that is in the chain, or
\* one that a tick may close.
PastSeal == {"head", "anchorState", "submit", "mark", "reread", "window", "leaves",
             "submitNew", "markNew"}
NothingRipensInThePast ==
    \A e \in Executions : Present(e) /\ sealedAt[e] = NULL =>
        /\ \A i \in DOMAIN checkpoints : checkpoints[i].end <= RipeAt(e)
        /\ \A s \in Schedulers : At(s, PastSeal) => tick[s].now <= RipeAt(e)

\* Whatever is sealed in the interval a tick closes is in its leaves, or in a
\* project whose leaf it has still to build.
LeavesAreComplete ==
    \A s \in Schedulers, e \in Executions :
        /\ At(s, {"leaves"})
        /\ SealedIn(e, IntervalStart(s), IntervalEnd(s))
        => ProjectOf[e] \in tick[s].todo \/ Holds(leaves[s], e)

OmissionInv == NothingRipensInThePast /\ LeavesAreComplete /\ NoOmission

IInv == ChainInv /\ (PromptClients => OmissionInv)

=============================================================================

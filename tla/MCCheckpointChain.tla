--------------------------- MODULE MCCheckpointChain ---------------------------
(* Instances of CheckpointChain for TLC. *)
EXTENDS CheckpointChainInvariants, TLC

CONSTANTS e1, e2, p1, p2, s1, s2

\* One tenant owns every execution, so that its leaves form a sub-chain.
OneTenant  == [e \in Executions |-> p1]

\* Schedulers are interchangeable, and so are executions of one tenant.
OneTenantSymmetry == Permutations(Schedulers) \union Permutations(Executions)

\* Once an execution is sealed only the retention worker looks at its other
\* timestamps; where Retention is never reached they tell no states apart.
WhileUnsealed(column) == [e \in Executions |-> IF sealedAt[e] = NULL THEN column[e] ELSE NULL]
NothingPruned ==
    <<clock, row, WhileUnsealed(startedAt), WhileUnsealed(endedAt), sealedAt, events,
      chain, log, tick, leaves>>

=============================================================================

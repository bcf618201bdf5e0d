----------------------------- MODULE FailureGrouping -----------------------------
(***************************************************************************)
(* How a classified execution joins its failure group.  Every detector     *)
(* that fires on a finished execution calls the same store function, which *)
(* runs five statements without a transaction, and then has the webhooks   *)
(* told of a new group.  An action is one statement; the calls of other    *)
(* executions run between any two of them.                                 *)
(*                                                                         *)
(* The detectors of one PATCH run one after the other; a second PATCH of   *)
(* the same execution (a retry of one whose answer was slow) runs them     *)
(* again, after the first or, for a Retried execution, beside it.          *)
(***************************************************************************)
EXTENDS Integers, FiniteSets

CONSTANTS Executions,   \* the executions of one project
          Groups,       \* its failure groups: pairs of a class and a signature
          Calls,        \* slots for grouping calls in flight
          NoGroup,      \* an SQL NULL
          Retried,      \* the executions whose calls may overlap each other
          MaxCount      \* bound: the largest count a call starts from

ASSUME GroupingConstants ==
    /\ IsFiniteSet(Executions)
    /\ IsFiniteSet(Calls)
    /\ Retried \subseteq Executions
    /\ NoGroup \notin Groups \union Executions
    /\ MaxCount \in Nat

VARIABLES known,        \* the rows of failure_groups
          count,        \* failure_groups.affected_executions, kept with event_count
          resolved,     \* the groups with a resolved_at
          links,        \* execution_failure_groups: <<execution, group>>
          primaryLinks, \* those of them with is_primary
          primary,      \* executions.failure_group_id
          announced,    \* history: the groups whose failure_group.created went out
          failed,       \* history: <<execution, group>> of calls that failed half-way
          call          \* what each call in flight has read and does next

tables       == <<known, count, resolved, links, primaryLinks, primary>>
history      == <<announced, failed>>
groupingVars == <<tables, history, call>>

\* A slot without a call.
Free == [pc        |-> "free",      \* the call's next statement
         execution |-> NoGroup,
         group     |-> NoGroup,
         isPrimary |-> FALSE,
         isNew     |-> FALSE]

GroupingInit ==
    /\ known = {}
    /\ count = [g \in Groups |-> 0]
    /\ resolved = {}
    /\ links = {}
    /\ primaryLinks = {}
    /\ primary = [e \in Executions |-> NoGroup]
    /\ announced = {}
    /\ failed = {}
    /\ call = [c \in Calls |-> Free]

CallAt(c, pc)   == call[c].pc = pc
CallGoto(c, pc) == call' = [call EXCEPT ![c].pc = pc]
Return(c)   == call' = [call EXCEPT ![c] = Free]
Link(c)     == <<call[c].execution, call[c].group>>

\* Mutant: every classification claims the primary slot.
AlwaysPrimary(c, e, g) ==
    /\ CallAt(c, "free")
    /\ e \in Retried \/ \A d \in Calls : call[d].execution # e
    /\ count[g] < MaxCount
    /\ call' = [call EXCEPT ![c] = [pc        |-> "probe",
                                    execution |-> e,
                                    group     |-> g,
                                    isPrimary |-> TRUE,
                                    isNew     |-> FALSE]]
    /\ UNCHANGED <<tables, history>>

\* A detector fires on e with g's signature: is e's primary slot still open?
ReadPrimary(c, e, g) ==
    /\ CallAt(c, "free")
    /\ e \in Retried \/ \A d \in Calls : call[d].execution # e
    /\ count[g] < MaxCount
    /\ call' = [call EXCEPT ![c] = [pc        |-> "probe",
                                    execution |-> e,
                                    group     |-> g,
                                    isPrimary |-> primary[e] = NoGroup,
                                    isNew     |-> FALSE]]
    /\ UNCHANGED <<tables, history>>

\* Mutant: the link is inserted before the group it refers to.
ProbeThenLink(c) ==
    /\ CallAt(c, "probe")
    /\ call' = [call EXCEPT ![c].pc = "link", ![c].isNew = call[c].group \notin known]
    /\ UNCHANGED <<tables, history>>

\* SELECT 1 FROM failure_groups
ProbeExistence(c) ==
    /\ CallAt(c, "probe")
    /\ call' = [call EXCEPT ![c].pc = "upsert", ![c].isNew = call[c].group \notin known]
    /\ UNCHANGED <<tables, history>>

\* Mutant: a recurrence takes the group's counter from one again.
UpsertResetting(c) ==
    LET g == call[c].group IN
    /\ CallAt(c, "upsert")
    /\ known' = known \union {g}
    /\ count' = [count EXCEPT ![g] = 1]
    /\ resolved' = resolved \ {g}
    /\ CallGoto(c, "link")
    /\ UNCHANGED <<links, primaryLinks, primary, history>>

\* INSERT INTO failure_groups ... ON CONFLICT DO UPDATE: one more execution,
\* counted before the link is there, and a resolved group is open again.
UpsertGroup(c) ==
    LET g == call[c].group IN
    /\ CallAt(c, "upsert")
    /\ known' = known \union {g}
    /\ count' = [count EXCEPT ![g] = @ + 1]
    /\ resolved' = resolved \ {g}
    /\ CallGoto(c, "link")
    /\ UNCHANGED <<links, primaryLinks, primary, history>>

\* Mutant: a link that is already there is counted again.
LinkWithoutUndo(c) ==
    /\ CallAt(c, "link")
    /\ links' = links \union {Link(c)}
    /\ primaryLinks' = IF Link(c) \notin links /\ call[c].isPrimary
                       THEN primaryLinks \union {Link(c)} ELSE primaryLinks
    /\ CallGoto(c, IF call[c].isPrimary THEN "primary" ELSE "announce")
    /\ UNCHANGED <<known, count, resolved, primary, history>>

\* INSERT INTO execution_failure_groups ... ON CONFLICT DO NOTHING
LinkExecution(c) ==
    /\ CallAt(c, "link")
    /\ IF Link(c) \in links
       THEN /\ CallGoto(c, "undo")
            /\ UNCHANGED <<links, primaryLinks>>
       ELSE /\ links' = links \union {Link(c)}
            /\ primaryLinks' = IF call[c].isPrimary
                               THEN primaryLinks \union {Link(c)} ELSE primaryLinks
            /\ CallGoto(c, IF call[c].isPrimary THEN "primary" ELSE "announce")
    /\ UNCHANGED <<known, count, resolved, primary, history>>

\* The link was there: the count is taken back, and the group is not new.
UndoCount(c) ==
    /\ CallAt(c, "undo")
    /\ count' = [count EXCEPT ![call[c].group] = @ - 1]
    /\ Return(c)
    /\ UNCHANGED <<known, resolved, links, primaryLinks, primary, history>>

\* UPDATE executions SET failure_group_id
SetPrimary(c) ==
    /\ CallAt(c, "primary")
    /\ primary' = [primary EXCEPT ![call[c].execution] = call[c].group]
    /\ CallGoto(c, "announce")
    /\ UNCHANGED <<known, count, resolved, links, primaryLinks, history>>

\* Mutant: only an execution's primary group is announced.
AnnouncePrimary(c) ==
    /\ CallAt(c, "announce")
    /\ announced' = IF call[c].isNew /\ call[c].isPrimary
                    THEN announced \union {call[c].group} ELSE announced
    /\ Return(c)
    /\ UNCHANGED <<tables, failed>>

\* The call returns isNew and the handler starts the dispatch: created for a
\* new group, recurred (off unless a webhook asks for it) for the others.
FireForNewGroup(c) ==
    /\ CallAt(c, "announce")
    /\ announced' = IF call[c].isNew
                    THEN announced \union {call[c].group} ELSE announced
    /\ Return(c)
    /\ UNCHANGED <<tables, failed>>

\* A statement fails, the caller goes away, or the process dies: nothing is
\* rolled back, and the handler answers as if the call had not been made.
Fail(c) ==
    /\ ~CallAt(c, "free")
    /\ failed' = IF CallAt(c, "probe") \/ CallAt(c, "upsert")
                 THEN failed ELSE failed \union {Link(c)}
    /\ Return(c)
    /\ UNCHANGED <<tables, announced>>

ResolveFailureGroup(g) ==
    /\ g \in known
    /\ resolved' = resolved \union {g}
    /\ UNCHANGED <<known, count, links, primaryLinks, primary, history, call>>

UnresolveFailureGroup(g) ==
    /\ g \in known
    /\ resolved' = resolved \ {g}
    /\ UNCHANGED <<known, count, links, primaryLinks, primary, history, call>>

groupExecutionInternalPg(c) ==
    \/ \E e \in Executions, g \in Groups : ReadPrimary(c, e, g)
    \/ ProbeExistence(c)
    \/ UpsertGroup(c)
    \/ LinkExecution(c)
    \/ UndoCount(c)
    \/ SetPrimary(c)
    \/ FireForNewGroup(c)
    \/ Fail(c)

GroupingNext ==
    \/ \E c \in Calls : groupExecutionInternalPg(c)
    \/ \E g \in Groups : ResolveFailureGroup(g) \/ UnresolveFailureGroup(g)

GroupingSpec == GroupingInit /\ [][GroupingNext]_groupingVars

-----------------------------------------------------------------------------
(* Properties.                                                             *)

Pcs == {"free", "probe", "upsert", "link", "undo", "primary", "announce"}

CallType == [pc : Pcs,
             execution : Executions \union {NoGroup},
             group : Groups \union {NoGroup},
             isPrimary : BOOLEAN,
             isNew : BOOLEAN]

\* Every variable has its type, and every reference a row.
GroupingTypeOK ==
    /\ known \subseteq Groups
    /\ count \in [Groups -> Nat]
    /\ resolved \subseteq known
    /\ links \subseteq Executions \X known
    /\ primaryLinks \subseteq links
    /\ primary \in [Executions -> known \union {NoGroup}]
    /\ announced \subseteq known
    /\ failed \subseteq Executions \X known
    /\ call \in [Calls -> CallType]

Members(g)     == {e \in Executions : <<e, g>> \in links}
Speculative(g) == {c \in Calls : call[c].group = g /\ call[c].pc \in {"link", "undo"}}
Spoiled(g)     == \E e \in Executions : <<e, g>> \in failed

\* A group never counts fewer executions than it has, whatever fails and however
\* calls interleave: an increment is only taken back by the call that made it.
NeverUndercounts ==
    \A g \in Groups : count[g] >= Cardinality(Members(g)) + Cardinality(Speculative(g))

\* And it counts them exactly, apart from calls in flight, unless a call failed.
CountsExactly ==
    \A g \in Groups : ~Spoiled(g) =>
        count[g] = Cardinality(Members(g)) + Cardinality(Speculative(g))

\* The link marked primary is the first group of an execution and the one its
\* row names, when its calls neither overlap nor fail half-way.
Orderly(e)        == e \notin Retried /\ \A g \in Groups : <<e, g>> \notin failed
SettingPrimary(e) == \E c \in Calls : CallAt(c, "primary") /\ call[c].execution = e

PrimaryIsTheFirst ==
    \A e \in Executions : Orderly(e) /\ ~SettingPrimary(e) =>
        /\ {g \in Groups : <<e, g>> \in primaryLinks} = {primary[e]} \ {NoGroup}
        /\ (\E g \in Groups : <<e, g>> \in links) => primary[e] # NoGroup

\* A group that exists has been announced as new, or a call that found it new is
\* about to, unless a call on it failed.
Announcing(g) ==
    \E c \in Calls :
        /\ call[c].group = g /\ call[c].isNew
        /\ \/ CallAt(c, "link") /\ Link(c) \notin links
           \/ CallAt(c, "primary")
           \/ CallAt(c, "announce")

IsAnnounced(g) == Spoiled(g) \/ g \in announced \/ Announcing(g)

EveryNewGroupIsAnnounced == \A g \in known : IsAnnounced(g)

\* The same for the groups no retried execution has joined: racing executions
\* may each find a group new, or not be the one that does, and still someone
\* announces it.
NewGroupsAreAnnounced ==
    \A g \in known : IsAnnounced(g) \/ \E e \in Retried : <<e, g>> \in links

-----------------------------------------------------------------------------
(* The invariants behind them.                                             *)

\* Holds however calls overlap.
CallIsNamed(c) ==
    /\ IF CallAt(c, "free")
       THEN call[c].execution = NoGroup /\ call[c].group = NoGroup
       ELSE call[c].execution \in Executions /\ call[c].group \in Groups
    /\ CallAt(c, "upsert") => call[c].isNew \/ call[c].group \in known
    /\ call[c].pc \in {"link", "undo", "primary", "announce"} => call[c].group \in known

CountInv ==
    /\ GroupingTypeOK
    /\ \A c \in Calls : CallIsNamed(c)
    /\ NeverUndercounts
    /\ CountsExactly

\* What only calls that do not overlap guarantee.
Alone(c) ==
    \A d \in Calls : call[d].execution = call[c].execution => d = c

CallIsTrue(c) ==
    LET e == call[c].execution IN
    ~CallAt(c, "free") /\ e \notin Retried =>
        /\ Alone(c)
        /\ ~CallAt(c, "announce") => call[c].isPrimary = (primary[e] = NoGroup)
        /\ CallAt(c, "primary") /\ Orderly(e) =>
              /\ Link(c) \in primaryLinks
              /\ \A g \in Groups : <<e, g>> \in links => g = call[c].group

GroupingInv ==
    /\ CountInv
    /\ \A c \in Calls : CallIsTrue(c)
    /\ PrimaryIsTheFirst
    /\ NewGroupsAreAnnounced

=============================================================================

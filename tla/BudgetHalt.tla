------------------------------- MODULE BudgetHalt -------------------------------
(***************************************************************************)
(* The monthly budget ceiling of one tenant and the remote halt it rests    *)
(* on.  In every backend process a scheduler sums what the tenant's         *)
(* executions cost since the first of the month; on crossing the ceiling it *)
(* records the breach, sends an email and a webhook and, when the tenant    *)
(* asked for it, tells every active execution to halt.  An agent hears of   *)
(* it through a stream its SDK opened to one process; the registry of open  *)
(* streams is in that process's memory.  Meanwhile runs pause for a human,  *)
(* their costs are corrected, and retention deletes old ones from the sum. *)
(*                                                                         *)
(* An action is one statement, one message sent, or one step of a handler   *)
(* or thread.  Time is the calendar month.                                  *)
(***************************************************************************)
EXTENDS Integers, Sequences, FiniteSets, Functions

CONSTANTS Processes,    \* backend processes, each with its scheduler
          Projects,     \* the tenant's projects
          Executions,   \* wrapped runs of the tenant's agents
          Ceilings,     \* values of monthly_ceiling_usd
          Budgeted,     \* runs wrapped with a bounded Budget
          Supervised,   \* runs whose code pauses for a human
          Corrected,    \* runs whose cost may come down again
          MaxMonth,     \* bound: the last month
          MaxCost,      \* bound: what one execution costs
          MaxFaults     \* bound: deaths of a process and failed statements

ASSUME ConstantsAssumption ==
    /\ IsFiniteSet(Executions) /\ IsFiniteSet(Projects)
    /\ Budgeted \subseteq Executions /\ {Supervised, Corrected} \subseteq SUBSET Executions
    /\ Ceilings \subseteq Nat \ {0}
    /\ MaxMonth \in Nat \ {0}
    /\ {MaxCost, MaxFaults} \subseteq Nat

VARIABLES month,     \* the calendar month
          row,       \* tenant_budget_ceilings: the tenant's row
          execution, \* the agent's side of each run, and its row
          stream,    \* its halt stream: the SDK's reader and the backend's handler
          tick,      \* what each scheduler is doing, and what it holds
          emails,    \* history: breach emails, by the month of the breach
          hooks,     \* history: breach webhooks, by the month of the breach
          told,      \* history: the budgeted runs someone asked to halt
          crashes, errors  \* history: how many so far

faults == <<crashes, errors>>
vars == <<month, row, execution, stream, tick, emails, hooks, told, faults>>

NULL == 0      \* breached_at IS NULL
Months == 1 .. MaxMonth

IdleTick == [pc |-> "idle"]
NewExecution == [run |-> "none", home |-> NULL, since |-> NULL, row |-> "none", cost |-> 0,
                 remoteHalt |-> FALSE]
NoStream == [pc |-> "none", at |-> NULL, full |-> FALSE]

Init ==
    /\ month = 1
    /\ \E c \in Ceilings, a \in {"warn", "halt"} :
            row = [ceiling |-> c, action |-> a, breachedAt |-> NULL]
    /\ execution = [e \in Executions |-> NewExecution]
    /\ stream = [e \in Executions |-> NoStream]
    /\ tick = [p \in Processes |-> IdleTick]
    /\ emails = [m \in Months |-> 0]
    /\ hooks = [m \in Months |-> 0]
    /\ told = {}
    /\ crashes = 0
    /\ errors = 0

\* A statement succeeds, or fails while the bound allows.
FaultsLeft == MaxFaults - crashes - errors
Outcomes   == IF FaultsLeft > 0 THEN BOOLEAN ELSE {TRUE}
CountError(ok) == errors' = IF ok THEN errors ELSE errors + 1

Running(e) == execution[e].run = "running"

\* As the executions table says: a run that waits for a human is not active, and one
\* that retention has deleted is not on record.
Active(e)   == execution[e].row = "started"
OnRecord(e) == execution[e].row \notin {"none", "gone"}

-----------------------------------------------------------------------------
(* The store.                                                              *)

\* Mutant: an edit of the ceiling forgets the breach.
UpsertAfresh(r, ceiling, action) ==
    [ceiling |-> ceiling, action |-> action, breachedAt |-> NULL]

UpsertTenantBudgetCeiling(r, ceiling, action) ==
    [r EXCEPT !.ceiling = ceiling, !.action = action]

SetTenantCeilingBreached(r, at) == [r EXCEPT !.breachedAt = at]

\* The cost of the executions that started in the month or later.
SumExecutionCostByProjectSince(project, since) ==
    FoldFunctionOnSet(+, 0, [e \in Executions |-> execution[e].cost],
        {e \in Executions : OnRecord(e) /\ execution[e].home = project /\ execution[e].since >= since})

Burn(projects, since) ==
    FoldFunctionOnSet(+, 0, [p \in Projects |-> SumExecutionCostByProjectSince(p, since)], projects)

\* Mutant: the list of active executions leaves out the latest.
ListAllButOne(project) ==
    LET active == {e \in Executions : execution[e].home = project /\ Active(e)}
    IN  IF active = {} THEN {} ELSE active \ {CHOOSE e \in active : TRUE}

ListActiveExecutionsByProject(project) ==
    {e \in Executions : execution[e].home = project /\ Active(e)}

\* Retention: the oldest runs of a project go, whether they have ended or not, and
\* with a window shorter than the month some of this month's are among them.
DeleteExecutionsOlderThan(project) ==
    LET rows == {e \in Executions : OnRecord(e) /\ execution[e].home = project} IN
    /\ \E old \in SUBSET rows \ {{}} :
        /\ \A e \in old, f \in rows : execution[f].since < execution[e].since => f \in old
        /\ execution' = [e \in Executions |->
                            IF e \in old
                            THEN [execution[e] EXCEPT !.row = "gone", !.cost = 0, !.since = NULL]
                            ELSE execution[e]]
    /\ UNCHANGED <<month, row, stream, tick, emails, hooks, told, faults>>

-----------------------------------------------------------------------------
(* The registry of halt streams.                                           *)

\* Mutant: the publisher tells every stream the process holds.
PublishToAll(p, e, reason) ==
    /\ stream' = [x \in Executions |->
                    IF stream[x].pc = "open" /\ stream[x].at = p
                    THEN [stream[x] EXCEPT !.full = TRUE] ELSE stream[x]]
    /\ told' = told \union ({e} \cap Budgeted)

\* A process tells the streams it holds itself; one that has a reason in its
\* buffer already gets no second.
Publish(p, e, reason) ==
    /\ stream' = IF stream[e].pc = "open" /\ stream[e].at = p
                 THEN [stream EXCEPT ![e].full = TRUE] ELSE stream
    /\ told' = told \union ({e} \cap Budgeted)

\* The handler of POST /executions/{id}/halt.
HandleTriggerHalt(p, e) ==
    /\ OnRecord(e)
    /\ stream[e].pc = "open"
    /\ Publish(p, e, "halt requested via API")
    /\ UNCHANGED <<month, row, execution, tick, emails, hooks, faults>>

\* GET /executions/{id}/halt-stream: the row need not exist yet.  A failed look-up
\* is a 500 and the reader gives up; a reader whose run is over by then hangs up on
\* the first line.
HandleHaltStream(p, e) ==
    /\ stream[e].pc = "connecting"
    /\ \E ok \in Outcomes :
        /\ stream' = [stream EXCEPT ![e] =
                        IF ok THEN [pc |-> "open", at |-> p, full |-> FALSE]
                              ELSE [NoStream EXCEPT !.pc = "closed"]]
        /\ CountError(ok)
    /\ UNCHANGED <<month, row, execution, tick, emails, hooks, told, crashes>>

\* The handler takes the reason from its channel, writes the frame and leaves.
SendHaltFrame(e) ==
    /\ stream[e].pc = "open" /\ stream[e].full
    /\ stream' = [stream EXCEPT ![e].pc = "frame"]
    /\ UNCHANGED <<month, row, execution, tick, emails, hooks, told, faults>>

\* The connection ends: the client hung up, or the hour is over.  The handler
\* leaves without looking at its channel again, and the reader does not come back.
EndStream(e) ==
    /\ stream[e].pc = "open"
    /\ stream' = [stream EXCEPT ![e] = [NoStream EXCEPT !.pc = "closed"]]
    /\ UNCHANGED <<month, row, execution, tick, emails, hooks, told, faults>>

-----------------------------------------------------------------------------
(* The SDK: @wrap, the reader thread and the tracker.                       *)

\* Only a run with a bounded Budget opens a stream.
StartExecution(e, project) ==
    /\ execution[e].run = "none"
    /\ execution' = [execution EXCEPT ![e] =
                        [@ EXCEPT !.run = "running", !.home = project, !.since = month]]
    /\ stream' = [stream EXCEPT ![e].pc = IF e \in Budgeted THEN "connecting" ELSE "none"]
    /\ UNCHANGED <<month, row, tick, emails, hooks, told, faults>>

\* The shipper's POST arrives, after the run's start, perhaps after its end.
CreateExecution(e) ==
    /\ execution[e].run # "none" /\ execution[e].row = "none"
    /\ execution' = [execution EXCEPT ![e].row = "started"]
    /\ UNCHANGED <<month, row, stream, tick, emails, hooks, told, faults>>

\* The backend prices the events of the run as they come in, late ones too, and a
\* correction of one may lower the sum; a PATCH brings any cost at all, one below the
\* unit the ceilings are counted in too.
UpdateExecutionCost(e) ==
    /\ OnRecord(e)
    /\ \E cost \in 0 .. MaxCost :
        /\ cost > execution[e].cost \/ e \in Corrected
        /\ execution' = [execution EXCEPT ![e].cost = cost]
    /\ UNCHANGED <<month, row, stream, tick, emails, hooks, told, faults>>

\* pause_for_human: the host stops for a human's answer once the PATCH is through.
PauseExecution(e) ==
    /\ e \in Supervised
    /\ Running(e) /\ Active(e)
    /\ execution' = [execution EXCEPT ![e].row = "awaiting_human"]
    /\ UNCHANGED <<month, row, stream, tick, emails, hooks, told, faults>>

\* resume_for_agent, or the flush of a pause that comes before the end's update.
ResumeExecution(e) ==
    /\ execution[e].row = "awaiting_human"
    /\ execution' = [execution EXCEPT ![e].row = "started"]
    /\ UNCHANGED <<month, row, stream, tick, emails, hooks, told, faults>>

\* The PATCH that ends the run arrives.
UpdateExecution(e) ==
    /\ execution[e].run \in {"ended", "halted"} /\ Active(e)
    /\ execution' = [execution EXCEPT ![e].row = "ended"]
    /\ UNCHANGED <<month, row, stream, tick, emails, hooks, told, faults>>

\* The reader takes the frame; one that was stopped meanwhile drops it.
SignalRemoteHalt(e) ==
    /\ stream[e].pc = "frame"
    /\ execution' = [execution EXCEPT ![e].remoteHalt = Running(e)]
    /\ stream' = [stream EXCEPT ![e] = [NoStream EXCEPT !.pc = "closed"]]
    /\ UNCHANGED <<month, row, tick, emails, hooks, told, faults>>

\* A checkpoint of a run that was told to halt raises MesediHalt; @wrap catches
\* it and stops the reader.
CheckOrHalt(e) ==
    /\ Running(e) /\ execution[e].remoteHalt
    /\ execution' = [execution EXCEPT ![e].run = "halted", ![e].remoteHalt = FALSE]
    /\ UNCHANGED <<month, row, stream, tick, emails, hooks, told, faults>>

\* The wrapped function returns, raises or runs into its own budget, or the
\* agent's process dies: then the PATCH never arrives.
EndRun(e) ==
    /\ Running(e)
    /\ execution' = [execution EXCEPT ![e].run = "ended", ![e].remoteHalt = FALSE]
    /\ UNCHANGED <<month, row, stream, tick, emails, hooks, told, faults>>

-----------------------------------------------------------------------------
(* The scheduler: tick, evaluate, fireBreachNotifications and               *)
(* haltAllTenantExecutions.                                                 *)

At(p, pc) == tick[p].pc = pc

\* Mutant: the notices go out before the breach is on record.
NotifyFirst == <<"email", "webhook", "persist", "fanout">>

\* What a breach sets off, in this order.
BreachSteps == <<"persist", "email", "webhook", "fanout">>

\* The step after one of them: the fan-out is for those who asked for it.
After(t, pc) ==
    LET next == BreachSteps[1 + CHOOSE i \in 1 .. 3 : BreachSteps[i] = pc]
    IN  IF next = "fanout" /\ t.snap.action # "halt" THEN IdleTick ELSE [t EXCEPT !.pc = next]

\* Mutant: breached_at is never cleared.
NeverStale(breachedAt, now) == FALSE

Stale(breachedAt, now) == breachedAt # NULL /\ breachedAt < now

\* The tick holds the row from here on.
ListTenantBudgetCeilings(p) ==
    /\ At(p, "idle")
    /\ \E ok \in Outcomes :
        /\ tick' = IF ok THEN [tick EXCEPT ![p] = [pc |-> "rollover", snap |-> row]] ELSE tick
        /\ CountError(ok)
    /\ UNCHANGED <<month, row, execution, stream, emails, hooks, told, crashes>>

\* The month is read; a breach of an earlier one is cleared.  When that fails the
\* tick still believes in the breach.
Rollover(p) ==
    LET t     == tick[p]
        stale == Stale(t.snap.breachedAt, month)
    IN  /\ At(p, "rollover")
        /\ \E ok \in IF stale THEN Outcomes ELSE {TRUE} :
            /\ row' = IF stale /\ ok THEN SetTenantCeilingBreached(row, NULL) ELSE row
            /\ tick' = [tick EXCEPT ![p] =
                    [pc |-> "sum", now |-> month,
                     snap |-> IF stale /\ ok THEN SetTenantCeilingBreached(t.snap, NULL) ELSE t.snap]]
            /\ CountError(ok)
        /\ UNCHANGED <<month, execution, stream, emails, hooks, told, crashes>>

\* The projects' costs are added up, without those whose query fails; below the
\* ceiling, or with a breach on record, that is all.
Evaluate(p) ==
    LET t == tick[p] IN
    /\ At(p, "sum")
    /\ \E failed \in SUBSET Projects :
        /\ Cardinality(failed) <= FaultsLeft
        /\ errors' = errors + Cardinality(failed)
        /\ tick' = [tick EXCEPT ![p] =
                IF \/ Burn(Projects \ failed, t.now) < t.snap.ceiling
                   \/ t.snap.breachedAt # NULL
                THEN IdleTick
                ELSE [pc |-> BreachSteps[1], now |-> t.now, snap |-> t.snap, left |-> Projects,
                      targets |-> {}]]
    /\ UNCHANGED <<month, row, execution, stream, emails, hooks, told, crashes>>

\* Recording the breach; a failure is logged and the notices go out all the same.
PersistBreach(p) ==
    /\ At(p, "persist")
    /\ \E ok \in Outcomes :
        /\ row' = IF ok THEN SetTenantCeilingBreached(row, tick[p].now) ELSE row
        /\ CountError(ok)
    /\ tick' = [tick EXCEPT ![p] = After(@, "persist")]
    /\ UNCHANGED <<month, execution, stream, emails, hooks, told, crashes>>

\* The email is tried once.
SendBudgetCeilingBreach(p) ==
    /\ At(p, "email")
    /\ emails' = [emails EXCEPT ![tick[p].now] = @ + 1]
    /\ tick' = [tick EXCEPT ![p] = After(@, "email")]
    /\ UNCHANGED <<month, row, execution, stream, hooks, told, faults>>

\* So is the webhook.
PostBreachWebhook(p) ==
    /\ At(p, "webhook")
    /\ hooks' = [hooks EXCEPT ![tick[p].now] = @ + 1]
    /\ tick' = [tick EXCEPT ![p] = After(@, "webhook")]
    /\ UNCHANGED <<month, row, execution, stream, emails, told, faults>>

\* The next project's active executions; a project whose query fails is left out.
ListActive(p) ==
    /\ At(p, "fanout") /\ tick[p].targets = {}
    /\ IF tick[p].left = {}
       THEN /\ tick' = [tick EXCEPT ![p] = IdleTick]
            /\ UNCHANGED errors
       ELSE LET project == CHOOSE x \in tick[p].left : TRUE IN
            \E ok \in Outcomes :
              /\ tick' = [tick EXCEPT ![p].left = @ \ {project},
                            ![p].targets = IF ok THEN ListActiveExecutionsByProject(project) ELSE {}]
              /\ CountError(ok)
    /\ UNCHANGED <<month, row, execution, stream, emails, hooks, told, crashes>>

TriggerHalt(p) ==
    /\ At(p, "fanout") /\ tick[p].targets # {}
    /\ LET e == CHOOSE x \in tick[p].targets : TRUE
       IN  /\ Publish(p, e, "tenant_budget_ceiling_breached")
           /\ tick' = [tick EXCEPT ![p].targets = @ \ {e}]
    /\ UNCHANGED <<month, row, execution, emails, hooks, faults>>

-----------------------------------------------------------------------------

\* PUT /me/budget-ceiling.
HandleUpsertBudgetCeiling(ceiling, action) ==
    /\ row' = UpsertTenantBudgetCeiling(row, ceiling, action)
    /\ row' # row
    /\ UNCHANGED <<month, execution, stream, tick, emails, hooks, told, faults>>

\* A process dies and starts again: its tick and its registry are gone, and the
\* readers it served give up.
Crash(p) ==
    /\ FaultsLeft > 0
    /\ tick' = [tick EXCEPT ![p] = IdleTick]
    /\ stream' = [e \in Executions |->
                    IF stream[e].pc = "open" /\ stream[e].at = p
                    THEN [NoStream EXCEPT !.pc = "closed"] ELSE stream[e]]
    /\ crashes' = crashes + 1
    /\ UNCHANGED <<month, row, execution, emails, hooks, told, errors>>

NextMonth ==
    /\ month < MaxMonth
    /\ month' = month + 1
    /\ UNCHANGED <<row, execution, stream, tick, emails, hooks, told, faults>>

Tick(p) ==
    \/ ListTenantBudgetCeilings(p)
    \/ Rollover(p)
    \/ Evaluate(p)
    \/ PersistBreach(p)
    \/ SendBudgetCeilingBreach(p)
    \/ PostBreachWebhook(p)
    \/ ListActive(p)
    \/ TriggerHalt(p)

Agent(e) ==
    \/ \E project \in Projects : StartExecution(e, project)
    \/ CreateExecution(e)
    \/ UpdateExecutionCost(e)
    \/ PauseExecution(e)
    \/ ResumeExecution(e)
    \/ UpdateExecution(e)
    \/ SignalRemoteHalt(e)
    \/ CheckOrHalt(e)
    \/ EndRun(e)

Streams(e) ==
    \/ \E p \in Processes : HandleHaltStream(p, e) \/ HandleTriggerHalt(p, e)
    \/ SendHaltFrame(e)
    \/ EndStream(e)

Next ==
    \/ \E p \in Processes : Tick(p) \/ Crash(p)
    \/ \E e \in Executions : Agent(e) \/ Streams(e)
    \/ \E c \in Ceilings, a \in {"warn", "halt"} : HandleUpsertBudgetCeiling(c, a)
    \/ \E project \in Projects : DeleteExecutionsOlderThan(project)
    \/ NextMonth

Spec == Init /\ [][Next]_vars

\* The ticker fires again and again and a tick runs to its end; the handler of a
\* stream, its reader and the agent's checkpoints go on.  A run that waits for a
\* human may never come to its next checkpoint.
Fairness ==
    /\ \A p \in Processes : WF_vars(Tick(p))
    /\ \A e \in Budgeted :
            WF_vars(\/ SendHaltFrame(e)
                    \/ SignalRemoteHalt(e)
                    \/ CheckOrHalt(e) /\ execution[e].row # "awaiting_human")

FairSpec == Spec /\ Fairness

-----------------------------------------------------------------------------
(* Properties.                                                             *)

RowType  == [ceiling : Ceilings, action : {"warn", "halt"}, breachedAt : {NULL} \union Months]
TickType ==
    [pc : {"idle"}] \union [pc : {"rollover"}, snap : RowType]
    \union [pc : {"sum"}, now : Months, snap : RowType]
    \union [pc : Range(BreachSteps), now : Months, snap : RowType, left : SUBSET Projects,
            targets : SUBSET Executions]

\* The rows and what the processes and the agents hold are of their types.
TypeOK ==
    /\ month \in Months
    /\ row \in RowType
    /\ execution \in [Executions ->
            [run : {"none", "running", "ended", "halted"}, home : {NULL} \union Projects,
             since : {NULL} \union Months,
             row : {"none", "started", "awaiting_human", "ended", "gone"}, cost : 0 .. MaxCost,
             remoteHalt : BOOLEAN]]
    /\ stream \in [Executions -> [pc : {"none", "connecting", "open", "frame", "closed"},
                                  at : {NULL} \union Processes, full : BOOLEAN]]
    /\ tick \in [Processes -> TickType]
    /\ emails \in [Months -> Nat] /\ hooks \in [Months -> Nat]
    /\ told \subseteq Executions
    /\ crashes \in Nat /\ errors \in Nat

\* With one scheduler a month brings at most one breach email and one webhook,
\* however often the process dies in the middle, the ceiling is edited or the
\* month turns; only a breach that could not be recorded is announced again.
OneNoticePerMonth ==
    \A m \in Months : emails[m] <= 1 + errors /\ hooks[m] <= 1 + errors

\* A run stops on a remote halt only when someone asked for that very run to
\* halt: an operator, or a breach whose tenant had chosen to halt.
HaltHasACause ==
    \A e \in Executions :
        execution[e].run = "halted" \/ execution[e].remoteHalt \/ stream[e].full => e \in told

\* A burn of the month that has reached every ceiling the tenant sets is announced as
\* a breach of that month, unless it falls below one again, as at the turn of the
\* month, or a process dies: an earlier month's breach does not silence it, and a
\* failed statement only puts it off to the next tick.  A burn that a deletion or a
\* correction takes back between two ticks may never be heard of.
OverBudget == \A c \in Ceilings : Burn(Projects, month) >= c

BreachIsAnnounced == OverBudget ~> (emails[month] > 0 \/ ~OverBudget \/ crashes > 0)

\* When the fan-out begins, an active run whose stream is open at that process
\* stops or loses its stream, unless a statement fails.  A run that has paused or is
\* deleted before the process lists it is never told, and goes on after its resume;
\* one that has been told while it waits stops when it comes to a checkpoint.
Listed(e) == \E p \in Processes : At(p, "fanout") /\ e \in tick[p].targets
Missed(e) == stream[e].pc = "open" /\ ~stream[e].full /\ ~Active(e) /\ ~Listed(e)
Waits(e)  == execution[e].remoteHalt /\ execution[e].row = "awaiting_human"

FanOutHalts ==
    \A p \in Processes, e \in Budgeted :
        (/\ At(p, "fanout") /\ tick[p].left = Projects
         /\ Active(e) /\ Running(e) /\ stream[e].pc = "open" /\ stream[e].at = p)
            ~> (\/ ~Running(e) \/ (stream[e].pc = "closed" /\ ~execution[e].remoteHalt)
                \/ Missed(e) \/ Waits(e) \/ errors > 0)

\* One email and one webhook for every breach on record.
BreachIsNotified ==
    \A m \in Months :
        row.breachedAt = m /\ (\A p \in Processes : At(p, "idle")) => emails[m] = 1 /\ hooks[m] = 1
=============================================================================

---------------------------- MODULE BudgetHaltProofs ----------------------------
(***************************************************************************)
(* Whatever the number of projects, executions and months and however many  *)
(* statements fail: nobody halts uncalled for, and one scheduler announces  *)
(* a breach once a month, and once more for each statement that fails.      *)
(***************************************************************************)
EXTENDS BudgetHalt, FiniteSetTheorems, TLAPS

-----------------------------------------------------------------------------
(* The invariants.                                                         *)

\* A reason on its way to the agent has been in the handler's buffer.
FrameWasFull == \A e \in Executions : stream[e].pc = "frame" => stream[e].full

\* Only a run with a budget has a stream.
StreamsAreBudgeted == \A e \in Executions : stream[e].pc # "none" => e \in Budgeted

HaltInv == TypeOK /\ HaltHasACause /\ FrameWasFull /\ StreamsAreBudgeted

\* A tick of the only scheduler holds the breach that is on record, until it finds
\* none and begins to announce one.
KnowsTheBreach ==
    /\ row.breachedAt <= month
    /\ \A p \in Processes :
        /\ tick[p].pc \in {"rollover", "sum"} => tick[p].snap.breachedAt = row.breachedAt
        /\ tick[p].pc \in {"sum", "persist"} => tick[p].now <= month
        /\ At(p, "persist") => row.breachedAt = NULL

\* Of a month that has no breach on record, or one that is not over, there have been
\* no more notices than failures; a tick that is to send one (it is at a step of
\* "before") has recorded the breach or has failed to once more.
Spares(notices, before) ==
    /\ \A m \in Months : notices[m] <= 1 + errors
    /\ \A m \in Months : m >= month /\ row.breachedAt # m => notices[m] <= errors
    /\ \A p \in Processes :
        /\ At(p, "sum") /\ tick[p].snap.breachedAt = NULL => notices[tick[p].now] <= errors
        /\ At(p, "persist") => notices[tick[p].now] <= errors
        /\ tick[p].pc \in before =>
              /\ notices[tick[p].now] <= errors
              /\ row.breachedAt = tick[p].now \/ notices[tick[p].now] < errors

NoticeInv ==
    TypeOK /\ KnowsTheBreach /\ Spares(emails, {"email"}) /\ Spares(hooks, {"email", "webhook"})

-----------------------------------------------------------------------------
(* The operators.                                                          *)

LEMMA StepsOfABreach == Range(BreachSteps) = {"persist", "email", "webhook", "fanout"}
  BY DEF Range, BreachSteps

\* The step after each step.
LEMMA AfterEach ==
  ASSUME NEW t
  PROVE  /\ After(t, "persist") = [t EXCEPT !.pc = "email"]
         /\ After(t, "email") = [t EXCEPT !.pc = "webhook"]
         /\ After(t, "webhook") \in {IdleTick, [t EXCEPT !.pc = "fanout"]}
  <1>1. (CHOOSE i \in 1 .. 3 : BreachSteps[i] = "persist") = 1
    BY DEF BreachSteps
  <1>2. (CHOOSE i \in 1 .. 3 : BreachSteps[i] = "email") = 2
    BY DEF BreachSteps
  <1>3. (CHOOSE i \in 1 .. 3 : BreachSteps[i] = "webhook") = 3
    BY DEF BreachSteps
  <1>4. BreachSteps[1 + 1] = "email" /\ BreachSteps[1 + 2] = "webhook" /\ BreachSteps[1 + 3] = "fanout"
    BY DEF BreachSteps
  <1>5. After(t, "persist") = [t EXCEPT !.pc = "email"]
    <2>1. BreachSteps[1 + CHOOSE i \in 1 .. 3 : BreachSteps[i] = "persist"] = "email"
      BY <1>1, <1>4
    <2> QED
      BY <2>1 DEF After
  <1>6. After(t, "email") = [t EXCEPT !.pc = "webhook"]
    <2>1. BreachSteps[1 + CHOOSE i \in 1 .. 3 : BreachSteps[i] = "email"] = "webhook"
      BY <1>2, <1>4
    <2> QED
      BY <2>1 DEF After
  <1>7. After(t, "webhook") \in {IdleTick, [t EXCEPT !.pc = "fanout"]}
    <2>1. BreachSteps[1 + CHOOSE i \in 1 .. 3 : BreachSteps[i] = "webhook"] = "fanout"
      BY <1>3, <1>4
    <2> QED
      BY <2>1 DEF After
  <1> QED
    BY <1>5, <1>6, <1>7

\* The row with another breach, or none.
LEMMA Breached ==
  ASSUME NEW r \in RowType, NEW at \in {NULL} \union Months
  PROVE  SetTenantCeilingBreached(r, at) \in RowType /\ SetTenantCeilingBreached(r, at).breachedAt = at
  BY DEF SetTenantCeilingBreached, RowType

\* A statement's outcome and the number of failures.
LEMMA Counted ==
  ASSUME errors \in Nat, NEW ok \in Outcomes, CountError(ok)
  PROVE  errors' \in Nat /\ errors' >= errors /\ (~ok => errors' = errors + 1)
  <1>1. CASE ok
    BY <1>1 DEF CountError
  <1>2. CASE ~ok
    BY <1>2 DEF CountError
  <1> QED
    BY <1>1, <1>2

LEMMA MayFail == TRUE \in Outcomes /\ Outcomes \subseteq BOOLEAN
  BY DEF Outcomes

-----------------------------------------------------------------------------
(* Types.                                                                  *)

StreamType == [pc : {"none", "connecting", "open", "frame", "closed"},
               at : {NULL} \union Processes, full : BOOLEAN]
ExecutionType ==
    [run : {"none", "running", "ended", "halted"}, home : {NULL} \union Projects,
     since : {NULL} \union Months,
     row : {"none", "started", "awaiting_human", "ended", "gone"}, cost : 0 .. MaxCost,
     remoteHalt : BOOLEAN]

LEMMA Closed == [NoStream EXCEPT !.pc = "closed"] \in StreamType
  BY DEF NoStream, StreamType

LEMMA InitTypes == Init => TypeOK
  <1> SUFFICES ASSUME Init PROVE TypeOK
    OBVIOUS
  <1>1. 1 \in Months /\ MaxCost \in Nat
    BY ConstantsAssumption DEF Months
  <1>2. row \in RowType /\ month \in Months
    BY <1>1 DEF Init, RowType
  <1>3. NewExecution \in ExecutionType /\ NoStream \in StreamType /\ IdleTick \in TickType
    BY <1>1 DEF NewExecution, ExecutionType, NoStream, StreamType, IdleTick, TickType
  <1>4. /\ execution \in [Executions -> ExecutionType] /\ stream \in [Executions -> StreamType]
        /\ tick \in [Processes -> TickType]
    BY <1>3 DEF Init
  <1>5. emails \in [Months -> Nat] /\ hooks \in [Months -> Nat]
    BY DEF Init
  <1> QED
    BY <1>1, <1>2, <1>4, <1>5 DEF Init, TypeOK, ExecutionType, StreamType

\* What the steps of a tick do to the tick and the row.
LEMMA TickTypes ==
  ASSUME TypeOK, NEW p \in Processes, Tick(p)
  PROVE  TypeOK'
  <1>0. /\ month \in Months /\ row \in RowType /\ tick \in [Processes -> TickType]
        /\ tick[p] \in TickType
        /\ errors \in Nat /\ emails \in [Months -> Nat] /\ hooks \in [Months -> Nat]
        /\ execution \in [Executions -> ExecutionType] /\ stream \in [Executions -> StreamType]
    BY DEF TypeOK, ExecutionType, StreamType
  <1>1. CASE ListTenantBudgetCeilings(p)
    <2>1. [pc |-> "rollover", snap |-> row] \in TickType
      BY <1>0 DEF TickType
    <2>2. tick' \in [Processes -> TickType] /\ errors' \in Nat
      BY <1>0, <1>1, <2>1, Counted DEF ListTenantBudgetCeilings
    <2> QED
      BY <1>1, <2>2 DEF ListTenantBudgetCeilings, TypeOK
  <1>2. CASE Rollover(p)
    <2> DEFINE t == tick[p]
               stale == Stale(t.snap.breachedAt, month)
    <2>1. t.snap \in RowType
      BY <1>0, <1>2, StepsOfABreach DEF Rollover, At, TickType
    <2>2. PICK ok \in IF stale THEN Outcomes ELSE {TRUE} :
            /\ row' = IF stale /\ ok THEN SetTenantCeilingBreached(row, NULL) ELSE row
            /\ tick' = [tick EXCEPT ![p] =
                    [pc |-> "sum", now |-> month,
                     snap |-> IF stale /\ ok THEN SetTenantCeilingBreached(t.snap, NULL) ELSE t.snap]]
            /\ CountError(ok)
      BY <1>2 DEF Rollover
    <2>3. ok \in Outcomes
      BY <2>2, MayFail
    <2>4. row' \in RowType
      BY <1>0, <2>2, Breached
    <2>5. (IF stale /\ ok THEN SetTenantCeilingBreached(t.snap, NULL) ELSE t.snap) \in RowType
      BY <2>1, Breached
    <2>6. tick' \in [Processes -> TickType]
      <3> DEFINE s == IF stale /\ ok THEN SetTenantCeilingBreached(t.snap, NULL) ELSE t.snap
      <3> HIDE DEF s
      <3>1. [pc |-> "sum", now |-> month, snap |-> s] \in TickType
        BY <1>0, <2>5 DEF s, TickType
      <3> QED
        BY <1>0, <2>2, <3>1 DEF s
    <2>7. errors' \in Nat
      BY <1>0, <2>2, <2>3, Counted
    <2> QED
      BY <1>2, <2>4, <2>6, <2>7 DEF Rollover, TypeOK
  <1>3. CASE Evaluate(p)
    <2>1. tick[p].snap \in RowType /\ tick[p].now \in Months
      BY <1>0, <1>3, StepsOfABreach DEF Evaluate, At, TickType
    <2>2. PICK failed \in SUBSET Projects :
            errors' = errors + Cardinality(failed)
      BY <1>3 DEF Evaluate
    <2>3. Cardinality(failed) \in Nat
      BY FS_Subset, FS_CardinalityType, ConstantsAssumption
    <2>4. errors' \in Nat
      BY <1>0, <2>2, <2>3, ConstantsAssumption
    <2>5. [pc |-> BreachSteps[1], now |-> tick[p].now, snap |-> tick[p].snap, left |-> Projects,
           targets |-> {}] \in TickType
      BY <2>1, StepsOfABreach DEF TickType, BreachSteps
    <2>6. IdleTick \in TickType
      BY DEF IdleTick, TickType
    <2>7. tick' \in [Processes -> TickType]
      BY <1>0, <1>3, <2>5, <2>6 DEF Evaluate
    <2> QED
      BY <1>3, <2>4, <2>7 DEF Evaluate, TypeOK
  <1>4. CASE PersistBreach(p) \/ SendBudgetCeilingBreach(p) \/ PostBreachWebhook(p)
    <2>1. tick[p].pc \in {"persist", "email", "webhook"} /\ tick[p].now \in Months
      BY <1>0, <1>4, StepsOfABreach
         DEF PersistBreach, SendBudgetCeilingBreach, PostBreachWebhook, At, TickType
    <2>2. \A pc \in Range(BreachSteps) : [tick[p] EXCEPT !.pc = pc] \in TickType
      BY <1>0, <2>1, StepsOfABreach DEF TickType
    <2>3. IdleTick \in TickType
      BY DEF IdleTick, TickType
    <2>4. After(tick[p], tick[p].pc) \in TickType
      <3>1. /\ After(tick[p], "persist") \in TickType
            /\ After(tick[p], "email") \in TickType
            /\ After(tick[p], "webhook") \in TickType
        BY <2>2, <2>3, StepsOfABreach, AfterEach
      <3> QED
        BY <2>1, <3>1
    <2>5. tick' \in [Processes -> TickType]
      <3>1. tick' = [tick EXCEPT ![p] = After(tick[p], tick[p].pc)]
        BY <1>4 DEF PersistBreach, SendBudgetCeilingBreach, PostBreachWebhook, At
      <3> QED
        BY <1>0, <2>4, <3>1
    <2>6. row' \in RowType /\ errors' \in Nat
      <3>1. ASSUME PersistBreach(p) PROVE row' \in RowType /\ errors' \in Nat
        BY <1>0, <2>1, <3>1, Breached, Counted DEF PersistBreach
      <3> QED
        BY <1>0, <1>4, <3>1 DEF SendBudgetCeilingBreach, PostBreachWebhook, faults
    <2>7. emails' \in [Months -> Nat] /\ hooks' \in [Months -> Nat]
      BY <1>0, <1>4, <2>1 DEF PersistBreach, SendBudgetCeilingBreach, PostBreachWebhook
    <2> QED
      BY <1>4, <2>5, <2>6, <2>7
         DEF PersistBreach, SendBudgetCeilingBreach, PostBreachWebhook, TypeOK, faults
  <1>5. CASE ListActive(p)
    <2>1. /\ tick[p].left \in SUBSET Projects
          /\ \A l \in SUBSET Projects, ts \in SUBSET Executions :
                [tick[p] EXCEPT !.left = l, !.targets = ts] \in TickType
      BY <1>0, <1>5, StepsOfABreach DEF ListActive, At, TickType
    <2>2. IdleTick \in TickType
      BY DEF IdleTick, TickType
    <2>3. \A x : ListActiveExecutionsByProject(x) \in SUBSET Executions
      BY DEF ListActiveExecutionsByProject
    <2>4. CASE tick[p].left = {}
      BY <1>0, <1>5, <2>2, <2>4 DEF ListActive, TypeOK
    <2>5. CASE tick[p].left # {}
      <3> DEFINE project == CHOOSE x \in tick[p].left : TRUE
      <3>1. PICK ok \in Outcomes :
              /\ tick' = [tick EXCEPT ![p].left = @ \ {project},
                            ![p].targets = IF ok THEN ListActiveExecutionsByProject(project) ELSE {}]
              /\ CountError(ok)
        BY <1>5, <2>5 DEF ListActive
      <3> DEFINE l  == tick[p].left \ {project}
                 ts == IF ok THEN ListActiveExecutionsByProject(project) ELSE {}
      <3>2. l \in SUBSET Projects /\ ts \in SUBSET Executions
        BY <2>1, <2>3
      <3> HIDE DEF project
      <3>3. tick' = [tick EXCEPT ![p] = [tick[p] EXCEPT !.left = l, !.targets = ts]]
        BY <1>0, <3>1
      <3> HIDE DEF l, ts
      <3>4. tick' \in [Processes -> TickType]
        BY <1>0, <2>1, <3>2, <3>3
      <3>5. errors' \in Nat
        BY <1>0, <3>1, Counted
      <3> QED
        BY <1>5, <3>4, <3>5 DEF ListActive, TypeOK
    <2> QED
      BY <2>4, <2>5
  <1>6. CASE TriggerHalt(p)
    <2> DEFINE e == CHOOSE x \in tick[p].targets : TRUE
    <2>1. /\ tick[p].targets \in SUBSET Executions
          /\ \A ts \in SUBSET Executions : [tick[p] EXCEPT !.targets = ts] \in TickType
      BY <1>0, <1>6, StepsOfABreach DEF TriggerHalt, At, TickType
    <2>2. e \in Executions
      BY <1>6, <2>1 DEF TriggerHalt
    <2>3. /\ Publish(p, e, "tenant_budget_ceiling_breached")
          /\ tick' = [tick EXCEPT ![p].targets = @ \ {e}]
      BY <1>6 DEF TriggerHalt
    <2> HIDE DEF e
    <2>4. tick' \in [Processes -> TickType]
      BY <1>0, <2>1, <2>3
    <2>5. stream' \in [Executions -> StreamType] /\ told' \subseteq Executions
      BY <1>0, <2>2, <2>3 DEF Publish, StreamType, TypeOK
    <2> QED
      BY <1>6, <2>4, <2>5 DEF TriggerHalt, TypeOK, StreamType, faults
  <1> QED
    BY <1>1, <1>2, <1>3, <1>4, <1>5, <1>6 DEF Tick

LEMMA AgentTypes ==
  ASSUME TypeOK, NEW e \in Executions, Agent(e) \/ Streams(e)
  PROVE  TypeOK'
  <1>0. /\ month \in Months /\ errors \in Nat
        /\ execution \in [Executions -> ExecutionType] /\ stream \in [Executions -> StreamType]
        /\ execution[e] \in ExecutionType /\ stream[e] \in StreamType
    BY DEF TypeOK, ExecutionType, StreamType
  <1>1. ASSUME execution' \in [Executions -> ExecutionType], stream' \in [Executions -> StreamType],
               UNCHANGED <<month, row, tick, emails, hooks, told, faults>>
        PROVE  TypeOK'
    BY <1>1 DEF TypeOK, ExecutionType, StreamType, faults
  <1>2. ASSUME NEW project \in Projects, StartExecution(e, project) PROVE TypeOK'
    <2>1. execution' \in [Executions -> ExecutionType]
      BY <1>0, <1>2 DEF StartExecution, ExecutionType
    <2>2. stream' \in [Executions -> StreamType]
      BY <1>0, <1>2 DEF StartExecution, StreamType
    <2> QED
      BY <1>1, <1>2, <2>1, <2>2 DEF StartExecution
  <1>3. CASE \/ CreateExecution(e) \/ PauseExecution(e) \/ ResumeExecution(e)
            \/ UpdateExecution(e) \/ CheckOrHalt(e) \/ EndRun(e)
    <2>1. execution' \in [Executions -> ExecutionType]
      BY <1>0, <1>3 DEF CreateExecution, PauseExecution, ResumeExecution, UpdateExecution,
                        CheckOrHalt, EndRun, ExecutionType
    <2> QED
      BY <1>0, <1>1, <1>3, <2>1 DEF CreateExecution, PauseExecution, ResumeExecution,
                                    UpdateExecution, CheckOrHalt, EndRun
  <1>4. CASE UpdateExecutionCost(e)
    <2>1. execution' \in [Executions -> ExecutionType]
      BY <1>0, <1>4 DEF UpdateExecutionCost, ExecutionType
    <2> QED
      BY <1>0, <1>1, <1>4, <2>1 DEF UpdateExecutionCost
  <1>5. CASE SignalRemoteHalt(e)
    <2>1. execution' \in [Executions -> ExecutionType]
      BY <1>0, <1>5 DEF SignalRemoteHalt, ExecutionType, Running
    <2>2. stream' \in [Executions -> StreamType]
      BY <1>0, <1>5 DEF SignalRemoteHalt, StreamType, NoStream
    <2> QED
      BY <1>1, <1>5, <2>1, <2>2 DEF SignalRemoteHalt
  <1>6. CASE SendHaltFrame(e) \/ EndStream(e)
    <2>1. stream' \in [Executions -> StreamType]
      <3>1. SendHaltFrame(e) => stream' \in [Executions -> StreamType]
        BY <1>0 DEF SendHaltFrame, StreamType
      <3>2. EndStream(e) => stream' \in [Executions -> StreamType]
        BY <1>0, Closed DEF EndStream
      <3> QED
        BY <1>6, <3>1, <3>2
    <2> QED
      BY <1>0, <1>1, <1>6, <2>1 DEF SendHaltFrame, EndStream
  <1>7. ASSUME NEW p \in Processes, HandleHaltStream(p, e) PROVE TypeOK'
    <2>1. [pc |-> "open", at |-> p, full |-> FALSE] \in StreamType
      BY DEF StreamType
    <2>3. stream' \in [Executions -> StreamType]
      BY <1>0, <1>7, <2>1, Closed DEF HandleHaltStream
    <2>2. errors' \in Nat
      BY <1>0, <1>7, Counted DEF HandleHaltStream
    <2> QED
      BY <1>7, <2>2, <2>3 DEF HandleHaltStream, TypeOK, StreamType
  <1>8. ASSUME NEW p \in Processes, HandleTriggerHalt(p, e) PROVE TypeOK'
    <2>1. stream' \in [Executions -> StreamType] /\ told' \subseteq Executions
      BY <1>0, <1>8 DEF HandleTriggerHalt, Publish, StreamType, TypeOK
    <2> QED
      BY <1>8, <2>1 DEF HandleTriggerHalt, TypeOK, StreamType, faults
  <1> QED
    BY <1>2, <1>3, <1>4, <1>5, <1>6, <1>7, <1>8 DEF Agent, Streams

LEMMA NextTypes == TypeOK /\ [Next]_vars => TypeOK'
  <1> SUFFICES ASSUME TypeOK, [Next]_vars PROVE TypeOK'
    OBVIOUS
  <1>1. ASSUME NEW p \in Processes, Crash(p) PROVE TypeOK'
    <2>1. tick' \in [Processes -> TickType] /\ crashes' \in Nat
      BY <1>1 DEF Crash, TypeOK, IdleTick, TickType
    <2>2. stream' \in [Executions -> StreamType]
      BY <1>1 DEF Crash, TypeOK, StreamType, NoStream
    <2> QED
      BY <1>1, <2>1, <2>2 DEF Crash, TypeOK, StreamType
  <1>2. ASSUME NEW c \in Ceilings, NEW a \in {"warn", "halt"}, HandleUpsertBudgetCeiling(c, a)
        PROVE  TypeOK'
    <2>1. row \in RowType
      BY DEF TypeOK
    <2>2. row' \in RowType
      BY <1>2, <2>1 DEF HandleUpsertBudgetCeiling, UpsertTenantBudgetCeiling, RowType
    <2> QED
      BY <1>2, <2>2 DEF HandleUpsertBudgetCeiling, TypeOK, faults
  <1>3. CASE NextMonth
    <2>1. month' \in Months
      BY <1>3, ConstantsAssumption DEF NextMonth, TypeOK, Months
    <2> QED
      BY <1>3, <2>1 DEF NextMonth, TypeOK, faults
  <1>4. ASSUME NEW project \in Projects, DeleteExecutionsOlderThan(project) PROVE TypeOK'
    <2>1. execution' \in [Executions -> ExecutionType]
      <3>1. execution \in [Executions -> ExecutionType] /\ 0 \in 0 .. MaxCost
        BY ConstantsAssumption DEF TypeOK, ExecutionType
      <3>2. PICK old : execution' = [e \in Executions |->
                            IF e \in old
                            THEN [execution[e] EXCEPT !.row = "gone", !.cost = 0, !.since = NULL]
                            ELSE execution[e]]
        BY <1>4 DEF DeleteExecutionsOlderThan
      <3>3. \A e \in Executions :
              [execution[e] EXCEPT !.row = "gone", !.cost = 0, !.since = NULL] \in ExecutionType
        BY <3>1 DEF ExecutionType
      <3> QED
        BY <3>1, <3>2, <3>3
    <2> QED
      BY <1>4, <2>1 DEF DeleteExecutionsOlderThan, TypeOK, ExecutionType, faults
  <1>5. CASE UNCHANGED vars
    BY <1>5 DEF vars, faults, TypeOK
  <1> QED
    BY <1>1, <1>2, <1>3, <1>4, <1>5, TickTypes, AgentTypes DEF Next

\* The rows, the ticks and the streams keep their types.
THEOREM BudgetTypes == Spec => []TypeOK
  <1> QED
    BY InitTypes, NextTypes, PTL DEF Spec

-----------------------------------------------------------------------------
(* A halt has a cause.                                                     *)

\* Whoever publishes has been told to, and fills the buffer of that run's stream only.
LEMMA Published ==
  ASSUME HaltInv, NEW p, NEW e \in Executions, NEW reason, Publish(p, e, reason),
         UNCHANGED execution
  PROVE  HaltHasACause' /\ FrameWasFull' /\ StreamsAreBudgeted'
  <1>1. \A x \in Executions : x # e => stream'[x] = stream[x]
    BY DEF HaltInv, TypeOK, Publish
  <1>2. stream'[e].pc = stream[e].pc /\ (stream[e].full => stream'[e].full)
    BY DEF HaltInv, TypeOK, Publish
  <1>3. told' = told \union ({e} \cap Budgeted)
    BY DEF Publish
  <1>4. e \notin Budgeted => UNCHANGED stream
    BY DEF HaltInv, StreamsAreBudgeted, Publish
  <1> QED
    BY <1>1, <1>2, <1>3, <1>4 DEF HaltInv, HaltHasACause, FrameWasFull, StreamsAreBudgeted

LEMMA NextHalt == HaltInv /\ [Next]_vars => HaltInv'
  <1> SUFFICES ASSUME HaltInv, [Next]_vars PROVE HaltHasACause' /\ FrameWasFull' /\ StreamsAreBudgeted'
    BY NextTypes DEF HaltInv
  <1>0. TypeOK /\ HaltHasACause /\ FrameWasFull /\ StreamsAreBudgeted
    BY DEF HaltInv
  <1>1. ASSUME NEW p \in Processes, Crash(p) PROVE HaltHasACause' /\ FrameWasFull' /\ StreamsAreBudgeted'
    <2>1. /\ \A e \in Executions : \/ stream'[e] = stream[e]
                                   \/ /\ stream'[e] = [NoStream EXCEPT !.pc = "closed"]
                                      /\ stream[e].pc = "open"
          /\ UNCHANGED <<execution, told>>
      BY <1>0, <1>1 DEF Crash, TypeOK
    <2>2. ~[NoStream EXCEPT !.pc = "closed"].full /\ [NoStream EXCEPT !.pc = "closed"].pc = "closed"
      BY DEF NoStream
    <2> QED
      BY <1>0, <2>1, <2>2 DEF HaltHasACause, FrameWasFull, StreamsAreBudgeted
  <1>2. ASSUME NEW p \in Processes, TriggerHalt(p) PROVE HaltHasACause' /\ FrameWasFull' /\ StreamsAreBudgeted'
    <2> DEFINE e == CHOOSE x \in tick[p].targets : TRUE
    <2>1. e \in Executions
      BY <1>0, <1>2, StepsOfABreach DEF TypeOK, TickType, TriggerHalt, At
    <2>2. Publish(p, e, "tenant_budget_ceiling_breached") /\ UNCHANGED execution
      BY <1>2 DEF TriggerHalt
    <2> HIDE DEF e
    <2> QED
      BY <2>1, <2>2, Published
  <1>3. ASSUME NEW e \in Executions, NEW p \in Processes, HandleTriggerHalt(p, e)
        PROVE  HaltHasACause' /\ FrameWasFull' /\ StreamsAreBudgeted'
    BY <1>3, Published DEF HandleTriggerHalt
  <1>4. ASSUME NEW e \in Executions, NEW p \in Processes, HandleHaltStream(p, e)
        PROVE  HaltHasACause' /\ FrameWasFull' /\ StreamsAreBudgeted'
    <2>1. /\ \A x \in Executions : x # e => stream'[x] = stream[x]
          /\ ~stream'[e].full /\ stream'[e].pc # "frame" /\ UNCHANGED <<execution, told>>
          /\ stream[e].pc # "none"
      BY <1>0, <1>4 DEF HandleHaltStream, TypeOK, NoStream
    <2> QED
      BY <1>0, <2>1 DEF HaltHasACause, FrameWasFull, StreamsAreBudgeted
  <1>5. ASSUME NEW e \in Executions, SendHaltFrame(e) \/ EndStream(e)
        PROVE  HaltHasACause' /\ FrameWasFull' /\ StreamsAreBudgeted'
    <2>1. /\ \A x \in Executions : x # e => stream'[x] = stream[x]
          /\ stream'[e].full => stream[e].full
          /\ stream'[e].pc = "frame" => stream'[e].full
          /\ stream[e].pc # "none"
          /\ UNCHANGED <<execution, told>>
      <3>1. CASE SendHaltFrame(e)
        BY <1>0, <3>1 DEF SendHaltFrame, TypeOK
      <3>2. CASE EndStream(e)
        BY <1>0, <3>2 DEF EndStream, TypeOK, NoStream
      <3> QED
        BY <1>5, <3>1, <3>2
    <2> QED
      BY <1>0, <2>1 DEF HaltHasACause, FrameWasFull, StreamsAreBudgeted
  <1>6. ASSUME NEW e \in Executions, NEW project \in Projects, StartExecution(e, project)
        PROVE  HaltHasACause' /\ FrameWasFull' /\ StreamsAreBudgeted'
    <2>1. /\ \A x \in Executions : x # e => execution'[x] = execution[x] /\ stream'[x] = stream[x]
          /\ execution'[e].run = "running" /\ execution'[e].remoteHalt = execution[e].remoteHalt
          /\ stream'[e].full = stream[e].full /\ stream'[e].pc # "frame" /\ UNCHANGED told
          /\ stream'[e].pc # "none" => e \in Budgeted
      BY <1>0, <1>6 DEF StartExecution, TypeOK
    <2> QED
      BY <1>0, <2>1 DEF HaltHasACause, FrameWasFull, StreamsAreBudgeted
  <1>7. ASSUME NEW e \in Executions, SignalRemoteHalt(e)
        PROVE  HaltHasACause' /\ FrameWasFull' /\ StreamsAreBudgeted'
    <2>1. /\ \A x \in Executions : x # e => execution'[x] = execution[x] /\ stream'[x] = stream[x]
          /\ stream'[e].pc # "frame" /\ stream[e].pc # "none" /\ UNCHANGED told
      BY <1>0, <1>7 DEF SignalRemoteHalt, TypeOK, NoStream
    <2>2. e \in told
      BY <1>0, <1>7 DEF SignalRemoteHalt, HaltHasACause, FrameWasFull
    <2> QED
      BY <1>0, <2>1, <2>2 DEF HaltHasACause, FrameWasFull, StreamsAreBudgeted
  <1>8. ASSUME NEW e \in Executions,
               \/ CreateExecution(e) \/ UpdateExecutionCost(e) \/ PauseExecution(e)
               \/ ResumeExecution(e) \/ UpdateExecution(e) \/ CheckOrHalt(e) \/ EndRun(e)
        PROVE  HaltHasACause' /\ FrameWasFull' /\ StreamsAreBudgeted'
    <2>1. /\ \A x \in Executions : x # e => execution'[x] = execution[x]
          /\ execution'[e].run = "halted" => execution[e].run = "halted" \/ execution[e].remoteHalt
          /\ execution'[e].remoteHalt => execution[e].remoteHalt
          /\ UNCHANGED <<stream, told>>
      BY <1>0, <1>8
         DEF CreateExecution, UpdateExecutionCost, PauseExecution, ResumeExecution,
             UpdateExecution, CheckOrHalt, EndRun, TypeOK
    <2> QED
      BY <1>0, <2>1 DEF HaltHasACause, FrameWasFull, StreamsAreBudgeted
  <1>9. CASE UNCHANGED <<execution, stream, told>>
    BY <1>0, <1>9 DEF HaltHasACause, FrameWasFull, StreamsAreBudgeted
  <1>10. ASSUME NEW project \in Projects, DeleteExecutionsOlderThan(project)
         PROVE  HaltHasACause' /\ FrameWasFull' /\ StreamsAreBudgeted'
    <2>1. PICK old : execution' = [e \in Executions |->
                            IF e \in old
                            THEN [execution[e] EXCEPT !.row = "gone", !.cost = 0, !.since = NULL]
                            ELSE execution[e]]
      BY <1>10 DEF DeleteExecutionsOlderThan
    <2>2. execution \in [Executions -> ExecutionType]
      BY <1>0 DEF TypeOK, ExecutionType
    <2>3. \A x \in Executions : /\ execution'[x].run = execution[x].run
                               /\ execution'[x].remoteHalt = execution[x].remoteHalt
      BY <2>1, <2>2 DEF ExecutionType
    <2>4. UNCHANGED <<stream, told>>
      BY <1>10 DEF DeleteExecutionsOlderThan
    <2> QED
      BY <1>0, <2>3, <2>4 DEF HaltHasACause, FrameWasFull, StreamsAreBudgeted
  <1> QED
    BY <1>1, <1>2, <1>3, <1>4, <1>5, <1>6, <1>7, <1>8, <1>9, <1>10
       DEF Next, Tick, Agent, Streams, ListTenantBudgetCeilings, Rollover, Evaluate, PersistBreach,
           SendBudgetCeilingBreach, PostBreachWebhook, ListActive, HandleUpsertBudgetCeiling,
           NextMonth, vars

\* A run halts remotely only if someone asked for that run to halt, through whichever
\* process its stream goes and however often processes die.
THEOREM NobodyHaltsUncalledFor == Spec => []HaltHasACause
  <1>1. Init => HaltInv
    <2>1. Init => HaltHasACause /\ FrameWasFull /\ StreamsAreBudgeted
      BY DEF Init, HaltHasACause, FrameWasFull, StreamsAreBudgeted, NewExecution, NoStream
    <2> QED
      BY <2>1, InitTypes DEF HaltInv
  <1>2. HaltInv => HaltHasACause
    BY DEF HaltInv
  <1> QED
    BY <1>1, <1>2, NextHalt, PTL DEF Spec

-----------------------------------------------------------------------------
(* One notice a month.                                                     *)

\* One scheduler, however often its process dies.
OneScheduler == \A p, q \in Processes : p = q

\* The months and the counts are numbers.
LEMMA Numbers ==
  ASSUME TypeOK
  PROVE  /\ month \in Months /\ month \in Nat /\ errors \in Nat
         /\ row \in RowType /\ row.breachedAt \in Nat /\ NULL \in Nat
         /\ \A m \in Months : m \in Nat /\ m # NULL /\ emails[m] \in Nat /\ hooks[m] \in Nat
  <1>1. /\ month \in Months /\ row \in RowType /\ errors \in Nat
        /\ emails \in [Months -> Nat] /\ hooks \in [Months -> Nat]
    BY DEF TypeOK
  <1>2. MaxMonth \in Nat
    BY ConstantsAssumption
  <1>3. NULL \in Nat /\ \A m \in Months : m \in Nat /\ m # NULL
    BY <1>2 DEF Months, NULL
  <1>4. errors \in Nat
    BY <1>1
  <1>5. row.breachedAt \in {NULL} \union Months
    BY <1>1 DEF RowType
  <1> QED
    BY <1>1, <1>3, <1>4, <1>5

LEMMA NextNumbers ==
  ASSUME TypeOK'
  PROVE  month' \in Nat /\ errors' \in Nat
  <1>1. month' \in Months /\ errors' \in Nat
    BY DEF TypeOK
  <1>2. MaxMonth \in Nat
    BY ConstantsAssumption
  <1> QED
    BY <1>1, <1>2 DEF Months

\* A step that leaves the breach on record and the notices alone, and by which no tick
\* comes nearer to a notice.
LEMMA QuietStep ==
  ASSUME NoticeInv, TypeOK', UNCHANGED <<emails, hooks>>,
         row'.breachedAt = row.breachedAt, month' >= month, errors' >= errors,
         \A p \in Processes : \/ tick'[p] = tick[p]
                              \/ tick'[p].pc \in {"idle", "fanout"}
                              \/ tick'[p].pc = "rollover" /\ tick'[p].snap = row
  PROVE  NoticeInv'
  <1>0. /\ TypeOK /\ KnowsTheBreach
        /\ Spares(emails, {"email"}) /\ Spares(hooks, {"email", "webhook"})
        /\ month \in Nat /\ month' \in Nat /\ errors \in Nat /\ errors' \in Nat
        /\ row.breachedAt \in Nat
    BY Numbers, NextNumbers DEF NoticeInv
  <1>2. \A m \in Months : emails[m] \in Nat /\ hooks[m] \in Nat /\ m \in Nat
    BY <1>0, Numbers
  <1>3. \A p \in Processes : tick[p].pc \in {"sum", "persist", "email", "webhook"}
                                => tick[p].now \in Months
    BY <1>0, StepsOfABreach DEF TypeOK, TickType
  <1>1. KnowsTheBreach'
    <2>1. row'.breachedAt <= month'
      BY <1>0 DEF KnowsTheBreach
    <2>2. ASSUME NEW p \in Processes, tick'[p].pc \in {"rollover", "sum"}
          PROVE  tick'[p].snap.breachedAt = row'.breachedAt
      BY <1>0, <2>2 DEF KnowsTheBreach
    <2>3. ASSUME NEW p \in Processes, tick'[p].pc \in {"sum", "persist"}
          PROVE  tick'[p].now <= month' /\ (At(p, "persist")' => row'.breachedAt = NULL)
      <3>1. tick'[p] = tick[p] /\ tick[p].now \in Nat
        BY <1>2, <1>3, <2>3
      <3> QED
        BY <1>0, <2>3, <3>1 DEF KnowsTheBreach, At
    <2> QED
      BY <2>1, <2>2, <2>3 DEF KnowsTheBreach, At
  <1>4. ASSUME NEW n \in {emails, hooks}, NEW before \in SUBSET {"email", "webhook"},
               Spares(n, before)
        PROVE  /\ \A m \in Months : n[m] <= 1 + errors'
               /\ \A m \in Months : m >= month' /\ row'.breachedAt # m => n[m] <= errors'
               /\ \A p \in Processes :
                    /\ At(p, "sum")' /\ tick'[p].snap.breachedAt = NULL => n[tick'[p].now] <= errors'
                    /\ At(p, "persist")' => n[tick'[p].now] <= errors'
                    /\ tick'[p].pc \in before =>
                          /\ n[tick'[p].now] <= errors'
                          /\ row'.breachedAt = tick'[p].now \/ n[tick'[p].now] < errors'
    <2>1. \A m \in Months : n[m] \in Nat /\ m \in Nat
      BY <1>2, <1>4
    <2>2. \A m \in Months : n[m] <= 1 + errors'
      BY <1>0, <1>4, <2>1 DEF Spares
    <2>3. \A m \in Months : m >= month' /\ row'.breachedAt # m => n[m] <= errors'
      BY <1>0, <1>4, <2>1 DEF Spares
    <2>4. ASSUME NEW p \in Processes, tick'[p] = tick[p]
          PROVE  /\ At(p, "sum")' /\ tick'[p].snap.breachedAt = NULL => n[tick'[p].now] <= errors'
                 /\ At(p, "persist")' => n[tick'[p].now] <= errors'
                 /\ tick'[p].pc \in before =>
                       /\ n[tick'[p].now] <= errors'
                       /\ row'.breachedAt = tick'[p].now \/ n[tick'[p].now] < errors'
      <3>1. tick[p].pc \in {"sum", "persist"} \union before => n[tick[p].now] \in Nat
        BY <1>3, <2>1
      <3> QED
        BY <1>0, <1>4, <2>4, <3>1 DEF Spares, At
    <2>5. \A p \in Processes :
              tick'[p] # tick[p] => tick'[p].pc \notin {"sum", "persist"} \union before
      OBVIOUS
    <2> QED
      BY <2>2, <2>3, <2>4, <2>5 DEF At
  <1>5. Spares(emails, {"email"})'
    BY <1>0, <1>4 DEF Spares, At
  <1>6. Spares(hooks, {"email", "webhook"})'
    BY <1>0, <1>4 DEF Spares, At
  <1> QED
    BY <1>1, <1>5, <1>6 DEF NoticeInv

LEMMA RolloverStep ==
  ASSUME OneScheduler, NoticeInv, TypeOK', NEW p \in Processes, Rollover(p)
  PROVE  NoticeInv'
  <1>0. /\ TypeOK /\ KnowsTheBreach
        /\ Spares(emails, {"email"}) /\ Spares(hooks, {"email", "webhook"})
        /\ month \in Months /\ month \in Nat /\ errors \in Nat /\ row \in RowType
        /\ row.breachedAt \in Nat /\ NULL \in Nat
    BY Numbers DEF NoticeInv
  <1> DEFINE t     == tick[p]
             stale == Stale(t.snap.breachedAt, month)
  <1>1. /\ t \in TickType /\ t.pc = "rollover" /\ t.snap \in RowType
        /\ t.snap.breachedAt = row.breachedAt
    BY <1>0, StepsOfABreach DEF Rollover, At, TypeOK, TickType, KnowsTheBreach
  <1>2. PICK ok \in IF stale THEN Outcomes ELSE {TRUE} :
          /\ row' = IF stale /\ ok THEN SetTenantCeilingBreached(row, NULL) ELSE row
          /\ tick' = [tick EXCEPT ![p] =
                  [pc |-> "sum", now |-> month,
                   snap |-> IF stale /\ ok THEN SetTenantCeilingBreached(t.snap, NULL) ELSE t.snap]]
          /\ CountError(ok)
    BY DEF Rollover
  <1>3. ok \in Outcomes /\ errors' >= errors /\ errors' \in Nat
    <2>1. ok \in Outcomes
      BY <1>2, MayFail
    <2> QED
      BY <1>0, <1>2, <2>1, Counted DEF TypeOK
  <1>4. UNCHANGED <<month, emails, hooks>>
    BY DEF Rollover
  <1>5. tick'[p].pc = "sum" /\ tick'[p].now = month
    BY <1>0, <1>2 DEF TypeOK
  <1>6. tick'[p].snap = IF stale /\ ok THEN SetTenantCeilingBreached(t.snap, NULL) ELSE t.snap
    BY <1>0, <1>2 DEF TypeOK
  <1>7. /\ tick'[p].snap.breachedAt = row'.breachedAt
        /\ row'.breachedAt = row.breachedAt \/ (row'.breachedAt = NULL /\ row.breachedAt < month)
        /\ row'.breachedAt \in Nat
    <2>1. CASE stale /\ ok
      <3>1. row'.breachedAt = NULL /\ tick'[p].snap.breachedAt = NULL
        BY <1>0, <1>1, <1>2, <1>6, <2>1, Breached
      <3>2. row.breachedAt < month
        BY <1>1, <2>1 DEF Stale
      <3> QED
        BY <1>0, <3>1, <3>2
    <2>2. CASE ~(stale /\ ok)
      BY <1>0, <1>1, <1>2, <1>6, <2>2
    <2> QED
      BY <2>1, <2>2
  <1>8. tick'[p].snap.breachedAt = NULL => row.breachedAt # month
    BY <1>0, <1>7 DEF NULL, Months
  <1>9. \A q \in Processes : q = p
    BY DEF OneScheduler
  <1>10. \A m \in Months : emails[m] \in Nat /\ hooks[m] \in Nat /\ m \in Nat
    BY <1>0, Numbers
  <1>11. KnowsTheBreach'
    BY <1>0, <1>4, <1>5, <1>7, <1>9 DEF KnowsTheBreach, At, NULL
  <1>12. Spares(emails, {"email"})'
    BY <1>0, <1>3, <1>4, <1>5, <1>7, <1>8, <1>9, <1>10 DEF Spares, At
  <1>13. Spares(hooks, {"email", "webhook"})'
    BY <1>0, <1>3, <1>4, <1>5, <1>7, <1>8, <1>9, <1>10 DEF Spares, At
  <1> QED
    BY <1>11, <1>12, <1>13 DEF NoticeInv

LEMMA EvaluateStep ==
  ASSUME OneScheduler, NoticeInv, TypeOK', NEW p \in Processes, Evaluate(p)
  PROVE  NoticeInv'
  <1>0. /\ TypeOK /\ KnowsTheBreach
        /\ Spares(emails, {"email"}) /\ Spares(hooks, {"email", "webhook"})
        /\ month \in Nat /\ errors \in Nat /\ errors' \in Nat
    BY Numbers, NextNumbers DEF NoticeInv
  <1>1. tick[p].pc = "sum" /\ tick[p].now \in Months
    BY <1>0, StepsOfABreach DEF Evaluate, At, TypeOK, TickType
  <1>2. errors' >= errors /\ UNCHANGED <<month, row, emails, hooks>>
    <2>1. PICK failed \in SUBSET Projects : errors' = errors + Cardinality(failed)
      BY DEF Evaluate
    <2>2. Cardinality(failed) \in Nat
      BY FS_Subset, FS_CardinalityType, ConstantsAssumption
    <2> QED
      BY <1>0, <2>1, <2>2 DEF Evaluate
  <1>3. \/ tick'[p] = IdleTick
        \/ /\ tick[p].snap.breachedAt = NULL
           /\ tick'[p].pc = "persist" /\ tick'[p].now = tick[p].now
    <2>1. BreachSteps[1] = "persist"
      BY DEF BreachSteps
    <2> QED
      BY <1>0, <2>1 DEF Evaluate, TypeOK
  <1>4. \A q \in Processes : q = p
    BY DEF OneScheduler
  <1>5. CASE tick'[p] = IdleTick
    BY <1>0, <1>2, <1>4, <1>5, QuietStep DEF IdleTick
  <1>6. CASE /\ tick[p].snap.breachedAt = NULL
             /\ tick'[p].pc = "persist" /\ tick'[p].now = tick[p].now
    <2>1. row.breachedAt = NULL
      BY <1>0, <1>1, <1>6 DEF KnowsTheBreach
    <2>2. \A m \in Months : emails[m] \in Nat /\ hooks[m] \in Nat /\ m \in Nat
      BY <1>0, Numbers
    <2>3. KnowsTheBreach'
      <3>1. tick[p].now <= month
        BY <1>0, <1>1 DEF KnowsTheBreach
      <3> QED
        BY <1>0, <1>2, <1>4, <1>6, <2>1, <3>1 DEF KnowsTheBreach, At
    <2>4. Spares(emails, {"email"})'
      BY <1>0, <1>1, <1>2, <1>4, <1>6, <2>2 DEF Spares, At
    <2>5. Spares(hooks, {"email", "webhook"})'
      BY <1>0, <1>1, <1>2, <1>4, <1>6, <2>2 DEF Spares, At
    <2> QED
      BY <2>3, <2>4, <2>5 DEF NoticeInv
  <1> QED
    BY <1>3, <1>5, <1>6

LEMMA PersistStep ==
  ASSUME OneScheduler, NoticeInv, TypeOK', NEW p \in Processes, PersistBreach(p)
  PROVE  NoticeInv'
  <1>0. /\ TypeOK /\ KnowsTheBreach
        /\ Spares(emails, {"email"}) /\ Spares(hooks, {"email", "webhook"})
        /\ month \in Nat /\ errors \in Nat /\ errors' \in Nat
        /\ row \in RowType /\ month \in Months
    BY Numbers, NextNumbers DEF NoticeInv
  <1>1. /\ tick[p].pc = "persist" /\ tick[p].now \in Months /\ row.breachedAt = NULL
        /\ tick[p] \in TickType
    BY <1>0, StepsOfABreach DEF PersistBreach, At, TypeOK, TickType, KnowsTheBreach
  <1>2. PICK ok \in Outcomes :
          /\ row' = IF ok THEN SetTenantCeilingBreached(row, tick[p].now) ELSE row
          /\ CountError(ok)
    BY DEF PersistBreach
  <1>3. errors' >= errors /\ (~ok => errors' = errors + 1)
    BY <1>0, <1>2, Counted DEF TypeOK
  <1>4. UNCHANGED <<month, emails, hooks>>
    BY DEF PersistBreach
  <1>5. tick'[p].pc = "email" /\ tick'[p].now = tick[p].now
    <2>1. tick'[p] = [tick[p] EXCEPT !.pc = "email"]
      BY <1>0, AfterEach DEF PersistBreach, TypeOK
    <2> QED
      BY <1>1, <2>1, StepsOfABreach DEF TickType
  <1>6. row'.breachedAt = tick[p].now \/ (row'.breachedAt = NULL /\ errors' = errors + 1)
    BY <1>0, <1>1, <1>2, <1>3, Breached
  <1>7. \A q \in Processes : q = p
    BY DEF OneScheduler
  <1>8. \A m \in Months : emails[m] \in Nat /\ hooks[m] \in Nat /\ m \in Nat /\ m # NULL
    BY <1>0, Numbers
  <1>9. KnowsTheBreach'
    <2>1. tick[p].now <= month
      BY <1>0, <1>1 DEF KnowsTheBreach
    <2> QED
      BY <1>0, <1>4, <1>5, <1>6, <1>7, <2>1 DEF KnowsTheBreach, At, NULL
  <1>10. ASSUME NEW n \in {emails, hooks}, NEW before \in SUBSET {"email", "webhook"},
                Spares(n, before)
         PROVE  /\ \A m \in Months : n[m] <= 1 + errors'
                /\ \A m \in Months : m >= month /\ row'.breachedAt # m => n[m] <= errors'
                /\ n[tick[p].now] <= errors'
                /\ row'.breachedAt = tick[p].now \/ n[tick[p].now] < errors'
    <2>1. n[tick[p].now] <= errors /\ n[tick[p].now] \in Nat
      BY <1>1, <1>8, <1>10 DEF Spares, At
    <2>2. \A m \in Months : n[m] <= 1 + errors /\ (m >= month => n[m] <= errors)
      BY <1>1, <1>8, <1>10 DEF Spares
    <2>3. \A m \in Months : n[m] <= 1 + errors' /\ (m >= month => n[m] <= errors')
      BY <1>0, <1>3, <1>8, <2>2
    <2> QED
      BY <1>0, <1>3, <1>6, <2>1, <2>3
  <1>11. Spares(emails, {"email"})'
    BY <1>0, <1>4, <1>5, <1>7, <1>10 DEF Spares, At
  <1>12. Spares(hooks, {"email", "webhook"})'
    BY <1>0, <1>4, <1>5, <1>7, <1>10 DEF Spares, At
  <1> QED
    BY <1>9, <1>11, <1>12 DEF NoticeInv

\* The notices themselves: the email, and the webhook after it.
LEMMA NoticeStep ==
  ASSUME OneScheduler, NoticeInv, TypeOK', NEW p \in Processes,
         SendBudgetCeilingBreach(p) \/ PostBreachWebhook(p)
  PROVE  NoticeInv'
  <1>0. /\ TypeOK /\ KnowsTheBreach
        /\ Spares(emails, {"email"}) /\ Spares(hooks, {"email", "webhook"})
        /\ month \in Nat /\ errors \in Nat /\ tick[p] \in TickType
        /\ UNCHANGED <<month, row, errors>>
    BY Numbers DEF NoticeInv, TypeOK, SendBudgetCeilingBreach, PostBreachWebhook, faults
  <1>1. tick[p].pc \in {"email", "webhook"} /\ tick[p].now \in Months
    BY <1>0, StepsOfABreach DEF SendBudgetCeilingBreach, PostBreachWebhook, At, TickType
  <1>2. \A q \in Processes : q = p
    BY DEF OneScheduler
  <1>3. \A m \in Months : emails[m] \in Nat /\ hooks[m] \in Nat /\ m \in Nat /\ m # NULL
    BY <1>0, Numbers
  <1>4. CASE SendBudgetCeilingBreach(p)
    <2>1. tick'[p].pc = "webhook" /\ tick'[p].now = tick[p].now
      <3>1. tick'[p] = [tick[p] EXCEPT !.pc = "webhook"]
        BY <1>0, <1>4, AfterEach DEF SendBudgetCeilingBreach, TypeOK
      <3> QED
        BY <1>0, <1>1, <3>1, StepsOfABreach DEF TickType
    <2>2. UNCHANGED hooks
      BY <1>4 DEF SendBudgetCeilingBreach
    <2>3. \A m \in Months : emails'[m] = IF m = tick[p].now THEN emails[m] + 1 ELSE emails[m]
      BY <1>0, <1>1, <1>4 DEF SendBudgetCeilingBreach, TypeOK
    <2>4. KnowsTheBreach'
      BY <1>0, <1>2, <2>1 DEF KnowsTheBreach, At
    <2>5. /\ emails[tick[p].now] <= errors
          /\ row.breachedAt = tick[p].now \/ emails[tick[p].now] < errors
      BY <1>0, <1>4 DEF Spares, SendBudgetCeilingBreach, At
    <2>6. Spares(emails, {"email"})'
      BY <1>0, <1>1, <1>2, <1>3, <2>1, <2>3, <2>5 DEF Spares, At
    <2>7. Spares(hooks, {"email", "webhook"})'
      BY <1>0, <1>2, <1>4, <2>1, <2>2 DEF Spares, SendBudgetCeilingBreach, At
    <2> QED
      BY <2>4, <2>6, <2>7 DEF NoticeInv
  <1>5. CASE PostBreachWebhook(p)
    <2>1. tick'[p].pc \in {"idle", "fanout"}
      <3>1. tick'[p] = IdleTick \/ tick'[p] = [tick[p] EXCEPT !.pc = "fanout"]
        BY <1>0, <1>5, AfterEach DEF PostBreachWebhook, TypeOK
      <3> QED
        BY <1>0, <1>1, <3>1, StepsOfABreach DEF TickType, IdleTick
    <2>2. UNCHANGED emails
      BY <1>5 DEF PostBreachWebhook
    <2>3. \A m \in Months : hooks'[m] = IF m = tick[p].now THEN hooks[m] + 1 ELSE hooks[m]
      BY <1>0, <1>1, <1>5 DEF PostBreachWebhook, TypeOK
    <2>4. KnowsTheBreach'
      BY <1>0, <1>2, <2>1 DEF KnowsTheBreach, At
    <2>5. /\ hooks[tick[p].now] <= errors
          /\ row.breachedAt = tick[p].now \/ hooks[tick[p].now] < errors
      BY <1>0, <1>5 DEF Spares, PostBreachWebhook, At
    <2>6. Spares(hooks, {"email", "webhook"})'
      BY <1>0, <1>1, <1>2, <1>3, <2>1, <2>3, <2>5 DEF Spares, At
    <2>7. Spares(emails, {"email"})'
      BY <1>0, <1>2, <2>1, <2>2 DEF Spares, At
    <2> QED
      BY <2>4, <2>6, <2>7 DEF NoticeInv
  <1> QED
    BY <1>4, <1>5

LEMMA NextNotices == OneScheduler /\ NoticeInv /\ [Next]_vars => NoticeInv'
  <1> SUFFICES ASSUME OneScheduler, NoticeInv, [Next]_vars PROVE NoticeInv'
    OBVIOUS
  <1>0. /\ TypeOK' /\ TypeOK /\ month \in Nat /\ errors \in Nat
        /\ row \in RowType
    BY NextTypes, Numbers DEF NoticeInv, TypeOK
  <1>1. ASSUME NEW p \in Processes, ListTenantBudgetCeilings(p) PROVE NoticeInv'
    <2>1. errors' >= errors
      BY <1>0, <1>1, Counted DEF ListTenantBudgetCeilings
    <2>2. \A q \in Processes : tick'[q] = tick[q] \/ tick'[q] = [pc |-> "rollover", snap |-> row]
      BY <1>0, <1>1 DEF ListTenantBudgetCeilings, TypeOK
    <2>3. UNCHANGED <<month, row, emails, hooks>>
      BY <1>1 DEF ListTenantBudgetCeilings
    <2> QED
      BY <1>0, <2>1, <2>2, <2>3, QuietStep
  <1>2. ASSUME NEW p \in Processes, ListActive(p) PROVE NoticeInv'
    <2>1. errors' >= errors
      BY <1>0, <1>2, Counted DEF ListActive
    <2>2. \A q \in Processes : tick'[q] = tick[q] \/ tick'[q].pc \in {"idle", "fanout"}
      BY <1>0, <1>2, StepsOfABreach DEF ListActive, TypeOK, TickType, At, IdleTick
    <2>3. UNCHANGED <<month, row, emails, hooks>>
      BY <1>2 DEF ListActive
    <2> QED
      BY <1>0, <2>1, <2>2, <2>3, QuietStep
  <1>3. ASSUME NEW p \in Processes, TriggerHalt(p) PROVE NoticeInv'
    <2>1. \A q \in Processes : tick'[q] = tick[q] \/ tick'[q].pc \in {"idle", "fanout"}
      BY <1>0, <1>3, StepsOfABreach DEF TriggerHalt, TypeOK, TickType, At
    <2>2. UNCHANGED <<month, row, emails, hooks, errors>>
      BY <1>3 DEF TriggerHalt, faults
    <2> QED
      BY <1>0, <2>1, <2>2, QuietStep
  <1>4. ASSUME NEW p \in Processes, Crash(p) PROVE NoticeInv'
    <2>1. \A q \in Processes : tick'[q] = tick[q] \/ tick'[q] = IdleTick
      BY <1>0, <1>4 DEF Crash, TypeOK
    <2>2. UNCHANGED <<month, row, emails, hooks, errors>>
      BY <1>4 DEF Crash
    <2> QED
      BY <1>0, <2>1, <2>2, QuietStep DEF IdleTick
  <1>5. ASSUME NEW e \in Executions, Agent(e) \/ Streams(e) PROVE NoticeInv'
    <2>1. UNCHANGED <<month, row, tick, emails, hooks>>
      BY <1>5 DEF Agent, Streams, StartExecution, CreateExecution, UpdateExecutionCost,
                  PauseExecution, ResumeExecution, UpdateExecution, SignalRemoteHalt, CheckOrHalt, EndRun, HandleHaltStream,
                  HandleTriggerHalt, SendHaltFrame, EndStream
    <2>2. errors' >= errors
      <3>1. ASSUME NEW p \in Processes, HandleHaltStream(p, e) PROVE errors' >= errors
        BY <1>0, <3>1, Counted DEF HandleHaltStream
      <3>2. CASE UNCHANGED errors
        BY <1>0, <3>2
      <3> QED
        BY <1>5, <3>1, <3>2
           DEF Agent, Streams, StartExecution, CreateExecution, UpdateExecutionCost,
               PauseExecution, ResumeExecution, UpdateExecution, SignalRemoteHalt, CheckOrHalt, EndRun, HandleTriggerHalt,
               SendHaltFrame, EndStream, faults
    <2> QED
      BY <1>0, <2>1, <2>2, QuietStep
  <1>6. ASSUME NEW c \in Ceilings, NEW a \in {"warn", "halt"}, HandleUpsertBudgetCeiling(c, a)
        PROVE  NoticeInv'
    <2>1. row'.breachedAt = row.breachedAt
      BY <1>0, <1>6 DEF HandleUpsertBudgetCeiling, UpsertTenantBudgetCeiling, RowType
    <2>2. UNCHANGED <<month, tick, emails, hooks, errors>>
      BY <1>6 DEF HandleUpsertBudgetCeiling, faults
    <2> QED
      BY <1>0, <2>1, <2>2, QuietStep
  <1>7. CASE NextMonth
    <2>1. month' >= month
      BY <1>0, <1>7 DEF NextMonth
    <2>2. UNCHANGED <<row, tick, emails, hooks, errors>>
      BY <1>7 DEF NextMonth, faults
    <2> QED
      BY <1>0, <2>1, <2>2, QuietStep
  <1>8. CASE UNCHANGED vars
    <2>1. UNCHANGED <<month, row, tick, emails, hooks, errors>>
      BY <1>8 DEF vars, faults
    <2> QED
      BY <1>0, <2>1, QuietStep
  <1>9. ASSUME NEW project \in Projects, DeleteExecutionsOlderThan(project) PROVE NoticeInv'
    <2>1. UNCHANGED <<month, row, tick, emails, hooks, errors>>
      BY <1>9 DEF DeleteExecutionsOlderThan, faults
    <2> QED
      BY <1>0, <2>1, QuietStep
  <1> QED
    BY <1>0, <1>1, <1>2, <1>3, <1>4, <1>5, <1>6, <1>7, <1>8, <1>9, RolloverStep, EvaluateStep,
       PersistStep, NoticeStep DEF Next, Tick

\* With one scheduler, a month brings one breach email and one webhook, and at most one
\* more of each for every statement that fails, wherever its process dies.
THEOREM OneNoticeAMonth ==
  ASSUME OneScheduler
  PROVE  Spec => []OneNoticePerMonth
  <1>1. Init => NoticeInv
    <2> SUFFICES ASSUME Init PROVE NoticeInv
      OBVIOUS
    <2>1. \A p \in Processes : tick[p].pc = "idle"
      BY DEF Init, IdleTick
    <2>2. /\ row.breachedAt = NULL /\ month = 1 /\ errors = 0
          /\ \A m \in Months : emails[m] = 0 /\ hooks[m] = 0
      BY DEF Init
    <2>3. KnowsTheBreach
      BY <2>1, <2>2 DEF KnowsTheBreach, At, NULL
    <2>4. Spares(emails, {"email"}) /\ Spares(hooks, {"email", "webhook"})
      BY <2>1, <2>2 DEF Spares, At
    <2> QED
      BY <2>3, <2>4, InitTypes DEF NoticeInv
  <1>2. NoticeInv => OneNoticePerMonth
    BY DEF NoticeInv, Spares, OneNoticePerMonth
  <1> QED
    BY <1>1, <1>2, NextNotices, PTL DEF Spec

=============================================================================

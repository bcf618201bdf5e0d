--------------------------- MODULE ExecutionLifecycle ---------------------------
(***************************************************************************)
(* The lifecycle of one execution as PATCH /executions/{id} drives it: the *)
(* handler reads the row, checks the transition it was asked for, and then *)
(* pauses, resumes or ends the execution in statements of their own.  An   *)
(* action is one statement; other requests run between two of them.        *)
(*                                                                         *)
(* The shipper sends its own PATCHes one at a time but retries one whose   *)
(* answer was lost, and a host application pauses, resumes and halts from  *)
(* other threads and processes: Overlap says whether requests may be in    *)
(* flight together.                                                        *)
(***************************************************************************)
EXTENDS Integers, FiniteSets

CONSTANTS Requests,     \* slots for PATCH requests in flight
          Terminal,     \* the terminal statuses
          Overlap,      \* whether two requests may be in flight at once
          MaxClock,     \* bound: last clock value
          MaxPauses     \* bound: pause cycles

ASSUME LifecycleConstants ==
    /\ Overlap \in BOOLEAN
    /\ MaxClock \in Nat
    /\ MaxPauses \in Nat
    /\ {"started", "awaiting_human", "unknown"} \intersect Terminal = {}

VARIABLES clock,        \* the wall clock, 0 when the row was created
          status,       \* executions.status
          pausedAt,     \* executions.paused_at
          totalPaused,  \* executions.total_paused_ms
          pauseCount,   \* executions.pause_count
          endedAt,      \* executions.ended_at
          request       \* what each handler has read and does next

row  == <<status, pausedAt, totalPaused, pauseCount, endedAt>>
lifecycleVars == <<clock, row, request>>

NULL   == -1            \* an SQL NULL timestamp
\* JSON decoding accepts any string as a status, and no constraint on the column
\* keeps one out: "unknown" is any string that is none of the program's own.
Status == {"started", "awaiting_human", "unknown"} \union Terminal

\* A slot without a request.
Free == [pc    |-> "free",      \* the handler's next statement
         next  |-> "started",   \* the status the body asks for
         now   |-> 0,           \* the handler's clock reading
         delta |-> 0]           \* the pause it is about to add

\* The row as POST /executions stores it: the status and ended_at are the
\* client's, the pause columns have their defaults.
LifecycleInit ==
    /\ clock = 0
    /\ status \in Status
    /\ pausedAt = NULL
    /\ totalPaused = 0
    /\ pauseCount = 0
    /\ endedAt \in {NULL, 0}
    /\ request = [r \in Requests |-> Free]

At(r, pc) == request[r].pc = pc
Goto(r, pc) == request' = [request EXCEPT ![r].pc = pc]

\* The handler answers, with success or an error.
Answer(r) == request' = [request EXCEPT ![r] = Free]

ClockTick ==
    /\ clock < MaxClock
    /\ clock' = clock + 1
    /\ UNCHANGED <<row, request>>

\* Mutant: terminal statuses may be left.
AnyTransition(prior, next) ==
    \/ prior = next
    \/ prior = "started" /\ next \in Terminal \union {"awaiting_human"}
    \/ prior # "started" /\ next \in Terminal \union {"started"}

isValidLifecycleTransition(prior, next) ==
    \/ prior = next
    \/ prior = "started" /\ next \in Terminal \union {"awaiting_human"}
    \/ prior = "awaiting_human" /\ next \in Terminal \union {"started"}

\* The statement that serves a valid transition.
Branch(prior, next) ==
    IF prior = "started" /\ next = "awaiting_human" THEN "pause"
    ELSE IF prior = "awaiting_human" /\ next = "started" THEN "resume"
    ELSE IF prior = "awaiting_human" /\ next \in Terminal THEN "flush"
    ELSE "update"

\* A request is read and its transition checked against the row as it is now.
\* A transition that is refused leaves everything as it was.
GetExecution(r, next) ==
    /\ At(r, "free")
    /\ Overlap \/ \A q \in Requests : At(q, "free")
    /\ isValidLifecycleTransition(status, next)
    /\ status = "started" /\ next = "awaiting_human" => pauseCount < MaxPauses
    /\ request' = [request EXCEPT ![r] = [pc    |-> Branch(status, next),
                                          next  |-> next,
                                          now   |-> clock,
                                          delta |-> 0]]
    /\ UNCHANGED <<clock, row>>

\* UPDATE ... WHERE status = 'started'
PauseExecution(r) ==
    /\ At(r, "pause")
    /\ IF status = "started"
       THEN /\ status' = "awaiting_human"
            /\ pausedAt' = request[r].now
            /\ pauseCount' = pauseCount + 1
       ELSE UNCHANGED <<status, pausedAt, pauseCount>>
    /\ Answer(r)
    /\ UNCHANGED <<clock, totalPaused, endedAt>>

\* What ResumeExecution asks of the row before it resumes.
PauseIsOpen == status = "awaiting_human" /\ pausedAt # NULL

\* Mutant: the pause is measured from the start of the execution.
ProbeFromStart(r) ==
    /\ At(r, "resume") \/ At(r, "flush")
    /\ IF PauseIsOpen
       THEN request' = [request EXCEPT
                           ![r].delta = request[r].now,
                           ![r].pc    = IF @ = "resume" THEN "unpause" ELSE "flushWrite"]
       ELSE Answer(r)
    /\ UNCHANGED <<clock, row>>

\* ResumeExecution: the status probe, and the pause it will add.
ProbePause(r) ==
    /\ At(r, "resume") \/ At(r, "flush")
    /\ IF PauseIsOpen
       THEN request' = [request EXCEPT
                           ![r].delta = IF request[r].now > pausedAt
                                        THEN request[r].now - pausedAt ELSE 0,
                           ![r].pc    = IF @ = "resume" THEN "unpause" ELSE "flushWrite"]
       ELSE Answer(r)
    /\ UNCHANGED <<clock, row>>

\* Mutant: resuming leaves paused_at as it is.
ResumeKeepingPause(r) ==
    /\ At(r, "unpause") \/ At(r, "flushWrite")
    /\ IF status = "awaiting_human"
       THEN /\ status' = "started"
            /\ totalPaused' = totalPaused + request[r].delta
            /\ IF At(r, "unpause") THEN Answer(r) ELSE Goto(r, "update")
       ELSE UNCHANGED <<status, totalPaused>> /\ Answer(r)
    /\ UNCHANGED <<clock, pausedAt, pauseCount, endedAt>>

\* ResumeExecution: UPDATE ... WHERE status = 'awaiting_human'.  A terminal
\* status asked of a paused execution goes on to the update.
ResumeExecution(r) ==
    /\ At(r, "unpause") \/ At(r, "flushWrite")
    /\ IF status = "awaiting_human"
       THEN /\ status' = "started"
            /\ pausedAt' = NULL
            /\ totalPaused' = totalPaused + request[r].delta
            /\ IF At(r, "unpause") THEN Answer(r) ELSE Goto(r, "update")
       ELSE UNCHANGED <<status, pausedAt, totalPaused>> /\ Answer(r)
    /\ UNCHANGED <<clock, pauseCount, endedAt>>

\* UPDATE ... WHERE execution_id = $9, whatever the status is by now.  The
\* body's ended_at, or the handler's clock, is written with it.
UpdateExecution(r) ==
    /\ At(r, "update")
    /\ status' = request[r].next
    /\ endedAt' = request[r].now
    /\ Answer(r)
    /\ UNCHANGED <<clock, pausedAt, totalPaused, pauseCount>>

\* A statement fails, the caller goes away, or the process dies.
Abort(r) ==
    /\ ~At(r, "free")
    /\ Answer(r)
    /\ UNCHANGED <<clock, row>>

Handler(r) ==
    \/ \E next \in Status : GetExecution(r, next)
    \/ PauseExecution(r)
    \/ ProbePause(r)
    \/ ResumeExecution(r)
    \/ UpdateExecution(r)
    \/ Abort(r)

LifecycleNext == ClockTick \/ \E r \in Requests : Handler(r)

LifecycleSpec == LifecycleInit /\ [][LifecycleNext]_lifecycleVars

-----------------------------------------------------------------------------
(* Properties.                                                             *)

Pcs == {"free", "pause", "resume", "flush", "unpause", "flushWrite", "update"}

\* Every variable has its type.
LifecycleTypeOK ==
    /\ clock \in Nat
    /\ status \in Status
    /\ pausedAt \in Nat \union {NULL}
    /\ totalPaused \in Nat
    /\ pauseCount \in Nat
    /\ endedAt \in Nat \union {NULL}
    /\ request \in [Requests -> [pc : Pcs, next : Status, now : Nat, delta : Nat]]

\* Once an execution has ended it keeps the status it ended with.
TerminalIsFinal == [][(status \in Terminal) => (status' = status)]_lifecycleVars

\* A paused execution knows since when, and one that goes on or has ended has no
\* pause open: without paused_at it can be neither resumed nor ended any more.
\* Only an execution that was created waiting (POST /executions) lacks it.
WaitingIsPaused ==
    /\ pausedAt # NULL => status = "awaiting_human"
    /\ status = "awaiting_human" /\ pauseCount > 0 => pausedAt # NULL

\* The pauses subtracted from an execution's duration are disjoint parts of it,
\* also when a handler dies between flushing a pause and ending the execution.
CurrentPause == IF pausedAt = NULL THEN 0 ELSE clock - pausedAt
PausedTimeFitsTheRun == totalPaused + CurrentPause <= clock

\* What ends an execution is a terminal status: until then ended_at is NULL, and
\* the checkpoint scheduler leaves it unsealed.  No run checks this: an execution
\* may be created with an ended_at, and a repeated PATCH writes one.
EndedMeansTerminal == endedAt # NULL => status \in Terminal

-----------------------------------------------------------------------------
(* Why one request at a time keeps the row in order: whatever a handler has *)
(* read is still what the row says when its statement runs.                 *)

OneAtATime ==
    \A r, q \in Requests : At(r, "free") \/ At(q, "free") \/ r = q

StillTrue(r) ==
    LET h == request[r] IN
    /\ h.now <= clock
    /\ At(r, "pause") => status = "started" /\ totalPaused <= h.now
    /\ At(r, "resume") \/ At(r, "flush") \/ At(r, "unpause") \/ At(r, "flushWrite")
          => /\ status = "awaiting_human"
             /\ pausedAt <= h.now
             /\ pausedAt # NULL => totalPaused + (h.now - pausedAt) <= h.now
    /\ At(r, "unpause") \/ At(r, "flushWrite")
          => pausedAt # NULL /\ h.delta <= h.now - pausedAt
    /\ At(r, "flush") \/ At(r, "flushWrite") => h.next \in Terminal
    /\ At(r, "update") => h.next = status \/ (status = "started" /\ h.next \in Terminal)

\* The inductive invariant of an execution whose requests do not overlap.
SerialInv ==
    /\ LifecycleTypeOK
    /\ OneAtATime
    /\ WaitingIsPaused
    /\ pausedAt <= clock
    /\ PausedTimeFitsTheRun
    /\ \A r \in Requests : StillTrue(r)

=============================================================================

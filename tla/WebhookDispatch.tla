----------------------------- MODULE WebhookDispatch -----------------------------
(***************************************************************************)
(* The dispatches of one failure group's webhooks.  Every grouping call     *)
(* starts one in a goroutine of its own, as news of the group or of its     *)
(* recurrence.  A dispatch goes through the project's webhooks in order,    *)
(* posts to each up to MaxAttempts times, and is cancelled by its deadline  *)
(* or by the end of the process.                                            *)
(*                                                                         *)
(* Only a request that hangs and a backoff take time; every other step is   *)
(* an instant, and the dispatches alive interleave in it.  The delivery log *)
(* is written and never read here, and is left out; the filters by class    *)
(* and severity have let the listed webhooks pass.                          *)
(***************************************************************************)
EXTENDS Integers, Sequences, FiniteSetsExt

CONSTANTS Dispatches,         \* the dispatches there may be
          Modes,              \* the recurrence mode of each webhook, in list order
          Window,             \* the throttle window
          MaxAttempts,        \* posts to one webhook
          PerAttemptTimeout,  \* of the HTTP client
          InitialBackoff,     \* before the second post
          BackoffMultiplier,
          DispatchTimeout,    \* of a whole dispatch
          ShutdownTimeout,    \* what a shutdown allows for the dispatches to finish
          MaxClock,           \* bound: the last instant
          MaxRestarts,        \* bound: restarts of the process
          MaxErrors           \* bound: failed statements

ASSUME ConstantsAssumption ==
    /\ Modes \in Seq({"off", "every_event", "throttled"})
    /\ {Window, MaxAttempts, PerAttemptTimeout, DispatchTimeout} \subseteq Nat \ {0}
    /\ {InitialBackoff, BackoffMultiplier, ShutdownTimeout} \subseteq Nat
    /\ {MaxClock, MaxRestarts, MaxErrors} \subseteq Nat

VARIABLES clock,      \* the instant
          dispatch,   \* what each dispatch is doing, and how it went so far
          lastFired,  \* webhook_recurrence_state: last_fired_at of each webhook
          signalledAt,\* when the process was told to stop, or NULL
          cutShort,   \* history: the last shutdown ended dispatches before its time was up
          restarts,   \* history: restarts so far
          errors      \* history: failed statements so far

vars == <<clock, dispatch, lastFired, signalledAt, cutShort, restarts, errors>>

NULL  == -1
Hooks == DOMAIN Modes
Throttled == {h \in Hooks : Modes[h] = "throttled"}

Unborn == [pc |-> "unborn"]

Init ==
    /\ clock = 0
    /\ dispatch = [d \in Dispatches |-> Unborn]
    /\ lastFired = [h \in Hooks |-> NULL]
    /\ signalledAt = NULL
    /\ cutShort = FALSE
    /\ restarts = 0
    /\ errors = 0

\* A statement succeeds, or fails while the budget lasts.
Outcomes == IF errors < MaxErrors THEN BOOLEAN ELSE {TRUE}
CountError(ok) == errors' = IF ok THEN errors ELSE errors + 1

At(d, pc)   == dispatch[d].pc = pc
Goto(d, t)  == dispatch' = [dispatch EXCEPT ![d] = t]
Running(d)  == dispatch[d].pc \notin {"unborn", "done", "killed"}
Expired(d)  == clock >= dispatch[d].deadline
Hook(d)     == dispatch[d].hook
Waiting(d)  == dispatch[d].pc \in {"hang", "backoff"}

\* Mutant: a webhook that could not be told ends the dispatch.
StopAtFailure(t) ==
    IF t.hook < Len(Modes) /\ t.outcome # "failed"
    THEN [t EXCEPT !.pc = "gate", !.hook = @ + 1, !.attempt = 1, !.backoff = InitialBackoff,
                   !.wake = 0, !.outcome = "none"]
    ELSE [t EXCEPT !.pc = "done", !.attempt = 1, !.backoff = InitialBackoff, !.wake = 0,
                   !.outcome = "none"]

\* On to the next webhook of the list.
NextHook(t) ==
    IF t.hook < Len(Modes)
    THEN [t EXCEPT !.pc = "gate", !.hook = @ + 1, !.attempt = 1, !.backoff = InitialBackoff,
                   !.wake = 0, !.outcome = "none"]
    ELSE [t EXCEPT !.pc = "done", !.attempt = 1, !.backoff = InitialBackoff, !.wake = 0,
                   !.outcome = "none"]

-----------------------------------------------------------------------------
(* runFailureGroupDispatch and Deliver.                                    *)

\* maybeFireWebhook: the group is announced once, every other call is a recurrence.
\* Requests in flight go on while the process stops.
MaybeFireWebhook(d, recurrence) ==
    /\ At(d, "unborn")
    /\ ~recurrence => \A o \in Dispatches : ~At(o, "unborn") => dispatch[o].recurrence
    /\ Goto(d, [pc |-> "load", recurrence |-> recurrence, known |-> TRUE,
                deadline |-> clock + DispatchTimeout, hook |-> 1, attempt |-> 1,
                backoff |-> InitialBackoff, wake |-> 0, outcome |-> "none",
                sent |-> [h \in Throttled |-> NULL],
                left |-> [h \in Throttled |-> NULL], heard |-> {}, slow |-> {}])
    /\ UNCHANGED <<clock, lastFired, signalledAt, cutShort, restarts, errors>>

\* The group, or a stub without an identifier when it cannot be read; then the
\* enabled webhooks, without which the dispatch is over.
LoadGroupAndHooks(d) ==
    /\ At(d, "load")
    /\ \/ /\ Goto(d, [dispatch[d] EXCEPT !.pc = IF Hooks = {} THEN "done" ELSE "gate"])
          /\ UNCHANGED errors
       \/ /\ errors < MaxErrors
          /\ \/ Goto(d, [dispatch[d] EXCEPT !.pc = IF Hooks = {} THEN "done" ELSE "gate",
                                            !.known = FALSE])
             \/ Goto(d, [dispatch[d] EXCEPT !.pc = "done"])
          /\ errors' = errors + 1
    /\ UNCHANGED <<clock, lastFired, signalledAt, cutShort, restarts>>

\* recurrenceShouldFire.  When last_fired_at cannot be read, which a stub and an
\* expired context see to as well, the webhook fires.
RecurrenceShouldFire(d) ==
    LET t == dispatch[d] IN
    /\ At(d, "gate")
    /\ \E ok \in IF Modes[Hook(d)] = "throttled" THEN Outcomes ELSE {TRUE} :
        LET unread == ~ok \/ ~t.known \/ Expired(d) \/ lastFired[Hook(d)] = NULL
            fires  == \/ ~t.recurrence
                      \/ Modes[Hook(d)] = "every_event"
                      \/ /\ Modes[Hook(d)] = "throttled"
                         /\ unread \/ clock - lastFired[Hook(d)] >= Window
        IN  /\ Goto(d, IF fires THEN [t EXCEPT !.pc = "post"] ELSE NextHook(t))
            /\ CountError(ok)
    /\ UNCHANGED <<clock, lastFired, signalledAt, cutShort, restarts>>

\* Mutant: the backoff goes on past the deadline.
BackoffUncancelled(t) == clock + t.backoff

\* When the backoff before the next post ends, cut short when the context is cancelled.
Backoff(t) == Min({clock + t.backoff, t.deadline})

\* A failed attempt: another one follows while there are any, also when the context
\* is cancelled already.
AfterFailure(t) ==
    IF t.attempt < MaxAttempts
    THEN [t EXCEPT !.pc = "backoff", !.wake = Max({clock, Backoff(t)})]
    ELSE [t EXCEPT !.pc = "fired", !.outcome = "failed"]

\* httpClient.Do: the receiver takes it, refuses it for good, has a fault or hangs.
\* Nothing is sent once the deadline is past.
Post(d) ==
    LET t    == dispatch[d]
        h    == Hook(d)
        sent == IF t.recurrence
                THEN [t EXCEPT !.sent = [k \in Throttled |->
                                          IF k = h /\ @[k] = NULL THEN clock ELSE @[k]]]
                ELSE t
        slow == IF t.recurrence THEN sent ELSE [t EXCEPT !.slow = @ \union {h}]
    IN  /\ At(d, "post")
        /\ \/ /\ Expired(d)
              /\ Goto(d, AfterFailure(t))
           \/ /\ ~Expired(d)
              /\ \/ \E answer \in {"delivered", "refused"} :
                        Goto(d, [sent EXCEPT !.pc = "fired", !.outcome = answer,
                                        !.heard = IF t.recurrence THEN {} ELSE @ \union {h}])
                 \/ Goto(d, AfterFailure(slow))
                 \/ Goto(d, [slow EXCEPT !.pc = "hang",
                                         !.wake = Min({clock + PerAttemptTimeout, t.deadline})])
        /\ UNCHANGED <<clock, lastFired, signalledAt, cutShort, restarts, errors>>

\* The client or the context times the request out.
TimeOut(d) ==
    /\ At(d, "hang") /\ dispatch[d].wake <= clock
    /\ Goto(d, AfterFailure(dispatch[d]))
    /\ UNCHANGED <<clock, lastFired, signalledAt, cutShort, restarts, errors>>

Retry(d) ==
    /\ At(d, "backoff") /\ dispatch[d].wake <= clock
    /\ Goto(d, [dispatch[d] EXCEPT !.pc = "post", !.attempt = @ + 1,
                                   !.backoff = @ * BackoffMultiplier, !.wake = 0])
    /\ UNCHANGED <<clock, lastFired, signalledAt, cutShort, restarts, errors>>

\* Mutant: the baseline moves only when the receiver took it.
UpsertOnDelivery(t) ==
    [lastFired EXCEPT ![t.hook] = IF t.outcome = "delivered" THEN clock ELSE @]

UpsertWebhookRecurrenceLastFired(t) == [lastFired EXCEPT ![t.hook] = clock]

\* A recurrence advances the throttle however the delivery ended; a stub has no row,
\* and an expired context no statement.
AdvanceBaseline(d) ==
    LET t    == dispatch[d]
        left == [t EXCEPT !.left = [k \in Throttled |-> IF t.recurrence /\ k = Hook(d) THEN clock ELSE @[k]]]
    IN  /\ At(d, "fired")
        /\ \E ok \in IF t.recurrence /\ t.known /\ ~Expired(d) THEN Outcomes ELSE {TRUE} :
            /\ lastFired' = IF ok /\ t.recurrence /\ t.known /\ ~Expired(d)
                            THEN UpsertWebhookRecurrenceLastFired(t) ELSE lastFired
            /\ CountError(ok)
        /\ Goto(d, NextHook(left))
        /\ UNCHANGED <<clock, signalledAt, cutShort, restarts>>

-----------------------------------------------------------------------------
(* The process.                                                            *)

\* SIGTERM: srv.Shutdown closes the listeners, which makes ListenAndServe return.
Shutdown ==
    /\ signalledAt = NULL
    /\ restarts < MaxRestarts
    /\ signalledAt' = clock
    /\ UNCHANGED <<clock, dispatch, lastFired, cutShort, restarts, errors>>

\* main returns, and with it the process ends; a new one takes over.
MainReturns ==
    /\ signalledAt # NULL
    /\ dispatch' = [d \in Dispatches |->
                     IF Running(d) THEN [pc |-> "killed", recurrence |-> dispatch[d].recurrence]
                     ELSE dispatch[d]]
    /\ cutShort' = (\E d \in Dispatches : Running(d) /\ clock - signalledAt < ShutdownTimeout)
    /\ signalledAt' = NULL
    /\ restarts' = restarts + 1
    /\ UNCHANGED <<clock, lastFired, errors>>

\* Time passes while every dispatch waits.
Advance ==
    /\ clock < MaxClock
    /\ \A d \in Dispatches : Running(d) => Waiting(d) /\ dispatch[d].wake > clock
    /\ clock' = clock + 1
    /\ UNCHANGED <<dispatch, lastFired, signalledAt, cutShort, restarts, errors>>

-----------------------------------------------------------------------------

Step(d) ==
    \/ \E recurrence \in BOOLEAN : MaybeFireWebhook(d, recurrence)
    \/ LoadGroupAndHooks(d)
    \/ RecurrenceShouldFire(d)
    \/ Post(d)
    \/ TimeOut(d)
    \/ Retry(d)
    \/ AdvanceBaseline(d)

Next ==
    \/ \E d \in Dispatches : Step(d)
    \/ Shutdown
    \/ MainReturns
    \/ Advance

Spec == Init /\ [][Next]_vars

-----------------------------------------------------------------------------
(* Properties.                                                             *)

\* What there is of a dispatch under way, or over.
DispatchType ==
    [pc : {"load", "gate", "post", "hang", "backoff", "fired", "done"},
     recurrence : BOOLEAN, known : BOOLEAN, deadline : Nat, hook : Nat \ {0},
     attempt : 1 .. MaxAttempts, backoff : Nat, wake : Nat,
     outcome : {"none", "delivered", "refused", "failed"},
     sent : [Throttled -> Nat \union {NULL}], left : [Throttled -> Nat \union {NULL}],
     heard : SUBSET Hooks, slow : SUBSET Hooks]

\* Dispatches, baselines and histories are of their types.
TypeOK ==
    /\ clock \in 0 .. MaxClock
    /\ dispatch \in [Dispatches ->
            DispatchType \union {Unborn} \union [pc : {"killed"}, recurrence : BOOLEAN]]
    /\ \A d \in Dispatches :
            /\ Running(d) => IF At(d, "load") THEN Hook(d) = 1 ELSE Hook(d) \in Hooks
            /\ At(d, "backoff") => dispatch[d].attempt < MaxAttempts
    /\ lastFired \in [Hooks -> (0 .. clock) \union {NULL}]
    /\ signalledAt \in (0 .. clock) \union {NULL}
    /\ cutShort \in BOOLEAN
    /\ restarts \in Nat /\ errors \in 0 .. MaxErrors

\* While no statement fails, a throttled webhook is not told of a recurrence within
\* the window after a dispatch has finished with it, whatever the receiver made of
\* it; unless that dispatch had run out of time, and could not record that it fired.
\* Dispatches under way at once may all have passed the gate.
ThrottleHolds ==
    errors = 0 =>
        \A d, e \in Dispatches : \A h \in Throttled :
            LET s == dispatch[d]
                t == dispatch[e]
            IN  /\ d # e
                /\ s.pc \notin {"unborn", "killed"} /\ t.pc \notin {"unborn", "killed"}
                /\ s.recurrence /\ t.recurrence
                /\ s.left[h] # NULL /\ s.left[h] < s.deadline
                /\ t.sent[h] > s.left[h]
                => t.sent[h] - s.left[h] >= Window

\* A dispatch never outlives its deadline, however many receivers hang.
DispatchIsBounded == \A d \in Dispatches : Running(d) => clock <= dispatch[d].deadline

\* While no statement fails, a single receiver that does not answer keeps no other
\* webhook from hearing of a new group: when the dispatch ends, the others have all
\* been posted to and have answered.
OneDeadReceiverDelaysNobody ==
    errors = 0 =>
        \A d \in Dispatches :
            /\ At(d, "done") /\ ~dispatch[d].recurrence
            /\ \A h, k \in dispatch[d].slow : h = k
            => Hooks \subseteq dispatch[d].heard \union dispatch[d].slow

\* A process that stops lets the dispatches under way finish, or waits for as long as
\* a shutdown may take.
ShutdownDrains == ~cutShort
=============================================================================

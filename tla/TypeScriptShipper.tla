--------------------------- MODULE TypeScriptShipper ---------------------------
(***************************************************************************)
(* The TypeScript SDK's shipper.  There are no threads: a timer chains a    *)
(* pass over the queue onto the pass before it, and shutdown() makes passes *)
(* of its own, chained onto nothing.  A pass gives the processor away only  *)
(* where it awaits an answer or a backoff, and then the application, the    *)
(* timer and the other pass may run; both share the queue and the batch.    *)
(***************************************************************************)
EXTENDS Integers, Sequences, SequencesExt

CONSTANTS Executions,   \* the executions this client reports
          Flushes,      \* calls of flush()
          Events,       \* the events of an execution
          MaxQueue,     \* maxQueue
          BatchSize,    \* batchSize
          MaxRetries,   \* the backoffs of sendWithRetry
          Unencodable,  \* the events whose payload JSON cannot express
          OverCap,      \* those the backend leaves out of a batch it accepts
          MaxChained    \* bound: ticks waiting behind the pass under way

ASSUME ConstantsAssumption ==
    /\ {Events, MaxRetries} \subseteq Nat
    /\ {MaxQueue, BatchSize, MaxChained} \subseteq Nat \ {0}
    /\ Unencodable \union OverCap \subseteq Executions \X (1 .. Events)
    /\ Flushes \intersect (Executions \X (0 .. Events + 1)) = {}   \* a barrier is no item

VARIABLES queue,     \* what waits to be sent: items and barriers
          pending,   \* pendingEvents: the batch being filled
          accepted,  \* history: everything ever put on the queue, in order
          step,      \* the next item each execution submits
          flush,     \* what each flush() has come to
          stopped,   \* shutdown() was called
          chained,   \* ticks that wait for the pass under way
          broken,    \* the chain ends in a rejected promise
          late,      \* shutdown()'s deadline was over before it was through
          pass,      \* the timer's pass and shutdown()'s, and what each holds
          done,      \* history: what has been settled, in order
          delivered, rejected, exhausted,  \* what became of what was sent
          dropped,   \* what the queue had no room for
          stored     \* backend: what it has applied

host     == <<step, flush, stopped>>
counters == <<delivered, rejected, exhausted>>
vars == <<queue, pending, accepted, host, chained, broken, late, pass, done, counters, dropped, stored>>

\* An execution submits its start, its events and its end.
Create(x)  == <<x, 0>>
Update(x)  == <<x, Events + 1>>
Items      == Executions \X (0 .. Events + 1)
IsEvent(i) == i \in Executions \X (1 .. Events)

Passes == {"tick", "drain"}

Idle == [pc      |-> "idle",  \* idle, run, dispatch, send, died, and check and over for shutdown()
         batch   |-> <<>>,    \* the request it sends
         next    |-> <<>>,    \* the item it holds back behind that request
         attempt |-> 0,
         last    |-> FALSE]   \* whether that request ends the pass

Init ==
    /\ queue = <<>>
    /\ pending = <<>>
    /\ accepted = <<>>
    /\ step = [x \in Executions |-> 0]
    /\ flush = [f \in Flushes |-> "idle"]
    /\ stopped = FALSE
    /\ chained = 0
    /\ broken = FALSE
    /\ late = FALSE
    /\ pass = [p \in Passes |-> Idle]
    /\ done = <<>>
    /\ delivered = {}
    /\ rejected = {}
    /\ exhausted = {}
    /\ dropped = {}
    /\ stored = {}

At(p, pc)  == pass[p].pc = pc
Goto(p, s) == pass' = [pass EXCEPT ![p] = s]
Running    == [Idle EXCEPT !.pc = "run"]

\* No pass has the processor.
Free == \A p \in Passes : pass[p].pc \notin {"run", "dispatch"}

-----------------------------------------------------------------------------
(* The application.                                                        *)

HasRoom == Len(queue) < MaxQueue

\* enqueue: what comes after shutdown() is dropped and counted nowhere.
Put(e) ==
    /\ queue' = Append(queue, e)
    /\ accepted' = Append(accepted, e)

\* submitExecutionStart, submitEvent, submitExecutionEnd.
Submit(x) ==
    /\ Free
    /\ step[x] <= Events + 1
    /\ step' = [step EXCEPT ![x] = @ + 1]
    /\ IF ~stopped /\ HasRoom
       THEN Put(<<x, step[x]>>) /\ UNCHANGED dropped
       ELSE /\ dropped' = IF stopped THEN dropped ELSE dropped \union {<<x, step[x]>>}
            /\ UNCHANGED <<queue, accepted>>
    /\ UNCHANGED <<pending, flush, stopped, chained, broken, late, pass, done, counters, stored>>

\* flush(): a barrier that was not queued is waited for all the same.
Flush(f) ==
    /\ Free
    /\ flush[f] = "idle"
    /\ flush' = [flush EXCEPT ![f] = "waiting"]
    /\ IF ~stopped /\ HasRoom
       THEN Put(f) /\ UNCHANGED dropped
       ELSE /\ dropped' = IF stopped THEN dropped ELSE dropped \union {f}
            /\ UNCHANGED <<queue, accepted>>
    /\ UNCHANGED <<pending, step, stopped, chained, broken, late, pass, done, counters, stored>>

FlushTimesOut(f) ==
    /\ Free
    /\ flush[f] = "waiting"
    /\ flush' = [flush EXCEPT ![f] = "false"]
    /\ UNCHANGED <<queue, pending, accepted, step, stopped, chained, broken, late, pass, done, counters, dropped, stored>>

\* shutdown(), up to its first look at the queue: the timer is gone.
Shutdown ==
    /\ Free
    /\ ~stopped
    /\ stopped' = TRUE
    /\ Goto("drain", [Idle EXCEPT !.pc = "check"])
    /\ UNCHANGED <<queue, pending, accepted, step, flush, chained, broken, late, done, counters, dropped, stored>>

\* Mutant: what has been taken off the queue is not drained.
DrainQueueOnly ==
    /\ Free /\ At("drain", "check")
    /\ Goto("drain", IF queue # <<>> THEN Running ELSE [Idle EXCEPT !.pc = "over"])
    /\ UNCHANGED <<queue, pending, accepted, host, chained, broken, late, done, counters, dropped, stored>>

\* drainAll goes on while there is something left and its time is not over; it looks
\* at neither while a pass is under way.
DrainAll ==
    /\ Free /\ At("drain", "check")
    /\ \/ /\ queue # <<>> \/ pending # <<>>
          /\ Goto("drain", Running)
          /\ UNCHANGED late
       \/ /\ queue # <<>> \/ pending # <<>>
          /\ late' = TRUE
          /\ Goto("drain", [Idle EXCEPT !.pc = "over"])
       \/ /\ queue = <<>> /\ pending = <<>>
          /\ Goto("drain", [Idle EXCEPT !.pc = "over"])
          /\ UNCHANGED late
    /\ UNCHANGED <<queue, pending, accepted, host, chained, broken, done, counters, dropped, stored>>

-----------------------------------------------------------------------------
(* The timer.                                                              *)

\* tick: something to do, and a pass is chained on; onto a rejected promise in vain.
Tick ==
    /\ Free
    /\ ~stopped
    /\ queue # <<>> \/ pending # <<>>
    /\ chained < MaxChained
    /\ chained' = chained + 1
    /\ UNCHANGED <<queue, pending, accepted, host, broken, late, pass, done, counters, dropped, stored>>

\* The pass before is over; the next one runs, also after shutdown().
ProcessOnce ==
    /\ Free /\ chained > 0 /\ ~broken
    /\ At("tick", "idle")
    /\ chained' = chained - 1
    /\ Goto("tick", Running)
    /\ UNCHANGED <<queue, pending, accepted, host, broken, late, done, counters, dropped, stored>>

-----------------------------------------------------------------------------
(* One pass: processOnce.                                                  *)

Send(p, batch, next, last) ==
    Goto(p, [pc |-> "send", batch |-> batch, next |-> next, attempt |-> 0, last |-> last])

\* Mutant: the batch is emptied when the answer is there, and not before.
FlushKeepingBatch(p, batch, next, last) ==
    /\ Send(p, batch, next, last)
    /\ pending' = batch

\* The batch is emptied before the request is awaited.
FlushPendingEvents(p, batch, next, last) ==
    /\ Send(p, batch, next, last)
    /\ pending' = <<>>

\* An event joins the batch, which is sent when it is full.
TakeEvent(p) ==
    /\ At(p, "run") /\ queue # <<>> /\ IsEvent(Head(queue))
    /\ queue' = Tail(queue)
    /\ LET batch == Append(pending, Head(queue)) IN
       IF Len(batch) >= BatchSize
       THEN FlushPendingEvents(p, batch, <<>>, FALSE)
       ELSE pending' = batch /\ UNCHANGED pass
    /\ UNCHANGED <<accepted, host, chained, broken, late, done, counters, dropped, stored>>

\* Mutant: what is not an event goes out ahead of the batch.
TakeAhead(p) ==
    /\ At(p, "run") /\ queue # <<>> /\ ~IsEvent(Head(queue))
    /\ queue' = Tail(queue)
    /\ Goto(p, [Idle EXCEPT !.pc = "dispatch", !.next = <<Head(queue)>>])
    /\ UNCHANGED <<pending, accepted, host, chained, broken, late, done, counters, dropped, stored>>

\* What is not an event waits until the batch is out.
TakeOther(p) ==
    /\ At(p, "run") /\ queue # <<>> /\ ~IsEvent(Head(queue))
    /\ queue' = Tail(queue)
    /\ IF pending # <<>>
       THEN FlushPendingEvents(p, pending, <<Head(queue)>>, FALSE)
       ELSE /\ Goto(p, [Idle EXCEPT !.pc = "dispatch", !.next = <<Head(queue)>>])
            /\ UNCHANGED pending
    /\ UNCHANGED <<accepted, host, chained, broken, late, done, counters, dropped, stored>>

\* A barrier is resolved, anything else becomes a request of its own.
Dispatch(p) ==
    LET e == pass[p].next[1] IN
    /\ At(p, "dispatch")
    /\ IF e \in Flushes
       THEN /\ flush' = [flush EXCEPT ![e] = IF @ = "waiting" THEN "true" ELSE @]
            /\ done' = Append(done, e)
            /\ Goto(p, Running)
       ELSE /\ Send(p, <<e>>, <<>>, FALSE)
            /\ UNCHANGED <<flush, done>>
    /\ UNCHANGED <<queue, pending, accepted, step, stopped, chained, broken, late, counters, dropped, stored>>

\* Where a pass leads: the timer's to the next in the chain, shutdown()'s to its loop.
AfterPass(p) == [Idle EXCEPT !.pc = IF p = "tick" THEN "idle" ELSE "check"]

\* The queue is empty: a batch that has waited for the flush interval goes out, and
\* ends the pass.
FlushInterval(p) ==
    /\ At(p, "run") /\ queue = <<>> /\ pending # <<>>
    /\ FlushPendingEvents(p, pending, <<>>, TRUE)
    /\ UNCHANGED <<queue, accepted, host, chained, broken, late, done, counters, dropped, stored>>

\* One that has not waits for the timer's next pass.  shutdown() makes pass after pass
\* meanwhile, without giving the processor to anything but these, and leaves the batch
\* behind when its time is over.
EndPass(p) ==
    /\ At(p, "run") /\ queue = <<>>
    /\ \/ /\ p = "tick" \/ pending = <<>>
          /\ Goto(p, AfterPass(p))
          /\ UNCHANGED late
       \/ /\ p = "drain" /\ pending # <<>>
          /\ Goto(p, [Idle EXCEPT !.pc = "over"])
          /\ late' = TRUE
    /\ UNCHANGED <<queue, pending, accepted, host, chained, broken, done, counters, dropped, stored>>

-----------------------------------------------------------------------------
(* One request: sendWithRetry.  An answer finds the processor free.        *)

Batch(p)     == ToSet(pass[p].batch)
Encodable(p) == Batch(p) \intersect Unencodable = {}
Sending(p)   == Free /\ At(p, "send")

\* What the backend makes of a request.
Wanted(p) == Batch(p) \ OverCap

CanApply(p) ==
    \A i \in Wanted(p) :
        /\ i # Create(i[1]) => Create(i[1]) \in stored
        /\ i # Update(i[1]) => i \notin stored

\* JSON.stringify throws before the first attempt: the pass is rejected, and with the
\* timer's pass everything that is chained onto it.
Die(p) ==
    /\ Sending(p) /\ ~Encodable(p)
    /\ Goto(p, [pass[p] EXCEPT !.pc = "died"])
    /\ broken' = (broken \/ p = "tick")
    /\ UNCHANGED <<queue, pending, accepted, host, chained, late, done, counters, dropped, stored>>

\* The request is settled: the pass goes on with what it held back.
Settle(p) ==
    /\ done' = done \o pass[p].batch
    /\ Goto(p, IF pass[p].last THEN AfterPass(p)
               ELSE IF pass[p].next = <<>> THEN Running
               ELSE [Idle EXCEPT !.pc = "dispatch", !.next = pass[p].next])

\* Mutant: giving up is logged and counted nowhere.
GiveUpUncounted(p) ==
    IF pass[p].attempt < MaxRetries
    THEN Goto(p, [pass[p] EXCEPT !.attempt = @ + 1]) /\ UNCHANGED <<done, exhausted>>
    ELSE Settle(p) /\ UNCHANGED exhausted

RetryOrGiveUp(p) ==
    IF pass[p].attempt < MaxRetries
    THEN Goto(p, [pass[p] EXCEPT !.attempt = @ + 1]) /\ UNCHANGED <<done, exhausted>>
    ELSE Settle(p) /\ exhausted' = exhausted \union Batch(p)

\* The backend answers below 400.
Accepted(p) ==
    /\ Sending(p) /\ Encodable(p) /\ CanApply(p)
    /\ stored' = stored \union Wanted(p)
    /\ delivered' = delivered \union Batch(p)
    /\ Settle(p)
    /\ UNCHANGED <<queue, pending, accepted, host, chained, broken, late, rejected, exhausted, dropped>>

\* It applies the request and the answer never arrives.
AnswerLost(p) ==
    /\ Sending(p) /\ Encodable(p) /\ CanApply(p)
    /\ stored' = stored \union Wanted(p)
    /\ RetryOrGiveUp(p)
    /\ UNCHANGED <<queue, pending, accepted, host, chained, broken, late, delivered, rejected, dropped>>

\* A network error, a timeout or a 5xx.
Transient(p) ==
    /\ Sending(p) /\ Encodable(p)
    /\ RetryOrGiveUp(p)
    /\ UNCHANGED <<queue, pending, accepted, host, chained, broken, late, delivered, rejected, dropped, stored>>

\* A 4xx is not retried.
Refused(p) ==
    /\ Sending(p) /\ Encodable(p)
    /\ rejected' = rejected \union Batch(p)
    /\ Settle(p)
    /\ UNCHANGED <<queue, pending, accepted, host, chained, broken, late, delivered, exhausted, dropped, stored>>

-----------------------------------------------------------------------------

Pass(p) ==
    \/ TakeEvent(p)
    \/ TakeOther(p)
    \/ Dispatch(p)
    \/ FlushInterval(p)
    \/ EndPass(p)
    \/ Die(p)
    \/ Accepted(p)
    \/ AnswerLost(p)
    \/ Transient(p)
    \/ Refused(p)

Shipper ==
    \/ DrainAll
    \/ Tick
    \/ ProcessOnce
    \/ \E p \in Passes : Pass(p)

Next ==
    \/ \E x \in Executions : Submit(x)
    \/ \E f \in Flushes : Flush(f) \/ FlushTimesOut(f)
    \/ Shutdown
    \/ Shipper

\* The timer fires, what is due runs, and an answer comes or is given up for.  The
\* flush interval goes by, however often a pass of the timer finds that it has not.
Spec == Init /\ [][Next]_vars /\ WF_vars(Shipper) /\ SF_vars(FlushInterval("tick"))

-----------------------------------------------------------------------------
(* Properties.                                                             *)

Entries == Items \union Flushes

PassType ==
    [pc : {"idle", "run", "dispatch", "send", "died", "check", "over"},
     batch : Seq(Items), next : Seq(Entries), attempt : 0 .. MaxRetries, last : BOOLEAN]

\* Every variable has its type.
TypeOK ==
    /\ queue \in Seq(Entries) /\ Len(queue) <= MaxQueue
    /\ pending \in Seq(Items) /\ Len(pending) < BatchSize
    /\ accepted \in Seq(Entries) /\ done \in Seq(Entries)
    /\ step \in [Executions -> 0 .. Events + 2]
    /\ flush \in [Flushes -> {"idle", "waiting", "true", "false"}]
    /\ {stopped, broken, late} \subseteq BOOLEAN
    /\ chained \in 0 .. MaxChained
    /\ pass \in [Passes -> PassType]
    /\ \A p \in Passes : Len(pass[p].batch) <= BatchSize /\ Len(pass[p].next) <= 1
    /\ delivered \subseteq Items /\ rejected \subseteq Items /\ exhausted \subseteq Items
    /\ stored \subseteq Items /\ dropped \subseteq Entries

Held(p) == pass[p].batch \o pass[p].next

\* Two passes share the queue and the batch, and yet nothing that was put on the
\* queue is lost between them or taken by both: it is settled, in the hands of one of
\* them, in the batch or on the queue, once.
ItemsAreKept ==
    LET held == done \o Held("tick") \o Held("drain") \o pending \o queue
    IN  ToSet(held) = ToSet(accepted) /\ Len(held) = Len(accepted)

\* Until shutdown() the chain makes one pass follow the other, and everything is
\* sent in the order in which it was submitted, one request at a time.
InOrderUntilShutdown ==
    ~stopped => accepted = done \o Held("tick") \o pending \o queue

\* The shipper delivers in order until it is closed, and nothing else afterwards.
Delivery == INSTANCE OrderedDelivery WITH open <- ~stopped
ImplementsDelivery == Delivery!Spec

Settled == delivered \union rejected \union exhausted

Ahead(f) == {accepted[n] : n \in {m \in DOMAIN accepted :
                \E k \in DOMAIN accepted : accepted[k] = f /\ m < k}} \ Flushes

Complete == rejected = {} /\ exhausted = {} /\ dropped = {}

\* A flush() that resolves to true before shutdown() means that everything submitted
\* ahead of it is settled; and while stats() says complete, that the backend has it,
\* apart from events it left out.
FlushThenStats ==
    ~stopped =>
        \A f \in Flushes : flush[f] = "true" =>
            /\ Ahead(f) \subseteq Settled
            /\ Complete => Ahead(f) \subseteq stored \union OverCap

\* Whatever has been accepted is settled in the end, before shutdown() or by it,
\* unless the deadline cuts the drain off or a payload breaks a pass.
Drains ==
    []<>(\/ ToSet(accepted) \ Flushes \subseteq Settled
         \/ late
         \/ \E p \in Passes : At(p, "died"))

\* "Chain onto the previous tick's promise so we serialize HTTP calls, preserves
\* ordering (POST /executions before PATCH for the same execution)": nothing of an
\* execution is sent while its start is on the way or still to be sent.
StartsFirst ==
    \A x \in Executions, p, o \in Passes :
        At(p, "send") /\ (\E i \in Batch(p) : i[1] = x) /\ Create(x) \in ToSet(Held(o))
            => p = o

\* "True when nothing submitted so far has been lost."
CompleteMeansNothingLost ==
    At("drain", "over") /\ At("tick", "idle") /\ chained = 0 /\ Complete
        => \A x \in Executions, n \in 0 .. Events + 1 : n < step[x] => <<x, n>> \in stored \union OverCap
=============================================================================

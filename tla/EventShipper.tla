------------------------------ MODULE EventShipper ------------------------------
(***************************************************************************)
(* The Python SDK's background shipper: producer threads put items on a    *)
(* bounded queue, one worker thread sends them to the backend in order,    *)
(* events in batches, and counts what became of them.  An action of the    *)
(* worker is one turn of its loop or one attempt of a request; producers,  *)
(* flush() and shutdown() run between any two.                             *)
(***************************************************************************)
EXTENDS Integers, Sequences, SequencesExt

CONSTANTS Executions,   \* the executions this client reports
          Flushes,      \* calls of flush()
          Events,       \* the events of an execution
          MaxQueue,     \* max_queue
          BatchSize,    \* batch_size
          MaxRetries,   \* max_retries
          Unencodable,  \* the events whose payload JSON cannot express
          OverCap       \* those too long for the backend even when truncated

ASSUME ConstantsAssumption ==
    /\ Events \in Nat
    /\ MaxQueue \in Nat \ {0}
    /\ BatchSize \in Nat \ {0}
    /\ Unencodable \union OverCap \subseteq Executions \X (1 .. Events)
    /\ Flushes \intersect (Executions \X (0 .. Events + 1)) = {}   \* a barrier is no item
    /\ MaxRetries \in 0 .. 3   \* the backoffs there are

VARIABLES queue,        \* what waits for the worker: items and barriers
          accepted,     \* history: everything ever put on the queue, in order
          step,         \* producers: the next item each execution submits
          flush,        \* what each flush() has come to
          stop,         \* shutdown() was called
          pending,      \* worker: the events of the batch it is filling
          worker,       \* worker: what it does
          done,         \* history: what it has finished with, in order
          delivered, rejected, exhausted,  \* what became of what it sent
          dropped,      \* what the queue had no room for
          stored        \* backend: what it has applied

producers == <<step, flush, stop>>
counters  == <<delivered, rejected, exhausted>>
vars == <<queue, accepted, producers, pending, worker, done, counters, dropped, stored>>

\* An execution submits its start, its events and its end.
Create(x) == <<x, 0>>
Update(x) == <<x, Events + 1>>
Items     == Executions \X (0 .. Events + 1)
IsEvent(i) == i \in Executions \X (1 .. Events)

\* The worker between two items.
Idle == [pc      |-> "take",    \* take, send, dispatch, stopped, died
         batch   |-> <<>>,      \* the request it sends
         next    |-> <<>>,      \* the item it holds back behind that request
         attempt |-> 0,
         last    |-> FALSE]     \* whether that request is the last of the loop

Init ==
    /\ queue = <<>>
    /\ accepted = <<>>
    /\ step = [x \in Executions |-> 0]
    /\ flush = [f \in Flushes |-> "idle"]
    /\ stop = FALSE
    /\ pending = <<>>
    /\ worker = Idle
    /\ done = <<>>
    /\ delivered = {}
    /\ rejected = {}
    /\ exhausted = {}
    /\ dropped = {}
    /\ stored = {}

-----------------------------------------------------------------------------
(* The application's threads.                                              *)

HasRoom == Len(queue) < MaxQueue

Put(e) ==
    /\ queue' = Append(queue, e)
    /\ accepted' = Append(accepted, e)

\* submit_execution_start, submit_event, submit_execution_end: never blocks, and
\* asks nothing of the worker.
Submit(x) ==
    /\ step[x] <= Events + 1
    /\ step' = [step EXCEPT ![x] = @ + 1]
    /\ IF HasRoom
       THEN Put(<<x, step[x]>>) /\ UNCHANGED dropped
       ELSE dropped' = dropped \union {<<x, step[x]>>} /\ UNCHANGED <<queue, accepted>>
    /\ UNCHANGED <<flush, stop, pending, worker, done, counters, stored>>

\* flush(): a barrier is put on the queue and waited for.
Flush(f) ==
    /\ flush[f] = "idle"
    /\ IF HasRoom
       THEN Put(f) /\ flush' = [flush EXCEPT ![f] = "waiting"]
       ELSE flush' = [flush EXCEPT ![f] = "false"] /\ UNCHANGED <<queue, accepted>>
    /\ UNCHANGED <<step, stop, pending, worker, done, counters, dropped, stored>>

FlushTimesOut(f) ==
    /\ flush[f] = "waiting"
    /\ flush' = [flush EXCEPT ![f] = "false"]
    /\ UNCHANGED <<queue, accepted, step, stop, pending, worker, done, counters, dropped, stored>>

\* shutdown(), whose join may time out long before the worker is through.
Shutdown ==
    /\ ~stop
    /\ stop' = TRUE
    /\ UNCHANGED <<queue, accepted, step, flush, pending, worker, done, counters, dropped, stored>>

-----------------------------------------------------------------------------
(* The worker's loop.                                                      *)

AtTop == worker.pc = "take"
Leave == stop /\ queue = <<>>

Send(batch, next, last) ==
    /\ worker' = [pc |-> "send", batch |-> batch, next |-> next, attempt |-> 0, last |-> last]
    /\ pending' = <<>>

\* An event joins the batch, which is sent when it is full.
TakeEvent ==
    /\ AtTop /\ queue # <<>> /\ IsEvent(Head(queue))
    /\ queue' = Tail(queue)
    /\ LET batch == Append(pending, Head(queue)) IN
       IF Len(batch) >= BatchSize
       THEN Send(batch, <<>>, FALSE)
       ELSE pending' = batch /\ UNCHANGED worker
    /\ UNCHANGED <<accepted, producers, done, counters, dropped, stored>>

\* Mutant: what is not an event goes out ahead of the pending batch.
TakeAhead ==
    /\ AtTop /\ queue # <<>> /\ ~IsEvent(Head(queue))
    /\ queue' = Tail(queue)
    /\ worker' = [Idle EXCEPT !.pc = "dispatch", !.next = <<Head(queue)>>]
    /\ UNCHANGED <<accepted, producers, pending, done, counters, dropped, stored>>

\* What is not an event waits until the pending batch is out.
TakeOther ==
    /\ AtTop /\ queue # <<>> /\ ~IsEvent(Head(queue))
    /\ queue' = Tail(queue)
    /\ IF pending # <<>>
       THEN Send(pending, <<Head(queue)>>, FALSE)
       ELSE /\ worker' = [Idle EXCEPT !.pc = "dispatch", !.next = <<Head(queue)>>]
            /\ UNCHANGED pending
    /\ UNCHANGED <<accepted, producers, done, counters, dropped, stored>>

\* A barrier is signalled, anything else becomes a request of its own.
Dispatch ==
    LET e == worker.next[1] IN
    /\ worker.pc = "dispatch"
    /\ IF e \in Flushes
       THEN /\ flush' = [flush EXCEPT ![e] = IF @ = "waiting" THEN "true" ELSE @]
            /\ done' = Append(done, e)
            /\ worker' = Idle
       ELSE /\ worker' = [Idle EXCEPT !.pc = "send", !.batch = <<e>>]
            /\ UNCHANGED <<flush, done>>
    /\ UNCHANGED <<queue, accepted, step, stop, pending, counters, dropped, stored>>

\* queue.get() timed out: the flush interval is over.
FlushInterval ==
    /\ AtTop /\ queue = <<>> /\ pending # <<>>
    /\ Send(pending, <<>>, FALSE)
    /\ UNCHANGED <<queue, accepted, producers, done, counters, dropped, stored>>

\* Mutant: the worker leaves as soon as it is told to.
LeaveAtOnce ==
    /\ AtTop /\ stop
    /\ IF pending # <<>>
       THEN Send(pending, <<>>, TRUE)
       ELSE worker' = [Idle EXCEPT !.pc = "stopped"] /\ UNCHANGED pending
    /\ UNCHANGED <<queue, accepted, producers, done, counters, dropped, stored>>

\* Told to stop and nothing queued: the last batch goes out.
LeaveLoop ==
    /\ AtTop /\ Leave
    /\ IF pending # <<>>
       THEN Send(pending, <<>>, TRUE)
       ELSE worker' = [Idle EXCEPT !.pc = "stopped"] /\ UNCHANGED pending
    /\ UNCHANGED <<queue, accepted, producers, done, counters, dropped, stored>>

-----------------------------------------------------------------------------
(* One request, with retries.                                              *)

Sending == worker.pc = "send"
Batch   == ToSet(worker.batch)

\* What the backend makes of a request.  Events over its cap are left out, and
\* the answer is a success; for the others a primary key stops it from applying a
\* start or a batch of events twice, a foreign key stops events of an unknown
\* execution, and an update of one finds no row.
Wanted == Batch \ OverCap

CanApply ==
    \A i \in Wanted :
        /\ i # Create(i[1]) => Create(i[1]) \in stored
        /\ i # Update(i[1]) => i \notin stored

Encodable == Batch \intersect Unencodable = {}

\* json.dumps raises before the first attempt, and nothing catches it: the thread
\* ends, and whoever keeps submitting is not told.
Die ==
    /\ Sending /\ ~Encodable
    /\ worker' = [worker EXCEPT !.pc = "died"]
    /\ UNCHANGED <<queue, accepted, producers, pending, done, counters, dropped, stored>>

\* The request is settled: the worker goes on with what it held back.
Settle ==
    /\ done' = done \o worker.batch
    /\ worker' = [Idle EXCEPT
                     !.pc   = IF worker.last THEN "stopped"
                              ELSE IF worker.next = <<>> THEN "take" ELSE "dispatch",
                     !.next = worker.next]

\* Mutant: giving up is logged and counted nowhere.
GiveUpUncounted ==
    IF worker.attempt < MaxRetries
    THEN worker' = [worker EXCEPT !.attempt = @ + 1] /\ UNCHANGED <<done, exhausted>>
    ELSE Settle /\ UNCHANGED exhausted

RetryOrGiveUp ==
    IF worker.attempt < MaxRetries
    THEN worker' = [worker EXCEPT !.attempt = @ + 1] /\ UNCHANGED <<done, exhausted>>
    ELSE Settle /\ exhausted' = exhausted \union Batch

\* The backend answers below 400.
Accepted ==
    /\ Sending /\ Encodable /\ CanApply
    /\ stored' = stored \union Wanted
    /\ delivered' = delivered \union Batch
    /\ Settle
    /\ UNCHANGED <<queue, accepted, producers, pending, rejected, exhausted, dropped>>

\* It applies the request and the answer never arrives.
AnswerLost ==
    /\ Sending /\ Encodable /\ CanApply
    /\ stored' = stored \union Wanted
    /\ RetryOrGiveUp
    /\ UNCHANGED <<queue, accepted, producers, pending, delivered, rejected, dropped>>

\* A network error or a 5xx, which a duplicate or an orphan event is also given.
Transient ==
    /\ Sending /\ Encodable
    /\ RetryOrGiveUp
    /\ UNCHANGED <<queue, accepted, producers, pending, delivered, rejected, dropped, stored>>

\* A 4xx is not retried.
Refused ==
    /\ Sending /\ Encodable
    /\ rejected' = rejected \union Batch
    /\ Settle
    /\ UNCHANGED <<queue, accepted, producers, pending, delivered, exhausted, dropped, stored>>

Worker ==
    \/ TakeEvent
    \/ TakeOther
    \/ Dispatch
    \/ FlushInterval
    \/ LeaveLoop
    \/ Die
    \/ Accepted
    \/ AnswerLost
    \/ Transient
    \/ Refused

Next ==
    \/ \E x \in Executions : Submit(x)
    \/ \E f \in Flushes : Flush(f) \/ FlushTimesOut(f)
    \/ Shutdown
    \/ Worker

\* The worker is a thread of a running process, and a request ends: httpx gives
\* up on it when its timeout is over.
Spec == Init /\ [][Next]_vars /\ WF_vars(Worker)

-----------------------------------------------------------------------------
(* Properties.                                                             *)

Entries == Items \union Flushes

WorkerType == [pc      : {"take", "send", "dispatch", "stopped", "died"},
               batch   : Seq(Items),
               next    : Seq(Entries),
               attempt : 0 .. MaxRetries,
               last    : BOOLEAN]

\* Every variable has its type.
TypeOK ==
    /\ queue \in Seq(Entries) /\ Len(queue) <= MaxQueue
    /\ accepted \in Seq(Entries)
    /\ step \in [Executions -> 0 .. Events + 2]
    /\ flush \in [Flushes -> {"idle", "waiting", "true", "false"}]
    /\ stop \in BOOLEAN
    /\ pending \in Seq(Items) /\ Len(pending) < BatchSize
    /\ worker \in WorkerType
    /\ Len(worker.batch) <= BatchSize /\ Len(worker.next) <= 1
    /\ done \in Seq(Entries)
    /\ delivered \subseteq Items /\ rejected \subseteq Items
    /\ exhausted \subseteq Items /\ dropped \subseteq Items
    /\ stored \subseteq Items

\* The worker finishes with everything in the order in which it was submitted,
\* once each, and whatever it is not finished with it still holds: nothing is
\* lost between the queue, the batch, the item held back and the request.
WorksThroughInOrder ==
    accepted = done \o worker.batch \o worker.next \o pending \o queue

\* The shipper delivers in order, also after shutdown().
Delivery == INSTANCE OrderedDelivery WITH open <- TRUE
ImplementsDelivery == Delivery!Spec

\* What became of an item the worker is through with.
Settled == delivered \union rejected \union exhausted

Ahead(f) == {accepted[n] : n \in {m \in DOMAIN accepted :
                \E k \in DOMAIN accepted : accepted[k] = f /\ m < k}}

\* When flush() returns True and stats() then says complete, everything that was
\* submitted before the flush has been applied by the backend, apart from events
\* it silently left out.
Complete == rejected = {} /\ exhausted = {} /\ dropped = {}

FlushThenStats ==
    \A f \in Flushes : flush[f] = "true" =>
        /\ Ahead(f) \ Flushes \subseteq Settled
        /\ Complete => Ahead(f) \ Flushes \subseteq stored \union OverCap

\* What is on the queue when shutdown() is called is settled all the same, as long
\* as no event kills the worker.
Drains ==
    \A i \in Items :
        (i \in ToSet(queue) /\ ~stop) ~> (i \in Settled \/ worker.pc = "died")

\* "True when nothing submitted so far has been lost": also once an event
\* has killed the worker, stats().complete means that all of it is at the backend.
CompleteMeansNothingLost ==
    worker.pc = "died" /\ Complete
        => ToSet(accepted) \ Flushes \subseteq stored

=============================================================================

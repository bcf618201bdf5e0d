# Mesedi in TLA+

A formal model of the parts of Mesedi whose correctness depends on the order in
which things happen: the checkpoint chain, the lifecycle of an execution, the
grouping of failures and the webhooks that report it, the event shippers of both
SDKs, budget ceilings and remote halts, pay-per-use and subscription billing, and
the members and keys of an organisation. Each part is a TLA+ module translated
from the code and checked with TLC on small instances, and TLAPS proves its safety
properties for every value of the constants.

Paths are relative to the repository (`src/`); `PROJECT.json` maps every
definition to its lines.

## 1. The system

```
 host application ──submit──► event shipper ──HTTP──► backend (Go, one or two processes)
   observe, wrap, tool         queue, batches           │
   host control plane ─────PATCH /executions/{id}───────┤ cap check, usage counter
   halt-stream reader ◄───── halt frames (SSE) ─────────┤
                                                        ▼
                                          executions, events (Postgres)
                                             │            │         ▲
                   detectors on a PATCH ─────┘            │         │ prune
                        │                                 │      retention ◄── window clamped
                        ▼                                 ▼                      by the plan
            failure_groups, links            CheckpointScheduler (hourly)           ▲
                        │                     seal ─ close ─ insert ─ anchor        │
                        ▼                                 │              Stripe webhooks
              webhook dispatches                checkpoints ──► transparency log    │
                                                                                    ▼
   dashboard ── members, invites, keys, cards, ceilings ──► projects row ◄── HobbyBillingScheduler
                                                                 BudgetCeilingScheduler ──► halts
```

| Component | State it keeps | Operations | Talks to | Hard behaviour | Correct when |
|---|---|---|---|---|---|
| **Checkpoint chain** `backend/internal/api/checkpoint_scheduler.go`, `attest/checkpoint.go`, `store/postgres_checkpoints.go`, `store/postgres_execution_sealing.go`, `api/verdifax_anchorer.go` | `executions.sealed_at`; `checkpoints`, `checkpoint_tenant_leaves`; anchor columns; the external log | seal, count, build leaves, insert, anchor, record, re-read | executions table, Verdifax, retention | two processes in a rolling deploy, death between log and table, log outages, client clocks, pruning meanwhile | the verifier accepts it, nothing on record is omitted or repeated, nothing is rewritten, it catches up |
| **Execution lifecycle** `api/handlers_update_execution.go`, `store/postgres_executions.go` | status, paused_at, total_paused_ms, pause_count, ended_at | PATCH: check, pause, resume, flush, update | SDK, host control plane, detectors | check-then-act, death between two statements, retries | ended means ended, paused time is a part of the run |
| **Failure grouping** `store/postgres_failure_grouping.go`, `postgres_failure_group_records.go` | failure_groups, execution_failure_groups, executions.failure_group_id | group, resolve, unresolve | detectors, webhooks | five statements and no transaction | counts match members, one primary, new groups announced |
| **Webhook delivery** `internal/webhooks/dispatcher.go`, `api/webhook_dispatch.go`, `cmd/api/main.go` (shutdown) | goroutines; last firing per group and webhook | dispatch, retry, back off, throttle, shut down | receivers | throttle read and written apart, a deadline all receivers share, a stopping process | throttled, bounded, one dead receiver delays nobody |
| **Event shippers** `sdk-python/mesedi/_shipper.py`, `sdk-typescript/src/client.ts` | bounded queue, batch, counters | submit, flush, shutdown, worker or ticks, retry | host threads, backend | lost answers, duplicates, full queue, a drain beside an awaiting tick, worker death | in order, nothing lost silently, drained at shutdown |
| **Ingest** `api/handlers_ingest.go`, `api/ingest_validation.go` | rows of executions and events, the usage counter | create, append events | shipper, chain, billing | late events, over-cap events, the cap check | see chain, shippers, Hobby billing |
| **Retention** `store/postgres_retention.go` | none | prune by age | everything stored | pruning beside the scheduler | nothing half-pruned enters the chain |
| **Hobby billing** `api/hobby_billing_scheduler.go`, `billing_payment_method_remove.go`, parts of `billing.go` | usage counter, period bounds, failures, last attempt, customer, card | tick: charge, record, detach, roll over; attach and remove a card | Stripe, ingest, AI analysis | two schedulers, death after a charge, forgotten idempotency keys, rows read before and written after | one charge per period, spaced attempts, the meter stops |
| **Plan tiers and billing** `api/billing.go`, `tier_change_cascade.go`, `handlers_retention_budget_config.go` | tier, subscription, period, retention window | checkout, Stripe's events, downgrade, clamp, overage, edit the window | Stripe, retention | events reordered, delivered twice, handlers that fail half-way | the tier follows the subscription, the window fits the tier, overage is invoiced once |
| **Budget ceilings** `api/budget_ceiling_scheduler.go` | the tenant's ceiling, action, breached_at | roll over, sum, mark, notify, halt | halt stream, mail, tenant's webhook | death between mark and notice | one notice a month, every breach announced |
| **Halt stream** `api/halt_subscribers.go`, `sdk-python/mesedi/halt_stream.py`, `halt.py`, `wrap.py` | subscribers per process | register, publish, clean up, check | SDK over SSE | publish before register, full channel, restarted process | a halt reaches the run it was meant for, and no other |
| **Organisations, roles and API keys** `api/handlers_team.go`, `handlers_api_keys.go`, `rbac.go`, `signup.go`, their stores | members, invites, keys, sessions | bootstrap, change role, remove, invite, accept, mint, revoke | signup, sign-in | counts read before the delete, invites redeemed twice | an invite mints one key, keys go with their member, the last admin and key stay |
| **Export and proofs** `attest/export.go`, `attest/interval_proof.go` | none | pure functions | stored rows | – | re-derivation |
| **Abuse limits, audit, DLP, detectors, AI analysis, admin, dashboards, instrumentation, tools** | rows of their own | mostly one statement each | – | little | – |

`PROJECT.json` lists them all with their status, and every hazard found in the
code at the line where it bites.

## 2. Modules

| Module | What it is |
|---|---|
| `CheckpointChain` | the scheduler, everything around it, and the properties of the chain |
| `AnchoredLedger` | the abstract specification: an append-only ledger that grows only behind an anchored entry |
| `CheckpointChainInvariants` | the inductive strengthening, conjunct by conjunct |
| `CheckpointChainProofs` | its proofs, and that the chain implements the ledger |
| `ExecutionLifecycle` | one execution under PATCH requests, and its invariant `SerialInv` |
| `FailureGrouping` | the grouping statements, with `CountInv` and `GroupingInv` |
| `WebhookDispatch` | the dispatches that grouping starts, and the process they run in |
| `GroupAlertProofs` | the proofs of `CountInv` and `GroupingInv`; of the dispatches, `BoundedInv`, `ThrottleInv`, and `Punctual` for a receiver that hangs |
| `EventShipper`, `TypeScriptShipper` | the two shippers and what the backend makes of their requests |
| `OrderedDelivery` | the abstract specification of both: a log whose entries are settled in order until it is closed |
| `ReportingProofs` | of the Python shipper, `ShipperInv`, the two properties it carries and the refinement; of the lifecycle, the proofs about `SerialInv` |
| `TypeScriptShipperProofs` | `ShipperInv` of the other shipper, the three properties it carries and the refinement |
| `HobbyBilling` | one pay-per-use project: usage, the daily tick, its card, Stripe |
| `HobbyBillingProofs` | `MeterInv`, `RefusedInv`, `SpacedInv`, `OnceInv`, `OverdueInv` |
| `PlanTier` | one subscribed project: Stripe's events, the plan, the window, the invoice |
| `PlanTierProofs` | `RetentionInv` and `TierInv` for one webhook at a time, `OverageInv` for any number |
| `BudgetHalt` | one tenant's ceiling and the halts it sends to running agents |
| `BudgetHaltProofs` | `HaltInv`, and `NoticeInv` for a single scheduler |
| `Organization` | the team, invites and keys of one project |
| `OrganizationProofs` | `BaseInv`, `MintsOnce`, `LastInv` and `KeysInv` |
| `MC*` | instances for TLC: model values, symmetry, a view |

Operators whose comment starts with "Mutant:" are not part of a specification.
Each is a plausible mistake in the definition below it; `PROJECT.json` names the
property that catches it.

Where a statement or a call may fail, `Outcomes` offers the failure while
`errors < MaxErrors`; a death of a process is an action of its own, bounded by
`MaxCrashes` or `MaxRestarts` (in `BudgetHalt`, `MaxFaults` bounds both together). A property that holds only as long as nothing of
the kind has happened says so (`errors = 0 => ...`), and what happens otherwise is
in section 6.

### CheckpointChain

*State.* `row`, `startedAt`, `endedAt`, `sealedAt` and `events` are the columns
of an execution that the scheduler or the retention worker looks at.
`checkpoints` is the table with its tenant leaves, `anchors` its
`log_entry_id` column, `log` the transparency log. `tick[s]` and `leaves[s]`
are the local variables of a scheduler's current tick; they vanish when it ends.

*Actions.* One per statement or request, in the order of the code:

| Action | Code |
|---|---|
| `Wake` | `tick` reads the clock once |
| `SealExecutions` | `UPDATE executions SET sealed_at` for ended and settled, or timed-out runs |
| `LatestCheckpoint`, `GetCheckpointAnchor` | the head, and whether it is anchored |
| `AnchorCheckpoint`, `AnchorCheckpointFails` | the request to the log; it may have taken a hash whose answer never came |
| `MarkCheckpointAnchored`, `MarkFails` | `UPDATE ... WHERE anchored_at IS NULL` |
| `RereadAnchor` | the second read after a retried anchor |
| `CountSealedByProject` | `nextInterval`, and the count that opens `buildLeaves` |
| `BuildLeaf` | the reads of one tenant's leaf, refused when its rows are gone |
| `InsertCheckpoint` | `BuildCheckpoint`'s refusals, the primary key, one transaction |
| `Abort` | an error return, a cancelled context, the death of the process |
| `HandleCreateExecution`, `HandleIngestEvents`, `HandleUpdateExecution`, `DeleteExecutionsOlderThan`, `ClockTick` | what happens around it |

*Abstractions.* A hash is a tagged copy of what it commits to, so equal hashes
mean equal contents. A digest of an execution is the number of its stored
events. Reads that make up one leaf are one step, and the order of tenants is
fixed. The anchorer's HTTP errors are all the one action `AnchorCheckpointFails`.
All processes read one wall clock; only clients' timestamps may lag behind it.

### ExecutionLifecycle

*State.* The row's status, `paused_at`, `total_paused_ms`, `pause_count`,
`ended_at`; per request its next statement and what it has read. A row begins with
whatever status its `POST` brings, "awaiting_human" without a `paused_at` and terminal
ones included: the handler fills in an empty one and checks nothing. *Actions*:
`GetExecution` (read and check), `PauseExecution`, `ProbePause` and
`ResumeExecution` (the two statements of the store's function), `UpdateExecution`,
`Abort`. `Overlap` is FALSE for a client that sends one request at a time, TRUE
when the host's own threads PATCH the same execution.

### FailureGrouping

*State.* The three tables as sets and functions; `announced` and `failed` are
history. *Actions*: `ReadPrimary`, `ProbeExistence`, `UpsertGroup`,
`LinkExecution`, `UndoCount`, `SetPrimary` in the order of
`groupExecutionInternalPg`, `FireForNewGroup` for its return value, `Fail` for an
error or a death after any of them, `ResolveFailureGroup` and
`UnresolveFailureGroup`. A detection is a nondeterministic choice of an execution
and a group. Which of an execution's calls may overlap is the constant `Retried`.

### EventShipper

*State.* `queue`, `pending` (the batch being filled), `worker` (its place in the
loop, the request it sends, the item it holds back), the counters as sets of
items, `stored` for the backend, `accepted` and `done` as histories. *Actions*:
`Submit`, `Flush`, `FlushTimesOut`, `Shutdown` of the host's threads; `TakeEvent`,
`TakeOther`, `Dispatch`, `FlushInterval`, `LeaveLoop` for the turns of `_run`;
`Accepted`, `AnswerLost`, `Transient`, `Refused`, `Die` for an attempt of
`_send_with_retry`. The backend refuses duplicates and orphans by its keys and
leaves over-cap events out of a batch it otherwise accepts.

### TypeScriptShipper

*State.* As in `EventShipper`, with two passes in place of a worker: the timer's
(`"tick"`) and the one `shutdown()` makes itself (`"drain"`). Both share `queue` and
`pending`; each holds the request it awaits. `chained` is the number of ticks whose
promise waits for the pass under way; `broken` says that the chain ends in a rejected
promise. JavaScript has no threads: between two awaits a pass runs alone, so the
turns of a pass are actions that only `Free` lets others come between, and the
application, the timer and the other pass run where a pass awaits an answer.

*Actions.* `Submit`, `Flush`, `FlushTimesOut`, `Shutdown` of the application; `Tick`
and `ProcessOnce` of the timer, `DrainAll` of `shutdown()`; `TakeEvent`, `TakeOther`,
`Dispatch`, `FlushInterval`, `EndPass` for the turns of `processOnce`; `Accepted`,
`AnswerLost`, `Transient`, `Refused`, `Die` for an attempt. That the flush interval
or the drain's deadline has passed is a choice.

### WebhookDispatch

*State.* Per dispatch the webhook it is at, its attempt, its deadline and what it has
been answered; `lastFired`, the recurrence state of each webhook; the shutdown signal.
*Actions.* `MaybeFireWebhook` starts a dispatch from any grouping call;
`LoadGroupAndHooks`, `RecurrenceShouldFire`, `Post`, `TimeOut`, `Retry`,
`AdvanceBaseline` are its steps; `Shutdown`, `MainReturns` the process.
*Abstractions.* Only what takes time in production takes time here: a request that
hangs, and a backoff. Everything else is an instant, in which dispatches interleave
in any order. One group; the filters by class and severity have let its webhooks pass.

### HobbyBilling

*State.* `project` is the row's billing columns; `tick[s]`, `setup`, `hook` and
`removal` hold what a scheduler's tick, the checkout request, the webhook and the
removal have read. Stripe is `customers`, `cards`, `intents` and `payments`: a request
under a key it still knows (`KeyLife` days) is answered again, and refused when it
asks for something else.

| Action | Code |
|---|---|
| `AdmitExecution`, `CountExecution` | the cap check of an ingest request, and the increment after the insert |
| `HandleAnalyzeFailureGroup`, `SaveFailureGroupAnalysis` | the quota check of an analysis, and its stamp |
| `ListProjectsForHobbyBillingTick` | the list of candidates, with the rows every later step works from |
| `Rollover`, `Price`, `ChargeOffSession`, `RecordAttempt`, `DetachCard` | the rest of a tick |
| `HandleCreateSetupCheckout`, `PersistCustomer`, `CompleteCheckout` | a new customer, its row, the card |
| `HandleSetupIntentSucceeded`, `BootstrapBounds`, `MarkCardAttached` | the webhook of a saved card |
| `HandleRemovePaymentMethod`, `SettleOnRemoval`, `DetachAtStripe`, `ClearCard`, `ResetOnRemoval` | removing it |
| `Crash`, `Day` | a process dies; a day goes by |

*Abstractions.* One project. Time is the day, and a tick, a request and a webhook
are through on the day they begin (`Quiet`); a day is where a scheduler comes back.
Where the order of two instants of a day matters, both are possible. A tick compares its
own time, read before it does anything, with the time of the last attempt, stamped when
Stripe had answered: two daily ticks `RetryCadence` days apart are too close together, so
that the attempts of one process are `RetryCadence + 1` days apart (`MaybeTooSoon`); after
a restart at another time of day they may be `RetryCadence`.
An execution over the quota costs one unit. Requests and webhooks that fail are not
sent again by anybody.

### PlanTier

*State.* The row's tier, customer, subscription, period start, counter and retention
window; per worker the event it handles and what it has read; the settings request;
Stripe's subscriptions, its undelivered events (`pending`), those of this period that
may come again (`delivered`), and the invoice items.
*Actions.* Of Stripe: `CompleteCheckout`, `CancelNow`, `AnnounceInvoice`, `EndPeriod`,
`Deliver` (any pending event, in any order, and once more while `MaxRedeliveries`
allows); of a handler: `HandleCheckoutCompleted`, `GetProjectByStripeCustomerID`,
`HandleSubscriptionUpdated`, `HandleSubscriptionDeleted`, `ReadRetention`,
`ClampRetentionForTier`, `HandleInvoicePaid`, `HandleInvoiceUpcoming`; of the
customer: `HandleCreateCheckout`, `HandleDowngradeToHobby`, `HandleSetRetention`,
`SetProjectRetentionDays`, `IncrementExecutionsThisPeriod`,
`SaveFailureGroupAnalysis`.
*Abstractions.* Time is the number of the billing period; a period ends when no
event is under way (`Quiet`), as a period is a month and Stripe's retries take days.
A retention window is one of what Hobby allows, what Team allows, and for ever.

### BudgetHalt

*State.* `row`, the tenant's ceiling, action and `breached_at`; per run the agent's
side (running, told to halt) and its row, which may be waiting for a human, ended or
deleted; per run its halt stream, from the SDK's
connection to the channel in one process's registry; `tick[p]`, a scheduler's place
and the row it read. *Actions.* `ListTenantBudgetCeilings`, `Rollover`, `Evaluate`,
`PersistBreach`, `SendBudgetCeilingBreach`, `PostBreachWebhook`, `ListActive`,
`TriggerHalt` (one execution of the fan-out) of the scheduler; `HandleTriggerHalt` of
an operator; `HandleHaltStream`, `SendHaltFrame`, `EndStream` of the stream;
`StartExecution`, `CreateExecution`, `UpdateExecutionCost`, `PauseExecution`,
`ResumeExecution`, `UpdateExecution`, `SignalRemoteHalt`, `CheckOrHalt`, `EndRun` of the
agent; `DeleteExecutionsOlderThan` of the retention worker;
`HandleUpsertBudgetCeiling`, `Crash`, `NextMonth`.
*Abstractions.* Time is the calendar month, the unit in which the code compares a
breach with now. A run costs at most `MaxCost`; a price that comes later replaces the one
before, and may be lower for the runs in `Corrected`. Only runs in `Supervised` pause for
a human. Retention deletes the oldest runs of a project, those of this month too when its
window is shorter. A run that is not `Budgeted` has no checkpoint at which it would notice
a halt.

### Organization

*State.* Whether the project has an organisation yet, the role of each member, the
invites, the keys, whether the owner has a session; per request its next statement,
what it was called with, and what it has seen: the admins, or the keys, that its decision
rests on. `raced` is history: whose key was on its way when the user's keys were deleted.
*Actions.* A request arrives as one of
`HandleUpdateMemberRole`, `HandleRemoveMember`, `HandleCreateInvite`,
`HandleRevokeInvite`, `HandleAcceptInvite`, `HandleCreateAPIKey`,
`HandleRevokeAPIKey` or a view; `AddOwner` and `SetProjectTenantID` are the
organisation a project gets when it has none; the others are one statement each;
`CutShort` is a failed statement, a cancelled context or a death after any of them.
`HandleSignin` makes the owner, member or not, a hidden key and mostly a session.
*Abstractions.* One project. Authentication and the role check are one step, when the
request arrives. "read" stands for "write" too: these handlers tell admins from
others only. The keys of operators, the verified-email gate, the second factor and
suspension are left out; a member without a key of its own acts
through the owner's session or not at all. `TeamTier` is a constant; `Init` is
whatever the best-effort steps of a signup leave behind.

## 3. Runs

| Run | Question | Bounds, and why they are enough |
|---|---|---|
| `chain_overlap` | Do two racing schedulers, dying anywhere, keep the chain sound? | Two schedulers, two executions of one tenant (a sub-chain of two leaves), three instants, one interval per tick. The race is for one interval, and its next is enough to see the effect. |
| `chain_single` | Is nothing omitted while clients date timestamps back and rows are pruned, and does the chain catch up? | One scheduler under fairness, one execution with an event, three instants, settle time 1, timeout 2, retention 2, two intervals per tick, a client clock 1 behind, one log entry without a record: an execution is created, ended or timed out, settled, sealed, chained and pruned. The last instant stands for an outage that is over. |
| `lifecycle_serial` | Are serial PATCHes sound when handlers die? | Two slots, three pauses, six clock ticks, a row created in any status: a pause flushed by an ending after one resumed. |
| `grouping` | Do interleaved calls keep counts, primaries and announcements right? | Two calls over two executions and two groups, one execution with overlapping calls, counts that start at most at 2. |
| `shipper` | Is anything reordered, lost or miscounted? | One execution of three events, queue and batch of two, one retry: a full queue, a full batch, a partial batch, an over-cap event, an event that kills the worker, a flush and a shutdown. |
| `ts_shipper` | The same of the other SDK, with a drain beside the ticks | As `shipper`; one tick chained behind the pass under way, which is where a second pass would start from. |
| `webhook_dispatch` | Does the throttle hold, and does one dead receiver stay its own problem? | Two dispatches over an unthrottled and a throttled webhook, window 4, two attempts of 1 with a backoff of 1, so that one dead receiver fits into the deadline of 4 and two do not; six instants, one restart, one failed statement. |
| `hobby_overlap` | Is a period charged once, and does the meter stop? | Two schedulers, an ingest request, an analysis, a card attached and removed, all interleaved; three days of a period of two, keys forgotten after one day; no faults. |
| `hobby_retries` | Do failed attempts come at their pace and to their end? | One scheduler over fifteen days, a period of six, two attempts two to three days apart and two customers: an attempt, its retry, the loss of the card and a new one; one death and one failed statement or lost answer. |
| `budget_halt` | Is each breach told once, and does it stop those it should? | One process, two runs, one of them without a budget, the other pausing and with a cost that is corrected, two months, deletions, edits of the row, one death or failed statement: a breach recorded, told and halted, taken back, another next month. |
| `plan_tier` | Do plan, window and invoice follow Stripe's events? | One subscription over two periods, two uses, one event twice, one failure: opened, used, renewed, cancelled at once or at the period's end, every event of a period before or after every other. |
| `organization` | Do invites, members and keys go together? | The owner and one more user, one invite, three keys, two requests, sign-ins, one failure or death: an invite redeemed twice at once, a member removed while a key is minted, two admins who remove or demote one another, two revocations at once. |

`NothingPruned`, the view of `chain_overlap`, hides the timestamps of sealed
executions: only the retention worker looks at them, and there it never acts.
Symmetry is over schedulers, executions of one tenant, groups, calls, dispatches,
requests, invites and keys, and no property checked under it is a liveness property
(the ledger's `Spec` has no fairness).

Deadlock is checked in the runs of the chain, the lifecycle, grouping and
`budget_halt`. In the others the system may come to rest: a shipper after
`shutdown()` or the death of its worker, dispatches that have ended, the last day,
the last billing period, every key and invite used.

Wider instances, run by hand with the same result: `organization` with a first key of
the owner or of nobody, as before migration 014 (2.8 million states); `hobby_overlap` with
two customers over four days and no removals (0.4 million).

### Bounds

`MaxClock`, `MaxMonth`, `MaxPeriod` end time; `MaxEvents`, `MaxWasted`, `MaxCount`,
`MaxPauses`, `MaxChained`, `MaxCost`, `MaxUse`, `MaxCustomers`, `MaxSubscriptions`,
`Invites` and `Keys` end what may happen any number of times; `MaxInFlight` limits what
is handled at once; `MaxErrors`, `MaxCrashes`, `MaxFaults`, `MaxRestarts`,
`MaxRedeliveries` are budgets of faults.

### Properties

*Chain.* `ChainVerifies` and `SubChainsVerify` are the verifier's checks
(`VerifyChain`, `VerifyTenantSubChain`) of what schedulers write.
`LinksReachTheLog`: a link names the *recorded* entry of its predecessor,
and the log holds its hash there. `ChainedAtMostOnce` and `NoOmission`: in one
interval at most, in the right one at least. `ImplementsLedger`: the abstract
specification; with it, rows and anchors never change (`Permanent`, proved, says so of
seals too). `CatchesUp`: liveness.

*Lifecycle.* `TerminalIsFinal`, `WaitingIsPaused` (of every run that has ever paused),
`PausedTimeFitsTheRun`.

*Grouping.* `NeverUndercounts`, `CountsExactly`, `PrimaryIsTheFirst`,
`NewGroupsAreAnnounced`.

*Shippers.* `WorksThroughInOrder` (what was accepted is what is done, in flight and
queued, in that order), which in TypeScript is `InOrderUntilShutdown`, and
`ItemsAreKept` from then on; `FlushThenStats` (a successful flush followed by a
complete `stats()` means the backend has it); `Drains` (what has been accepted is
settled in the end, by the worker or by `shutdown()`).

*Webhooks.* `ThrottleHolds` (no second recurrence within the window, whatever the
receiver did with the first), `DispatchIsBounded`, `OneDeadReceiverDelaysNobody`.

*Hobby billing.* `OneChargePerPeriod` (the idempotency key alone keeps the ticks of
two processes to one charge), `AttemptsAreSpaced` (also across a death: the successor's
attempt has the key of the one it does not know of), `DetachesOnlyAtCeiling`,
`OverdueIsBounded` (a period that is over is charged for, or its card is gone, within
the attempts, each a day after the cadence), `MeterStops` (usage passes the cap by no more than was in flight).

*Plans.* `RetentionFitsTier`, `TierFollowsSubscription`, `OverageInvoicedOnce`. Each
names the orders in which it does not hold; they are in section 6.

*Budgets.* `OneNoticePerMonth`, `BreachIsAnnounced` (at most and at least; a burn that a
deletion or a correction takes back may be neither), `HaltHasACause`, `FanOutHalts`
(of those that are active when they are listed).

*Organisations.* `OneKeyPerInvite`, `KeysGoWithTheMember`, `LastAdminStays`,
`LastKeyStays`, with requests that overlap in any way. The checks of the last admin and
the last key protect as far as what they looked at has not changed when they act
(`req[q].seen`); `KeysGoWithTheMember` excepts the keys of sign-ins and those that were
on their way. Section 6 has what these exceptions are in the code.

The type invariants are not part of a run; all are proved (section 5).

## 4. Fairness

`CatchesUp` is checked under `FairSpec`. The ticker keeps firing, so `Wake` is
weakly fair. Every later step may fail any number of times and is tried again by
a later tick, so it is strongly fair: a statement or a submission that is
attempted again and again succeeds once. Nothing is assumed of `Abort` or of
`AnchorCheckpointFails`. This is what the code relies on when it stalls and "retries
the anchor instead" (`checkpoint_scheduler.go:14-22`).

`Drains` of the Python shipper is checked with `WF_vars(Worker)`: the worker is a
thread of a running process, and a request always ends because the HTTP client gives
up on it. Nothing is assumed of the host's threads, and which way an attempt ends is
not fair: the backend may refuse every request, for ever. The TypeScript shipper has
`WF_vars(Shipper)` on the same grounds (the timer fires, `fetch` is aborted after
`timeoutMs`), and `SF_vars(FlushInterval("tick"))`: whether the flush interval has
passed is a choice in the model, and in the program it passes.

`BreachIsAnnounced` and `FanOutHalts` are checked under weak fairness of each
process's tick, since the ticker fires every five minutes and a tick runs to its end,
and of each stream's frame, reader and checkpoint together; a run that waits for a human is
not asked to come to a checkpoint. Neither the end of a stream nor a death nor a human's
answer is fair; the properties name them as ways out.

The other modules state no liveness property: what must happen in billing happens at
the next day's tick, and `OverdueIsBounded` says so as an invariant of the clock.

## 5. Proofs

Constants are arbitrary, within the named `ConstantsAssumption` of each module:
any number of schedulers, executions, tenants, calls, requests; any interval,
settle time, timeout. The bounds TLC needs (`MaxClock`, `MaxEvents`, `MaxWasted`,
`MaxCount`, `MaxPauses`) are constants of the same kind, so the theorems hold for
every bound.

*Chain.* `TypeOK` and the verifier's checks are not inductive: that the next
checkpoint will fit depends on what a scheduler holds in its local variables.
`TicksAreGrounded` says what that is worth (the head exists, the entry it builds
on is the recorded anchor of its head, the entry it is about to record is its own
submission), `AnchorsAreLogged` and `OnlyHeadUnanchored` carry it to the tables,
`RowsInOrder` orders the intervals, `LeavesContinue` says that a scheduler that
has *not* lost the race holds leaves that continue the sub-chains, and
`MembersAreSealed` that its leaves hold nothing chained before. A scheduler that
has lost the race holds stale leaves; it works from a head that is no longer the
last, and the primary key stops it. Together they are `ChainInv`, from which
`ChainAlwaysVerifies`, `SubChainsAlwaysVerify`, `LinksAlwaysReachTheLog` and
`NeverChainedTwice` follow, `ChainIsPermanent` as an action property, and
`ChainImplementsLedger`, step by step under the mapping
`ledger <- checkpoints, anchor <- anchors`.

`NothingOmitted` needs `PromptClients`: no client dates a timestamp further
back than the settle time and the timeout. Then an execution can only be sealed
at or after the instant it becomes ripe, and no interval a tick may close, or has
closed, lies after that instant (`NothingRipensInThePast`); with
`LeavesAreComplete` this is `OmissionInv`. It holds even for a scheduler that
stamps seals long after it woke. The defaults are 15 minutes and 6 hours
(`checkpoint_scheduler.go:81, 86`); a client whose clock is further behind than
that can have an execution left out when two schedulers overlap.

*Lifecycle.* All theorems assume `~Overlap`, and nothing of the status a row is created
with. `SerialInv` adds to the properties that at most one request is in flight and that
what its handler has read is still true of the row (`StillTrue`), including between the
flush of a pause and the update that ends the execution. Without the assumption `TerminalIsFinal` fails
(section 6).

*Grouping.* `CountInv` needs no assumption on overlap: the increment of a call
that has not reached its link yet is counted by `Speculative`, so that the sum of
members and speculative increments is the count, and a failed call (`Spoiled`)
can only leave it too high. `GroupingInv` adds what calls that do not overlap
guarantee: `Alone`, and that the slot a call has read is still as it read it
(`CallIsTrue`).

*Python shipper.* What was accepted is what is done, in flight and queued, in order
(`WorksThroughInOrder`): with the worker's shape (`HandsHold`: only between two items
may a batch be filling, and the last turn holds nothing back) it is inductive. For
`FlushThenStats` the invariant adds that a flush puts its barrier on the queue once,
that one which returned `True` has been signalled, that what the worker is through
with has been counted, and that what was counted as delivered is at the backend or
over its cap. Then whatever was accepted before the barrier is among what is done.
The lemmas are about sequences: what a prefix holds, and where a barrier stands in it.

*TypeScript shipper.* Two passes share the queue and the batch. The invariant says what a
pass holds in each of its places (`Shape`), and that `shutdown()`'s pass holds nothing
before `shutdown()` (`DrainWaits`). Every step of a pass leaves what is done, what this
pass holds, the batch and the queue, one behind the other, the same sequence (`Content`),
whatever the other pass holds: so the order is kept as long as there is one pass
(`OrderUntilShutdown`), and from then on the items and their number are
(`NothingIsLostBetweenPasses`; `PassMoves` is the lemma). Every loss would have to be in a
step that moves something on without the batch, as a batch that is emptied only when the
answer is there would be. The rest of the invariant is that of the Python shipper; a
barrier that is no item is an assumption on the constants.

*Delivery.* Both shippers implement `OrderedDelivery` (`ShipperImplementsDelivery` in
each proof module), which knows only what was accepted and what is settled: a step
accepts one entry, or settles some, or closes the log. What is settled comes first among
what was accepted and stays so; the Python shipper keeps that also after `shutdown()`
and goes on accepting (`open <- TRUE`), the TypeScript shipper accepts nothing more then
and settles the rest in any order (`open <- ~stopped`). The steps are mapped by
`HistoriesGrow`, the order comes from `ShipperInv`. It says nothing of progress, which is
`Drains`; nor does a run check it, as it follows from the properties that runs check and
from what a step does to `done`.

*Organisation.* `BaseInv` (a request's step tells its kind, and it carries what its
next statement needs) holds however requests overlap, and so does `MintsOnce`: whoever
mints a key for an invite has marked it as accepted, and nobody else is between the
mark and the key. That is the conditional `UPDATE`, and it is all that
`InvitesMintOnce` needs. No theorem assumes that requests do not overlap. `LastInv` says
of every request that is about to take a role, a membership or a key that what it has
seen (`req[q].seen`) leaves another admin or another key (`Grounded`); if that is still
what there is, the step leaves it, and if not, the request has been overtaken, which the
properties except. `KeysInv` has that a project without an organisation has nobody but its
owner (`OwnerFirst`), that only sign-ins make hidden keys and only for the owner, and that
whoever a key is being minted for is accounted for (`MintsForMembers`): a member, or one
whose keys are about to be deleted, or one in `raced`, since the deletion has found the
key on its way. `StaysAccounted` is the lemma.

*Budgets.* `HaltHasACause` needs two facts besides types: a frame on its way has been in
the handler's buffer, and only budgeted runs have a stream (`StreamsAreBudgeted`). `OneNoticeAMonth` assumes one scheduler. `KnowsTheBreach` says
that its tick works from the breach on record, and `Spares` accounts for the notices: no
more than failures until the breach of a month is on record, one more afterwards.

*Webhooks.* `BoundedInv` is the wait that ends by the deadline. `ThrottleInv` follows
a recurrence from the gate to the record: while no statement fails, who leaves a
webhook in time is on record (`LeavesOnRecord`), and who is about to post for the first
time saw at the gate that everybody else had left this instant or a window ago
(`GateHolds`). `OneDeadReceiverIsBorne` is about time: under `FitsDeadline(waits,
starts)`, which bounds when each attempt may start, a dispatch with one dead receiver is
never later than that attempt's start (`Punctual`). Three attempts of 10 s, backoffs of
1 and 4 s and a deadline of 60 s satisfy it with `waits = <<1, 4, 16>>` and
`starts = <<0, 11, 25>>`; two dead receivers do not fit.

*Hobby billing.* Five invariants, each for what it is about.
`MeterInv` counts the admitted requests in flight with the usage.
`RefusedInv` and `SpacedInv` assume `LoneScheduler`: with two, one refusal is counted by
both, and after a death two attempts may come too close. `SpacedInv` says what keeps the
next attempt off: the last attempt on record, or the end of a period not over yet, in
the row (`RowKeepsOff`) and in what a tick holds of it (`SnapKeepsOff`, `TickHoldsRow`);
or else the attempt would be the same, under the same key, on the same day (`Pending`).
A new customer has no attempts (`CustomersAreNew`), and a removal finds none to undo.
`OnceInv` assumes `AtMostTwo`, an overlapping deploy. What a tick may charge for was not
paid before, or was paid today under the key it will use; no tick holds a period before
a paid one; two ticks of a day hold the same period; and a paid period is behind the
row, or a tick that is not through yet will move the row past it. With a third
scheduler the last two fail, and so does the property: a checkout that was under way
writes the row it has read over a rollover, and the project is overdue by a whole
period; one scheduler rolls it over, another starts from the row before, and the third
has paid for the one after.

`OverdueInv` is a ledger of days. The attempts are `Spacing` days apart, one more than the
cadence. Every customer the project has had, and every death and failure, is worth `Span`
days, the attempts and one more (`Allowance`); how much of it may be gone while the row
has a customer depends on the failures on record (`Pace`), and a recorded attempt leaves
its spacing to the next one (`RowInTime`). The rest is about what
a tick (`TickInTime`) and a checkout (`SetupInTime`) hold of a row that has moved on or
lost its card since. It needs a scheduler, and only one, and `AttemptsFit`: the attempts
for a period are over before the next one ends, as fifteen days fit into a month. If they are
not, a customer whose last attempt always succeeds falls behind a little further in every
period, and TLC finds the property violated. Products of constants are kept out of the
prover's way by lemmas of their own (`Times`, `TimesMonotone`, `AllowanceGrows`).

*Plans.* Stripe's events come in any order, so the row follows what is still to come and
not what has happened. `BaseInv` says which events there may be and which of them a
handler holds. `RetentionInv`: a plan is lowered before its window is clamped, by a
handler that has read the plan it lowers. `TierFacts`: a subscription that is active has
made the row a Team row or its checkout is under way; once its end has been delivered, no
earlier event is being handled, and the row is a Hobby row or the handler of the end is
about to make it one. Both assume `OneAtATime`, a backend that handles one webhook at a
time; with two, they fail (section 6). `InvoicedOnce` assumes nothing of the kind. Its
invariant is a ledger: every item stands for what it charges and the quota it left free
(`Bill`), and the bills of the periods before this one, with what the counter shows, are
no more than what was used (`Fresh`) - or the counter still shows last period's usage,
and then the event that resets it is under way, and no upcoming invoice is announced
before that (`PaidUnderway`). `OneOfEach` has one such announcement to a period, and one
item of each kind, however often it is delivered. The lemmas are about sums over
finite sets: what an item adds, and that a bill grows with its items.

*Only model-checked.* Liveness (`CatchesUp`, `Drains`, `BreachIsAnnounced`,
`FanOutHalts`), which is outside the prover's reach. Every invariant and every action
property of a run is proved.

## 6. Where the code and its comments differ

Each of these is a property that is defined in the module named and that TLC finds
violated: add it to the run's configuration, with the change given.

| Property | Comment | What the code does |
|---|---|---|
| `CheckpointChain!AnchoredRootsRederive` (`chain_single`) | "A chain can only anchor facts that do not change, and this column exists to be that fact" (`migrations/057_executions_sealed_at.sql:28-30`) | Events are still stored after the seal and after the anchor; the root derived from them is another one. |
| `CheckpointChain!SealsAreNotSkipped` (`chain_single`) | "So every failure path here stalls rather than skips." (`checkpoint_scheduler.go:14`) | Until the first checkpoint is in the table, intervals whose pass failed are skipped, with the executions sealed in them. |
| `ExecutionLifecycle!TerminalIsFinal` (`Overlap = TRUE`) | "Terminal states are immutable." (`handlers.go:776`) | The check and the update are two statements; overlapping PATCHes overwrite each other. |
| `ExecutionLifecycle!EndedMeansTerminal` | "Non-terminal transitions return above before reaching here." (`handlers_update_execution.go:149`) | A repeated `started` reaches the update and stamps `ended_at`, and a `POST` may bring one; the scheduler then seals a running execution. |
| `FailureGrouping!EveryNewGroupIsAnnounced` | "a brand-new failure group is interesting news no matter what" (`webhook_dispatch.go:439-442`) | Two overlapping calls of one execution, and neither reports the group as new. |
| `EventShipper!CompleteMeansNothingLost` | "True when nothing submitted so far has been lost." (`_shipper.py:84`) | A payload JSON cannot express ends the worker; nothing counts what is lost. |
| `TypeScriptShipper!CompleteMeansNothingLost` | the same (`client.ts:61`) | Such a payload rejects the pass (`client.ts:353`), and every later tick of the chain with it: an unhandled rejection, and what the pass held is counted nowhere. |
| `TypeScriptShipper!StartsFirst` | "preserves ordering (POST /executions before PATCH for the same execution)" (`client.ts:274-276`) | `shutdown()` makes a pass of its own beside the one that awaits the start's answer (`client.ts:405-413`). |
| `WebhookDispatch!ShutdownDrains` | "server shutdown, so a deploy cannot cut off a notification mid-send" (`webhook_dispatch.go:100-102`) | The wait is in the goroutine that calls `srv.Shutdown` (`main.go:875-877`); `ListenAndServe` returns as soon as the listeners close, and `main` after it (`main.go:886`). |
| `BudgetHalt!BreachIsNotified` | "we guarantee one email + one webhook per breach event" (`budget_ceiling_scheduler.go:25-28`) | The flag is set first; a death before the notices (193-200) loses them. |
| `HobbyBilling!EachAnalysisBilledOnce` | – | An analysis between a period's end and its tick is charged for, and counted again in the new period; the removal of a card charges for what a tick beside it charges for. |
| `PlanTier!InvoiceWithinCap` | "the customer never sees a charge larger than they agreed to" (`billing.go:1615-1618`) | Delivered again after more use, `invoice.upcoming` adds an item of the kind that the first delivery had none of, under a cap that leaves the first item out. |
| `PlanTier!NoIndefinite` | "Hobby: max 7 days, no indefinite" (`handlers_retention_budget_config.go:182-184`) | A request that names no window is held against nothing (225) and saved as for ever. |
| `Organization!AdminKeyStays` | "Prevents a project on Team+ ... from silently losing all admin-authenticated SDK access when the last admin key is revoked" (`handlers_api_keys.go:192-203`) | The list it decides on does not select `user_id` (`postgres_api_keys.go:76-82`), so that every key without a role of its own counts as an admin's. |

Also met, and without a property of their own:

* "only the close-account flow is allowed to nuke the last admin"
  (`handlers_team.go:332-336`): the admins are counted before the removal and not at all
  before a change of role, so that two admins may remove or demote one another at the same
  time, and a last admin who accepts an invite as a reader becomes one. `LastAdminStays`
  excepts a request that has been overtaken, and the invite; without the first exception
  TLC finds it violated. With one request at a time the count never decides: whoever
  removes somebody else is an admin who stays.
* "Only the close-account flow is allowed to bring key count to zero"
  (`handlers_api_keys.go:177-183`): so do two revocations that have counted the keys before
  either deletes one, and the removal of the member who holds the last key, by a caller
  with a session. `LastKeyStays` excepts both.
* The removal revokes "every API key the removed member holds", and "a new invite is
  required for them to re-join" (`handlers_team.go:370-376`): a key that the member is being
  given while the removal deletes the others stays (`KeysGoWithTheMember` excepts it by
  `raced`), and an owner who has been removed is given a new key by signing in, as
  `signin.go:184-227` asks for no membership.
* "the existing time-boxed-credentials check rejects the bearer once the window closes"
  (`signin.go:195-200`): the check is on the way to the admin endpoints only
  (`admin.go:119`); `authViaBearer` (`auth.go:252-334`) never reads `expires_at`, so that
  a sign-in's key stays good until somebody deletes it. In the model it does not expire.
* An execution created as "awaiting_human" (`handlers_ingest.go:54` fills in an empty
  status and checks nothing) has no `paused_at`: it can neither be resumed nor ended, as
  both go through `ResumeExecution`, against the transitions that `handlers.go:756-760`
  allows. `WaitingIsPaused` excepts it.
* "the "day 1, 3, 5, 7..." pattern" (`hobby_billing_scheduler.go:194-197`; "day 1, then day
  3, day 5", `billing.go:252-259`): the
  attempts of a process that keeps its daily tick come every third day. The tick compares
  its own `now`, read when it starts (132), with the last attempt's stamp, read after
  Stripe's answer (276), and two days later the difference is just under 48 hours. Five
  refusals take until day 13, which `OverdueIsBounded` allows for.
* A burn that reaches the ceiling may pass unannounced: between two ticks retention deletes
  runs of the current month (`postgres_retention.go:100-103`, with a window of seven days
  on Hobby), and a `PATCH` replaces a cost by a lower one (`postgres_executions.go:121`).
  `BreachIsAnnounced` excepts a burn that falls below the ceiling again.
* The fan-out lists runs with the status "started" (`postgres_execution_queries.go:66-68`):
  one that has paused by then is never told to halt, goes on after its resume, and the
  breach is not fanned out again this month. `FanOutHalts` excepts it (`Missed`).
* The revoked key's user is taken from the same list and is always empty: "revoking a
  member's key MUST also log them out" (`handlers_api_keys.go:204-208`) never does.
* The removal of a member deletes all of the user's keys (`postgres_api_keys.go:150`), also
  those of other organisations the user belongs to; the model has one.
* A customer who has been created while a rollover was under way has the rollover
  undone (`billing.go:1926`) and may pay, as the new customer, for a period the old
  one has paid for. `OneChargePerPeriod` speaks of one customer, and of the two
  schedulers of an overlapping deploy; with three, one customer may be charged twice.
* "60s is comfortable headroom even for projects with many webhooks"
  (`webhook_dispatch.go:58-60`): two receivers that hang for three attempts use it up.
  A dispatch past its deadline cannot record that a webhook fired, against
  "success or failure" (`webhook_dispatch.go:289-294`), and a group that cannot be
  read is announced past the throttle.
* With two Stripe webhooks handled at once, an update may overwrite the deletion it
  has read the row before: `TierFollowsSubscription` fails with two workers. Stripe's
  order is not kept either; the property excepts events after the end (`reordered`).
* A customer who has cancelled subscribes again: if the new subscription's `invoice.paid`
  comes before its checkout, no project has that customer yet, and the counter is not
  reset (`billing.go:1394-1397`; the failure is answered 200 and not sent again). The
  usage that the last `invoice.upcoming` has billed is billed again by the next.
  `OverageInvoicedOnce` therefore speaks of a project's first subscription; with
  `MaxSubscriptions = 2` and without that premise TLC finds it violated.
* `handlers_retention_budget_config.go:183` caps the paid tier at 30 days, the constant it
  applies (`billing.go:133`) at 90.
* `checkpoint_scheduler.go:33` says the scheduler is not wired into main yet;
  `cmd/api/background_workers.go` starts it when Verdifax is configured.
* The TypeScript SDK serialises an item when it sends it, so that an object changed
  after `submit` is sent as changed.

## 7. What is not modelled, and why

* *The SQLite store*: a twin of the Postgres store with a single writer.
* *Hashing, canonical JSON, exports, interval proofs*: pure functions; a hash is
  injective here.
* *Signatures, detectors, DLP, pricing, payload adapters*: what is detected, what it
  costs and how it is worded is a free choice.
* *Ownership lookups and rate limits of ingest*: they refuse a request before anything
  changes.
* *One-time links, verification mails, the second factor, suspension*: see the plan.
* *Enterprise, admin overrides, disputes, failed payments of a subscription*: they set
  a tier or record a row; `PlanTier` has the two tiers between which Stripe moves a
  project.
* *Retention of groups, audit events and request logs*: deletion by age of rows that
  no other component here reads.
* *Dashboards, admin reads, instrumentation, migrations, tools*: reads, wrappers and
  one-off programs.

Most of the repository's lines are in these parts, in HTTP plumbing, wording and
storage of rows that are written once; the share of lines the map covers is small for
that reason, and not because a part with interleaving was left out.

## 8. Plan

Done: the chain (most of what the product promises to outsiders rests on it), the
lifecycle whose timestamps feed it, grouping, the Python shipper, Hobby billing, plans,
budgets and halts, webhooks, the organisation and the TypeScript shipper, with their
proofs.

Next, in this order:

1. One-time tokens: sign-in links, verification, the second factor.
2. Retention over all tables, with deletion of groups in `FailureGrouping`.
3. The SDK's event stream composed with the lifecycle: retried PATCHes of the
   shipper beside the host's own, in place of the constant `Overlap`.

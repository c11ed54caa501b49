# tinysweeper: a verification project

TLA+ models of tinysweeper (`src/`), the TLC runs that check them on small
instances, and TLAPS proofs of the properties that matter most for every value
of the constants. `PROJECT.json` lists the runs, the line each definition models,
one seeded bug ("mutant") per property that the property must catch, the hazards the properties
are for, the findings and the theorems.

## 1. The system

tinysweeper reviews pull requests. GitHub webhooks and operator commands become
*review requests*; a fleet of server processes takes them from one durable
document, pays for model calls, publishes the review, and keeps one check run
per head in step. Around that run auto-merge, a repository index, a UI preview,
issue and pull-request triage and a Sentry sweep.

| Component | State it keeps | Operations | Hard behaviour |
|---|---|---|---|
| Durable scheduler (`ports/review_job.rs`) | one document: records of unfinished reviews, per-head budgets, head history, tombstones, active and retired check identities, claims | admit, claim, renew, reconcile/confirm head, begin/refund paid work, set check, finish, defer, yield, drain status, resolve metadata | leases that lapse, takeovers, redelivered ids, coalescing, refunds that arrive late, capacity at its limit |
| Store adapter (`server/store.rs`) | that document and its revision in Mongo; delivery claims; per-head leases | read, compute, compare-and-swap, bounded retries | lost replies, lost races, clocks that disagree |
| Review workers (`server/routes.rs`, `server/failure.rs`) | one owned review each; local ownership fence | heartbeat, confirm, pay, run the review, conclude | crash, fence while publishing, retries, deadlines, shutdown drain |
| Status drainer (`server/routes.rs`, `server/status.rs`) | claims on check identities | look up, create, conclude check runs | forge timeouts, duplicate POSTs, stale claims |
| Reception (`server/webhook.rs`, `manual.rs`, `admin.rs`, `auth.rs`, `mcp.rs`) | none | verify, parse, enqueue | redelivery |
| Execution limits (`app/review_execution.rs`) | call ceiling, committed and reserved calls, permits, watch channel, dispatch semaphore | acquire, mark_dispatched, mark_physical_attempt, drop, tighten, cancel | concurrent lanes, lost wake-ups, retries competing with reservations |
| Review pipeline and publication (`app/review.rs`, `app/apply.rs`, lanes, flows, council, falsify) | one proposal; the remembered state of a pull request; our reviews and comments on the forge | run lanes, fold, save, submit, withdraw, record the receipt | a failed call or a death between a save and the write it is about; pushes and dismissals in between; saying nothing because it was said before |
| Findings, threads, state block | part of the remembered state | what was said before, what to write | stale after a failed save |
| End-to-end lane and settlement (`lanes/e2e`, `server/routes.rs`, `server/store.rs`) | a watch on running jobs; the lease of its settlement; the lane's check | leave a watch, settle it, clear it | review, settlements and the jobs themselves in any order |
| Auto-merge (`automerge/`) | none | evaluate policy, merge | policy decided on a snapshot |
| Index (`indexer/`, `server/indexing.rs`, `index/mongo.rs`) | claim, record, manifest, chunk rows, code graph | claim, record intents, move and embed chunks, confirm, delete, settle, sync the graph, reset | failed calls and deaths between any two stores; runs that outlive their claim |
| Preview, triage, Sentry | sessions; ledgers | sweeps | duplicate side effects |
| Harness, forge, retrieval, parsing, config, CLI | none or external | adapters, pure functions | none worth a state machine |

How they interact: reception calls `enqueue` on the store, which applies
`admit_batch` to the document. A worker process calls `claim_next_with_limit` in a loop
and drives each record through `reconcile_live_check`, `begin_paid`,
`set_check_stage`, publication and one of `finish`, `finish_with_yield`,
`defer`, `defer_yield`; its heartbeat calls `renew`. A drainer in each process claims
check identities and pull requests without a known head and talks to the forge.
A running review makes its model calls through the execution limits; when the
ownership fence trips, the worker cancels them and refunds the paid start if no
call was made. All of these share nothing but the document and, inside one
process, the execution scope. A review reads and saves the remembered state of its pull
request and publishes to the forge; the next review of that pull request reads both back. If
jobs of the end-to-end lane still run, it leaves a watch in the remembered state, which the handlers of
later check deliveries settle, beside it. Deliveries on the default branch start indexing runs,
which share one claim per repository.

What makes each part correct:

* scheduler - an accepted delivery is either queued or remembered; at most
  `limit` reviews run; one owner per record passes the fence; a head costs a
  bounded number of paid starts; a published or declined head is not reviewed again
  because of a redelivery; history and budgets agree; counters never underflow;
* store - the document moves as if operations were atomic, at most once each;
* workers - a fenced worker writes nothing durable; every record ends;
* drainer - no queued check over the result of a review; every started check concludes;
* execution limits - the ceiling holds, reservations are kept, nobody sleeps
  through an answer, a cancelled review spends nothing more;
* publication - nothing is suppressed that was never said; a run that ends well leaves its
  verdict in force; saying nothing loses nothing;
* settlement - a green check was earned; no settlement takes away another watch than its own, and none is missed;
* auto-merge - what is merged is what was judged;
* index - every row is named by the manifest; an index that claims a commit holds that
  commit and nothing else; the count and the graph follow; a run that lost its claim touches nothing of its successor's.

## 2. Modules

```
ReviewScheduler ──── MCReviewScheduler        (TLC: coalesce spend yielded)
   └── ReviewSchedulerProofs ── ReviewSchedulerSafety ── ReviewSchedulerAdmission   (TLAPS)

CallBudget  <── implemented by ── ReviewExecution ──── MCReviewExecution   (TLC: ceiling)
                                       └── ReviewExecutionProofs           (TLAPS)

LeaseRegister  <── implemented by ── ReviewOwnership ──── MCReviewOwnership   (TLC: race)
                                       └── ReviewOwnershipProofs           (TLAPS)

ReviewPublication ──── MCReviewPublication    (TLC: publication redgate)
   └── ReviewPublicationProofs                               (TLAPS)

CheckSettlement ──── MCCheckSettlement        (TLC: checks stuck)
   └── CheckSettlementProofs                                 (TLAPS)

IndexRun ──── MCIndexRun                      (TLC: index late confirmed)
   └── IndexRunProofs                                        (TLAPS)
```

The first three meet at the document. `ReviewScheduler` takes each operation as one step;
`ReviewOwnership` shows, for the lease of a record, that the compare-and-swap loop below makes
that so, and that the worker above may trust its local fence. `ReviewExecution` is what the
worker runs while it owns the review. `ReviewPublication` is what such a review says, one
review after another, as the scheduler lets them; `CheckSettlement` is the part of it that other
processes finish. `IndexRun` stands apart: reviews only read the index. The operators used as mutants
(`NoVerdict`, `FreedUnfenced`, ...) stand beside the definitions they change.

### ReviewScheduler

The whole document, every operation that changes it, and the processes that
call them. One action is one committed operation of `ReviewSchedulerState`
(the compare-and-swap below it is modelled in `ReviewOwnership`).

State:

| Variable | Code |
|---|---|
| `jobs` | `reviews`, indexed by request id (`ScheduledReview`) |
| `heads` | `incremental_head_budgets` (`IncrementalHeadBudget`) |
| `history` | `incremental_head_history`, as the number of live records of each outcome of a head |
| `terminal` | `terminal_requests`: the tombstones, `None` when expired or absent |
| `retired` | `retired_review_checks`, in order |
| `held` | the `OwnedReview` each worker slot holds and how far its review got |
| `drain` | the claim each drainer works on |

The other variables are history fields of the properties: which generation passed the
fence, what each budget epoch has cost, which ids were accepted, and so on; each
is commented where it is declared.

Correspondence of the actions:

| Actions | Code |
|---|---|
| `AdmitNew`, `AdmitCoalesced`, `AdmitManual` | `admit_batch` by its three outcomes, with coalescing, re-arming and the all-or-nothing capacity check |
| `ClaimNext`, `Renew` | `claim_next_with_limit`, `renew` |
| `Reconcile`, `ReconcileDeferred`, `ConfirmRefused` | `reconcile_live_check` with the `confirm_head` inside it, by its results |
| `StartCheck`, `Conclude` | `set_check_stage` around the review, as `open_status` and `close_status` call it |
| `BeginPaid`, `BeginPaidExhausted`, `Dispatch`, `RefundPaid` | `begin_paid`, the first model call, `refund_paid` |
| `Retry`, `Publish` | the worker's local retry, `app::apply` |
| `Finish`, `FinishYield`, `DeferYield`, `Defer` | the four endings of an ownership, each with its re-queueing, head marking, tombstones and detached checks |
| `Drop` | crash, tripped fence or lost ownership: the record keeps its lease |
| `ClaimMetadata`, `ResolveClosed`, `ResolveOpen` | `claim_pending_metadata`, `resolve_pending_metadata` |
| `ClaimCheck`, `ClaimRetired`, `MarkPostAttempted`, `RecordCheckId`, `RecordRetiredId`, `CompleteRetired`, `Abandon` | the drainer's claims and acknowledgements |
| `LeaseLapses`, `BackoffEnds`, `*ClaimLapses`, `TombstoneExpires`, `HistoryExpires` | time |

Abstractions, each with its reason:

* *Time* is what the code asks of it. A lease or claim is live until an action lets it
  lapse, at any moment; a back-off is over once `ready` holds. An expired
  tombstone disappears when it expires, because no operation reads one between expiry
  and purge.
* `deadline_hit` is `outcome = "deadline"`: each operation writes the two together. A
  check has its `check_id` exactly when `published`.
* Drainers claim one identity at a time, as both production callers do
  (`routes.rs:850`, `890`). The order of metadata claims by acceptance time is a free choice.
* The forge is nondeterministic: a lookup, POST or conclusion may succeed, fail, or
  succeed with its answer lost (the drainer then abandons a claim whose POST was marked attempted).
* A worker goes claimed → (reconcile) → pending, ready or terminal → paid or exhausted →
  published or fenced → concluding. `confirm_head` is reached only through
  `reconcile_live_check`, as in production. A local retry re-enters *claimed* and
  is charged again, also after a publication whose contributor record could not be written.
* The numbers of generations, epochs and status writes are bounded (`MaxGen`, `MaxEpoch`, `MaxWrites`)
  for TLC only; the proofs hold for all of them.

### ReviewExecution and CallBudget

`ReviewExecution` models the concurrent callers of one review's execution scope. A step
is one critical section of the state mutex, or one access to the watch
channel or the semaphore; the code unlocks before it notifies, so does the
model, and between the two everybody else may run.

| Variables | Code |
|---|---|
| `ceiling`, `committed`, `reserved`, `cancelled`, `terminals` | `ExecutionState` |
| `late` | the soft deadline has passed |
| `pc`, `permit`, `attempts` | each caller's place in `acquire` and its `ReviewDispatchPermit` |
| `stale` | its watch receiver has a change to see |
| `owner` | planner and ownership fence, between their write and `send_modify` |
| `squeezed` | history: the ceiling was lowered under calls and reservations |

`CallBudget` is what the limits promise: a ceiling that only comes down, calls charged one by one
while it has room, none once stopped. `Budget == INSTANCE CallBudget WITH spent <-
committed, stopped <- cancelled`.

Abstractions: the first-come-first-served order of the dispatch semaphore is a free
choice; a permit is used by one caller, one step at a time (`embed.rs` does so; the
test of concurrent commits of one permit is covered by the mutex in one step); an
adapter's repeated `mark_dispatched` changes nothing and is left out; sums of usage and costs are left out.

### ReviewOwnership and LeaseRegister

How a worker knows that it owns its review. One record of the document; each operation on it is
the several steps of `change_review_scheduler` (read the state, read the server's clock and
compute, compare-and-swap), and each may fail, lose its race, lose its answer, or
reach the database after its caller is gone. Above it, the worker and its heartbeat.

| Variables | Code |
|---|---|
| `revision`, `lease` | the document's revision; `owner`, `generation` and `owner_until_ms` of the record |
| `clock` | `server_now_ms` |
| `drift` | how far a process's monotonic clock has fallen behind the database's |
| `worker` | each claim slot: its `OwnedReview`, its conservative local deadline, whether the heartbeat has lost it |
| `call` | the store call of each worker and of its heartbeat, and how far it got |
| `adrift` | writes on their way whose caller has given up or died |
| `time` | history: server time of the last write |

| Actions | Code |
|---|---|
| `Read`, `Change`, `Commit`, `Overtaken` | `change_review_scheduler`: find, compute, replace where the revision matches, retry |
| `LateCommit` | the replacement of an abandoned call takes effect |
| `Elsewhere` | an operation on another record moves the revision |
| `Claim`, `ClaimAnswered` | `drain_review_queue` |
| `FirstRenewal`, `Heartbeat`, `Renewed`, `HeartbeatLost` | the renewal that opens `run_owned_review`; `spawn_review_heartbeat` |
| `Check`, `CheckPasses` | `check_owner_after_await`, before and after its await |
| `Leave` | `record_owned_disposition`, or the deferral of a claim made during shutdown |
| `Gone` | the outcome is recorded or refused, the fence trips, ownership is lost, or the process crashes |
| `CallFails` | an error of the store in a claim or a check |

`LeaseRegister` is what the store promises: claims, renewals and releases of the lease that each
take effect in one step, in the order of the server times they were computed with.

Abstractions: the conditions of a claim other than a free lease only delay it and are left out;
the endings of an ownership have the same effect on the lease and are one operation,
`leave`, after which the record may be claimed again; the heartbeat's period is any time at
all. Two assumptions are the model's own: the
database's clock does not go back, and a process's clock loses at most
`Margin` (`LOCAL_OWNER_FENCE_MARGIN_MS`) against it, which is what the margin is there for.
The document is never deleted. `MaxClock`, `MaxGen` and `MaxAdrift` bound time, claims and abandoned writes for TLC only.

### ReviewPublication

One pull request, one review at a time: the read half (`app/review.rs`), the write half
(`app/apply.rs`), the forge's list of our reviews and comments, and the remembered state that lets a
later review say less. Every call to the forge or to the store is a step; a call may fail before or after it
took effect, and the process may die, between any two.

| Variables | Code |
|---|---|
| `head` | the live head on the forge |
| `reviews` | our reviews there, oldest first: verdict, head, dismissed, and what each was about |
| `posted` | findings with an inline comment of ours |
| `store` | `ReviewedState`: the fingerprints it suppresses and the `PublicationReceipt` |
| `run` | the review in progress and how far it got |
| `untold`, `meddled` | history: a review landed that the receipt is not about; a person dismissed a review during this run |

| Actions | Code |
|---|---|
| `Review` | `review`: what is suppressed, the proposal, the save before publication |
| `ReadLive` | `apply`: live pull request, threads, the lanes' checks |
| `ReadOwn` | our own review and the receipt, the verdict ladder (`review_event`), `redundant_decision`, whether to withdraw |
| `Withdraw` | the standing approval is dismissed |
| `Post` | `create_review`, or nothing |
| `Extend` | the fingerprints of what was posted |
| `RecordApplyState`, `Finish` | usage and receipt; hub and labels |
| `Push`, `Dismiss`, `Crash` | the world |

Abstractions: a finding is an identity with two properties, whether it fails its lane and whether it is severe
enough to block; which fresh findings become comments (gate, cap, lines of the live diff) is a free choice. Coverage is
one of four cases: complete, a patch withheld, a question unanswered, a kill switch. Threads, galleries,
the hub and labels do not enter. `OwnReview` is `own_review_state_of` over the list, with its
rule that a dismissal ends the verdict it is about and any before it.

### CheckSettlement

The end-to-end lane decides what it can, leaves a watch on jobs that still run, and publishes a neutral check;
each completed check is a delivery whose handler settles the watch under a lease.

| Variables | Code |
|---|---|
| `head`, `jobs` | the live head, and what each job reported on each head |
| `check` | the conclusion of the lane's check on each head |
| `watch` | `ReviewedState::e2e` |
| `review`, `begun` | the review in progress; reviews so far, the generation of a watch |
| `handler`, `lease`, `events` | the deliveries being handled, the `e2e-settle` lease, deliveries to come |
| `latest`, `settled` | history: the generation saved last; those whose verdict was published |

| Actions | Code |
|---|---|
| `Begin`, `SaveState` | `lane_proposal`, `e2e_watch`, the save before publication |
| `ReadLive`, `Publish`, `Load`, `Store` | `apply`: live head, the check, and the later save of the whole record |
| `Deliver`, `Claim`, `GiveUp` | `settle_e2e` in the server: the cheap exit, the lease and its retries |
| `LoadWatch`, `ReadHead`, `ReadChecks`, `FailRead` | `apply::settle_e2e`, `runs::settle` |
| `PublishVerdict`, `ClearWatch`, `Release` | the verdict, `clear_e2e_watch`, the lease |
| `Push`, `Conclude`, `Lapse`, `CrashReview`, `CrashHandler` | the world |

Abstractions: `apply` loads and saves the whole record up to three times after it published
(`apply.rs:429-439`, `record_apply_state`, `apply.rs:568-575` for the hub); one `Load` and one `Store` stand for
them: the pairs follow one another, and each can only put back what its own load read. A job reports once on a head; re-runs, matrices that grow and pull requests that close
are left out. Our own checks are deliveries too, because the webhook does not tell them apart; the
watch that nobody else would look at again is found by them.

### IndexRun

One repository and one embedding signature. A worker is an indexing run started by a delivery, or an operator's
reset. A chunk is its start line and its content; its row adds the path.

| Variables | Code |
|---|---|
| `rows` | the chunk store |
| `manifest` | `IndexedFile` by path: `chunks`, `pending`, `stale` |
| `record`, `claim` | the repository's record and the unique claim with its fence |
| `worker` | a run: what it wants, its group of files, what it counted |
| `graph` | the code graph, by the content each path was built from |
| `torn`, `unsure`, `owed` | history: rows a delete took while the manifest counts them; faults after which the code cannot keep its count, a failed `Begin` on a record whose count is uncertain among them; a run whose graph was never built |

| Actions | Code |
|---|---|
| `Request`, `Reset`, `Claim`, `Requeue`, `MarkIndexing` | `ensure_indexed`, `reindex`, `claim` |
| `Begin` | what the run owes and what it has to remove |
| `RemoveCounted`, `SweepPaths`, `Forget` | `remove_rows` |
| `NextGroup`, `RecordIntent`, `Relocate`, `EmbedBatch`, `BudgetStop`, `DeleteOrphans`, `Confirm`, `DeleteStale`, `Finalize`, `EndGroups` | `index_group` and its loop |
| `Wipe`, `Unname` | the reset |
| `Settle`, `RecountFails`, `DropClaim`, `SyncGraph` | `settle`, `release`, `release_failed`, `sync_graph` |
| `Crash`, `ClaimExpires` | death; the two-hour TTL, which a run outlives only if `Outlives` |

Abstractions: the order in which a run takes files and chunks is a free choice; batches
count chunks, not tokens; `index_paths` and the in-memory manifest, which the server does not use, are left out. Manifest rows are written
one at a time, and a call that failed may have taken effect, wholly or for some of its rows.

## 3. Runs

Checked with TLC; times are for two workers. Deadlock is not checked in any of them: the
bounds on generations, requests, claims, reviews and turns let the system stop.

| Run | Instance | States | What it shows |
|---|---|---|---|
| `coalesce` | 2 deliveries (the second a push, a comment without a head, or a manual full review), 2 workers of one process, `RunLimit` 1, 1 ownership per record, 1 paid start and 1 refund, a drainer | 1.14 M, 70 s | `AcceptedOnce`, `AckedNeverLost`, `ReviewedStaysReviewed`, `SpendBounded`, `RunningBounded`, `NoQueuedPostOnReviewedHead` |
| `spend` | 1 push, a live head that goes a, b, a, 2 workers, 2 generations, 4 reservations, 2 status records, tombstones and history that expire | 1.57 M, 100 s | `TypeOK`, `HistoryAgrees`, `HeadStateFits`, `FenceExclusive`, `StatusRecordsFit` |
| `yielded` | a publication, a failed contributor record, a newer request | violation | finding 1 |
| `ceiling` | 3 callers, 2 slots, ceilings 1 to 3 or none, 2 attempts; fair | 474 k, 2 min | `ReservationsCounted`, `PromiseKept`, `NoLostWakeup`, `CompleteMeansSettled`, `CancelledSpendsNothing`, `ImplementsBudget`, `AcquireAnswered` |
| `race` | 1 slot of each of 2 processes, lease of 2 ticks with a margin of 1, 2 attempts per write | 594 k, 30 s | `FenceInsideLease`, `CheckedMeansOwner`, `ImplementsRegister` |
| `publication` | 3 reviews, 2 heads, a finding that fails its lane and blocks and one that only would, 1 fault, dismissals | 13.0 M, 2 min | `TypeOK`, `SuppressedIsPosted`, `VerdictStands`, `SaysWhatItFound` |
| `redgate` | 2 reviews, a finding that fails its lane without blocking, no fault | violation | finding 3 |
| `checks` | 1 job, 2 handlers (interchangeable), 2 reviews, 2 heads, 1 fault | 1.86 M, 25 s | `TypeOK`, `SuccessIsEarned`, `NothingForgotten`, `NoDueWatchLeft` |
| `stuck` | 1 job, 1 handler, 1 review, 1 head, no fault; fair | violation | finding 4 |
| `index` | 1 worker, 3 runs, 3 commits, 3 files (one of a submodule, one that is emptied and filled again), 2 faults | 4.05 M, 1 min | `TypeOK`, `NothingOrphaned`, `FreshHoldsNothingElse`, `FreshHoldsAll`, `CountHonest`, `GraphFollows` |
| `late` | 2 workers, 2 runs of one commit, 1 fault, claims may be outlived | 0.97 M, 25 s | `NewerClaimUntouched` |
| `confirmed` | as `index`, 1 fault | violation | finding 2 |

Why the bounds are enough. Two workers are one owner and its successor, which is all that
lease, generation and refund rules distinguish; two heads are the current one and another,
and a third visit (a, b, a) is a return. Two deliveries are a record and what
joins it. The limits `RunLimit`, `MaxPaid`, `MaxReservations` and `MaxStatusRecords` are set so low
that each of them is reached. Every action fires in at least one run: in `spend` reservations refuse a head, tombstones and history
expire and a live head is deferred; metadata, yields, a manual batch and refunds run in `coalesce`.
`spend` allows no refund (`MaxRefunds` 0) to stay small, and in `coalesce` a record has one owner; a refund that comes
after another owner's start is covered by the proof of `SpendBounded` alone.
`EarlyRetries` and `EarlyEnds` are bounds too. In the code an error may end an attempt, or have it retried, before a
check of its head is published (phases "pending" and "terminal"); all of that at once more than doubles the states. `coalesce` retries from
"terminal", `spend` ends attempts that are "pending", `yielded` allows everything; the theorems of `ReviewScheduler` hold for
every value of both, since the proofs assume nothing else of them.
In `ceiling` three callers make one request
each, so that all three shapes meet: one commits or retries, one holds a
reservation, one waits; two slots for three callers keep the semaphore in play.
In `race` a lease lasts long enough to be renewed and short enough to
expire and be taken over within the run; a margin of one tick lets the process's clock lose one,
and makes the deadline one tick after the call began: counting from the answer instead
is caught. Two claims give a generation and its successor. Slots of one process, which share the
owner identity, meet in `coalesce`, `spend` and the proofs. The VIEW of this run leaves out
what no later step reads: fields of a call that are past use, and revisions beyond whether
they are still the document's (they only grow, so one that is not never will be again).

In `publication` three reviews are the one that leaves a receipt, the one that is quiet because of it or
fails to record its own, and the one that reads what is left; two heads let a push fall between any two calls; one fault is one failed call or death, which is what
the code's best-effort steps are meant to survive. The two findings give lanes that pass, fail and block. In `checks` two
reviews are a watch and the one that replaces it, two handlers a settlement and the one that finds the lease
taken. One job is enough for the orders, a watch of several is covered by the proofs. In `index`
the commits of `MCTree` make a file's text move down a line and then grow, so that chunks are relocated, embedded
and deleted, take a submodule file away and back, and empty a third file and fill it again; three runs are one that is interrupted, one that
repairs it partly (out of budget, submodule not fetched, a second fault) and one that claims the commit. `Outlives` is
false there: without the claim's exclusion only `NewerClaimUntouched` is promised, which `late` checks.

Fairness. `ReviewScheduler`, `ReviewOwnership`, `ReviewPublication` and `IndexRun` state safety only. `ReviewExecution!FairSpec` assumes
weak fairness of what a caller does once it asked for a permit, and of the
planner's and the fence's notifications: these are tasks of a running tokio runtime,
and a provider call ends because each is under a timeout of its own. It assumes nothing of new
calls, of cancellation, of the caller being dropped, nor of the soft deadline,
although `acquire` also sleeps until that one: requests are answered even if it never comes.
`CheckSettlement!Spec` assumes that a review that began and a delivery that arrived go on, as tokio tasks do; it
assumes nothing of pushes, jobs or faults. Only `stuck` uses it. That settlements are not missed is stated as safety (`NoDueWatchLeft`):
when nothing is left to happen, nothing is left to settle.

## 4. What is proved

All theorems hold for every set of pull requests, heads, ids, workers, drainers
and callers (finite where a cardinality is taken) and every value of the limits, under the
`ASSUME`s of the components, which TLC evaluates on every run.

**`ReviewSchedulerProofs!TypeCorrect`** - `Spec => []TypeOK`. `TypeOK` says among other things that every `- 1`
of the code stays a natural number. It is not inductive alone: an ending removes its record from the claim
order, which must hold it. `Typed == TypeOK /\ Listed /\ OwnId` is inductive;
`Listed` says that the claim order lists each unfinished record once, `OwnId` that a record still holds the delivery that created it.

**`ReviewSchedulerSafety!RunningIsBounded`** - `RunningBounded` is inductive over `Typed`: a claim looks at the number of live leases
before it adds one; every other operation keeps the set of running records or shrinks it (`Steady`), because
`renew` needs a lease that is still live.

**`ReviewSchedulerSafety!FenceIsExclusive`** - from `FenceInv`: a handle never outruns its record's generation, the key a handle
names is a record or a tombstone, and two handles of one record have different generations. The generation, not the owner identity, carries the proof:
two workers of one process share the identity.

**`ReviewSchedulerSafety!SpendIsBounded`** - from `SpendInv`: a record's own counters are within their limits (`JobsPaid`), and the budget
stored for a pull request accounts for exactly what its own epoch has cost (`Accounted`). A refund that arrives in a later epoch
does not match the charge it holds and changes nothing.

**`ReviewSchedulerAdmission`** - what admission promises, through all that happens later. A step is sorted by what it
does to the records (`LightStep`, `SortedStep`): it is *light* (it moves leases, claims, charges and stages only), or an admission, the reconciliation of a head,
a release of an ownership, the end of a record, a resolved metadata claim, or expiry; an invariant has one case per sort.

* `DeliveriesAcceptedOnce`, `DeliveriesNeverLost` - from `Accepted == Apart /\ OwnIds /\ Undecided /\ Single`: records share no delivery, each holds
  the one it is named after, none holds a delivery with a tombstone, and a pull request has one pending record. `AcceptedOnce` itself
  also speaks of the claim order, which `Typed` gives.
* `HistoryAlwaysAgrees`, `ReviewIsKept` - `Agreeing` says that the history holds at most one result of a head, for the head of a
  budget only the budget's own, and none of a pull request without a budget. A budget displaced by another head puts its result into history, and a head that returns takes it back.
* `ReviewNeverHidden` - the check before the POST does not look at results, so the proof is about who can conclude a head while a claim on its
  queued check lives. `Posted == QuietApart /\ ShownPublished /\ ClaimedUnended`: checks of heads a record has left have no live claim, so that a head that
  returns brings none back; a worker that may still publish or run out of time has its head's check published, so that no claim on it is current; and
  a head with such a result has no live claim. A worker that has not come so far can only end as declined or failed (section 5), or hand its record over, which leaves no result.
* `StatusRecordsAlwaysFit` - inductive together with `HeadsKnown`, over `Typed` and `Posted` (through `Settles`, which says who keeps its owner): an unfinished incremental record waits for its metadata exactly if it has no head, has a hint
  exactly if it has a head, and has no owner without one. Without it a delivery that joins a record, or the drainer's answer, could give the record an identity
  (`status_reconcile_reserved`, `metadata_resolution_pending`) that nobody has counted. Detaching moves an
  identity from a record to the retired list, and none is left behind (`DetachedSize`).
* `HeadStateAlwaysFits` - inductive over `Typed`: what a step adds to tombstones, budgets and history, it takes from the deliveries and reservations
  of its record. The room admission asked for stays enough.

The last two speak of totals over all records. `Total(F)` is the cardinality of a disjoint union, so what the code sums is
reasoned about without a sum: `WeightsUpdate` says that what one record gains the total gains, `CapacityParts` splits the totals over the families of a
document, `DetachedSize`, `CoalescedMoves` and `HistoryAdds` say what the helpers of the code add.

**`ReviewExecutionProofs`** - `TypeCorrect`; `WakeupsAreNotLost`: each step that changes an answer leaves its actor
with a notification to send, so `NoLostWakeup` is inductive over the types;
`ReservationsAreCounted` from `Counted == TypeOK /\ PermitFits /\ ReservationsCounted`, where `PermitFits` ties a caller's place to its permit's state;
`PromisesAreKept` over `Counted`, because whoever holds a reservation makes `reserved` positive and so leaves room below the
ceiling for itself; `CompleteIsSettled` from `TerminalsCharged`: terminals and callers that have yet to report never exceed the charged calls;
`BudgetIsImplemented` and `CancelledIsFree`: each step is a step or a stutter of `CallBudget`.

**`ReviewOwnershipProofs`** - `TypeCorrect`; `RegisterIsImplemented`: each step is an operation of `LeaseRegister` or a
stutter of it. The invariant is `Serial` (proved as `WritesAreSerial`): a write whose base revision is still the
document's, its caller waiting or gone, was computed from the lease that is in the document now,
at a time no earlier than the last write. So the step that commits it is the operation on the present lease.

`FenceIsInsideLease` and `CheckedIsOwner` come from `Guarded == Shaped /\ Tokens /\ Fenced`.
`Tokens`: no two workers hold the same generation, none holds one the document has not given out, and
a worker that is gone has taken its own along.
`Fenced`: until a worker's deadline plus the margin, the record is the worker's in the document;
a renewal granted but not yet answered covers a whole period counted from the start of its call. No write of
another owner can come between, because by `Serial` it was computed from the present lease, which is not over.

**`ReviewPublicationProofs`** - the verdict in force, the last remark and the standing approval are each the last review of a
kind. That a finite set of indices has a last element is an induction, so `Ranked` says it of the list, and `Listed ==
TypeOK /\ Ranked(reviews)` carries it along: a submission adds a last element, a dismissal changes one. `TypeCorrect`;
`SuppressedWasPosted` from `Extending`: what a run is about to remember it has posted;
`VerdictIsInForce` from `Decided`: what a quiet run relied on still stands, unless a person meddled, and what another run submits stands from then on;
`NothingFoundIsLost` (`SaysWhatItFound`) from `Traced`: once the store knows of the last review, its receipt describes it,
verdict, findings and completeness, and a run that says nothing compared itself with it.

**`CheckSettlementProofs`** - `TypeCorrect`; `GreenIsEarned`: a watch, wherever it is kept, and a conclusion on its way are
each sound: a job they do not wait for has concluded and did not fail the lane, or the verdict is a failure already
(`Earned`; jobs report once); `NothingIsForgotten`
from `Clearing`; `NoneIsMissed` from `NothingMissed`: before the first fault, no watch is of a
head to come (`Past`), a record saved as a whole is the one that is there (`Remembers`), and a due watch has somebody who has yet to
look at it (`Attended`): the review that will publish the neutral check, a delivery, or a handler with that watch in hand.

**`IndexRunProofs`** - `TypeCorrect`, from `Typed`, which says what a run carries in each phase. `NewerIsUntouched`, also where runs outlive their claims, from
`Held`: fences tell runs apart, and the run that holds the claim has its fence on the record. The other five assume that no run outlives its claim
(`~Outlives`), because two runs that work side by side do orphan rows: then one run is inside at a time (`Sole`). The steps of a run are
first restated as facts about the fields they change (`DoesBegin`, ... `DoesSync`), which is all the later proofs see of them.

* `NoneIsOrphaned` - `AllPlanned` says what the manifest holds of the group in hand, phase by phase, so that every row a run
  writes is named by an intent before it is written and stays named until it is deleted.
* `FreshQuotesNothingElse`, `FreshLacksNothing` - from `Sound /\ Told`. `Sound` is the above. `Told` adds that the record says "indexing" while a run is inside (`Marked`);
  that a run knows what it was asked, and a reset empties the manifest (`AllAsked`); that the ids an entry names are of its own path
  and what it counts is in the store or was taken by a delete (`Stored == Own /\ HeldOrTorn`); which rows of the
  group in hand are in the store already, phase by phase (`AllBrought`); how far the run has come with its commit: a selected file is still to do, in hand or confirmed, and
  an entry of anything else is about to be removed (`AllThrough`); and, when the record claims a commit, that the manifest is that commit's (`Complete`). Only the last step of a run can claim one, and
  it does so only if it was through. That rows are named then gives one direction, that counted ids are stored the other.
* `GraphIsInStep` - `AllFollow` over these: between runs, either the graph has what the manifest confirms or something on record tells that it is owed
  (`Between`: no revision, or a message). A run that finds the former keeps the graph in step with every file it did not list as changed or removed (`Tracks`), and what it
  leaves on record says how it ended (`LeavesTold`); a run that finds the latter rebuilds the graph whole.
* `CountIsHonest` - `AllTallied` over `Sound /\ Told`: while nothing is lost, `record.chunks + up` is the number of counted rows plus `del` (`Balanced`), where the
  rows of files confirmed but not yet added up (`Gained`) are left out. Every step is shown to change both sides alike: what confirming a file adds is disjoint from what
  was counted (`ConfirmedTally`), and a delete takes exactly the counted rows among its ids (`BalanceDeletes`). The code's saturating subtraction is then a plain one (`SumsUp`), and a recount
  over an untorn store counts the rows (`SettlesTally`).

`GraphFollows` speaks of files that have text in every commit that has them (`Textual`). The proof does not go through without this, and TLC
shows why: a run whose new commit empties a file skips it and leaves its entry (`indexer/run.rs:662-675`); if that run also rebuilds the graph whole, because an earlier one
failed, the graph has nothing of the file; a run back to the old commit finds its chunks unchanged, so the file is not among the changed ones (`run.rs:680`),
and the graph goes on without it, against the comment at `run.rs:676-679` that what was recorded is a superset of what changed.

Only model-checked: `AcquireAnswered`, because liveness is out of the prover's reach.
Not provable with this prover at all: anything under fairness or `ENABLED`, and what recursive definitions
compute for every input.

## 5. Findings

Shown by a run:

1. `yielded`: `docs/modules/server/README.md:108-109` promises that a confirmed
   publication is kept when an owner yields. After `app::apply` has published, a
   failing `record_review` (`routes.rs:4307`) turns the review into an error; a record asked to
   yield is then handed over without a result for its head, and the next owner pays for
   and publishes that head again.
2. `confirmed`: `indexer/types.rs:210` says every confirmed id is in the index. A removal
   and the reset delete rows before they forget them (`indexer/run.rs:589-591`, `admin.rs:399`); a failure in between leaves
   entries confirmed over rows that are gone, and the next run embeds nothing and claims the commit.
3. `redgate`: `docs/modules/app/README.md:48` and the comment in `review_event` say that a failing lane is not approved. The
   branch that clears an earlier objection (`apply.rs:710`) does not ask: a proposal whose lane fails below `request_changes_at` is approved.
4. `stuck`: `docs/modules/lanes/README.md:284-286` says that the neutral check settles when the jobs do. The watch is saved before
   the neutral check is published; if the jobs conclude and are settled in between, `apply` overwrites the
   verdict with the neutral check it decided on before, and no watch is left.

Seen while modelling, without a run:

* a queued check can be posted on a *declined* head, against the comment in `claim_pending_checks` (`review_job.rs:487-490`): the claim looks at
  the results of heads, the check before the POST (`review_job.rs:705-724`) does not. A head whose review failed
  is redelivered and claimed by a worker; a comment re-arms it, so that the drainer may claim its queued check; pushes away and back ask the worker
  to yield to the same head, and it concludes that head as declined, keeping the record, its check and so the drainer's claim (five
  deliveries, one worker, one drainer, 16 steps). A published or timed-out review is never hidden this way (`NoQueuedPostOnReviewedHead`, proved);
* a head that is force-pushed away and back gets a fresh paid budget (`review_job.rs:1346`, against
  `docs/modules/server/README.md:92-93`: five paid starts per confirmed head); `SpendBounded` states what holds, the bound per budget;
* a file whose new content yields no text keeps its old chunks in an index that claims the commit (`indexer/run.rs:667`); the
  index properties set such files apart (`Blanked`), and the code graph can miss such a file when its text comes back, until it changes again (`Textual`, section 4);
* an end-to-end lane whose model never answered, but which waits for jobs, settles to success: the
  settlement looks at the watch's `failed` and at the jobs only (`lanes/e2e/mod.rs:242`);
* a settlement in flight for an older watch of the same head can publish success over the failure of a newer review that left no watch;
* the later saves of `apply` write the whole record, so that a watch cleared in between comes back and is settled once more;
* a receipt is about verdict, findings and completeness: the comment of a push with a withheld patch can keep a later
  unanswered push of the same verdict quiet, and a receipt that could not be saved leaves an older one to compare with (`SaysWhatItFound` excludes the latter by `untold`);
* `create_review` names no commit: after a push between the live read and the submission, the forge attributes the review to the new head;
* an earlier approval stays in force over a complete push whose lane fails below `request_changes_at`;
* auto-merge's merge call names no head (`automerge/mod.rs:88-91`);
* a full review that could not read the remembered state saves a blank record when it has a summary to keep;
* the comment at `server/indexing.rs:248-253` says that a graph a previous run failed to write is rebuilt whole, as the
  store shows. The code rebuilds it whole only if it is empty, if an alias file changed, or if the run began from an incomplete record (`indexing.rs:276`).
  A failing `sync_graph` is logged and leaves the record ready (`indexing.rs:230-239`), so that the next run parses what it changed itself, and
  what the failed one owed is missing until each file changes again. `GraphFollows` sets such a repository apart (`owed`);
* a run that fails before it has read the record clears the mark that the count is uncertain (`GaveUp`); a recount counts ids whose rows an
  interrupted delete took; a claim whose release fails skips the graph until a later run rebuilds what it owes. `CountHonest` and `GraphFollows` say under which
  conditions count and graph are right (`unsure`, `owed`).

## 6. Not modelled

* *Check runs of the queue*: identities two records share, the forge's own check runs and their write generations. The
  drainer's claims are modelled, the forge is nondeterminism.
* *Workers*: per-head leases, whether a pull request is draft or closed during its review, deadlines, the drain of a shutting-down process.
  Delivery claims and leases with their TTL (`store.rs`), other than the review's and the settlement's.
* *Inside one review*: flows, panels, council, falsification and summary are folds over model answers; their calls go
  through the limits of `ReviewExecution`. The spend cap of a flow is checked before and recorded after each call
  (`flows/caps.rs:146`): concurrent calls may exceed it together, by design.
* *Threads, hub, labels, galleries*: what a push writes besides its review and comments.
* *Auto-merge*: one policy over one snapshot and one merge call; a property would restate that call.
* *Repository cache, previews*: git processes, lock files, containers and a browser; most of the state is outside the program.
* *Issue and pull-request triage, Sentry*: sequential passes over external services.
* *Harness, forge and retrieval adapters, graph and chunk parsers, evidence, scanners, wireframe, configuration, evaluation, command line*:
  sequential data transformations, pure I/O, or process start-up.

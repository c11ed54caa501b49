--------------------------- MODULE ReviewScheduler ---------------------------
(***************************************************************************)
(* The durable review scheduler of src/src/ports/review_job.rs: the single *)
(* Mongo document ReviewSchedulerState, every operation that changes it,   *)
(* and the two kinds of process that call them - the review workers        *)
(* (server/routes.rs, run_owned_review to record_owned_disposition) and    *)
(* the queue-status drainers (publish_pending_queue_checks_with_clock).    *)
(*                                                                         *)
(* One action is one committed scheduler operation.  Every timestamp is    *)
(* replaced by what the code asks of it: a lease or a claim is live until  *)
(* an action lets it lapse, a back-off is over once `ready` holds, and an  *)
(* expired tombstone is removed when it expires (no operation reads one    *)
(* between its expiry and the purge).                                      *)
(***************************************************************************)
EXTENDS Naturals, FiniteSets, Sequences, SequencesExt

CONSTANTS
  PRs,              \* (repo, number) pairs
  Heads,            \* commit SHAs
  Ids,              \* request ids: webhook deliveries and manual ids
  Requests,         \* every review request a process may submit
  Batches,          \* manual expansions: sequences of Full requests
  Workers,          \* claim slots of the server processes
  Drainers,         \* queue-status drainers, one per process
  OwnerOf,          \* owner identity of the process a worker runs in
  None,             \* absent record, owner, outcome or claim
  NoHead,           \* a request whose head_sha is None
  RunLimit,         \* configured bound on running reviews
  MaxUnfinished,    \* MAX_UNFINISHED_REVIEWS
  MaxReservations,  \* MAX_TERMINAL_REVIEW_RESERVATIONS
  MaxStatusRecords, \* MAX_REVIEW_STATUS_RECORDS
  MaxPaid,          \* MAX_REVIEW_PAID_ATTEMPTS
  MaxRefunds,       \* MAX_REVIEW_OWNERSHIP_REFUNDS
  WeekPasses,       \* FALSE: behaviours shorter than REVIEW_TOMBSTONE_TTL_MS
  \* Bounds of the model, not of the code: its u64 counters stop there, and
  \* errors before a check of the head is published may be left out.
  MaxGen,           \* ownership claims of one job
  MaxEpoch,         \* budget restarts of one pull request
  MaxWrites,        \* status and metadata claims of one check or job; a
                    \* retired check gets as many again
  EarlyRetries,     \* phases before that from which an error is retried:
                    \* "pending" and "terminal" in the code
  EarlyEnds         \* FALSE: no error ends an attempt that is "pending"

Outcomes == {"published", "declined", "superseded", "exhausted", "deadline"}
\* Outcomes that finish and finish_with_yield store on the confirmed head.
HeadOutcomes == Outcomes \ {"superseded"}
\* Mutant: an explicit re-request clears any result.
AnyOutcome == HeadOutcomes
\* Failures an explicit re-request may clear (rearm_failed_head).
FailedOutcomes == {"exhausted", "deadline"}
Stages == {"queued", "in_progress", "completed"}
Owners == {OwnerOf[w] : w \in Workers}

RequestRec == [id: Ids, pr: PRs, mode: {"incremental", "full"},
               head: Heads \cup {NoHead}, explicit: BOOLEAN]
\* ReviewCheckRecord.  check_id is set exactly when `published` is.
Check == [ext: Ids \X Heads, stage: Stages, gen: Nat \cup {None},
          published: BOOLEAN, attempted: BOOLEAN, wlive: BOOLEAN, wgen: Nat]
\* ScheduledReview.  `spare` is status_reconcile_reserved, `meta` is
\* metadata_resolution_pending, `resv` is head_history_reservations.
Job == [pr: PRs, mode: {"incremental", "full"}, id: Ids,
        head: Heads \cup {NoHead}, ids: SUBSET Ids, owner: Owners \cup {None},
        live: BOOLEAN, gen: Nat, ready: BOOLEAN, paid: Nat, refunds: Nat,
        yield: BOOLEAN, hint: Heads \cup {NoHead}, resv: Nat,
        checks: [Heads -> Check \cup {None}], spare: BOOLEAN,
        meta: BOOLEAN, mgen: Nat, mlive: BOOLEAN]
\* IncrementalHeadBudget.  deadline_hit is outcome = "deadline": every
\* operation writes the two together.
Budget == [head: Heads, paid: Nat, refunds: Nat, epoch: Nat,
           outcome: HeadOutcomes \cup {None}]
Retired == [pr: PRs, head: Heads, check: Check]
Charge == [head: Heads \cup {NoHead}, epoch: Nat]
Phases == {"claimed", "pending", "ready", "terminal", "exhausted", "paid",
           "fenced", "published", "concluding"}
Verdicts == Outcomes \cup {"defer", "defer_later", "yield"}
\* A worker's OwnedReview and how far its review got.  `key` is the record
\* that holds `id`: ids leave a record only into a tombstone.  `wrote` is a
\* history field: the head this worker has published a review of.
Handle == [key: Ids, id: Ids, owner: Owners, gen: Nat, phase: Phases,
           charge: Charge \cup {None}, verdict: Verdicts \cup {None},
           wrote: Heads \cup {NoHead}]
\* A drainer's PendingReviewCheck or PendingReviewMetadata.
CheckClaim == [kind: {"active", "retired"}, ext: Ids \X Heads, head: Heads,
               wgen: Nat, known: BOOLEAN]
MetaClaim == [kind: {"metadata"}, key: Ids, id: Ids, mgen: Nat]

ASSUME ConstantsAssumption ==
  /\ None \notin Ids \cup Heads \cup Owners \cup Nat
  /\ None \notin Outcomes \cup Verdicts
  /\ None \notin Job \cup Budget \cup Check \cup Handle \cup Charge
                  \cup CheckClaim \cup MetaClaim
  /\ NoHead \notin Heads
  /\ IsFiniteSet(PRs) /\ IsFiniteSet(Heads) /\ IsFiniteSet(Ids)
  /\ Requests \subseteq RequestRec
  /\ Batches \subseteq Seq({r \in RequestRec : r.mode = "full"})
  /\ OwnerOf \in [Workers -> Owners]
  /\ WeekPasses \in BOOLEAN
  /\ EarlyRetries \subseteq {"pending", "terminal"} /\ EarlyEnds \in BOOLEAN
  /\ {RunLimit, MaxUnfinished, MaxReservations, MaxStatusRecords, MaxPaid,
      MaxRefunds, MaxGen, MaxEpoch, MaxWrites} \subseteq Nat

VARIABLES
  jobs,     \* unfinished records, keyed by the delivery that created each
  queue,    \* the keys of `jobs` in the order of the `unfinished` vector
  terminal, \* delivery tombstones: id -> outcome
  heads,    \* current head budget of each pull request
  history,  \* head_history: number of tombstones per PR, head and outcome
  retired,  \* retired_checks, in order
  held,     \* what each worker holds
  drain,    \* what each drainer holds
  ledger    \* history variable: head, paid starts and refunds per PR and epoch

sched == <<jobs, queue, terminal, heads, history, retired>>
vars == <<jobs, queue, terminal, heads, history, retired, held, drain, ledger>>

-----------------------------------------------------------------------------
(* Reading the document                                                    *)

Unfinished == {k \in Ids : jobs[k] # None}
IsIncremental(j) == j.mode = "incremental"
\* The unfinished incremental records of a pull request.
PendingFor(pr) == {k \in Unfinished : IsIncremental(jobs[k]) /\ jobs[k].pr = pr}
HasCheck(j, h) == j.checks[h] # None
CheckHeads(j) == {h \in Heads : HasCheck(j, h)}

Remembered(pr, h) == {o \in HeadOutcomes : history[pr][h][o] > 0}
\* The outcome the first unexpired history record restores.
RestoredOutcome(pr, h) ==
  IF Remembered(pr, h) = {} THEN None ELSE CHOOSE o \in Remembered(pr, h) : TRUE

\* head_is_known_terminal
KnownTerminal(j) ==
  /\ IsIncremental(j)
  /\ j.head # NoHead
  /\ \/ /\ heads[j.pr] # None
        /\ heads[j.pr].head = j.head
        /\ heads[j.pr].outcome # None
     \/ Remembered(j.pr, j.head) # {}

\* A terminal result already stored for the record's confirmed head.
ExistingTerminal(j) ==
  IF IsIncremental(j) /\ heads[j.pr] # None THEN heads[j.pr].outcome ELSE None

\* How many members the sets F[x] have in all.
Total(F) == Cardinality(UNION {{x} \X F[x] : x \in DOMAIN F})

ChecksOf == [k \in Unfinished |-> CheckHeads(jobs[k])]
Spares == {k \in Unfinished : jobs[k].spare}
Unresolved == {k \in Unfinished : jobs[k].meta}
\* status_records_in_use
StatusRecords ==
  Len(retired) + Total(ChecksOf) + Cardinality(Spares) + Cardinality(Unresolved)

Entombed == {id \in Ids : terminal[id] # None}
HeadSlots == {pr \in PRs : PendingFor(pr) # {} \/ heads[pr] # None}
HistoryOf ==
  [x \in PRs \X Heads \X HeadOutcomes |-> 1 .. history[x[1]][x[2]][x[3]]]
AcceptedOf == [k \in Unfinished |-> jobs[k].ids]
ReservedOf == [k \in Unfinished |-> 1 .. jobs[k].resv]
\* The part of reserved_capacity that delivery tombstones, head budgets and
\* head history can grow into.
HeadState ==
  Cardinality(Entombed) + Cardinality(HeadSlots) + Total(HistoryOf)
    + Total(AcceptedOf) + Total(ReservedOf)

\* reserved_capacity
ReservedCapacity ==
  HeadState + Len(retired) + Total(ChecksOf) + Cardinality(Spares)

\* The free function owns(), and every "live owner" guard.
Owns(w) ==
  /\ held[w] # None
  /\ jobs[held[w].key] # None
  /\ jobs[held[w].key].id = held[w].id
  /\ jobs[held[w].key].owner = held[w].owner
  /\ jobs[held[w].key].gen = held[w].gen
\* Mutant: a lapsed lease still passes the fence.
OwnsAnyLease(w) == Owns(w)
OwnsLive(w) == Owns(w) /\ jobs[held[w].key].live

Running == {k \in Unfinished : jobs[k].owner # None /\ jobs[k].live}

-----------------------------------------------------------------------------
(* Check identities                                                        *)

\* queued_check_external_id is a digest of the request id and the head.
NewCheck(id, h, g) ==
  [ext |-> <<id, h>>, stage |-> "queued", gen |-> g, published |-> FALSE,
   attempted |-> FALSE, wlive |-> FALSE, wgen |-> 0]

\* A check the forge may show and that has not concluded.
Retirable(c) == c.stage # "completed" /\ (c.published \/ c.attempted)

\* A detached check: claims of its writers are no longer current.
Fenced(c) == [c EXCEPT !.wgen = @ + 1, !.wlive = FALSE]
\* Move the checks of heads S to the retired outbox.
RetiredEntries(j, S) ==
  LET s == SetToSeq(S)
  IN  [i \in DOMAIN s |->
        [pr |-> j.pr, head |-> s[i], check |-> Fenced(j.checks[s[i]])]]

\* detach_checks_except_preserving: the heads whose checks are retired, and
\* the checks the record keeps.
Detached(j, keep, preserve) ==
  {h \in CheckHeads(j) \ {keep, preserve} : Retirable(j.checks[h])}
Kept(j, keep) == [h \in Heads |-> IF h = keep THEN j.checks[h] ELSE None]

\* retire_removed_record_checks
RemovedChecks(j, outcome) ==
  {h \in CheckHeads(j) :
     LET c == j.checks[h] IN
     /\ h # j.head \/ (c.stage = "queued" /\ outcome # "published")
     /\ Retirable(c)
     /\ \A i \in DOMAIN retired : retired[i].check.ext # c.ext}

-----------------------------------------------------------------------------
(* Admission: admit_batch                                                  *)

\* Mutant: tombstones do not deduplicate.
KnownQueued(id) == \E k \in Unfinished : id \in jobs[k].ids
Known(id) ==
  (\E k \in Unfinished : id \in jobs[k].ids) \/ terminal[id] # None

Room(newJobs, status, reservations) ==
  /\ StatusRecords + status <= MaxStatusRecords
  /\ Cardinality(Unfinished) + newJobs <= MaxUnfinished
  /\ ReservedCapacity + reservations <= MaxReservations

NewJob(r) ==
  [pr |-> r.pr, mode |-> r.mode, id |-> r.id, head |-> r.head,
   ids |-> {r.id}, owner |-> None, live |-> FALSE, gen |-> 0,
   ready |-> TRUE, paid |-> 0, refunds |-> 0, yield |-> FALSE,
   hint |-> r.head, resv |-> IF IsIncremental(r) THEN 1 ELSE 0,
   checks |-> [h \in Heads |->
                 IF h = r.head THEN NewCheck(r.id, h, None) ELSE None],
   spare |-> TRUE, meta |-> IsIncremental(r) /\ r.head = NoHead,
   mgen |-> 0, mlive |-> FALSE]

\* rearm_failed_head
Rearmed(b) ==
  IF b # None /\ b.outcome \in FailedOutcomes
  THEN [b EXCEPT !.outcome = None, !.paid = 0, !.refunds = 0,
                 !.epoch = @ + 1]
  ELSE b
RearmIfExplicit(r) ==
  IF r.explicit
  THEN /\ heads' = [heads EXCEPT ![r.pr] = Rearmed(@)]
       /\ heads'[r.pr] # None => heads'[r.pr].epoch <= MaxEpoch
       /\ history' = [history EXCEPT ![r.pr] =
                        [h \in Heads |-> [o \in HeadOutcomes |->
                           IF o \in FailedOutcomes THEN 0 ELSE @[h][o]]]]
  ELSE UNCHANGED <<heads, history>>

\* A webhook for a pull request with no unfinished incremental record.
AdmitNew(r) ==
  /\ IsIncremental(r) /\ ~Known(r.id) /\ PendingFor(r.pr) = {}
  /\ Room(1, 2, IF heads[r.pr] = None THEN 3 ELSE 2)
  /\ RearmIfExplicit(r)
  /\ jobs' = [jobs EXCEPT ![r.id] = NewJob(r)]
  /\ queue' = Append(queue, r.id)
  /\ UNCHANGED <<terminal, retired, held, drain, ledger>>

\* The record after an incremental delivery joins it.  An owned record only
\* learns the hint and is asked to yield; an unowned one takes the request.
Joined(j, r) ==
  LET checked == [h \in Heads |->
                    IF h = r.head /\ ~HasCheck(j, h)
                    THEN NewCheck(r.id, h, None) ELSE j.checks[h]]
      noted == [j EXCEPT !.ids = @ \cup {r.id}, !.hint = r.head,
                  !.checks = checked, !.resv = @ + 1, !.spare = TRUE,
                  !.meta = (r.head = NoHead), !.mgen = @ + 1, !.mlive = FALSE]
  IN  IF j.owner # None
      THEN [noted EXCEPT !.yield = @ \/ j.head # r.head]
      ELSE [noted EXCEPT !.id = r.id, !.head = r.head,
              !.checks = IF j.head # r.head THEN Kept(noted, r.head) ELSE @]

AdmitCoalesced(r) ==
  /\ IsIncremental(r) /\ ~Known(r.id) /\ PendingFor(r.pr) # {}
  /\ LET k == CHOOSE x \in PendingFor(r.pr) : TRUE
         j == jobs[k]
         headless == r.head = NoHead /\ j.head # NoHead
         status == (IF r.head # NoHead /\ ~HasCheck(j, r.head) THEN 1 ELSE 0)
                     + (IF j.spare THEN 0 ELSE 1)
     IN
     /\ Room(0, status, 2)
     /\ jobs' = [jobs EXCEPT ![k] =
                   IF headless THEN [j EXCEPT !.ids = j.ids \cup {r.id}]
                   ELSE Joined(j, r)]
     /\ retired' =
          IF headless \/ j.owner # None \/ j.head = r.head THEN retired
          ELSE retired \o RetiredEntries(j, Detached(j, r.head, NoHead))
  /\ RearmIfExplicit(r)
  /\ UNCHANGED <<queue, terminal, held, drain, ledger>>

\* A manual expansion is admitted whole or not at all.
AdmitManual(batch) ==
  LET n == Len(batch)
      at(k) == CHOOSE i \in DOMAIN batch : batch[i].id = k
      new == {batch[i].id : i \in DOMAIN batch}
  IN
  /\ n > 0 /\ Cardinality(new) = n
  /\ \A id \in new : ~Known(id)
  /\ Room(n, 2 * n, n)
  /\ jobs' = [k \in Ids |-> IF k \in new THEN NewJob(batch[at(k)]) ELSE jobs[k]]
  /\ queue' = queue \o [i \in DOMAIN batch |-> batch[i].id]
  /\ UNCHANGED <<terminal, heads, history, retired, held, drain, ledger>>

-----------------------------------------------------------------------------
(* Workers: claiming, confirming the head, paying                          *)

Claimable(j) ==
  /\ j.ready /\ ~j.live /\ ~j.meta
  /\ \/ CheckHeads(j) = {}
     \/ j.head = NoHead
     \/ HasCheck(j, j.head) /\ j.checks[j.head].published
     \/ KnownTerminal(j)

\* Mutant: a re-claim keeps the generation.
SameGeneration(j) == j.gen
NextGeneration(j) == j.gen + 1

\* Stamp the check of head h, if the record has one, with the generation.
StampCheck(j, h, g) ==
  IF h # NoHead /\ HasCheck(j, h)
  THEN [j EXCEPT !.checks[h].gen = g] ELSE j

\* claim_next_with_limit: the oldest eligible record, within the bound.
ClaimNext(w) ==
  /\ held[w] = None
  /\ Cardinality(Running) < RunLimit
  /\ \E i \in DOMAIN queue :
       LET k == queue[i]
           j == jobs[k]
           g == NextGeneration(j)
       IN
       /\ Claimable(j)
       /\ \A e \in 1 .. i - 1 : ~Claimable(jobs[queue[e]])
       /\ g <= MaxGen
       /\ jobs' = [jobs EXCEPT ![k] =
            StampCheck([j EXCEPT !.gen = g, !.owner = OwnerOf[w], !.live = TRUE],
                       j.head, g)]
       /\ held' = [held EXCEPT ![w] =
            [key |-> k, id |-> j.id, owner |-> OwnerOf[w], gen |-> g,
             phase |-> "claimed", charge |-> None, verdict |-> None,
             wrote |-> NoHead]]
  /\ UNCHANGED <<queue, terminal, heads, history, retired, drain, ledger>>

\* renew: a lapsed lease is never revived, even by its own generation.
Renew(w) ==
  /\ OwnsLive(w)
  /\ jobs' = [jobs EXCEPT ![held[w].key].live = TRUE]
  /\ UNCHANGED <<queue, terminal, heads, history, retired, held, drain, ledger>>

Become(w, phase) == [held EXCEPT ![w].phase = phase]

\* Mutant: a head that comes back is taken for a new one.
ForgetfulBudget(b, j, h) ==
  IF b = None
  THEN [head |-> h, paid |-> j.paid, refunds |-> 0, epoch |-> 0,
        outcome |-> None]
  ELSE IF b.head = h THEN b
  ELSE [head |-> h, paid |-> 0, refunds |-> 0, epoch |-> b.epoch + 1,
        outcome |-> None]
\* confirm_head: the budget of the live head h.
NextBudget(b, j, h) ==
  IF b = None
  THEN [head |-> h, paid |-> j.paid, refunds |-> 0, epoch |-> 0,
        outcome |-> None]
  ELSE IF b.head = h THEN b
  ELSE LET o == RestoredOutcome(j.pr, h) IN
       [head |-> h, paid |-> IF o = "deadline" THEN MaxPaid ELSE 0,
        refunds |-> 0, epoch |-> b.epoch + 1, outcome |-> o]
\* A confirmed head with a result needs a history record to make way.
Displaces(b, h) == b # None /\ b.head # h /\ b.outcome # None
\* Mutants: the history reservation is not spent, or spent both by the
\* displaced result and by the new head.
Unspent(j, b, h) == j
SpentTwice(j, b, h) ==
  IF IsIncremental(j) /\ Displaces(b, h) THEN [j EXCEPT !.resv = @ - 2] ELSE j
\* A displaced result goes to the history on one of the record's
\* head_history_reservations.
Reserved(j, b, h) == IsIncremental(j) /\ Displaces(b, h) => j.resv > 0
Spent(j, b, h) ==
  IF IsIncremental(j) /\ Displaces(b, h) THEN [j EXCEPT !.resv = @ - 1] ELSE j

\* Mutant: a live head always gets its check.
StatusUnbounded(j, h) == FALSE
\* reconcile_live_check, up to CapacityDeferred.
StatusFull(j, h) ==
  ~HasCheck(j, h) /\ ~j.spare /\ StatusRecords >= MaxStatusRecords

ReconcileDeferred(w, h) ==
  /\ OwnsLive(w) /\ held[w].phase = "claimed"
  /\ StatusFull(jobs[held[w].key], h)
  /\ held' = Become(w, "pending")
  /\ UNCHANGED <<sched, drain, ledger>>

\* confirm_head returned false: the worker stops as if it had lost ownership.
ConfirmRefused(w, h) ==
  LET j == jobs[held[w].key] IN
  /\ OwnsLive(w) /\ held[w].phase = "claimed"
  /\ ~StatusFull(j, h)
  /\ ~Reserved(j, heads[j.pr], h)
  /\ held' = [held EXCEPT ![w] = None]
  /\ UNCHANGED <<sched, drain, ledger>>

\* Terminal, Ready or Pending: the record after reconcile_live_check.
Reconciled(j, h, done, g) ==
  LET kept == [j EXCEPT !.head = h, !.checks = Kept(j, h)] IN
  IF done /\ ~(HasCheck(j, h) /\ j.checks[h].published) THEN kept
  ELSE IF HasCheck(j, h) THEN StampCheck(kept, h, g)
  ELSE [kept EXCEPT !.spare = FALSE, !.checks[h] = NewCheck(j.id, h, g)]

Reconcile(w, h) ==
  LET k == held[w].key
      j == jobs[k]
      inc == IsIncremental(j)
      old == heads[j.pr]
      new == NextBudget(old, j, h)
      displaces == inc /\ Displaces(old, h)
      done == inc /\ (new.outcome # None \/ Remembered(j.pr, h) # {})
      shown == HasCheck(j, h) /\ j.checks[h].published
  IN
  /\ OwnsLive(w) /\ held[w].phase = "claimed"
  /\ ~StatusFull(j, h)
  /\ Reserved(j, old, h)
  /\ inc => new.epoch <= MaxEpoch
  /\ heads' = IF inc THEN [heads EXCEPT ![j.pr] = new] ELSE heads
  /\ history' = IF displaces
                THEN [history EXCEPT ![j.pr][old.head][old.outcome] = @ + 1]
                ELSE history
  /\ jobs' = [jobs EXCEPT ![k] = Reconciled(Spent(j, old, h), h, done, held[w].gen)]
  /\ retired' = retired \o RetiredEntries(j, Detached(j, h, NoHead))
  /\ held' = Become(w, IF shown THEN "ready"
                       ELSE IF done THEN "terminal" ELSE "pending")
  /\ UNCHANGED <<queue, terminal, drain, ledger>>

\* run_if_confirmed_head_needs_review, then open_status: the queued check of
\* this generation goes in_progress (set_check_stage).
OwnCheck(w) ==
  LET j == jobs[held[w].key] IN
  /\ j.head # NoHead /\ HasCheck(j, j.head)
  /\ j.checks[j.head].published
  /\ j.checks[j.head].gen = held[w].gen
SetStage(w, stage) ==
  LET k == held[w].key IN
  [jobs EXCEPT ![k].checks[jobs[k].head].stage = stage]

StartCheck(w) ==
  /\ OwnsLive(w) /\ held[w].phase = "ready"
  /\ ExistingTerminal(jobs[held[w].key]) = None
  /\ OwnCheck(w)
  /\ jobs[held[w].key].checks[jobs[held[w].key].head].stage = "queued"
  /\ jobs' = SetStage(w, "in_progress")
  /\ UNCHANGED <<queue, terminal, heads, history, retired, held, drain, ledger>>

\* begin_paid.  The charge names the head and the budget epoch.
BudgetSpent(j) ==
  IF IsIncremental(j)
  THEN LET b == heads[j.pr] IN
       b.outcome # None \/ Remembered(j.pr, b.head) # {} \/ b.paid >= MaxPaid
  ELSE j.paid >= MaxPaid

BeginPaid(w) ==
  LET k == held[w].key
      j == jobs[k]
      epoch == IF IsIncremental(j) THEN heads[j.pr].epoch ELSE 0
  IN
  /\ OwnsLive(w) /\ held[w].phase = "ready"
  /\ ExistingTerminal(j) = None
  /\ IsIncremental(j) => heads[j.pr] # None
  /\ ~BudgetSpent(j)
  /\ IF IsIncremental(j)
     THEN /\ heads' = [heads EXCEPT ![j.pr].paid = @ + 1]
          /\ ledger' = [ledger EXCEPT ![j.pr][epoch] =
               [head |-> heads[j.pr].head, starts |-> @.starts + 1,
                refunds |-> @.refunds]]
          /\ UNCHANGED jobs
     ELSE /\ jobs' = [jobs EXCEPT ![k].paid = @ + 1]
          /\ UNCHANGED <<heads, ledger>>
  /\ held' = [held EXCEPT ![w].phase = "paid",
                          ![w].charge = [head |-> j.head, epoch |-> epoch]]
  /\ UNCHANGED <<queue, terminal, history, retired, drain>>

BeginPaidExhausted(w) ==
  LET j == jobs[held[w].key] IN
  /\ OwnsLive(w) /\ held[w].phase = "ready"
  /\ ExistingTerminal(j) = None
  /\ IsIncremental(j) => heads[j.pr] # None
  /\ BudgetSpent(j)
  /\ held' = Become(w, "exhausted")
  /\ UNCHANGED <<sched, drain, ledger>>

\* The attempt reached a model: its start is no longer refundable.
Dispatch(w) ==
  /\ held[w] # None /\ held[w].phase = "paid" /\ held[w].charge # None
  /\ held' = [held EXCEPT ![w].charge = None]
  /\ UNCHANGED <<sched, drain, ledger>>

\* Mutant: refunds are not counted.
OwedForever(b) == b.paid > 0
\* MAX_REVIEW_OWNERSHIP_REFUNDS not reached, of a budget or a full record.
Owed(b) == b.paid > 0 /\ b.refunds < MaxRefunds

\* refund_paid: the fence ended the attempt before any dispatch.  It needs no
\* live ownership, only the record, the head and the epoch that were charged.
Refundable(h) ==
  LET j == jobs[h.key]
      b == heads[j.pr]
  IN
  /\ j # None /\ j.id = h.id
  /\ IF IsIncremental(j)
     THEN /\ b # None /\ b.head = h.charge.head /\ b.epoch = h.charge.epoch
          /\ b.outcome = None /\ Owed(b)
     ELSE h.charge.epoch = 0 /\ Owed(j)

RefundPaid(w) ==
  LET h == held[w]
      j == jobs[h.key]
  IN
  /\ h # None /\ h.phase = "paid" /\ h.charge # None
  /\ IF Refundable(h) /\ IsIncremental(j)
     THEN /\ heads' = [heads EXCEPT ![j.pr].paid = @ - 1,
                                    ![j.pr].refunds = @ + 1]
          /\ ledger' = [ledger EXCEPT ![j.pr][h.charge.epoch].refunds = @ + 1]
          /\ UNCHANGED jobs
     ELSE /\ jobs' = IF Refundable(h)
                     THEN [jobs EXCEPT ![h.key].paid = @ - 1,
                                       ![h.key].refunds = @ + 1]
                     ELSE jobs
          /\ UNCHANGED <<heads, ledger>>
  /\ held' = [held EXCEPT ![w].phase = "fenced", ![w].charge = None]
  /\ UNCHANGED <<queue, terminal, history, retired, drain>>

\* A transient failure inside the worker: the attempt starts over, uncharged.
\* Before the attempt is paid it may be the answer of reconcile_live_check that
\* was lost, or a defer that failed; after a publication it is the contributor
\* record that could not be written.  MAX_ATTEMPTS is not modelled: a worker
\* may retry as often as its ownership lasts.
Retry(w) ==
  /\ OwnsLive(w) /\ ~jobs[held[w].key].yield
  /\ held[w].phase \in {"ready", "paid", "published"} \cup EarlyRetries
  /\ held' = [held EXCEPT ![w].phase = "claimed", ![w].charge = None]
  /\ UNCHANGED <<sched, drain, ledger>>

\* app::apply published the review.  Ownership was checked before the first
\* write, not with each of them.
Publish(w) ==
  /\ held[w] # None /\ held[w].phase = "paid"
  /\ held' = [held EXCEPT ![w].phase = "published", ![w].charge = None,
                          ![w].wrote = IF Owns(w) THEN jobs[held[w].key].head
                                       ELSE NoHead]
  /\ UNCHANGED <<sched, drain, ledger>>

-----------------------------------------------------------------------------
(* Workers: concluding the check, recording the disposition                *)

\* Dispositions handle_review can reach from each phase of a review.
VerdictsFrom(phase) ==
  CASE phase = "claimed"   -> {"declined", "exhausted", "defer", "defer_later",
                               "yield"}
    [] phase = "ready"     -> {"exhausted", "deadline", "defer", "yield"}
    [] phase = "terminal"  -> {"declined", "exhausted", "yield"}
    [] phase = "pending"   -> IF EarlyEnds THEN {"exhausted", "yield"} ELSE {}
    [] phase = "exhausted" -> {"exhausted"}
    [] phase = "paid"      -> {"declined", "superseded", "exhausted",
                               "deadline", "yield"}
    [] phase = "fenced"    -> {"superseded", "yield"}
    [] phase = "published" -> {"published", "exhausted", "yield"}
    [] OTHER               -> {}

\* A superseding hint turns every outcome but a publication, or an exhausted
\* budget, into a yield when it is seen before the outcome is decided.
Decides(w, v) ==
  LET j == jobs[held[w].key]
      phase == held[w].phase
  IN
  /\ \/ v \in VerdictsFrom(phase)
     \/ phase = "ready" /\ v = "declined" /\ ExistingTerminal(j) # None
  /\ v = "yield" => j.yield
  /\ v \in {"declined", "superseded", "deadline"} => ~j.yield
  /\ v = "exhausted" => ~j.yield \/ phase = "exhausted"

\* close_status: after the ownership check the forge write may succeed and
\* the stage be recorded, or either may fail; the outcome stands.  A worker
\* whose head had no check of its own to open has nothing to close.
Conclude(w, v, closed) ==
  /\ OwnsLive(w) /\ Decides(w, v)
  /\ closed => OwnCheck(w) /\ held[w].phase \notin {"pending", "terminal"}
  /\ jobs' = IF closed THEN SetStage(w, "completed") ELSE jobs
  /\ held' = [held EXCEPT ![w].phase = "concluding", ![w].verdict = v,
                          ![w].charge = None]
  /\ UNCHANGED <<queue, terminal, heads, history, retired, drain, ledger>>

Concluded(w, verdicts) ==
  /\ OwnsLive(w) /\ held[w].phase = "concluding"
  /\ held[w].verdict \in verdicts

\* The record back in the queue with head h, its other checks detached.
Released(j, h) ==
  [j EXCEPT !.owner = None, !.live = FALSE, !.ready = TRUE, !.head = h,
            !.yield = FALSE, !.checks = Kept(j, h)]

\* The head budgets after outcome o: an earlier terminal result stays.
MarkHead(j, o) ==
  IF IsIncremental(j) /\ heads[j.pr] # None /\ ExistingTerminal(j) = None
       /\ o \in HeadOutcomes
  THEN [heads EXCEPT ![j.pr].outcome = o] ELSE heads

\* Mutant: only the request itself becomes a tombstone.
OwnTombstone(j, outcome) == [terminal EXCEPT ![j.id] = outcome]
\* Every delivery accepted into the record becomes a tombstone.
Tombstones(j, outcome) ==
  [id \in Ids |-> IF id \in j.ids THEN outcome ELSE terminal[id]]

\* finish and finish_deadline: the record ends and its ids become tombstones.
Finish(w) ==
  LET k == held[w].key
      j == jobs[k]
      o == held[w].verdict
      outcome == IF ExistingTerminal(j) # None THEN ExistingTerminal(j) ELSE o
      at == CHOOSE i \in DOMAIN queue : queue[i] = k
  IN
  /\ Concluded(w, Outcomes) /\ ~j.yield
  /\ jobs' = [jobs EXCEPT ![k] = None]
  /\ queue' = RemoveAt(queue, at)
  /\ terminal' = Tombstones(j, outcome)
  /\ heads' = MarkHead(j, o)
  /\ retired' = retired \o RetiredEntries(j, RemovedChecks(j, outcome))
  /\ held' = [held EXCEPT ![w] = None]
  /\ UNCHANGED <<history, drain, ledger>>

\* finish_with_yield: the head keeps the result, the accepted ids go back to
\* the queue.  Without a confirmed head nothing is marked (finish_or_yield
\* falls back to defer_yield).  A published head's check is left as it is.
FinishYield(w) ==
  LET k == held[w].key
      j == jobs[k]
      o == held[w].verdict
      preserve == IF o = "published" THEN j.head ELSE NoHead
  IN
  /\ Concluded(w, Outcomes) /\ j.yield
  /\ jobs' = [jobs EXCEPT ![k] = Released(j, j.hint)]
  /\ heads' = MarkHead(j, o)
  /\ retired' = retired \o RetiredEntries(j, Detached(j, j.hint, preserve))
  /\ held' = [held EXCEPT ![w] = None]
  /\ UNCHANGED <<queue, terminal, history, drain, ledger>>

\* defer_yield
DeferYield(w) ==
  LET k == held[w].key
      j == jobs[k]
  IN
  /\ Concluded(w, {"yield"}) /\ j.yield
  /\ jobs' = [jobs EXCEPT ![k] = Released(j, j.hint)]
  /\ retired' = retired \o RetiredEntries(j, Detached(j, j.hint, NoHead))
  /\ held' = [held EXCEPT ![w] = None]
  /\ UNCHANGED <<queue, terminal, heads, history, drain, ledger>>

\* defer, with no delay or with the back-off of a busy lease.
Defer(w) ==
  LET k == held[w].key
      j == jobs[k]
      ready == held[w].verdict # "defer_later"
  IN
  /\ \/ Concluded(w, {"defer", "defer_later"})
     \/ OwnsLive(w) /\ held[w].phase = "pending"
  /\ jobs' = [jobs EXCEPT ![k] =
       IF j.yield THEN [Released(j, j.hint) EXCEPT !.ready = ready]
       ELSE [j EXCEPT !.owner = None, !.live = FALSE, !.ready = ready]]
  /\ retired' = IF j.yield
                THEN retired \o RetiredEntries(j, Detached(j, j.hint, NoHead))
                ELSE retired
  /\ held' = [held EXCEPT ![w] = None]
  /\ UNCHANGED <<queue, terminal, heads, history, drain, ledger>>

\* The process crashed, its local fence tripped, or a call answered that the
\* ownership is lost: the worker is gone and the record keeps its lease.
Drop(w) ==
  /\ held[w] # None
  /\ held' = [held EXCEPT ![w] = None]
  /\ UNCHANGED <<sched, drain, ledger>>

-----------------------------------------------------------------------------
(* Drainers: publishing queued checks, resolving headless requests         *)

\* claim_pending_metadata.  The order by acceptance time is not modelled.
ClaimMetadata(d) ==
  /\ drain[d] = None
  /\ \E k \in Unfinished :
       LET j == jobs[k] IN
       /\ j.meta /\ j.head = NoHead /\ j.owner = None /\ j.ready /\ ~j.mlive
       /\ j.mgen < MaxWrites
       /\ jobs' = [jobs EXCEPT ![k].mgen = @ + 1, ![k].mlive = TRUE]
       /\ drain' = [drain EXCEPT ![d] =
            [kind |-> "metadata", key |-> k, id |-> j.id, mgen |-> j.mgen + 1]]
  /\ UNCHANGED <<queue, terminal, heads, history, retired, held, ledger>>

\* metadata_claim_current, of the claim c
MetadataCurrent(c) ==
  LET j == jobs[c.key] IN
  /\ j # None /\ j.id = c.id /\ j.meta /\ j.head = NoHead
  /\ j.owner = None /\ j.mgen = c.mgen /\ j.mlive

\* resolve_pending_metadata: a closed or draft pull request is declined here,
\* otherwise h becomes the head to queue a check for.
ResolveClosed(d) ==
  LET k == drain[d].key
      at == CHOOSE i \in DOMAIN queue : queue[i] = k
  IN
  /\ drain[d] # None /\ drain[d].kind = "metadata" /\ MetadataCurrent(drain[d])
  /\ jobs' = [jobs EXCEPT ![k] = None]
  /\ queue' = RemoveAt(queue, at)
  /\ terminal' = Tombstones(jobs[k], "declined")
  /\ drain' = [drain EXCEPT ![d] = None]
  /\ UNCHANGED <<heads, history, retired, held, ledger>>

ResolveOpen(d, h) ==
  LET k == drain[d].key
      j == jobs[k]
  IN
  /\ drain[d] # None /\ drain[d].kind = "metadata" /\ MetadataCurrent(drain[d])
  /\ jobs' = [jobs EXCEPT ![k] =
       [j EXCEPT !.head = h, !.hint = h, !.meta = FALSE, !.mlive = FALSE,
          !.checks[h] = IF HasCheck(j, h) THEN j.checks[h]
                       ELSE NewCheck(j.id, h, None)]]
  /\ drain' = [drain EXCEPT ![d] = None]
  /\ UNCHANGED <<queue, terminal, heads, history, retired, held, ledger>>

\* Mutant: a concluded head is drained.
DrainableAnyHead(j) ==
  /\ j.head # NoHead /\ HasCheck(j, j.head)
  /\ ~j.checks[j.head].published /\ ~j.checks[j.head].wlive
\* claim_pending_checks(now, 1): a queued check first, else a retired one.
Drainable(j) ==
  /\ ~KnownTerminal(j)
  /\ j.head # NoHead /\ HasCheck(j, j.head)
  /\ ~j.checks[j.head].published /\ ~j.checks[j.head].wlive

ClaimCheck(d) ==
  /\ drain[d] = None
  /\ \E k \in Unfinished :
       LET j == jobs[k]
           c == j.checks[j.head]
       IN
       /\ Drainable(j) /\ c.wgen < MaxWrites
       /\ jobs' = [jobs EXCEPT ![k].checks[j.head] =
                    [@ EXCEPT !.wgen = c.wgen + 1, !.wlive = TRUE]]
       /\ drain' = [drain EXCEPT ![d] =
            [kind |-> "active", ext |-> c.ext, head |-> j.head,
             wgen |-> c.wgen + 1, known |-> FALSE]]
  /\ UNCHANGED <<queue, terminal, heads, history, retired, held, ledger>>

ClaimRetired(d) ==
  /\ drain[d] = None
  /\ ~\E k \in Unfinished : Drainable(jobs[k])
  /\ \E i \in DOMAIN retired :
       LET c == retired[i].check IN
       /\ ~c.wlive /\ \A e \in 1 .. i - 1 : retired[e].check.wlive
       /\ c.wgen <= 2 * MaxWrites
       /\ retired' = [retired EXCEPT ![i].check.wgen = @ + 1,
                                     ![i].check.wlive = TRUE]
       /\ drain' = [drain EXCEPT ![d] =
            [kind |-> "retired", ext |-> c.ext, head |-> retired[i].head,
             wgen |-> c.wgen + 1, known |-> c.published]]
  /\ UNCHANGED <<jobs, queue, terminal, heads, history, held, ledger>>

\* queued_check_claim_current for an active claim c on record k
ActiveCurrent(c, k) ==
  /\ jobs[k] # None /\ jobs[k].head = c.head /\ HasCheck(jobs[k], c.head)
  /\ LET x == jobs[k].checks[c.head] IN
     /\ x.ext = c.ext /\ ~x.published /\ x.wgen = c.wgen /\ x.wlive
RetiredCurrent(c, i) ==
  LET x == retired[i].check IN
  x.ext = c.ext /\ x.wgen = c.wgen /\ x.wlive
DrainsActive(d) == drain[d] # None /\ drain[d].kind = "active"
DrainsRetired(d) == drain[d] # None /\ drain[d].kind = "retired"

\* mark_queue_post_attempted: the POST is about to leave.
MarkPostAttempted(d) ==
  /\ DrainsActive(d)
  /\ \E k \in Ids :
       /\ ActiveCurrent(drain[d], k)
       /\ jobs' = [jobs EXCEPT ![k].checks[drain[d].head].attempted = TRUE]
  /\ UNCHANGED <<queue, terminal, heads, history, retired, held, drain, ledger>>

\* record_queued_check_id, with the run the lookup found or the POST made.
RecordCheckId(d) ==
  /\ DrainsActive(d)
  /\ \E k \in Ids :
       /\ ActiveCurrent(drain[d], k)
       /\ jobs' = [jobs EXCEPT ![k].checks[drain[d].head] =
                    [@ EXCEPT !.published = TRUE, !.wlive = FALSE]]
  /\ drain' = [drain EXCEPT ![d] = None]
  /\ UNCHANGED <<queue, terminal, heads, history, retired, held, ledger>>

\* record_queued_check_id for a retired check: only the first entry of that
\* external id is looked at.
RecordRetiredId(d) ==
  /\ DrainsRetired(d) /\ ~drain[d].known
  /\ \E i \in DOMAIN retired :
       /\ RetiredCurrent(drain[d], i)
       /\ \A e \in 1 .. i - 1 : retired[e].check.ext # drain[d].ext
       /\ retired' = [retired EXCEPT ![i].check.published = TRUE]
  /\ drain' = [drain EXCEPT ![d].known = TRUE]
  /\ UNCHANGED <<jobs, queue, terminal, heads, history, held, ledger>>

\* complete_retired_check, after the forge acknowledged the terminal status.
CompleteRetired(d) ==
  /\ DrainsRetired(d) /\ drain[d].known
  /\ \E i \in DOMAIN retired :
       /\ RetiredCurrent(drain[d], i) /\ retired[i].check.published
       /\ \A e \in 1 .. i - 1 :
            ~(RetiredCurrent(drain[d], e) /\ retired[e].check.published)
       /\ retired' = RemoveAt(retired, i)
  /\ drain' = [drain EXCEPT ![d] = None]
  /\ UNCHANGED <<jobs, queue, terminal, heads, history, held, ledger>>

\* The claim was no longer current, the forge failed, the operation timed out
\* or the process died: the drainer goes on without it.
Abandon(d) ==
  /\ drain[d] # None
  /\ drain' = [drain EXCEPT ![d] = None]
  /\ UNCHANGED <<sched, held, ledger>>

-----------------------------------------------------------------------------
(* Time                                                                    *)

\* REVIEW_OWNER_TTL_MS passed since the last renewal.
LeaseLapses(k) ==
  /\ jobs[k] # None /\ jobs[k].live
  /\ jobs' = [jobs EXCEPT ![k].live = FALSE]
  /\ UNCHANGED <<queue, terminal, heads, history, retired, held, drain, ledger>>

\* not_before_ms was reached.
BackoffEnds(k) ==
  /\ jobs[k] # None /\ ~jobs[k].ready
  /\ jobs' = [jobs EXCEPT ![k].ready = TRUE]
  /\ UNCHANGED <<queue, terminal, heads, history, retired, held, drain, ledger>>

\* QUEUE_STATUS_CLAIM_TTL_MS passed for a metadata, active or retired claim.
MetadataClaimLapses(k) ==
  /\ jobs[k] # None /\ jobs[k].mlive
  /\ jobs' = [jobs EXCEPT ![k].mlive = FALSE]
  /\ UNCHANGED <<queue, terminal, heads, history, retired, held, drain, ledger>>

CheckClaimLapses(k, h) ==
  /\ jobs[k] # None /\ HasCheck(jobs[k], h) /\ jobs[k].checks[h].wlive
  /\ jobs' = [jobs EXCEPT ![k].checks[h].wlive = FALSE]
  /\ UNCHANGED <<queue, terminal, heads, history, retired, held, drain, ledger>>

RetiredClaimLapses(i) ==
  /\ retired[i].check.wlive
  /\ retired' = [retired EXCEPT ![i].check.wlive = FALSE]
  /\ UNCHANGED <<jobs, queue, terminal, heads, history, held, drain, ledger>>

\* REVIEW_TOMBSTONE_TTL_MS passed.  Seven days outlive every worker (minutes)
\* and drainer (QUEUE_STATUS_OPERATION_TIMEOUT), so none still names the id.
TombstoneExpires(id) ==
  /\ WeekPasses /\ terminal[id] # None
  /\ \A w \in Workers : held[w] # None => id \notin {held[w].id, held[w].key}
  /\ \A d \in Drainers : drain[d] # None =>
       /\ drain[d].kind = "metadata" => id \notin {drain[d].id, drain[d].key}
       /\ drain[d].kind # "metadata" => id # drain[d].ext[1]
  /\ terminal' = [terminal EXCEPT ![id] = None]
  /\ UNCHANGED <<jobs, queue, heads, history, retired, held, drain, ledger>>

HistoryExpires(pr, h, o) ==
  /\ WeekPasses /\ history[pr][h][o] > 0
  /\ history' = [history EXCEPT ![pr][h][o] = @ - 1]
  /\ UNCHANGED <<jobs, queue, terminal, heads, retired, held, drain, ledger>>

-----------------------------------------------------------------------------
(* Specification                                                           *)

Init ==
  /\ jobs = [k \in Ids |-> None]
  /\ queue = <<>>
  /\ terminal = [id \in Ids |-> None]
  /\ heads = [pr \in PRs |-> None]
  /\ history = [pr \in PRs |-> [h \in Heads |-> [o \in HeadOutcomes |-> 0]]]
  /\ retired = <<>>
  /\ held = [w \in Workers |-> None]
  /\ drain = [d \in Drainers |-> None]
  /\ ledger = [pr \in PRs |-> [e \in 0 .. MaxEpoch |->
                       [head |-> NoHead, starts |-> 0, refunds |-> 0]]]

Admit ==
  \/ \E r \in Requests : AdmitNew(r) \/ AdmitCoalesced(r)
  \/ \E batch \in Batches : AdmitManual(batch)

WorkerStep(w) ==
  \/ ClaimNext(w) \/ Renew(w) \/ StartCheck(w)
  \/ \E h \in Heads : ReconcileDeferred(w, h) \/ ConfirmRefused(w, h)
                       \/ Reconcile(w, h)
  \/ BeginPaid(w) \/ BeginPaidExhausted(w) \/ Dispatch(w) \/ RefundPaid(w)
  \/ Retry(w) \/ Publish(w)
  \/ \E v \in Verdicts, closed \in BOOLEAN : Conclude(w, v, closed)
  \/ Finish(w) \/ FinishYield(w) \/ DeferYield(w) \/ Defer(w) \/ Drop(w)

DrainerStep(d) ==
  \/ ClaimMetadata(d) \/ ResolveClosed(d) \/ \E h \in Heads : ResolveOpen(d, h)
  \/ ClaimCheck(d) \/ ClaimRetired(d) \/ MarkPostAttempted(d)
  \/ RecordCheckId(d) \/ RecordRetiredId(d) \/ CompleteRetired(d)
  \/ Abandon(d)

TimePasses ==
  \/ \E k \in Ids : \/ LeaseLapses(k) \/ BackoffEnds(k) \/ TombstoneExpires(k)
                    \/ MetadataClaimLapses(k)
                    \/ \E h \in Heads : CheckClaimLapses(k, h)
  \/ \E i \in DOMAIN retired : RetiredClaimLapses(i)
  \/ \E pr \in PRs, h \in Heads, o \in HeadOutcomes : HistoryExpires(pr, h, o)

Next ==
  \/ Admit
  \/ \E w \in Workers : WorkerStep(w)
  \/ \E d \in Drainers : DrainerStep(d)
  \/ TimePasses

Spec == Init /\ [][Next]_vars

-----------------------------------------------------------------------------
(* Properties                                                              *)

\* Every part of the document and of the processes has its declared shape.
TypeOK ==
  /\ jobs \in [Ids -> Job \cup {None}]
  /\ queue \in Seq(Ids)
  /\ terminal \in [Ids -> Outcomes \cup {None}]
  /\ heads \in [PRs -> Budget \cup {None}]
  /\ history \in [PRs -> [Heads -> [HeadOutcomes -> Nat]]]
  /\ retired \in Seq(Retired)
  /\ held \in [Workers -> Handle \cup {None}]
  /\ drain \in [Drainers -> CheckClaim \cup MetaClaim \cup {None}]
  /\ ledger \in [PRs -> [0 .. MaxEpoch ->
                  [head: Heads \cup {NoHead}, starts: Nat, refunds: Nat]]]

\* The global bound holds at every moment: a lease that lapsed stops counting
\* and may be claimed by another process, so no late renewal of the old owner
\* may bring it back (claim_next_with_limit, renew).
RunningBounded == Cardinality(Running) <= RunLimit

\* At most one of the processes that believe they own a record passes the
\* ownership fence, even when two of them run in one process and share its
\* owner identity (owns; claim_next_with_limit raises the generation).
FenceExclusive ==
  \A v, w \in Workers :
    v # w /\ Owns(v) /\ Owns(w) => held[v].key # held[w].key

\* An accepted delivery is in exactly one unfinished record or one tombstone,
\* the deliveries of one pull request share one record whether it waits or
\* runs, and the claim order lists every unfinished record once (admit_batch,
\* finish, resolve_pending_metadata).
AcceptedOnce ==
  /\ \A k, l \in Unfinished : k # l => jobs[k].ids \cap jobs[l].ids = {}
  /\ \A k \in Unfinished : k \in jobs[k].ids /\ jobs[k].id \in jobs[k].ids
  /\ \A k \in Unfinished : \A id \in jobs[k].ids : terminal[id] = None
  /\ \A pr \in PRs : \A k, l \in PendingFor(pr) : k = l
  /\ ToSet(queue) = Unfinished /\ Len(queue) = Cardinality(Unfinished)

\* An acknowledged delivery is never lost: it leaves its record only for a
\* tombstone, and a tombstone only by expiring.
AckedNeverLost ==
  [][\A id \in Ids : Known(id) => Known(id)' \/ TombstoneExpires(id)]_vars

\* What one budget epoch of a head can cost: at most MaxPaid starts that were
\* not refunded, and MaxPaid + MaxRefunds starts in all, across every worker,
\* crash and late refund (begin_paid, refund_paid, rearm_failed_head).
SpendBounded ==
  \A pr \in PRs, e \in 0 .. MaxEpoch :
    /\ ledger[pr][e].starts <= ledger[pr][e].refunds + MaxPaid
    /\ ledger[pr][e].refunds <= MaxRefunds

\* A stored result of a head, in the budget or in the history.
Result(pr, h) ==
  IF heads[pr] # None /\ heads[pr].head = h /\ heads[pr].outcome # None
  THEN heads[pr].outcome ELSE RestoredOutcome(pr, h)

\* What docs/modules/server/README.md:108-109 says: a confirmed successful
\* publication is retained when an owner yields.  An owner that published and
\* yields must leave the published result on the head (review_inner's
\* record_review failing after app::apply; defer_yield marks no head).
PublicationRetained ==
  \A w \in Workers :
    /\ Concluded(w, {"yield"})
    /\ held[w].wrote # NoHead
    => Result(jobs[held[w].key].pr, held[w].wrote) = "published"

\* A reviewed or declined head keeps that result until its history expires:
\* no push, yield, late finish or re-request replaces it, so no comment can
\* buy a second paid review of it (rearm_failed_head, confirm_head,
\* finish_with_yield).
ReviewedStaysReviewed ==
  [][\A pr \in PRs, h \in Heads :
       Result(pr, h) \in {"published", "declined"} =>
         \/ Result(pr, h)' = Result(pr, h)
         \/ \E o \in HeadOutcomes : HistoryExpires(pr, h, o)]_vars

\* All history records of one head agree, so which of them confirm_head
\* restores does not matter; and a head without a result has none.
HistoryAgrees ==
  \A pr \in PRs, h \in Heads :
    /\ Cardinality(Remembered(pr, h)) <= 1
    /\ heads[pr] # None /\ heads[pr].head = h =>
         Remembered(pr, h) \subseteq {heads[pr].outcome}

\* Later live-head transitions and tombstones always fit what admission
\* reserved: nothing has to be evicted (reserved_capacity).
HeadStateFits == HeadState <= MaxReservations

\* Active, detached and promised check identities stay within
\* MAX_REVIEW_STATUS_RECORDS.
StatusRecordsFit == StatusRecords <= MaxStatusRecords

\* "A redelivery for a head that already concluded must never POST a queued
\* run: it would supersede the completed review" (review_job.rs:487-488): no
\* queued check is posted for a head that was reviewed, or whose review ran out
\* of time.  The claim is made before the review ends, by a process that knows
\* nothing of it, and the check before the POST does not ask (claim_pending_checks,
\* queued_check_claim_current, reconcile_live_check, finish_with_yield).  A head
\* that is declined by a yield is not covered.
NoQueuedPostOnReviewedHead ==
  \A d \in Drainers, k \in Ids :
    DrainsActive(d) /\ ActiveCurrent(drain[d], k) /\ IsIncremental(jobs[k])
      => Result(jobs[k].pr, jobs[k].head) \notin {"published", "deadline"}
==============================================================================

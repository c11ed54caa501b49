------------------------ MODULE ReviewSchedulerSafety ------------------------
(***************************************************************************)
(* Safety theorems about ReviewScheduler: what an epoch of a head may      *)
(* cost, who passes the ownership fence, and how many reviews run.         *)
(*                                                                         *)
(* None of the three is inductive.  SpendBounded needs the relation        *)
(* between the budget the document stores and what was really charged,     *)
(* and FenceExclusive that a handle never outruns the generation of its    *)
(* record, and that its key cannot be admitted again while it is held.     *)
(***************************************************************************)
EXTENDS ReviewSchedulerProofs

-----------------------------------------------------------------------------
(* The strengthened invariants                                             *)

EpochBounded(pr, e) ==
  /\ ledger[pr][e].starts <= ledger[pr][e].refunds + MaxPaid
  /\ ledger[pr][e].refunds <= MaxRefunds

Unspent0(pr, e) == ledger[pr][e].starts = 0 /\ ledger[pr][e].refunds = 0

\* The stored budget accounts for its own epoch: every start it does not
\* show in `paid` was refunded.  Later epochs have not begun.
Accounted(pr) ==
  /\ heads[pr] = None => \A e \in 0 .. MaxEpoch : Unspent0(pr, e)
  /\ heads[pr] # None =>
       LET b == heads[pr] IN
       /\ b.epoch \in 0 .. MaxEpoch
       /\ b.paid <= MaxPaid /\ b.refunds <= MaxRefunds
       /\ ledger[pr][b.epoch].refunds = b.refunds
       /\ ledger[pr][b.epoch].starts <= b.paid + b.refunds
       /\ \A e \in 0 .. MaxEpoch : e > b.epoch => Unspent0(pr, e)
       /\ \A e \in 0 .. MaxEpoch : e < b.epoch => EpochBounded(pr, e)

JobsPaid == \A k \in Unfinished : jobs[k].paid <= MaxPaid
SpendInv == JobsPaid /\ \A pr \in PRs : Accounted(pr)

\* A handle names a record of at least its generation, or one that ended and
\* whose key is still a tombstone; two handles on one record differ.
FenceInv ==
  /\ \A w \in Workers : held[w] # None =>
       LET k == held[w].key IN
       /\ jobs[k] # None => held[w].gen <= jobs[k].gen
       /\ jobs[k] = None => terminal[k] # None
  /\ \A v, w \in Workers :
       v # w /\ held[v] # None /\ held[w] # None /\ held[v].key = held[w].key
         => held[v].gen # held[w].gen

-----------------------------------------------------------------------------
(* What an operation may do to the records                                 *)

\* No record appears, no generation and no charge changes, and no lease that
\* is not running starts to run.
Steady ==
  \A k \in Ids : jobs'[k] # None =>
    /\ jobs[k] # None
    /\ jobs'[k].gen = jobs[k].gen /\ jobs'[k].paid = jobs[k].paid
    /\ jobs'[k].owner # None /\ jobs'[k].live =>
         jobs[k].owner # None /\ jobs[k].live

\* A worker keeps the record and the generation it claimed.
HeldKept ==
  \A w \in Workers : held'[w] # None =>
    /\ held[w] # None
    /\ held'[w].key = held[w].key /\ held'[w].gen = held[w].gen

\* A key some worker holds stays a record or becomes a tombstone, and a
\* tombstone of a held key stays.
HeldEntombed ==
  \A w \in Workers : held[w] # None =>
    LET k == held[w].key IN
    /\ jobs[k] # None /\ jobs'[k] = None => terminal'[k] # None
    /\ terminal[k] # None => terminal'[k] # None

\* The claim order tells which records exist.
LEMMA SameRecords ==
  ASSUME Typed, Typed', UNCHANGED queue
  PROVE  \A k \in Ids : jobs'[k] # None <=> jobs[k] # None
<1>1. ASSUME NEW k \in Ids, jobs[k] # None
      PROVE  jobs'[k] # None
  <2>1. PICK i \in DOMAIN queue : queue[i] = k
    BY <1>1 DEF Typed, Listed, Unfinished
  <2>2. QED
    BY <2>1 DEF Typed, Listed
<1>2. ASSUME NEW k \in Ids, jobs'[k] # None
      PROVE  jobs[k] # None
  <2>1. PICK i \in DOMAIN queue' : queue'[i] = k
    BY <1>2 DEF Typed, Listed, Unfinished
  <2>2. QED
    BY <2>1 DEF Typed, Listed
<1>3. QED
  BY <1>1, <1>2

\* A step that replaces one record by one of the same generation and charge.
LEMMA UpdateSteady ==
  ASSUME Typed, NEW k \in Ids, jobs[k] # None, NEW v,
         jobs' = [jobs EXCEPT ![k] = v],
         v.gen = jobs[k].gen, v.paid = jobs[k].paid,
         v.owner # None /\ v.live => jobs[k].owner # None /\ jobs[k].live
  PROVE  Steady
<1>1. jobs \in [Ids -> Job \cup {None}]
  BY DEF Typed, TypeOK
<1>2. jobs'[k] = v /\ \A x \in Ids : x # k => jobs'[x] = jobs[x]
  BY <1>1
<1>3. QED
  BY <1>2 DEF Steady

\* A step that only rewrites the checks of one record.
LEMMA ChecksSteady ==
  ASSUME Typed, NEW k \in Ids, jobs[k] # None, NEW c,
         jobs' = [jobs EXCEPT ![k] = [jobs[k] EXCEPT !.checks = c]]
  PROVE  Steady
<1> DEFINE v == [jobs[k] EXCEPT !.checks = c]
<1>1. jobs[k] \in Job
  BY DEF Typed, TypeOK
<1>2. /\ v.gen = jobs[k].gen /\ v.paid = jobs[k].paid
      /\ v.owner = jobs[k].owner /\ v.live = jobs[k].live
  BY <1>1 DEF Job
<1>3. jobs'[k] = v /\ \A x \in Ids : x # k => jobs'[x] = jobs[x]
  BY DEF Typed, TypeOK
<1> HIDE DEF v
<1>4. QED
  BY <1>2, <1>3 DEF Steady

\* A step that ends one record.
LEMMA EndSteady ==
  ASSUME Typed, NEW k \in Ids, jobs' = [jobs EXCEPT ![k] = None]
  PROVE  Steady
<1>1. jobs \in [Ids -> Job \cup {None}]
  BY DEF Typed, TypeOK
<1>2. jobs'[k] = None /\ \A x \in Ids : x # k => jobs'[x] = jobs[x]
  BY <1>1
<1>3. QED
  BY <1>2 DEF Steady

\* Steps that leave the records alone.
LEMMA UnchangedSteady ==
  ASSUME UNCHANGED jobs
  PROVE  Steady
  BY DEF Steady

\* The worker steps that keep every generation and charge.
LEMMA WorkerSteady ==
  ASSUME Typed, NEW w \in Workers,
         \/ Renew(w) \/ StartCheck(w) \/ \E h \in Heads : Reconcile(w, h)
         \/ \E v \in Verdicts, closed \in BOOLEAN : Conclude(w, v, closed)
         \/ Finish(w) \/ FinishYield(w) \/ DeferYield(w) \/ Defer(w)
  PROVE  Steady
<1> DEFINE k == held[w].key
           j == jobs[k]
<1>1. held[w] \in Handle /\ k \in Ids /\ j \in Job /\ j # None /\ OwnsLive(w)
  BY OwnedType DEF OwnsLive, Renew, StartCheck, Reconcile, Conclude, Finish,
     FinishYield, DeferYield, Defer, Concluded
<1>2. CASE Renew(w)
  <2> DEFINE v == [j EXCEPT !.live = TRUE]
  <2>1. v.gen = j.gen /\ v.paid = j.paid
    BY <1>1 DEF Job
  <2>2. j.owner # None /\ j.live
    BY <1>1, ConstantsAssumption DEF OwnsLive, Owns, Handle, ConstantsAssumption
  <2>3. jobs' = [jobs EXCEPT ![k] = v]
    BY <1>2 DEF Renew
  <2> HIDE DEF v
  <2>4. QED
    BY <1>1, <2>1, <2>2, <2>3, UpdateSteady
<1>3. ASSUME NEW stage, jobs' = SetStage(w, stage)
      PROVE  Steady
  <2>1. jobs' = [jobs EXCEPT ![k] = [jobs[k] EXCEPT !.checks =
          [j.checks EXCEPT ![j.head] = [j.checks[j.head] EXCEPT !.stage = stage]]]]
    BY <1>3 DEF SetStage
  <2>2. QED
    BY <1>1, <2>1, ChecksSteady
<1>4. CASE \E h \in Heads : Reconcile(w, h)
  <2>1. PICK h \in Heads : Reconcile(w, h)
    BY <1>4
  <2> DEFINE old == heads[j.pr]
             new == NextBudget(old, j, h)
             done == IsIncremental(j) /\ (new.outcome # None \/ Remembered(j.pr, h) # {})
             v == Reconciled(Spent(j, old, h), h, done, held[w].gen)
  <2>2. jobs' = [jobs EXCEPT ![k] = v] /\ Reserved(j, old, h)
    BY <2>1 DEF Reconcile
  <2>3. j \in Job /\ held[w].gen \in Nat /\ Reserved(j, old, h)
    BY <1>1, <2>2 DEF Handle
  <2> HIDE DEF j, old
  <2>4. v.gen = j.gen /\ v.paid = j.paid /\ v.owner = j.owner /\ v.live = j.live
    BY <2>3, SpentReconciledType
  <2> HIDE DEF v
  <2>5. QED
    BY <1>1, <2>2, <2>4, UpdateSteady DEF j
<1>5. CASE Finish(w)
  BY <1>1, <1>5, EndSteady DEF Finish
<1>6. ASSUME NEW v, v = Released(j, j.hint)
      PROVE  v.gen = j.gen /\ v.paid = j.paid /\ v.owner = None
  BY <1>1, <1>6 DEF Released, Job
<1>7. CASE FinishYield(w) \/ DeferYield(w)
  <2>1. jobs' = [jobs EXCEPT ![k] = Released(j, j.hint)]
    BY <1>7 DEF FinishYield, DeferYield
  <2>2. QED
    BY <1>1, <1>6, <2>1, UpdateSteady
<1>8. CASE Defer(w)
  <2> DEFINE ready == held[w].verdict # "defer_later"
             v == IF j.yield THEN [Released(j, j.hint) EXCEPT !.ready = ready]
                  ELSE [j EXCEPT !.owner = None, !.live = FALSE, !.ready = ready]
  <2>1. jobs' = [jobs EXCEPT ![k] = v]
    BY <1>8 DEF Defer
  <2>2. v.gen = j.gen /\ v.paid = j.paid /\ v.owner = None
    BY <1>1 DEF Released, Job
  <2> HIDE DEF v
  <2>3. QED
    BY <1>1, <2>1, <2>2, UpdateSteady
<1>9. QED
  BY <1>2, <1>3, <1>4, <1>5, <1>7, <1>8, UnchangedSteady
     DEF StartCheck, Conclude

\* The drainer steps keep every generation and charge.
LEMMA DrainerSteady ==
  ASSUME Typed, NEW d \in Drainers, DrainerStep(d)
  PROVE  Steady
<1>1. CASE ClaimMetadata(d)
  <2>1. PICK k \in Unfinished :
          jobs' = [jobs EXCEPT ![k].mgen = @ + 1, ![k].mlive = TRUE]
    BY <1>1 DEF ClaimMetadata
  <2>2. k \in Ids /\ jobs[k] # None /\ jobs[k] \in Job
    BY DEF Unfinished, Typed, TypeOK
  <2> DEFINE v == [jobs[k] EXCEPT !.mgen = jobs[k].mgen + 1, !.mlive = TRUE]
  <2>3. jobs' = [jobs EXCEPT ![k] = v]
    BY <2>1, <2>2 DEF Typed, TypeOK
  <2>4. /\ v.gen = jobs[k].gen /\ v.paid = jobs[k].paid
        /\ v.owner = jobs[k].owner /\ v.live = jobs[k].live
    BY <2>2 DEF Job
  <2> HIDE DEF v
  <2>5. QED
    BY <2>2, <2>3, <2>4, UpdateSteady
<1>2. CASE ResolveClosed(d)
  BY <1>2, MetaClaimType, EndSteady DEF ResolveClosed
<1>3. ASSUME NEW h \in Heads, ResolveOpen(d, h)
      PROVE  Steady
  <2> DEFINE k == drain[d].key
             j == jobs[k]
             c == IF HasCheck(j, h) THEN j.checks[h] ELSE NewCheck(j.id, h, None)
             v == [j EXCEPT !.head = h, !.hint = h, !.meta = FALSE,
                            !.mlive = FALSE, !.checks[h] = c]
  <2>1. k \in Ids /\ j # None /\ j \in Job
    BY <1>3, MetaClaimType DEF ResolveOpen, MetadataCurrent, Typed, TypeOK
  <2>2. jobs' = [jobs EXCEPT ![k] = v]
    BY <1>3 DEF ResolveOpen
  <2> HIDE DEF c
  <2>3. v.gen = j.gen /\ v.paid = j.paid /\ v.owner = j.owner /\ v.live = j.live
    BY <2>1 DEF Job
  <2> HIDE DEF v
  <2>4. QED
    BY <2>1, <2>2, <2>3, UpdateSteady
<1>4. CASE ClaimCheck(d)
  <2>1. PICK k \in Unfinished :
          LET c == jobs[k].checks[jobs[k].head] IN
          jobs' = [jobs EXCEPT ![k].checks[jobs[k].head] =
                     [@ EXCEPT !.wgen = c.wgen + 1, !.wlive = TRUE]]
    BY <1>4 DEF ClaimCheck
  <2> DEFINE x == jobs[k].checks
             h == jobs[k].head
             y == [x EXCEPT ![h] = [x[h] EXCEPT !.wgen = x[h].wgen + 1, !.wlive = TRUE]]
  <2>2. k \in Ids /\ jobs[k] # None
    BY DEF Unfinished
  <2>3. jobs' = [jobs EXCEPT ![k] = [jobs[k] EXCEPT !.checks = y]]
    BY <2>1
  <2>4. QED
    BY <2>2, <2>3, ChecksSteady
<1>5. CASE MarkPostAttempted(d) \/ RecordCheckId(d)
  <2> DEFINE h == drain[d].head
  <2>1. PICK k \in Ids :
          /\ jobs[k] # None
          /\ \/ jobs' = [jobs EXCEPT ![k].checks[h].attempted = TRUE]
             \/ jobs' = [jobs EXCEPT ![k].checks[h] =
                           [@ EXCEPT !.published = TRUE, !.wlive = FALSE]]
    BY <1>5 DEF MarkPostAttempted, RecordCheckId, ActiveCurrent
  <2> DEFINE x == jobs[k].checks
             c1 == [x EXCEPT ![h].attempted = TRUE]
             c2 == [x EXCEPT ![h] = [@ EXCEPT !.published = TRUE, !.wlive = FALSE]]
  <2>2. PICK c \in {c1, c2} :
          jobs' = [jobs EXCEPT ![k] = [jobs[k] EXCEPT !.checks = c]]
    BY <2>1
  <2>3. QED
    BY <2>1, <2>2, ChecksSteady
<1>6. QED
  BY <1>1, <1>2, <1>3, <1>4, <1>5, UnchangedSteady
     DEF DrainerStep, ClaimRetired, RecordRetiredId, CompleteRetired, Abandon,
         sched

\* So does time.
LEMMA TimeSteady ==
  ASSUME Typed, TimePasses
  PROVE  Steady
<1>1. ASSUME NEW k \in Ids,
             LeaseLapses(k) \/ BackoffEnds(k) \/ MetadataClaimLapses(k)
      PROVE  Steady
  <2> DEFINE j == jobs[k]
             v1 == [j EXCEPT !.live = FALSE]
             v2 == [j EXCEPT !.ready = TRUE]
             v3 == [j EXCEPT !.mlive = FALSE]
  <2>1. j # None /\ j \in Job
    BY <1>1 DEF LeaseLapses, BackoffEnds, MetadataClaimLapses, Typed, TypeOK
  <2>2. PICK v \in {v1, v2, v3} : jobs' = [jobs EXCEPT ![k] = v]
    BY <1>1 DEF LeaseLapses, BackoffEnds, MetadataClaimLapses
  <2>3. v.gen = j.gen /\ v.paid = j.paid /\ (v.owner # None /\ v.live =>
          j.owner # None /\ j.live)
    BY <2>1 DEF Job
  <2>4. QED
    BY <2>1, <2>2, <2>3, UpdateSteady
<1>2. ASSUME NEW k \in Ids, NEW h \in Heads, CheckClaimLapses(k, h)
      PROVE  Steady
  <2>1. jobs[k] # None /\ jobs' = [jobs EXCEPT ![k] = [jobs[k] EXCEPT !.checks =
          [jobs[k].checks EXCEPT ![h] = [jobs[k].checks[h] EXCEPT !.wlive = FALSE]]]]
    BY <1>2 DEF CheckClaimLapses
  <2>2. QED
    BY <2>1, ChecksSteady
<1>3. QED
  BY <1>1, <1>2, UnchangedSteady
     DEF TimePasses, TombstoneExpires, RetiredClaimLapses, HistoryExpires

\* A delivery that joins a record leaves its generation and charge alone.
LEMMA CoalescedSteady ==
  ASSUME Typed, NEW r \in Requests, AdmitCoalesced(r)
  PROVE  Steady
<1> DEFINE k == CHOOSE x \in PendingFor(r.pr) : TRUE
           j == jobs[k]
           headless == r.head = NoHead /\ j.head # NoHead
           v == IF headless THEN [j EXCEPT !.ids = j.ids \cup {r.id}]
                ELSE Joined(j, r)
<1>1. k \in Ids /\ j # None /\ j \in Job
  <2>1. k \in PendingFor(r.pr)
    BY DEF AdmitCoalesced
  <2>2. QED
    BY <2>1 DEF PendingFor, Unfinished, Typed, TypeOK
<1>2. jobs' = [jobs EXCEPT ![k] = v]
  BY DEF AdmitCoalesced
<1> HIDE DEF k
<1>3. v.gen = j.gen /\ v.paid = j.paid /\ v.owner = j.owner /\ v.live = j.live
  BY <1>1 DEF Joined, Job
<1> HIDE DEF v
<1>4. QED
  BY <1>1, <1>2, <1>3, UpdateSteady

\* The worker steps that only move the worker on leave the records alone.
LEMMA HandleStepsSteady ==
  ASSUME NEW w \in Workers,
         \/ \E h \in Heads : ReconcileDeferred(w, h) \/ ConfirmRefused(w, h)
         \/ BeginPaidExhausted(w) \/ Dispatch(w) \/ Retry(w) \/ Publish(w)
         \/ Drop(w)
  PROVE  Steady
  BY UnchangedSteady
     DEF ReconcileDeferred, ConfirmRefused, BeginPaidExhausted, Dispatch, Retry,
         Publish, Drop, sched

\* A charge or a refund leaves leases and generations alone.
LEMMA ChargeKeeps ==
  ASSUME Typed, NEW w \in Workers, BeginPaid(w) \/ RefundPaid(w)
  PROVE  \A k \in Ids : jobs'[k] # None =>
           /\ jobs[k] # None /\ jobs'[k].gen = jobs[k].gen
           /\ jobs'[k].owner = jobs[k].owner /\ jobs'[k].live = jobs[k].live
<1> DEFINE k == held[w].key
           j == jobs[k]
<1>1. ASSUME j \in Job, j # None, NEW p, NEW r,
             jobs' = [jobs EXCEPT ![k] = [j EXCEPT !.paid = p, !.refunds = r]]
      PROVE  \A x \in Ids : jobs'[x] # None =>
               /\ jobs[x] # None /\ jobs'[x].gen = jobs[x].gen
               /\ jobs'[x].owner = jobs[x].owner /\ jobs'[x].live = jobs[x].live
  <2> DEFINE v == [j EXCEPT !.paid = p, !.refunds = r]
  <2>1. v.gen = j.gen /\ v.owner = j.owner /\ v.live = j.live
    BY <1>1 DEF Job
  <2>2. jobs' = [jobs EXCEPT ![k] = v] /\ jobs \in [Ids -> Job \cup {None}]
    BY <1>1 DEF Typed, TypeOK
  <2> HIDE DEF v
  <2>3. \A x \in Ids : jobs'[x] = IF x = k THEN v ELSE jobs[x]
    BY <2>2
  <2>4. QED
    BY <1>1, <2>1, <2>3
<1>2. held[w] \in Handle /\ k \in Ids /\ jobs \in [Ids -> Job \cup {None}]
  BY DEF BeginPaid, RefundPaid, OwnsLive, Owns, Typed, TypeOK, Handle
<1>3. CASE BeginPaid(w)
  <2>1. j \in Job /\ j # None
    BY <1>3, OwnedType DEF BeginPaid, OwnsLive
  <2>2. \/ UNCHANGED jobs
        \/ jobs' = [jobs EXCEPT ![k].paid = @ + 1]
    BY <1>3 DEF BeginPaid
  <2>3. CASE jobs' = [jobs EXCEPT ![k].paid = @ + 1]
    <3>1. jobs' = [jobs EXCEPT ![k] =
                    [j EXCEPT !.paid = j.paid + 1, !.refunds = j.refunds]]
      BY <2>1, <2>3 DEF Job
    <3>2. QED
      BY <2>1, <3>1, <1>1
  <2>4. CASE UNCHANGED jobs
    BY <2>4
  <2>5. QED
    BY <2>2, <2>3, <2>4
<1>4. CASE RefundPaid(w)
  <2>1. CASE UNCHANGED jobs
    BY <2>1
  <2>2. CASE ~ UNCHANGED jobs
    <3>1. Refundable(held[w])
          /\ jobs' = [jobs EXCEPT ![k].paid = @ - 1, ![k].refunds = @ + 1]
      BY <2>2, <1>4 DEF RefundPaid
    <3>2. j \in Job /\ j # None
      BY <3>1, <1>2 DEF Refundable
    <3>3. jobs' = [jobs EXCEPT ![k] =
                    [j EXCEPT !.paid = j.paid - 1, !.refunds = j.refunds + 1]]
      BY <3>1, <3>2, <1>2 DEF Job
    <3>4. QED
      BY <3>2, <3>3, <1>1
  <2>3. QED
    BY <2>1, <2>2
<1>5. QED
  BY <1>3, <1>4

\* A manual batch adds fresh records under ids no record or tombstone knew.
LEMMA ManualRecords ==
  ASSUME NEW batch \in Batches, AdmitManual(batch)
  PROVE  \A k \in Ids :
           \/ jobs'[k] = jobs[k]
           \/ /\ ~Known(k) /\ jobs'[k].owner = None
              /\ jobs'[k].gen = 0 /\ jobs'[k].paid = 0
<1> DEFINE new == {batch[i].id : i \in DOMAIN batch}
           at(k) == CHOOSE i \in DOMAIN batch : batch[i].id = k
<1>1. batch \in Seq(RequestRec)
  BY BatchType
<1>2. \A i \in DOMAIN batch : batch[i] \in RequestRec
  BY <1>1
<1>3. jobs' = [k \in Ids |-> IF k \in new THEN NewJob(batch[at(k)]) ELSE jobs[k]]
      /\ \A id \in new : ~Known(id)
  BY DEF AdmitManual
<1>4. \A k \in new : at(k) \in DOMAIN batch
  OBVIOUS
<1> HIDE DEF new, at
<1>5. ASSUME NEW k \in Ids, k \in new
      PROVE  /\ ~Known(k) /\ jobs'[k].owner = None
             /\ jobs'[k].gen = 0 /\ jobs'[k].paid = 0
  <2>1. batch[at(k)] \in RequestRec
    BY <1>2, <1>4, <1>5
  <2>2. jobs'[k] = NewJob(batch[at(k)])
    BY <1>3, <1>5
  <2>3. QED
    BY <1>3, <1>5, <2>1, <2>2, NewJobType
<1>6. QED
  BY <1>3, <1>5

-----------------------------------------------------------------------------
(* The bound on running reviews                                            *)

\* A steady step starts no review.
LEMMA SteadyRunning ==
  ASSUME Steady
  PROVE  Running' \subseteq Running
  BY DEF Steady, Running, Unfinished

LEMMA RunningFinite ==
  ASSUME TRUE
  PROVE  IsFiniteSet(Running)
<1>1. Running \subseteq Ids /\ IsFiniteSet(Ids)
  BY ConstantsAssumption DEF Running, Unfinished, ConstantsAssumption
<1>2. QED
  BY <1>1, FS_Subset

\* The step either starts no review or is a claim within the bound.
LEMMA RunningStep ==
  ASSUME Typed, RunningBounded, [Next]_vars
  PROVE  RunningBounded'
<1>1. RunLimit \in Nat
  BY ConstantsAssumption DEF ConstantsAssumption
<1>2. ASSUME Running' \subseteq Running
      PROVE  RunningBounded'
  <2>1. Cardinality(Running') <= Cardinality(Running)
        /\ Cardinality(Running') \in Nat /\ Cardinality(Running) \in Nat
    BY <1>2, RunningFinite, FS_Subset, FS_CardinalityType
  <2>2. QED
    BY <2>1, <1>1 DEF RunningBounded
<1>3. ASSUME NEW w \in Workers, ClaimNext(w)
      PROVE  RunningBounded'
  <2>1. PICK k \in Ids : \A x \in Ids : x # k => jobs'[x] = jobs[x]
    BY <1>3 DEF ClaimNext, Typed, TypeOK
  <2>2. Running' \subseteq Running \cup {k}
    BY <2>1 DEF Running, Unfinished
  <2>3. Cardinality(Running \cup {k}) <= Cardinality(Running) + 1
        /\ IsFiniteSet(Running \cup {k}) /\ Cardinality(Running) \in Nat
    <3>1. IsFiniteSet(Running) /\ Cardinality(Running) \in Nat
      BY RunningFinite, FS_CardinalityType
    <3>2. /\ IsFiniteSet(Running \cup {k})
          /\ Cardinality(Running \cup {k}) =
               IF k \in Running THEN Cardinality(Running) ELSE Cardinality(Running) + 1
      BY <3>1, FS_AddElement
    <3>3. QED
      BY <3>1, <3>2
  <2>4. Cardinality(Running') <= Cardinality(Running \cup {k})
        /\ Cardinality(Running') \in Nat /\ Cardinality(Running \cup {k}) \in Nat
    BY <2>2, <2>3, FS_Subset, FS_CardinalityType
  <2>5. Cardinality(Running) < RunLimit
    BY <1>3 DEF ClaimNext
  <2>6. QED
    BY <2>3, <2>4, <2>5, <1>1 DEF RunningBounded
<1>4. ASSUME NEW w \in Workers, BeginPaid(w) \/ RefundPaid(w)
      PROVE  Running' \subseteq Running
  BY <1>4, ChargeKeeps DEF Running, Unfinished
<1>5. ASSUME NEW r \in Requests, AdmitNew(r)
      PROVE  Running' \subseteq Running
  <2>1. r \in RequestRec /\ r.id \in Ids
    BY ConstantsAssumption DEF ConstantsAssumption, RequestRec
  <2>2. jobs' = [jobs EXCEPT ![r.id] = NewJob(r)] /\ NewJob(r).owner = None
    BY <1>5, <2>1, NewJobType DEF AdmitNew
  <2>3. QED
    BY <2>1, <2>2 DEF Running, Unfinished, Typed, TypeOK
<1>6. ASSUME NEW batch \in Batches, AdmitManual(batch)
      PROVE  Running' \subseteq Running
  <2>1. \A k \in Ids : jobs'[k] = jobs[k] \/ jobs'[k].owner = None
    BY <1>6, ManualRecords
  <2>2. QED
    BY <2>1 DEF Running, Unfinished
<1>7. QED
  <2>1. CASE Admit
    BY <2>1, <1>2, <1>5, <1>6, CoalescedSteady, SteadyRunning DEF Admit
  <2>2. CASE \E w \in Workers : WorkerStep(w)
    BY <2>2, <1>2, <1>3, <1>4, WorkerSteady, SteadyRunning, HandleStepsSteady
       DEF WorkerStep
  <2>3. CASE \E d \in Drainers : DrainerStep(d)
    BY <2>3, <1>2, DrainerSteady, SteadyRunning
  <2>4. CASE TimePasses
    BY <2>4, <1>2, TimeSteady, SteadyRunning
  <2>5. CASE UNCHANGED vars
    BY <2>5, <1>2 DEF vars, Running, Unfinished
  <2>6. QED
    BY <2>1, <2>2, <2>3, <2>4, <2>5 DEF Next

\* The global bound on running reviews holds whatever leases lapse: a claim
\* counts the live ones, and no other step makes one run (renew never revives
\* a lapsed lease).
THEOREM RunningIsBounded == Spec => []RunningBounded
<1>1. Init => RunningBounded
  <2> SUFFICES ASSUME Init PROVE RunningBounded
    OBVIOUS
  <2>1. Running = {}
    BY DEF Init, Running, Unfinished
  <2>2. RunLimit \in Nat /\ Cardinality({}) = 0
    BY ConstantsAssumption, FS_EmptySet DEF ConstantsAssumption
  <2>3. QED
    BY <2>1, <2>2 DEF RunningBounded
<1>2. Typed /\ RunningBounded /\ [Next]_vars => RunningBounded'
  BY RunningStep
<1>3. QED
  BY <1>1, <1>2, AlwaysTyped, PTL DEF Spec

-----------------------------------------------------------------------------
(* The ownership fence                                                     *)

\* Two owners that both pass the fence carry the generation of the record.
LEMMA FenceInvSafe ==
  ASSUME FenceInv
  PROVE  FenceExclusive
  BY DEF FenceInv, FenceExclusive, Owns

LEMMA FenceInit ==
  ASSUME Init
  PROVE  FenceInv
  BY DEF Init, FenceInv

\* A step that claims nothing keeps the fence when no generation of a record
\* changes and no key that is a tombstone is admitted again.
LEMMA FenceKept ==
  ASSUME Typed, FenceInv, HeldKept, HeldEntombed,
         \A k \in Ids : jobs'[k] # None =>
           \/ jobs[k] # None /\ jobs'[k].gen = jobs[k].gen
           \/ jobs[k] = None /\ terminal[k] = None
  PROVE  FenceInv'
<1>1. ASSUME NEW w \in Workers, held'[w] # None
      PROVE  LET k == held'[w].key IN
             /\ jobs'[k] # None => held'[w].gen <= jobs'[k].gen
             /\ jobs'[k] = None => terminal'[k] # None
  <2> DEFINE k == held[w].key
  <2>1. /\ held[w] # None /\ held'[w].key = k /\ held'[w].gen = held[w].gen
    BY <1>1 DEF HeldKept
  <2>2. k \in Ids
    BY <2>1 DEF Typed, TypeOK, Handle
  <2>3. /\ jobs[k] # None => held[w].gen <= jobs[k].gen
        /\ jobs[k] = None => terminal[k] # None
    BY <2>1 DEF FenceInv
  <2>4. /\ jobs[k] # None /\ jobs'[k] = None => terminal'[k] # None
        /\ terminal[k] # None => terminal'[k] # None
    BY <2>1 DEF HeldEntombed
  <2> HIDE DEF k
  <2>5. QED
    BY <2>1, <2>2, <2>3, <2>4
<1>2. ASSUME NEW v \in Workers, NEW w \in Workers, v # w, held'[v] # None,
             held'[w] # None, held'[v].key = held'[w].key
      PROVE  held'[v].gen # held'[w].gen
  BY <1>2 DEF HeldKept, FenceInv
<1>3. QED
  BY <1>1, <1>2 DEF FenceInv

\* A claim takes a generation above every handle on the record.
LEMMA FenceClaim ==
  ASSUME Typed, FenceInv, NEW w \in Workers, ClaimNext(w)
  PROVE  FenceInv'
<1>1. PICK i \in DOMAIN queue :
        LET k == queue[i]
            j == jobs[k]
            g == NextGeneration(j)
        IN
        /\ jobs' = [jobs EXCEPT ![k] =
             StampCheck([j EXCEPT !.gen = g, !.owner = OwnerOf[w], !.live = TRUE],
                        j.head, g)]
        /\ held' = [held EXCEPT ![w] =
             [key |-> k, id |-> j.id, owner |-> OwnerOf[w], gen |-> g,
              phase |-> "claimed", charge |-> None, verdict |-> None,
              wrote |-> NoHead]]
  BY DEF ClaimNext
<1> DEFINE k == queue[i]
           j == jobs[k]
           g == NextGeneration(j)
           own == [j EXCEPT !.gen = g, !.owner = OwnerOf[w], !.live = TRUE]
           new == StampCheck(own, j.head, g)
<1>2. k \in Ids /\ j # None /\ j \in Job
  BY DEF Typed, TypeOK, Listed
<1>3. g \in Nat /\ g = j.gen + 1 /\ j.gen \in Nat /\ OwnerOf[w] \in Owners
      /\ j.head \in Heads \cup {NoHead}
  BY <1>2, ConstantsAssumption, SMTT(30) DEF NextGeneration, Job, ConstantsAssumption
<1>4. own \in Job /\ own.gen = g
  BY <1>2, <1>3, ZenonT(60) DEF Job
<1>5. new \in Job /\ new.gen = g
  <2>1. new \in Job /\ new = [own EXCEPT !.checks = new.checks]
    <3> HIDE DEF own, g
    <3>1. QED
      BY <1>3, <1>4, StampCheckType, ZenonT(60)
  <2> HIDE DEF new, own
  <2>2. QED
    BY <1>4, <2>1 DEF Job
<1>6. /\ jobs' = [jobs EXCEPT ![k] = new]
      /\ held'[w] # None /\ held'[w].key = k /\ held'[w].gen = g
      /\ \A v \in Workers : v # w => held'[v] = held[v]
      /\ UNCHANGED terminal
  <2> DEFINE handle == [key |-> k, id |-> j.id, owner |-> OwnerOf[w], gen |-> g,
                        phase |-> "claimed", charge |-> None, verdict |-> None,
                        wrote |-> NoHead]
  <2>1. handle \in Handle
    BY <1>2, <1>3 DEF Handle, Phases, Job
  <2>2. handle # None /\ handle.key = k /\ handle.gen = g
    BY <2>1, NoneIsNoRecord
  <2>3. held' = [held EXCEPT ![w] = handle] /\ jobs' = [jobs EXCEPT ![k] = new]
    BY <1>1
  <2> HIDE DEF handle
  <2>4. QED
    BY <2>2, <2>3 DEF ClaimNext, Typed, TypeOK
<1> HIDE DEF new, own
<1>7. \A x \in Ids : jobs'[x] = IF x = k THEN new ELSE jobs[x]
  BY <1>6 DEF Typed, TypeOK
<1>8. ASSUME NEW v \in Workers, v # w, held[v] # None
      PROVE  /\ held[v].key \in Ids /\ held[v].gen \in Nat
             /\ jobs[held[v].key] # None => held[v].gen <= jobs[held[v].key].gen
             /\ jobs[held[v].key] = None => terminal[held[v].key] # None
  BY <1>8 DEF FenceInv, Typed, TypeOK, Handle
<1>9. new # None
  BY <1>5, NoneIsNoRecord
<1> HIDE DEF k, g
<1>10. ASSUME NEW v \in Workers, held'[v] # None
       PROVE  LET x == held'[v].key IN
              /\ jobs'[x] # None => held'[v].gen <= jobs'[x].gen
              /\ jobs'[x] = None => terminal'[x] # None
  <2>1. CASE v = w
    BY <2>1, <1>2, <1>3, <1>5, <1>6, <1>7, <1>9
  <2>2. CASE v # w
    <3>1. held'[v] = held[v] /\ held[v].key \in Ids
      BY <2>2, <1>6, <1>8, <1>10
    <3>2. CASE held[v].key = k
      BY <2>2, <3>1, <3>2, <1>2, <1>3, <1>5, <1>6, <1>7, <1>8, <1>9, <1>10
    <3>3. CASE held[v].key # k
      BY <2>2, <3>1, <3>3, <1>6, <1>7, <1>8, <1>10
    <3>4. QED
      BY <3>2, <3>3
  <2>3. QED
    BY <2>1, <2>2
<1>11. ASSUME NEW v \in Workers, v # w, held'[v] # None, held'[v].key = k
       PROVE  held'[v].gen # g
  <2>1. held'[v] = held[v] /\ held[v].gen \in Nat /\ held[v].gen <= j.gen
    BY <1>2, <1>6, <1>8, <1>11
  <2>2. QED
    BY <2>1, <1>3
<1>12. \A u, v \in Workers :
         u # v /\ held'[u] # None /\ held'[v] # None /\ held'[u].key = held'[v].key
           => held'[u].gen # held'[v].gen
  BY <1>6, <1>11 DEF FenceInv
<1>13. QED
  BY <1>10, <1>12 DEF FenceInv

\* A worker's step keeps what it claimed, and no other worker moves.
LEMMA WorkerHeldKept ==
  ASSUME Typed, NEW w \in Workers, WorkerStep(w), ~ClaimNext(w)
  PROVE  HeldKept
<1>1. held \in [Workers -> Handle \cup {None}]
  BY DEF Typed, TypeOK
<1>2. CASE UNCHANGED held
  BY <1>2 DEF HeldKept
<1>3. CASE held' = [held EXCEPT ![w] = None]
  BY <1>1, <1>3 DEF HeldKept
<1>4. ASSUME held[w] # None, NEW p, NEW c, NEW v, NEW q,
             held' = [held EXCEPT ![w] =
               [held[w] EXCEPT !.phase = p, !.charge = c, !.verdict = v,
                              !.wrote = q]]
      PROVE  HeldKept
  <2> DEFINE x == [held[w] EXCEPT !.phase = p, !.charge = c, !.verdict = v,
                                !.wrote = q]
  <2>1. held[w] \in Handle
    BY <1>1, <1>4
  <2>2. x.key = held[w].key /\ x.gen = held[w].gen
    BY <2>1 DEF Handle
  <2>3. held' = [held EXCEPT ![w] = x]
    BY <1>4
  <2> HIDE DEF x
  <2>4. QED
    BY <1>1, <1>4, <2>2, <2>3 DEF HeldKept
<1> DEFINE h == held[w]
           To(p, c, v, q) == [held EXCEPT ![w] =
             [h EXCEPT !.phase = p, !.charge = c, !.verdict = v, !.wrote = q]]
<1>5. CASE ~(UNCHANGED held \/ held' = [held EXCEPT ![w] = None])
  <2>1. h # None /\ h \in Handle
    BY <1>1, <1>5 DEF WorkerStep, OwnsLive, Owns, ReconcileDeferred, Reconcile,
       BeginPaid, BeginPaidExhausted, Dispatch, RefundPaid, Retry, Publish,
       Conclude, Renew, StartCheck, ConfirmRefused, Finish, FinishYield,
       DeferYield, Defer, Drop
  <2>2. ASSUME NEW p, held' = Become(w, p)
        PROVE  held' = To(p, h.charge, h.verdict, h.wrote)
    BY <2>1, <2>2 DEF Become, Handle
  <2>3. CASE \E x \in Heads : ReconcileDeferred(w, x) \/ Reconcile(w, x)
    <3>1. PICK p \in Phases : held' = Become(w, p)
      BY <2>3 DEF ReconcileDeferred, Reconcile, Phases
    <3>2. QED
      BY <2>1, <2>2, <3>1, <1>4
  <2>4. CASE BeginPaidExhausted(w)
    <3>1. held' = Become(w, "exhausted")
      BY <2>4 DEF BeginPaidExhausted
    <3>2. held' = To("exhausted", h.charge, h.verdict, h.wrote)
      BY <2>2, <3>1
    <3>3. QED
      BY <2>1, <3>2, <1>4
  <2>5. ASSUME NEW p, NEW c, held' = [held EXCEPT ![w].phase = p, ![w].charge = c]
        PROVE  HeldKept
    <3>1. held' = To(p, c, h.verdict, h.wrote)
      BY <2>1, <2>5, <1>1 DEF Handle
    <3>2. QED
      BY <2>1, <3>1, <1>4
  <2>6. CASE BeginPaid(w)
    BY <2>5, <2>6 DEF BeginPaid
  <2>7. CASE RefundPaid(w) \/ Retry(w)
    BY <2>5, <2>7 DEF RefundPaid, Retry
  <2>8. CASE Dispatch(w)
    <3>1. held' = To(h.phase, None, h.verdict, h.wrote)
      BY <2>1, <2>8 DEF Dispatch, Handle
    <3>2. QED
      BY <2>1, <3>1, <1>4
  <2>9. CASE \E v \in Verdicts, closed \in BOOLEAN : Conclude(w, v, closed)
    <3>1. PICK v \in Verdicts :
            held' = [held EXCEPT ![w].phase = "concluding", ![w].verdict = v,
                                 ![w].charge = None]
      BY <2>9 DEF Conclude
    <3>2. held' = To("concluding", None, v, h.wrote)
      BY <2>1, <3>1, <1>1 DEF Handle
    <3>3. QED
      BY <2>1, <3>2, <1>4
  <2>10. CASE Publish(w)
    <3>1. PICK q :
            held' = [held EXCEPT ![w].phase = "published", ![w].charge = None,
                                 ![w].wrote = q]
      BY <2>10 DEF Publish
    <3>2. held' = To("published", None, h.verdict, q)
      BY <2>1, <3>1, <1>1 DEF Handle
    <3>3. QED
      BY <2>1, <3>2, <1>4
  <2>11. QED
    BY <1>5, <2>3, <2>4, <2>6, <2>7, <2>8, <2>9, <2>10 DEF WorkerStep, Renew,
       StartCheck, ConfirmRefused, Finish, FinishYield, DeferYield, Defer, Drop
<1>6. QED
  BY <1>2, <1>3, <1>5

\* A step that ends no record and expires no tombstone entombs what is held.
LEMMA SameEntombed ==
  ASSUME Typed, UNCHANGED terminal,
         \A k \in Ids : jobs[k] # None => jobs'[k] # None
  PROVE  HeldEntombed
<1>1. \A w \in Workers : held[w] # None => held[w].key \in Ids
  BY DEF Typed, TypeOK, Handle
<1>2. QED
  BY <1>1 DEF HeldEntombed

\* The step that ends record k makes a tombstone of each of its deliveries.
LEMMA EndEntombed ==
  ASSUME Typed, NEW k \in Ids, jobs[k] # None, NEW o \in Outcomes,
         jobs' = [jobs EXCEPT ![k] = None], terminal' = Tombstones(jobs[k], o)
  PROVE  HeldEntombed
<1>1. \A w \in Workers : held[w] # None => held[w].key \in Ids
  BY DEF Typed, TypeOK, Handle
<1>2. o # None /\ k \in jobs[k].ids
  BY ConstantsAssumption DEF ConstantsAssumption, Typed, OwnId, Unfinished
<1>3. \A x \in Ids : terminal'[x] = IF x \in jobs[k].ids THEN o ELSE terminal[x]
  BY DEF Tombstones
<1>4. \A x \in Ids : x # k => jobs'[x] = jobs[x]
  BY DEF Typed, TypeOK
<1>5. QED
  BY <1>1, <1>2, <1>3, <1>4 DEF HeldEntombed

LEMMA FenceStep ==
  ASSUME Typed, Typed', FenceInv, [Next]_vars
  PROVE  FenceInv'
<1>1. ASSUME Steady
      PROVE  \A k \in Ids : jobs'[k] # None =>
               \/ jobs[k] # None /\ jobs'[k].gen = jobs[k].gen
               \/ jobs[k] = None /\ terminal[k] = None
  BY <1>1 DEF Steady
<1>2. UNCHANGED held => HeldKept
  BY DEF HeldKept
<1>3. UNCHANGED <<queue, terminal>> => HeldEntombed
  BY SameRecords, SameEntombed
<1>4. CASE Admit
  <2>1. UNCHANGED <<held, terminal>>
    BY <1>4 DEF Admit, AdmitNew, AdmitCoalesced, AdmitManual
  <2>2. ASSUME NEW r \in Requests, AdmitCoalesced(r)
        PROVE  FenceInv'
    <3>1. UNCHANGED queue
      BY <2>2 DEF AdmitCoalesced
    <3>2. QED
      BY <2>1, <2>2, <3>1, <1>1, <1>2, <1>3, CoalescedSteady, FenceKept
  <2>3. ASSUME NEW r \in Requests, AdmitNew(r)
        PROVE  FenceInv'
    <3>1. r \in RequestRec /\ r.id \in Ids
      BY ConstantsAssumption DEF ConstantsAssumption, RequestRec
    <3>2. jobs' = [jobs EXCEPT ![r.id] = NewJob(r)] /\ ~Known(r.id)
      BY <2>3 DEF AdmitNew
    <3>3. NewJob(r) # None
      BY <3>1, NewJobType, NoneIsNoRecord
    <3>4. jobs[r.id] = None /\ terminal[r.id] = None
      BY <3>1, <3>2 DEF Known, Typed, OwnId, Unfinished
    <3>5. \A k \in Ids : jobs[k] # None => jobs'[k] = jobs[k]
      BY <3>2, <3>4 DEF Typed, TypeOK
    <3>6. \A k \in Ids : jobs'[k] # None =>
            \/ jobs[k] # None /\ jobs'[k].gen = jobs[k].gen
            \/ jobs[k] = None /\ terminal[k] = None
      BY <3>2, <3>4 DEF Typed, TypeOK
    <3>7. HeldEntombed
      BY <2>1, <3>5, SameEntombed
    <3>8. QED
      BY <2>1, <3>6, <3>7, <1>2, FenceKept
  <2>4. ASSUME NEW batch \in Batches, AdmitManual(batch)
        PROVE  FenceInv'
    <3>1. \A k \in Ids : jobs'[k] = jobs[k] \/ ~Known(k)
      BY <2>4, ManualRecords
    <3>2. \A k \in Ids : ~Known(k) => jobs[k] = None /\ terminal[k] = None
      BY DEF Known, Typed, OwnId, Unfinished
    <3>3. HeldEntombed
      BY <2>1, <3>1, <3>2, SameEntombed
    <3>4. QED
      BY <2>1, <3>1, <3>2, <3>3, <1>2, FenceKept
  <2>5. QED
    BY <1>4, <2>2, <2>3, <2>4 DEF Admit
<1>5. ASSUME NEW w \in Workers, WorkerStep(w)
      PROVE  FenceInv'
  <2>1. CASE ClaimNext(w)
    BY <2>1, FenceClaim
  <2>2. CASE ~ClaimNext(w)
    <3>1. HeldKept
      BY <1>5, <2>2, WorkerHeldKept
    <3>2. HeldEntombed
      <4>1. CASE Finish(w)
        <5> DEFINE k == held[w].key
                   j == jobs[k]
                   e == ExistingTerminal(j)
                   o == IF e # None THEN e ELSE held[w].verdict
        <5>1. k \in Ids /\ j \in Job /\ j # None
          BY <4>1, OwnedType DEF Finish, Concluded, OwnsLive
        <5>2. o \in Outcomes
          <6>1. held[w].verdict \in Outcomes
            BY <4>1 DEF Finish, Concluded
          <6>2. e # None => e \in Outcomes
            BY <5>1 DEF ExistingTerminal, Typed, TypeOK, Job, Budget, HeadOutcomes
          <6>3. QED
            BY <6>1, <6>2
        <5>3. jobs' = [jobs EXCEPT ![k] = None] /\ terminal' = Tombstones(j, o)
          BY <4>1 DEF Finish
        <5> HIDE DEF o, k
        <5>4. QED
          BY <5>1, <5>2, <5>3, EndEntombed
      <4>2. CASE ~Finish(w)
        <5>1. UNCHANGED <<queue, terminal>>
          BY <1>5, <2>2, <4>2 DEF WorkerStep, sched, Renew, StartCheck,
             ReconcileDeferred, ConfirmRefused, Reconcile, BeginPaid,
             BeginPaidExhausted, Dispatch, RefundPaid, Retry, Publish, Conclude,
             FinishYield, DeferYield, Defer, Drop
        <5>2. QED
          BY <5>1, <1>3
      <4>3. QED
        BY <4>1, <4>2
    <3>3. \A k \in Ids : jobs'[k] # None =>
            \/ jobs[k] # None /\ jobs'[k].gen = jobs[k].gen
            \/ jobs[k] = None /\ terminal[k] = None
      <4>1. CASE BeginPaid(w) \/ RefundPaid(w)
        BY <4>1, ChargeKeeps
      <4>2. CASE ~(BeginPaid(w) \/ RefundPaid(w))
        BY <1>1, <1>5, <2>2, <4>2, WorkerSteady, HandleStepsSteady DEF WorkerStep
      <4>3. QED
        BY <4>1, <4>2
    <3>4. QED
      BY <3>1, <3>2, <3>3, FenceKept
  <2>3. QED
    BY <2>1, <2>2
<1>6. ASSUME NEW d \in Drainers, DrainerStep(d)
      PROVE  FenceInv'
  <2>1. UNCHANGED held
    BY <1>6 DEF DrainerStep, ClaimMetadata, ResolveClosed, ResolveOpen, ClaimCheck,
       ClaimRetired, MarkPostAttempted, RecordCheckId, RecordRetiredId,
       CompleteRetired, Abandon
  <2>2. HeldEntombed
    <3>1. CASE ResolveClosed(d)
      <4>1. drain[d].key \in Ids /\ jobs[drain[d].key] # None
            /\ jobs' = [jobs EXCEPT ![drain[d].key] = None]
            /\ terminal' = Tombstones(jobs[drain[d].key], "declined")
        BY <3>1, MetaClaimType DEF ResolveClosed, MetadataCurrent
      <4>2. QED
        BY <4>1, EndEntombed DEF Outcomes
    <3>2. CASE ~ResolveClosed(d)
      <4>1. UNCHANGED <<queue, terminal>>
        BY <1>6, <3>2 DEF DrainerStep, ClaimMetadata, ResolveOpen, ClaimCheck,
           ClaimRetired, MarkPostAttempted, RecordCheckId, RecordRetiredId,
           CompleteRetired, Abandon, sched
      <4>2. QED
        BY <4>1, <1>3
    <3>3. QED
      BY <3>1, <3>2
  <2>3. QED
    BY <1>6, <2>1, <2>2, <1>1, <1>2, DrainerSteady, FenceKept
<1>7. CASE TimePasses
  <2>1. UNCHANGED held
    BY <1>7 DEF TimePasses, LeaseLapses, BackoffEnds, MetadataClaimLapses,
       CheckClaimLapses, TombstoneExpires, RetiredClaimLapses, HistoryExpires
  <2>2. HeldEntombed
    <3>1. ASSUME NEW id \in Ids, TombstoneExpires(id)
          PROVE  HeldEntombed
      <4>1. /\ UNCHANGED jobs /\ terminal' = [terminal EXCEPT ![id] = None]
            /\ \A w \in Workers : held[w] # None => id # held[w].key
        BY <3>1 DEF TombstoneExpires
      <4>2. \A x \in Ids : x # id => terminal'[x] = terminal[x]
        BY <4>1 DEF Typed, TypeOK
      <4>3. \A w \in Workers : held[w] # None => held[w].key \in Ids
        BY DEF Typed, TypeOK, Handle
      <4>4. QED
        BY <4>1, <4>2, <4>3 DEF HeldEntombed
    <3>2. CASE ~\E id \in Ids : TombstoneExpires(id)
      <4>1. UNCHANGED <<queue, terminal>>
        BY <1>7, <3>2 DEF TimePasses, LeaseLapses, BackoffEnds,
           MetadataClaimLapses, CheckClaimLapses, RetiredClaimLapses,
           HistoryExpires
      <4>2. QED
        BY <4>1, <1>3
    <3>3. QED
      BY <3>1, <3>2
  <2>3. QED
    BY <1>7, <2>1, <2>2, <1>1, <1>2, TimeSteady, FenceKept
<1>8. CASE UNCHANGED vars
  BY <1>8 DEF vars, FenceInv
<1>9. QED
  BY <1>4, <1>5, <1>6, <1>7, <1>8 DEF Next

\* At most one of the processes that believe they own a record passes the
\* fence: a claim outruns every earlier handle, and a key that is still held
\* is a record or a tombstone, so it is never admitted afresh with a
\* generation an old handle could match.
THEOREM FenceIsExclusive == Spec => []FenceExclusive
<1>1. Init => FenceInv
  BY FenceInit
<1>2. Typed /\ Typed' /\ FenceInv /\ [Next]_vars => FenceInv'
  BY FenceStep
<1>3. FenceInv => FenceExclusive
  BY FenceInvSafe
<1>4. QED
  BY <1>1, <1>2, <1>3, AlwaysTyped, PTL DEF Spec

-----------------------------------------------------------------------------
(* What an epoch of a head may cost                                        *)

\* How an operation that charges nothing may change a head budget: a first
\* budget, the same account with another outcome, or a fresh epoch.
Uncharged(pr) ==
  LET b == heads[pr]
      c == heads'[pr]
  IN
  \/ c = b
  \/ /\ b # None /\ c # None
     /\ c.paid = b.paid /\ c.refunds = b.refunds /\ c.epoch = b.epoch
  \/ /\ b = None /\ c # None
     /\ c.epoch = 0 /\ c.paid \in 0 .. MaxPaid /\ c.refunds = 0
  \/ /\ b # None /\ c # None
     /\ c.epoch = b.epoch + 1 /\ c.epoch <= MaxEpoch
     /\ c.paid \in 0 .. MaxPaid /\ c.refunds = 0

LEMMA BoundsType ==
  ASSUME TRUE
  PROVE  MaxPaid \in Nat /\ MaxRefunds \in Nat /\ MaxEpoch \in Nat
  BY ConstantsAssumption DEF ConstantsAssumption

\* The entries of the ledger are counters.
LEMMA LedgerEntryType ==
  ASSUME TypeOK, NEW pr \in PRs, NEW e \in 0 .. MaxEpoch
  PROVE  ledger[pr][e].starts \in Nat /\ ledger[pr][e].refunds \in Nat
<1>1. ledger[pr][e] \in [head: Heads \cup {NoHead}, starts: Nat, refunds: Nat]
  BY DEF TypeOK
<1>2. QED
  BY <1>1

\* Such an operation keeps the accounts.
LEMMA UnchargedAccounted ==
  ASSUME TypeOK, NEW pr \in PRs, Accounted(pr), Uncharged(pr), UNCHANGED ledger
  PROVE  Accounted(pr)'
<1> DEFINE b == heads[pr]
           c == heads'[pr]
<1>1. CASE c = b
  BY <1>1 DEF Accounted, Unspent0, EpochBounded
<1>2. CASE /\ b # None /\ c # None
           /\ c.paid = b.paid /\ c.refunds = b.refunds /\ c.epoch = b.epoch
  BY <1>2 DEF Accounted, Unspent0, EpochBounded
<1>3. CASE /\ b = None /\ c # None
           /\ c.epoch = 0 /\ c.paid \in 0 .. MaxPaid /\ c.refunds = 0
  <2>1. 0 \in 0 .. MaxEpoch /\ 0 <= MaxRefunds
    BY BoundsType
  <2>2. \A e \in 0 .. MaxEpoch : Unspent0(pr, e)
    BY <1>3 DEF Accounted
  <2>3. ledger[pr][0].refunds = 0 /\ ledger[pr][0].starts = 0
    BY <2>1, <2>2 DEF Unspent0
  <2>4. \A e \in 0 .. MaxEpoch : ~(e < 0)
    OBVIOUS
  <2>5. QED
    BY <1>3, <2>1, <2>2, <2>3, <2>4, BoundsType
       DEF Accounted, Unspent0, EpochBounded
<1>4. CASE /\ b # None /\ c # None
           /\ c.epoch = b.epoch + 1 /\ c.epoch <= MaxEpoch
           /\ c.paid \in 0 .. MaxPaid /\ c.refunds = 0
  <2>1. /\ b.epoch \in 0 .. MaxEpoch /\ b.paid <= MaxPaid /\ b.refunds <= MaxRefunds
        /\ ledger[pr][b.epoch].refunds = b.refunds
        /\ ledger[pr][b.epoch].starts <= b.paid + b.refunds
        /\ \A e \in 0 .. MaxEpoch : e > b.epoch => Unspent0(pr, e)
        /\ \A e \in 0 .. MaxEpoch : e < b.epoch => EpochBounded(pr, e)
    BY <1>4 DEF Accounted
  <2>2. b.paid \in Nat /\ b.refunds \in Nat
    BY <1>4 DEF TypeOK, Budget
  <2>3. EpochBounded(pr, b.epoch)
    <3>1. ledger[pr][b.epoch].starts \in Nat
      BY <2>1, LedgerEntryType
    <3>2. QED
      BY <2>1, <2>2, <3>1, BoundsType DEF EpochBounded
  <2>4. c.epoch \in 0 .. MaxEpoch /\ c.epoch > b.epoch
    BY <1>4, <2>1, BoundsType
  <2>5. Unspent0(pr, c.epoch)
    BY <2>1, <2>4
  <2>6. \A e \in 0 .. MaxEpoch : e > c.epoch => Unspent0(pr, e)
    BY <1>4, <2>1
  <2>7. \A e \in 0 .. MaxEpoch : e < c.epoch => EpochBounded(pr, e)
    BY <1>4, <2>1, <2>3
  <2>8. ledger[pr][c.epoch].starts <= c.paid + c.refunds
        /\ ledger[pr][c.epoch].refunds = c.refunds
        /\ c.paid <= MaxPaid /\ c.refunds <= MaxRefunds
    BY <1>4, <2>5, BoundsType DEF Unspent0
  <2>9. QED
    BY <1>4, <2>4, <2>6, <2>7, <2>8 DEF Accounted, Unspent0, EpochBounded
<1>5. QED
  BY <1>1, <1>2, <1>3, <1>4 DEF Uncharged

\* Re-arming, confirming and marking a head charge nothing.
LEMMA RearmUncharged ==
  ASSUME TypeOK, NEW r \in RequestRec, RearmIfExplicit(r)
  PROVE  \A pr \in PRs : Uncharged(pr)
<1>1. CASE UNCHANGED heads
  BY <1>1 DEF Uncharged
<1>2. CASE heads' = [heads EXCEPT ![r.pr] = Rearmed(heads[r.pr])]
             /\ (heads'[r.pr] # None => heads'[r.pr].epoch <= MaxEpoch)
  <2> DEFINE b == heads[r.pr]
  <2>1. r.pr \in PRs /\ b \in Budget \cup {None}
    BY DEF TypeOK, RequestRec
  <2>2. \A pr \in PRs : heads'[pr] = IF pr = r.pr THEN Rearmed(b) ELSE heads[pr]
    BY <1>2 DEF TypeOK
  <2>3. Uncharged(r.pr)
    <3>1. CASE b # None /\ b.outcome \in FailedOutcomes
      <4> DEFINE c == [b EXCEPT !.outcome = None, !.paid = 0, !.refunds = 0,
                               !.epoch = @ + 1]
      <4>1. Rearmed(b) = c
        BY <3>1 DEF Rearmed
      <4>2. b.epoch + 1 \in Nat /\ b \in Budget
        BY <2>1, <3>1 DEF Budget
      <4>3. c \in Budget /\ c.paid = 0 /\ c.refunds = 0 /\ c.epoch = b.epoch + 1
        BY <4>2 DEF Budget
      <4>4. c # None
        BY <4>3, NoneIsNoRecord
      <4> HIDE DEF c
      <4>5. QED
        BY <1>2, <2>1, <2>2, <3>1, <4>1, <4>3, <4>4, BoundsType DEF Uncharged
    <3>2. CASE ~(b # None /\ b.outcome \in FailedOutcomes)
      BY <2>1, <2>2, <3>2 DEF Rearmed, Uncharged
    <3>3. QED
      BY <3>1, <3>2
  <2>4. QED
    BY <2>2, <2>3 DEF Uncharged
<1>3. QED
  BY <1>1, <1>2 DEF RearmIfExplicit

LEMMA MarkUncharged ==
  ASSUME TypeOK, NEW j \in Job, NEW o, heads' = MarkHead(j, o)
  PROVE  \A pr \in PRs : Uncharged(pr)
<1>1. CASE UNCHANGED heads
  BY <1>1 DEF Uncharged
<1>2. CASE heads[j.pr] # None /\ o \in HeadOutcomes
             /\ heads' = [heads EXCEPT ![j.pr].outcome = o]
  <2> DEFINE c == [heads[j.pr] EXCEPT !.outcome = o]
  <2>1. j.pr \in PRs /\ heads[j.pr] \in Budget
    BY <1>2 DEF TypeOK, Job
  <2>2. c \in Budget /\ c.paid = heads[j.pr].paid
        /\ c.refunds = heads[j.pr].refunds /\ c.epoch = heads[j.pr].epoch
    BY <1>2, <2>1 DEF Budget
  <2>3. c # None
    BY <2>2, NoneIsNoRecord
  <2>4. heads' = [heads EXCEPT ![j.pr] = c]
    BY <1>2
  <2> HIDE DEF c
  <2>5. \A pr \in PRs : heads'[pr] = IF pr = j.pr THEN c ELSE heads[pr]
    BY <2>4 DEF TypeOK
  <2>6. QED
    BY <1>2, <2>1, <2>2, <2>3, <2>5 DEF Uncharged
<1>3. QED
  BY <1>1, <1>2 DEF MarkHead

LEMMA ConfirmUncharged ==
  ASSUME Typed, JobsPaid, NEW w \in Workers, NEW h \in Heads, Reconcile(w, h)
  PROVE  \A pr \in PRs : Uncharged(pr)
<1> DEFINE j == jobs[held[w].key]
           b == heads[j.pr]
           c == NextBudget(b, j, h)
<1>1. held[w].key \in Ids /\ j \in Job /\ j # None /\ j.pr \in PRs
  BY OwnedType DEF Reconcile, OwnsLive, Job
<1>2. j.paid \in 0 .. MaxPaid /\ b \in Budget \cup {None}
  BY <1>1, BoundsType DEF JobsPaid, Unfinished, Job, Typed, TypeOK
<1>3. c \in Budget /\ c # None
  BY <1>1, <1>2, NextBudgetType, NoneIsNoRecord
<1>4. CASE IsIncremental(j)
  <2>1. heads' = [heads EXCEPT ![j.pr] = c] /\ c.epoch <= MaxEpoch
    BY <1>4 DEF Reconcile
  <2>2. CASE b = None
    <3>1. c = [head |-> h, paid |-> j.paid, refunds |-> 0, epoch |-> 0,
               outcome |-> None]
      BY <2>2 DEF NextBudget
    <3>2. c.epoch = 0 /\ c.refunds = 0 /\ c.paid \in 0 .. MaxPaid
      BY <3>1, <1>2
    <3> HIDE DEF c
    <3>3. Uncharged(j.pr)
      BY <1>1, <1>3, <2>1, <2>2, <3>2 DEF Uncharged, Typed, TypeOK
    <3>4. QED
      BY <2>1, <3>3 DEF Uncharged, Typed, TypeOK
  <2>3. CASE b # None /\ b.head = h
    <3>1. c = b
      BY <2>3 DEF NextBudget
    <3>2. QED
      BY <2>1, <3>1 DEF Uncharged, Typed, TypeOK
  <2>4. CASE b # None /\ b.head # h
    <3>1. c = [head |-> h,
               paid |-> IF RestoredOutcome(j.pr, h) = "deadline"
                        THEN MaxPaid ELSE 0,
               refunds |-> 0, epoch |-> b.epoch + 1,
               outcome |-> RestoredOutcome(j.pr, h)]
      BY <2>4 DEF NextBudget
    <3>2. c.epoch = b.epoch + 1 /\ c.refunds = 0 /\ c.paid \in 0 .. MaxPaid
      BY <3>1, BoundsType
    <3> HIDE DEF c
    <3>3. Uncharged(j.pr)
      BY <1>1, <1>3, <2>1, <2>4, <3>2 DEF Uncharged, Typed, TypeOK
    <3>4. QED
      BY <2>1, <3>3 DEF Uncharged, Typed, TypeOK
  <2>5. QED
    BY <2>2, <2>3, <2>4
<1>5. CASE ~IsIncremental(j)
  <2>1. UNCHANGED heads
    BY <1>5 DEF Reconcile
  <2>2. QED
    BY <2>1 DEF Uncharged
<1>6. QED
  BY <1>4, <1>5

\* A steady step charges no record.
LEMMA SteadyPaid ==
  ASSUME JobsPaid, Steady
  PROVE  JobsPaid'
  BY DEF JobsPaid, Steady, Unfinished

\* A charge or a refund keeps the account if the budget shows it: only the
\* ledger of the current epoch moves.
LEMMA ChargedAccounted ==
  ASSUME NEW pr \in PRs, Accounted(pr), heads[pr] # None,
         heads'[pr] # None, heads'[pr].epoch = heads[pr].epoch,
         heads'[pr].paid <= MaxPaid, heads'[pr].refunds <= MaxRefunds,
         NEW e, e = heads[pr].epoch,
         \A x \in 0 .. MaxEpoch : x # e => ledger'[pr][x] = ledger[pr][x],
         ledger'[pr][e].refunds = heads'[pr].refunds,
         ledger'[pr][e].starts <= heads'[pr].paid + heads'[pr].refunds
  PROVE  Accounted(pr)'
<1>1. /\ e \in 0 .. MaxEpoch
      /\ \A x \in 0 .. MaxEpoch : x > e => Unspent0(pr, x)
      /\ \A x \in 0 .. MaxEpoch : x < e => EpochBounded(pr, x)
  BY DEF Accounted
<1>2. \A x \in 0 .. MaxEpoch : x > e => Unspent0(pr, x)'
  <2>1. SUFFICES ASSUME NEW x \in 0 .. MaxEpoch, x > e
                 PROVE  Unspent0(pr, x)'
    OBVIOUS
  <2>2. Unspent0(pr, x) /\ x # e
    BY <1>1, <2>1, BoundsType
  <2>3. QED
    BY <2>2 DEF Unspent0
<1>3. \A x \in 0 .. MaxEpoch : x < e => EpochBounded(pr, x)'
  <2>1. SUFFICES ASSUME NEW x \in 0 .. MaxEpoch, x < e
                 PROVE  EpochBounded(pr, x)'
    OBVIOUS
  <2>2. EpochBounded(pr, x) /\ x # e
    BY <1>1, <2>1, BoundsType
  <2>3. QED
    BY <2>2 DEF EpochBounded
<1>4. QED
  BY <1>1, <1>2, <1>3 DEF Accounted

\* The budget of an incremental record may be charged again.
LEMMA BeginPaidHead ==
  ASSUME Typed, SpendInv, NEW w \in Workers, BeginPaid(w),
         IsIncremental(jobs[held[w].key]), NEW x \in PRs
  PROVE  Accounted(x)'
<1> DEFINE pr == jobs[held[w].key].pr
           b == heads[pr]
           e == b.epoch
<1>1. pr \in PRs
  BY OwnedType DEF BeginPaid, OwnsLive, Job
<1>2. b # None /\ ~(b.paid >= MaxPaid)
  BY DEF BeginPaid, BudgetSpent
<1>3. b \in Budget /\ b.paid \in Nat /\ b.refunds \in Nat
  BY <1>1, <1>2 DEF Typed, TypeOK, Budget
<1>4. /\ e \in 0 .. MaxEpoch /\ b.refunds <= MaxRefunds
      /\ ledger[pr][e].refunds = b.refunds
      /\ ledger[pr][e].starts <= b.paid + b.refunds
  BY <1>1, <1>2 DEF SpendInv, Accounted
<1>5. ledger[pr][e].starts \in Nat
  BY <1>1, <1>4, LedgerEntryType DEF Typed
<1>6. /\ heads' = [heads EXCEPT ![pr].paid = @ + 1]
      /\ ledger' = [ledger EXCEPT ![pr][e] =
           [head |-> b.head, starts |-> @.starts + 1, refunds |-> @.refunds]]
  BY DEF BeginPaid
<1>7. /\ heads'[pr] # None /\ heads'[pr].epoch = e
      /\ heads'[pr].paid = b.paid + 1 /\ heads'[pr].refunds = b.refunds
  <2> DEFINE c == [b EXCEPT !.paid = @ + 1]
  <2>1. heads'[pr] = c
    BY <1>1, <1>6 DEF Typed, TypeOK
  <2>2. c \in Budget /\ c.paid = b.paid + 1
        /\ c.refunds = b.refunds /\ c.epoch = e
    BY <1>3 DEF Budget
  <2>3. c # None
    BY <2>2, NoneIsNoRecord
  <2>4. QED
    BY <2>1, <2>2, <2>3
<1>8. /\ \A y \in PRs : y # pr => heads'[y] = heads[y]
      /\ \A y \in PRs : y # pr => ledger'[y] = ledger[y]
      /\ \A y \in 0 .. MaxEpoch : y # e => ledger'[pr][y] = ledger[pr][y]
  BY <1>1, <1>6 DEF Typed, TypeOK
<1>9. ledger'[pr][e].starts = ledger[pr][e].starts + 1
      /\ ledger'[pr][e].refunds = ledger[pr][e].refunds
  BY <1>1, <1>4, <1>6 DEF Typed, TypeOK
<1>10. Accounted(pr)
  BY <1>1 DEF SpendInv
<1>11. heads'[pr].paid <= MaxPaid /\ heads'[pr].refunds <= MaxRefunds
       /\ ledger'[pr][e].refunds = heads'[pr].refunds
       /\ ledger'[pr][e].starts <= heads'[pr].paid + heads'[pr].refunds
  <2> DEFINE p == b.paid
             f == b.refunds
             s == ledger[pr][e].starts
  <2>1. /\ p \in Nat /\ f \in Nat /\ s \in Nat /\ f <= MaxRefunds
        /\ ~(p >= MaxPaid) /\ s <= p + f
    BY <1>2, <1>3, <1>4, <1>5
  <2>2. /\ heads'[pr].paid = p + 1 /\ heads'[pr].refunds = f
        /\ ledger'[pr][e].starts = s + 1 /\ ledger'[pr][e].refunds = f
    BY <1>4, <1>7, <1>9
  <2> HIDE DEF p, f, s
  <2>3. p + 1 <= MaxPaid /\ s + 1 <= (p + 1) + f
    BY <2>1, BoundsType
  <2>4. QED
    BY <2>1, <2>2, <2>3
<1> HIDE DEF pr
<1>12. CASE x = pr
  BY <1>1, <1>2, <1>7, <1>8, <1>10, <1>11, <1>12, ChargedAccounted
<1>13. CASE x # pr
  BY <1>8, <1>13 DEF SpendInv, Accounted, Unspent0, EpochBounded
<1>14. QED
  BY <1>12, <1>13

\* A refund moves one start from `paid` to `refunds`, in both accounts.
LEMMA RefundPaidHead ==
  ASSUME Typed, SpendInv, NEW w \in Workers, RefundPaid(w),
         Refundable(held[w]), IsIncremental(jobs[held[w].key]), NEW x \in PRs
  PROVE  Accounted(x)'
<1> DEFINE pr == jobs[held[w].key].pr
           b == heads[pr]
           e == held[w].charge.epoch
           c == [b EXCEPT !.paid = b.paid - 1, !.refunds = b.refunds + 1]
<1>1. held[w] \in Handle /\ jobs[held[w].key] # None
  BY DEF RefundPaid, Refundable, Typed, TypeOK
<1>2. pr \in PRs
  <2>1. jobs[held[w].key] \in Job
    BY <1>1 DEF Typed, TypeOK, Handle
  <2>2. QED
    BY <2>1 DEF Job
<1>3. b # None /\ b.epoch = e /\ Owed(b)
  BY DEF Refundable
<1>4. b \in Budget /\ b.paid \in Nat /\ b.refunds \in Nat
  BY <1>2, <1>3 DEF Typed, TypeOK, Budget
<1>5. b.paid > 0 /\ b.refunds < MaxRefunds
  BY <1>3 DEF Owed
<1>6. /\ e \in 0 .. MaxEpoch /\ b.paid <= MaxPaid
      /\ ledger[pr][e].refunds = b.refunds
      /\ ledger[pr][e].starts <= b.paid + b.refunds
  BY <1>2, <1>3 DEF SpendInv, Accounted
<1>7. ledger[pr][e].starts \in Nat
  BY <1>2, <1>6, LedgerEntryType DEF Typed
<1>8. ledger' = [ledger EXCEPT ![pr][e].refunds = @ + 1]
  BY DEF RefundPaid
<1>9. heads' = [heads EXCEPT ![pr] = c]
  BY <1>2, <1>4 DEF RefundPaid, Typed, TypeOK, Budget
<1>10. /\ heads'[pr] # None /\ heads'[pr].epoch = b.epoch
       /\ heads'[pr].paid = b.paid - 1 /\ heads'[pr].refunds = b.refunds + 1
  <2>1. heads'[pr] = c
    BY <1>2, <1>9 DEF Typed, TypeOK
  <2>2. b.paid - 1 \in Nat /\ b.refunds + 1 \in Nat
    BY <1>4, <1>5
  <2>3. c \in Budget /\ c.paid = b.paid - 1
        /\ c.refunds = b.refunds + 1 /\ c.epoch = b.epoch
    BY <1>4, <2>2 DEF Budget
  <2>4. c # None
    BY <2>3, NoneIsNoRecord
  <2>5. QED
    BY <2>1, <2>3, <2>4
<1>11. \A y \in PRs : y # pr => heads'[y] = heads[y]
  BY <1>2, <1>9 DEF Typed, TypeOK
<1>12. /\ \A y \in PRs : y # pr => ledger'[y] = ledger[y]
       /\ \A y \in 0 .. MaxEpoch : y # e => ledger'[pr][y] = ledger[pr][y]
  BY <1>2, <1>8 DEF Typed, TypeOK
<1>13. ledger'[pr][e].starts = ledger[pr][e].starts
       /\ ledger'[pr][e].refunds = ledger[pr][e].refunds + 1
  <2> DEFINE v == ledger[pr][e]
  <2>1. v \in [head: Heads \cup {NoHead}, starts: Nat, refunds: Nat]
    BY <1>2, <1>6 DEF Typed, TypeOK
  <2>2. ledger'[pr][e] = [v EXCEPT !.refunds = v.refunds + 1]
    BY <1>2, <1>6, <1>8 DEF Typed, TypeOK
  <2>3. QED
    BY <2>1, <2>2
<1> HIDE DEF c
<1>14. heads'[pr].paid <= MaxPaid /\ heads'[pr].refunds <= MaxRefunds
       /\ ledger'[pr][e].refunds = heads'[pr].refunds
       /\ ledger'[pr][e].starts <= heads'[pr].paid + heads'[pr].refunds
  <2> DEFINE p == b.paid
             f == b.refunds
             s == ledger[pr][e].starts
  <2>1. /\ p \in Nat /\ f \in Nat /\ s \in Nat /\ f < MaxRefunds
        /\ p <= MaxPaid /\ p > 0 /\ s <= p + f
    BY <1>4, <1>5, <1>6, <1>7
  <2>2. /\ heads'[pr].paid = p - 1 /\ heads'[pr].refunds = f + 1
        /\ ledger'[pr][e].starts = s /\ ledger'[pr][e].refunds = f + 1
    BY <1>6, <1>10, <1>13
  <2> HIDE DEF p, f, s
  <2>3. p - 1 <= MaxPaid /\ f + 1 <= MaxRefunds /\ s <= (p - 1) + (f + 1)
    BY <2>1, BoundsType
  <2>4. QED
    BY <2>1, <2>2, <2>3
<1>15. Accounted(pr)
  BY <1>2 DEF SpendInv
<1> HIDE DEF pr
<1>16. CASE x = pr
  BY <1>2, <1>3, <1>10, <1>12, <1>14, <1>15, <1>16, ChargedAccounted
<1>17. CASE x # pr
  BY <1>11, <1>12, <1>17 DEF SpendInv, Accounted, Unspent0, EpochBounded
<1>18. QED
  BY <1>16, <1>17

\* Neither charges a record past its own bound.
LEMMA ChargeJobs ==
  ASSUME Typed, SpendInv, NEW w \in Workers, BeginPaid(w) \/ RefundPaid(w)
  PROVE  JobsPaid'
<1> DEFINE k == held[w].key
           j == jobs[k]
<1>1. k \in Ids /\ jobs \in [Ids -> Job \cup {None}]
  BY DEF BeginPaid, RefundPaid, OwnsLive, Owns, Typed, TypeOK, Handle
<1>2. CASE UNCHANGED jobs
  BY <1>2 DEF SpendInv, JobsPaid, Unfinished
<1>3. ASSUME j # None, NEW p, NEW r, p <= MaxPaid,
             jobs' = [jobs EXCEPT ![k] = [j EXCEPT !.paid = p, !.refunds = r]]
      PROVE  JobsPaid'
  <2> DEFINE v == [j EXCEPT !.paid = p, !.refunds = r]
  <2>1. j \in Job
    BY <1>1, <1>3
  <2>2. v.paid = p
    BY <2>1 DEF Job
  <2>3. jobs' = [jobs EXCEPT ![k] = v]
    BY <1>3
  <2> HIDE DEF v
  <2>4. \A x \in Ids : jobs'[x] = IF x = k THEN v ELSE jobs[x]
    BY <1>1, <2>3
  <2>5. QED
    BY <1>3, <2>2, <2>4 DEF SpendInv, JobsPaid, Unfinished
<1>4. CASE BeginPaid(w) /\ ~IsIncremental(j)
  <2>1. j \in Job /\ j # None /\ j.paid \in Nat
    BY <1>4, OwnedType DEF BeginPaid, OwnsLive, Job
  <2>2. jobs' = [jobs EXCEPT ![k].paid = @ + 1] /\ ~(j.paid >= MaxPaid)
    BY <1>4 DEF BeginPaid, BudgetSpent
  <2>3. j.paid + 1 <= MaxPaid
    BY <2>1, <2>2, BoundsType
  <2>4. jobs' = [jobs EXCEPT ![k] =
                  [j EXCEPT !.paid = j.paid + 1, !.refunds = j.refunds]]
    BY <1>1, <2>1, <2>2 DEF Job
  <2>5. QED
    BY <2>1, <2>3, <2>4, <1>3
<1>5. CASE RefundPaid(w) /\ Refundable(held[w]) /\ ~IsIncremental(j)
  <2>1. j # None
    BY <1>5 DEF Refundable
  <2>2. j \in Job /\ j.paid \in Nat
    BY <1>1, <2>1 DEF Job
  <2>3. jobs' = [jobs EXCEPT ![k].paid = @ - 1, ![k].refunds = @ + 1]
    BY <1>5 DEF RefundPaid
  <2>4. j.paid <= MaxPaid
    BY <1>1, <2>1 DEF SpendInv, JobsPaid, Unfinished
  <2>5. j.paid - 1 <= MaxPaid
    BY <2>2, <2>4, BoundsType
  <2>6. jobs' = [jobs EXCEPT ![k] =
                  [j EXCEPT !.paid = j.paid - 1, !.refunds = j.refunds + 1]]
    BY <1>1, <2>2, <2>3 DEF Job
  <2>7. QED
    BY <2>1, <2>5, <2>6, <1>3
<1>6. QED
  BY <1>2, <1>4, <1>5 DEF BeginPaid, RefundPaid

\* A claim charges nothing.
LEMMA ClaimPaid ==
  ASSUME Typed, JobsPaid, NEW w \in Workers, ClaimNext(w)
  PROVE  JobsPaid'
<1>1. PICK i \in DOMAIN queue :
        LET k == queue[i]
            j == jobs[k]
            g == NextGeneration(j)
        IN
        jobs' = [jobs EXCEPT ![k] =
          StampCheck([j EXCEPT !.gen = g, !.owner = OwnerOf[w], !.live = TRUE],
                     j.head, g)]
  BY DEF ClaimNext
<1> DEFINE k == queue[i]
           j == jobs[k]
           g == NextGeneration(j)
           own == [j EXCEPT !.gen = g, !.owner = OwnerOf[w], !.live = TRUE]
           new == StampCheck(own, j.head, g)
<1>2. k \in Ids /\ j # None /\ j \in Job
  BY DEF Typed, TypeOK, Listed
<1>3. new.paid = j.paid
  BY <1>2 DEF StampCheck, Job
<1>4. jobs' = [jobs EXCEPT ![k] = new]
  BY <1>1
<1> HIDE DEF new
<1>5. \A x \in Ids : jobs'[x] = IF x = k THEN new ELSE jobs[x]
  BY <1>2, <1>4 DEF Typed, TypeOK
<1>6. QED
  BY <1>2, <1>3, <1>5 DEF JobsPaid, Unfinished

LEMMA AllAccounted ==
  ASSUME TypeOK, SpendInv, \A pr \in PRs : Uncharged(pr), UNCHANGED ledger
  PROVE  \A pr \in PRs : Accounted(pr)'
  BY UnchargedAccounted DEF SpendInv

LEMMA SpendInit ==
  ASSUME Init
  PROVE  SpendInv
<1>1. JobsPaid
  BY DEF Init, JobsPaid, Unfinished
<1>2. ASSUME NEW pr \in PRs
      PROVE  Accounted(pr)
  <2>1. heads[pr] = None
    BY DEF Init
  <2>2. ASSUME NEW e \in 0 .. MaxEpoch
        PROVE  Unspent0(pr, e)
    BY DEF Init, Unspent0
  <2>3. QED
    BY <2>1, <2>2 DEF Accounted
<1>3. QED
  BY <1>1, <1>2 DEF SpendInv

LEMMA SpendAdmit ==
  ASSUME Typed, SpendInv, Admit
  PROVE  SpendInv'
<1>1. Requests \subseteq RequestRec
  BY ConstantsAssumption DEF ConstantsAssumption
<1>2. ASSUME NEW r \in Requests, AdmitNew(r)
      PROVE  SpendInv'
  <2>1. r \in RequestRec /\ r.id \in Ids
    BY <1>1 DEF RequestRec
  <2>2. jobs' = [jobs EXCEPT ![r.id] = NewJob(r)] /\ NewJob(r).paid = 0
    BY <1>2, <2>1, NewJobType DEF AdmitNew
  <2>3. \A x \in Ids : jobs'[x] = IF x = r.id THEN NewJob(r) ELSE jobs[x]
    BY <2>1, <2>2 DEF Typed, TypeOK
  <2>4. JobsPaid'
    BY <2>2, <2>3, BoundsType DEF SpendInv, JobsPaid, Unfinished
  <2>5. RearmIfExplicit(r) /\ UNCHANGED ledger
    BY <1>2 DEF AdmitNew
  <2>6. QED
    BY <2>1, <2>4, <2>5, RearmUncharged, AllAccounted DEF SpendInv, Typed
<1>3. ASSUME NEW r \in Requests, AdmitCoalesced(r)
      PROVE  SpendInv'
  <2>1. RearmIfExplicit(r) /\ UNCHANGED ledger /\ r \in RequestRec
    BY <1>1, <1>3 DEF AdmitCoalesced
  <2>2. JobsPaid'
    BY <1>3, CoalescedSteady, SteadyPaid DEF SpendInv
  <2>3. QED
    BY <2>1, <2>2, RearmUncharged, AllAccounted DEF SpendInv, Typed
<1>4. ASSUME NEW batch \in Batches, AdmitManual(batch)
      PROVE  SpendInv'
  <2>1. \A k \in Ids : jobs'[k] = jobs[k] \/ jobs'[k].paid = 0
    BY <1>4, ManualRecords
  <2>2. JobsPaid'
    BY <2>1, BoundsType DEF SpendInv, JobsPaid, Unfinished
  <2>3. UNCHANGED <<heads, ledger>>
    BY <1>4 DEF AdmitManual
  <2>4. QED
    BY <2>2, <2>3, AllAccounted DEF SpendInv, Typed, Uncharged
<1>5. QED
  BY <1>2, <1>3, <1>4 DEF Admit

LEMMA SpendWorker ==
  ASSUME Typed, SpendInv, NEW w \in Workers, WorkerStep(w)
  PROVE  SpendInv'
<1>1. CASE BeginPaid(w)
  <2>1. JobsPaid'
    BY <1>1, ChargeJobs
  <2>2. CASE IsIncremental(jobs[held[w].key])
    BY <1>1, <2>1, <2>2, BeginPaidHead DEF SpendInv
  <2>3. CASE ~IsIncremental(jobs[held[w].key])
    <3>1. UNCHANGED <<heads, ledger>>
      BY <1>1, <2>3 DEF BeginPaid
    <3>2. QED
      BY <2>1, <3>1, AllAccounted DEF SpendInv, Typed, Uncharged
  <2>4. QED
    BY <2>2, <2>3
<1>2. CASE RefundPaid(w)
  <2>1. JobsPaid'
    BY <1>2, ChargeJobs
  <2>2. CASE Refundable(held[w]) /\ IsIncremental(jobs[held[w].key])
    BY <1>2, <2>1, <2>2, RefundPaidHead DEF SpendInv
  <2>3. CASE ~(Refundable(held[w]) /\ IsIncremental(jobs[held[w].key]))
    <3>1. UNCHANGED <<heads, ledger>>
      BY <1>2, <2>3 DEF RefundPaid
    <3>2. QED
      BY <2>1, <3>1, AllAccounted DEF SpendInv, Typed, Uncharged
  <2>4. QED
    BY <2>2, <2>3
<1>3. CASE ClaimNext(w)
  <2>1. UNCHANGED <<heads, ledger>>
    BY <1>3 DEF ClaimNext
  <2>2. JobsPaid'
    BY <1>3, ClaimPaid DEF SpendInv
  <2>3. QED
    BY <2>1, <2>2, AllAccounted DEF SpendInv, Typed, Uncharged
<1>4. ASSUME NEW h \in Heads, Reconcile(w, h)
      PROVE  SpendInv'
  <2>1. JobsPaid'
    BY <1>4, WorkerSteady, SteadyPaid DEF SpendInv
  <2>2. \A pr \in PRs : Uncharged(pr)
    BY <1>4, ConfirmUncharged DEF SpendInv
  <2>3. UNCHANGED ledger
    BY <1>4 DEF Reconcile
  <2>4. QED
    BY <2>1, <2>2, <2>3, AllAccounted DEF SpendInv, Typed
<1>5. CASE Finish(w) \/ FinishYield(w)
  <2>1. JobsPaid'
    BY <1>5, WorkerSteady, SteadyPaid DEF SpendInv
  <2>2. jobs[held[w].key] \in Job
    BY <1>5, OwnedType DEF Finish, FinishYield, Concluded, OwnsLive
  <2>3. heads' = MarkHead(jobs[held[w].key], held[w].verdict) /\ UNCHANGED ledger
    BY <1>5 DEF Finish, FinishYield
  <2>4. QED
    BY <2>1, <2>2, <2>3, MarkUncharged, AllAccounted DEF SpendInv, Typed
<1>6. CASE \/ Renew(w) \/ StartCheck(w)
           \/ \E v \in Verdicts, closed \in BOOLEAN : Conclude(w, v, closed)
           \/ DeferYield(w) \/ Defer(w)
  <2>1. JobsPaid'
    BY <1>6, WorkerSteady, SteadyPaid DEF SpendInv
  <2>2. UNCHANGED <<heads, ledger>>
    BY <1>6 DEF Renew, StartCheck, Conclude, DeferYield, Defer
  <2>3. QED
    BY <2>1, <2>2, AllAccounted DEF SpendInv, Typed, Uncharged
<1>7. CASE \/ \E h \in Heads : ReconcileDeferred(w, h) \/ ConfirmRefused(w, h)
           \/ BeginPaidExhausted(w) \/ Dispatch(w) \/ Retry(w) \/ Publish(w)
           \/ Drop(w)
  <2>1. JobsPaid'
    BY <1>7, HandleStepsSteady, SteadyPaid DEF SpendInv
  <2>2. UNCHANGED <<heads, ledger>>
    BY <1>7 DEF ReconcileDeferred, ConfirmRefused, BeginPaidExhausted, Dispatch,
                Retry, Publish, Drop, sched
  <2>3. QED
    BY <2>1, <2>2, AllAccounted DEF SpendInv, Typed, Uncharged
<1>8. QED
  BY <1>1, <1>2, <1>3, <1>4, <1>5, <1>6, <1>7 DEF WorkerStep

LEMMA SpendStep ==
  ASSUME Typed, SpendInv, [Next]_vars
  PROVE  SpendInv'
<1>1. ASSUME UNCHANGED <<heads, ledger>>, Steady
      PROVE  SpendInv'
  BY <1>1, SteadyPaid, AllAccounted DEF SpendInv, Typed, Uncharged
<1>2. ASSUME NEW d \in Drainers, DrainerStep(d)
      PROVE  SpendInv'
  <2>1. UNCHANGED <<heads, ledger>>
    BY <1>2 DEF DrainerStep, ClaimMetadata, ResolveClosed, ResolveOpen,
                ClaimCheck, ClaimRetired, MarkPostAttempted, RecordCheckId,
                RecordRetiredId, CompleteRetired, Abandon, sched
  <2>2. QED
    BY <1>1, <1>2, <2>1, DrainerSteady
<1>3. CASE TimePasses
  <2>1. UNCHANGED <<heads, ledger>>
    BY <1>3 DEF TimePasses, LeaseLapses, BackoffEnds, MetadataClaimLapses,
                CheckClaimLapses, RetiredClaimLapses, TombstoneExpires,
                HistoryExpires
  <2>2. QED
    BY <1>1, <1>3, <2>1, TimeSteady
<1>4. CASE UNCHANGED vars
  BY <1>1, <1>4, UnchangedSteady DEF vars
<1>5. QED
  BY <1>2, <1>3, <1>4, SpendAdmit, SpendWorker DEF Next

LEMMA SpendInvSafe ==
  ASSUME TypeOK, SpendInv
  PROVE  SpendBounded
<1>1. SUFFICES ASSUME NEW pr \in PRs, NEW e \in 0 .. MaxEpoch
               PROVE  EpochBounded(pr, e)
  BY DEF SpendBounded, EpochBounded
<1>2. Accounted(pr) /\ e \in Nat
  BY BoundsType DEF SpendInv
<1>3. ASSUME Unspent0(pr, e)
      PROVE  EpochBounded(pr, e)
  BY <1>3, BoundsType DEF Unspent0, EpochBounded
<1>4. CASE heads[pr] = None
  BY <1>2, <1>3, <1>4 DEF Accounted
<1>5. CASE heads[pr] # None
  <2> DEFINE b == heads[pr]
  <2>1. /\ b.epoch \in 0 .. MaxEpoch
        /\ b.paid <= MaxPaid /\ b.refunds <= MaxRefunds
        /\ ledger[pr][b.epoch].refunds = b.refunds
        /\ ledger[pr][b.epoch].starts <= b.paid + b.refunds
        /\ e > b.epoch => Unspent0(pr, e)
        /\ e < b.epoch => EpochBounded(pr, e)
    BY <1>2, <1>5 DEF Accounted
  <2>2. b.paid \in Nat /\ b.refunds \in Nat
    BY <1>5 DEF TypeOK, Budget
  <2>3. ledger[pr][e].starts \in Nat
    BY LedgerEntryType
  <2>4. CASE e = b.epoch
    BY <2>1, <2>2, <2>3, <2>4, BoundsType DEF EpochBounded
  <2>5. e < b.epoch \/ e = b.epoch \/ e > b.epoch
    BY <1>2, <2>1, BoundsType
  <2>6. QED
    BY <1>3, <2>1, <2>4, <2>5
<1>6. QED
  BY <1>4, <1>5

\* An epoch of a head costs at most MaxPaid starts that were not refunded and
\* MaxPaid + MaxRefunds in all: the stored budget accounts for every start of
\* its own epoch, a late refund that names another epoch changes nothing, and
\* a fresh epoch starts with an empty ledger.
THEOREM SpendIsBounded == Spec => []SpendBounded
<1>1. Init => SpendInv
  BY SpendInit
<1>2. Typed /\ SpendInv /\ [Next]_vars => SpendInv'
  BY SpendStep
<1>3. Typed /\ SpendInv => SpendBounded
  BY SpendInvSafe DEF Typed
<1>4. QED
  BY <1>1, <1>2, <1>3, AlwaysTyped, PTL DEF Spec

==============================================================================

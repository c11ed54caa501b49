---------------------- MODULE ReviewSchedulerAdmission -----------------------
(***************************************************************************)
(* Theorems about what ReviewScheduler promises at admission: an accepted  *)
(* delivery is in one place and never lost, a head keeps its result, no    *)
(* queued check hides a review, and whatever happens later fits the        *)
(* capacity that admission reserved.                                       *)
(*                                                                         *)
(* A step is sorted by what it does to the records.  A light step keeps    *)
(* what admission and capacity speak of; the others are the admissions,    *)
(* the reconciliation of a head, the releases, and the two ends of a       *)
(* record.                                                                 *)
(***************************************************************************)
EXTENDS ReviewSchedulerSafety

-----------------------------------------------------------------------------
(* What a step does to the records                                         *)

\* The record keeps its pull request and its deliveries.
Keeps(j, v) ==
  v \in Job /\ v.pr = j.pr /\ v.mode = j.mode /\ v.id = j.id /\ v.ids = j.ids
\* It keeps its head, and what it holds of the two capacities, as well.
Light(j, v) ==
  /\ Keeps(j, v) /\ v.head = j.head /\ v.hint = j.hint
  /\ v.resv = j.resv /\ v.spare = j.spare /\ v.meta = j.meta
  /\ CheckHeads(v) = CheckHeads(j)

KeepsJobs ==
  \A k \in Ids : /\ jobs[k] = None => jobs'[k] = None
                 /\ jobs[k] # None => jobs'[k] # None /\ Keeps(jobs[k], jobs'[k])
LightJobs ==
  \A k \in Ids : /\ jobs[k] = None => jobs'[k] = None
                 /\ jobs[k] # None => jobs'[k] # None /\ Light(jobs[k], jobs'[k])
\* The budgets keep their head and its result.
SameHeads ==
  \A pr \in PRs : /\ heads[pr] = None => heads'[pr] = None
                  /\ heads[pr] # None =>
                       /\ heads'[pr] # None /\ heads'[pr].head = heads[pr].head
                       /\ heads'[pr].outcome = heads[pr].outcome

\* A light step only moves leases, claims, charges and stages.
LightStep ==
  /\ LightJobs /\ SameHeads
  /\ UNCHANGED <<queue, terminal, history>>

LEMMA LightKeeps ==
  ASSUME LightJobs
  PROVE  KeepsJobs
  BY DEF LightJobs, KeepsJobs, Light

\* The record at k is the only one that is rewritten.
LEMMA OneRewritten ==
  ASSUME Typed, NEW k \in Ids, jobs[k] # None, NEW v,
         jobs' = [jobs EXCEPT ![k] = v]
  PROVE  /\ v \in Job => v # None
         /\ Keeps(jobs[k], v) => KeepsJobs
         /\ Light(jobs[k], v) => LightJobs
<1>1. jobs \in [Ids -> Job \cup {None}]
  BY DEF Typed, TypeOK
<1>2. jobs'[k] = v /\ \A x \in Ids : x # k => jobs'[x] = jobs[x]
  BY <1>1
<1>3. \A x \in Ids : jobs[x] # None => jobs[x] \in Job
  BY <1>1
<1>4. v \in Job => v # None
  BY NoneIsNoRecord
<1>5. QED
  BY <1>2, <1>3, <1>4 DEF KeepsJobs, LightJobs, Light, Keeps

LEMMA SameIsLight ==
  ASSUME Typed, UNCHANGED jobs
  PROVE  LightJobs
<1>1. \A x \in Ids : jobs[x] # None => jobs[x] \in Job
  BY DEF Typed, TypeOK
<1>2. QED
  BY <1>1 DEF LightJobs, Light, Keeps

\* Rewriting a check that exists is light.
LEMMA CheckIsLight ==
  ASSUME Typed, NEW k \in Ids, jobs[k] # None, NEW h \in Heads,
         HasCheck(jobs[k], h), NEW c \in Check,
         jobs' = [jobs EXCEPT ![k] =
           [jobs[k] EXCEPT !.checks = [jobs[k].checks EXCEPT ![h] = c]]]
  PROVE  LightJobs
<1> DEFINE j == jobs[k]
           x == [j.checks EXCEPT ![h] = c]
           v == [j EXCEPT !.checks = x]
<1>1. j \in Job /\ j.checks \in [Heads -> Check \cup {None}]
  BY DEF Typed, TypeOK, Job
<1>2. v \in Job
  BY <1>1, CheckUpdateType
<1>3. c # None
  BY NoneIsNoRecord
<1>4. v.checks = x /\ \A y \in Heads : x[y] = IF y = h THEN c ELSE j.checks[y]
  BY <1>1 DEF Job
<1>5. CheckHeads(v) = CheckHeads(j)
  <2> HIDE DEF v, x, j
  <2>1. QED
    BY <1>3, <1>4 DEF CheckHeads, HasCheck, j
<1>6. /\ v.pr = j.pr /\ v.mode = j.mode /\ v.id = j.id /\ v.ids = j.ids
      /\ v.head = j.head /\ v.hint = j.hint
      /\ v.resv = j.resv /\ v.spare = j.spare /\ v.meta = j.meta
  BY <1>1 DEF Job
<1>7. jobs' = [jobs EXCEPT ![k] = v]
  OBVIOUS
<1> HIDE DEF v
<1>8. Light(j, v)
  BY <1>2, <1>5, <1>6 DEF Light, Keeps
<1>9. QED
  BY <1>7, <1>8, OneRewritten

\* Recording a stage of the owner's check is light.
LEMMA SetStageLight ==
  ASSUME Typed, NEW w \in Workers, OwnsLive(w), OwnCheck(w),
         NEW stage \in Stages, jobs' = SetStage(w, stage)
  PROVE  LightJobs
<1> DEFINE k == held[w].key
           j == jobs[k]
           c == [j.checks[j.head] EXCEPT !.stage = stage]
<1>1. k \in Ids /\ j \in Job /\ j # None
  BY OwnedType DEF OwnsLive
<1>2. j.head \in Heads /\ j.checks[j.head] \in Check /\ HasCheck(j, j.head)
  BY <1>1 DEF OwnCheck, HasCheck, Job
<1>3. c \in Check
  BY <1>2 DEF Check
<1>4. jobs' = [jobs EXCEPT ![k] =
                 [j EXCEPT !.checks = [j.checks EXCEPT ![j.head] = c]]]
  BY DEF SetStage
<1> HIDE DEF c
<1>5. QED
  BY <1>1, <1>2, <1>3, <1>4, CheckIsLight

LEMMA ClaimNextLight ==
  ASSUME Typed, NEW w \in Workers, ClaimNext(w)
  PROVE  LightJobs
<1>1. PICK i \in DOMAIN queue :
        LET k == queue[i]
            j == jobs[k]
            g == NextGeneration(j)
        IN jobs' = [jobs EXCEPT ![k] =
             StampCheck([j EXCEPT !.gen = g, !.owner = OwnerOf[w], !.live = TRUE],
                        j.head, g)]
  BY DEF ClaimNext
<1> DEFINE k == queue[i]
           j == jobs[k]
           g == NextGeneration(j)
           own == [j EXCEPT !.gen = g, !.owner = OwnerOf[w], !.live = TRUE]
           v == StampCheck(own, j.head, g)
<1>2. k \in Ids /\ j # None /\ j \in Job
  BY DEF Typed, TypeOK, Listed
<1>3. g \in Nat /\ OwnerOf[w] \in Owners /\ j.head \in Heads \cup {NoHead}
  BY <1>2, ConstantsAssumption DEF NextGeneration, Job, ConstantsAssumption
<1>4. own \in Job /\ Light(j, own)
  BY <1>2, <1>3 DEF Job, Light, Keeps, CheckHeads, HasCheck
<1>5. jobs' = [jobs EXCEPT ![k] = v]
  BY <1>1
<1> HIDE DEF k, g, own
<1>6. v \in Job /\ v = [own EXCEPT !.checks = v.checks]
  BY <1>3, <1>4, StampCheckType
<1>7. CheckHeads(v) = CheckHeads(own)
  <2>1. CASE j.head # NoHead /\ HasCheck(own, j.head)
    <3>1. v = [own EXCEPT !.checks[j.head].gen = g]
      BY <2>1 DEF StampCheck
    <3>2. j.head \in Heads /\ own.checks \in [Heads -> Check \cup {None}]
          /\ own.checks[j.head] \in Check
      BY <2>1, <1>3, <1>4 DEF Job, HasCheck
    <3>3. [own.checks[j.head] EXCEPT !.gen = g] \in Check
      BY <3>2, <1>3 DEF Check
    <3>4. [own.checks[j.head] EXCEPT !.gen = g] # None
      BY <3>3, NoneIsNoRecord
    <3> DEFINE c == [own.checks[j.head] EXCEPT !.gen = g]
    <3>5. v.checks = [own.checks EXCEPT ![j.head] = c]
      BY <3>1, <1>4 DEF Job
    <3> HIDE DEF c, v
    <3>6. \A y \in Heads : v.checks[y] = IF y = j.head THEN c ELSE own.checks[y]
      BY <3>2, <3>5
    <3>7. QED
      BY <2>1, <3>4, <3>6 DEF CheckHeads, HasCheck, c
  <2>2. CASE ~(j.head # NoHead /\ HasCheck(own, j.head))
    BY <2>2 DEF StampCheck
  <2>3. QED
    BY <2>1, <2>2
<1> HIDE DEF v
<1>8. Light(own, v)
  BY <1>4, <1>6, <1>7 DEF Light, Keeps, Job
<1>9. Light(j, v)
  BY <1>4, <1>8 DEF Light, Keeps
<1>10. QED
  BY <1>2, <1>5, <1>9, OneRewritten DEF k

\* A charge or a refund is light.
LEMMA ChargeLight ==
  ASSUME Typed, NEW w \in Workers, BeginPaid(w) \/ RefundPaid(w)
  PROVE  LightStep
<1> DEFINE k == held[w].key
           j == jobs[k]
<1>1. held[w] \in Handle /\ k \in Ids /\ jobs \in [Ids -> Job \cup {None}]
      /\ heads \in [PRs -> Budget \cup {None}]
      /\ UNCHANGED <<queue, terminal, history>>
  BY DEF BeginPaid, RefundPaid, OwnsLive, Owns, Typed, TypeOK, Handle
<1>2. ASSUME j # None, NEW p \in Nat, NEW r \in Nat,
             jobs' = [jobs EXCEPT ![k] = [j EXCEPT !.paid = p, !.refunds = r]]
      PROVE  LightJobs
  <2> DEFINE v == [j EXCEPT !.paid = p, !.refunds = r]
  <2>1. j \in Job
    BY <1>1, <1>2
  <2>2. v \in Job
    BY <2>1, ChargedType
  <2>3. Light(j, v)
    BY <2>1, <2>2 DEF Light, Keeps, Job, CheckHeads, HasCheck
  <2>4. jobs' = [jobs EXCEPT ![k] = v]
    BY <1>2
  <2> HIDE DEF v
  <2>5. QED
    BY <1>1, <1>2, <2>3, <2>4, OneRewritten
<1>3. ASSUME heads[j.pr] # None, j.pr \in PRs, NEW p, NEW r,
             heads' = [heads EXCEPT ![j.pr] =
               [heads[j.pr] EXCEPT !.paid = p, !.refunds = r]],
             [heads[j.pr] EXCEPT !.paid = p, !.refunds = r] \in Budget
      PROVE  SameHeads
  <2> DEFINE b == [heads[j.pr] EXCEPT !.paid = p, !.refunds = r]
  <2>1. heads[j.pr] \in Budget /\ b # None
    BY <1>1, <1>3, NoneIsNoRecord
  <2>2. b.head = heads[j.pr].head /\ b.outcome = heads[j.pr].outcome
    BY <2>1 DEF Budget
  <2>3. heads' = [heads EXCEPT ![j.pr] = b]
    BY <1>3
  <2> HIDE DEF b, j
  <2>4. \A x \in PRs : heads'[x] = IF x = j.pr THEN b ELSE heads[x]
    BY <1>1, <2>3
  <2>5. ASSUME NEW x \in PRs
        PROVE  /\ heads[x] = None => heads'[x] = None
               /\ heads[x] # None =>
                    /\ heads'[x] # None /\ heads'[x].head = heads[x].head
                    /\ heads'[x].outcome = heads[x].outcome
    <3>1. CASE x = j.pr
      BY <1>3, <2>1, <2>2, <2>4, <3>1
    <3>2. CASE x # j.pr
      BY <2>4, <3>2
    <3>3. QED
      BY <3>1, <3>2
  <2>6. QED
    BY <2>5 DEF SameHeads
<1>4. UNCHANGED heads => SameHeads
  BY DEF SameHeads
<1>5. CASE BeginPaid(w)
  <2>1. j \in Job /\ j # None /\ j.pr \in PRs
    BY <1>5, OwnedType DEF BeginPaid, OwnsLive, Job
  <2>2. CASE IsIncremental(j)
    <3>1. heads[j.pr] # None /\ heads[j.pr] \in Budget /\ UNCHANGED jobs
          /\ heads' = [heads EXCEPT ![j.pr].paid = @ + 1]
      BY <1>1, <1>5, <2>1, <2>2 DEF BeginPaid
    <3>2. heads[j.pr].paid + 1 \in Nat /\ heads[j.pr].refunds \in Nat
      BY <3>1 DEF Budget
    <3>3. /\ heads' = [heads EXCEPT ![j.pr] =
               [heads[j.pr] EXCEPT !.paid = heads[j.pr].paid + 1,
                                   !.refunds = heads[j.pr].refunds]]
          /\ [heads[j.pr] EXCEPT !.paid = heads[j.pr].paid + 1,
                                 !.refunds = heads[j.pr].refunds] \in Budget
      BY <3>1, <3>2 DEF Budget
    <3>4. SameHeads
      BY <2>1, <3>1, <3>3, <1>3
    <3>5. QED
      BY <1>1, <3>1, <3>4, SameIsLight DEF LightStep
  <2>3. CASE ~IsIncremental(j)
    <3>1. jobs' = [jobs EXCEPT ![k].paid = @ + 1] /\ UNCHANGED heads
      BY <1>5, <2>3 DEF BeginPaid
    <3>2. j.paid + 1 \in Nat /\ j.refunds \in Nat
      BY <2>1 DEF Job
    <3>3. jobs' = [jobs EXCEPT ![k] =
                    [j EXCEPT !.paid = j.paid + 1, !.refunds = j.refunds]]
      BY <2>1, <3>1 DEF Job
    <3>4. QED
      BY <1>1, <1>2, <1>4, <2>1, <3>1, <3>2, <3>3 DEF LightStep
  <2>4. QED
    BY <2>2, <2>3
<1>6. CASE RefundPaid(w)
  <2>1. CASE ~Refundable(held[w])
    <3>1. UNCHANGED <<jobs, heads>>
      BY <1>6, <2>1 DEF RefundPaid
    <3>2. QED
      BY <1>1, <1>4, <3>1, SameIsLight DEF LightStep
  <2>2. CASE Refundable(held[w])
    <3>1. j # None /\ j \in Job /\ j.pr \in PRs
      BY <1>1, <2>2 DEF Refundable, Job
    <3>2. CASE IsIncremental(j)
      <4>1. heads[j.pr] # None /\ heads[j.pr] \in Budget /\ UNCHANGED jobs
            /\ heads[j.pr].paid > 0
            /\ heads' = [heads EXCEPT ![j.pr].paid = @ - 1, ![j.pr].refunds = @ + 1]
        BY <1>1, <1>6, <2>2, <3>1, <3>2 DEF RefundPaid, Refundable, Owed
      <4>2. heads[j.pr].paid - 1 \in Nat /\ heads[j.pr].refunds + 1 \in Nat
        <5>1. heads[j.pr].paid \in Nat /\ heads[j.pr].refunds \in Nat
          BY <4>1 DEF Budget
        <5>2. heads[j.pr].paid > 0
          BY <4>1
        <5>3. \A n \in Nat : n > 0 => n - 1 \in Nat
          OBVIOUS
        <5>4. \A n \in Nat : n + 1 \in Nat
          OBVIOUS
        <5>5. QED
          BY <5>1, <5>2, <5>3, <5>4
      <4>3. /\ heads' = [heads EXCEPT ![j.pr] =
                 [heads[j.pr] EXCEPT !.paid = heads[j.pr].paid - 1,
                                     !.refunds = heads[j.pr].refunds + 1]]
            /\ [heads[j.pr] EXCEPT !.paid = heads[j.pr].paid - 1,
                                   !.refunds = heads[j.pr].refunds + 1] \in Budget
        BY <1>1, <3>1, <4>1, <4>2 DEF Budget
      <4>4. SameHeads
        BY <3>1, <4>1, <4>3, <1>3
      <4>5. QED
        BY <1>1, <4>1, <4>4, SameIsLight DEF LightStep
    <3>3. CASE ~IsIncremental(j)
      <4>1. jobs' = [jobs EXCEPT ![k].paid = @ - 1, ![k].refunds = @ + 1]
            /\ UNCHANGED heads /\ j.paid > 0
        BY <1>6, <2>2, <3>3 DEF RefundPaid, Refundable, Owed
      <4>2. j.paid - 1 \in Nat /\ j.refunds + 1 \in Nat
        BY <3>1, <4>1 DEF Job
      <4>3. jobs' = [jobs EXCEPT ![k] =
                      [j EXCEPT !.paid = j.paid - 1, !.refunds = j.refunds + 1]]
        BY <1>1, <3>1, <4>1 DEF Job
      <4>4. QED
        BY <1>1, <1>2, <1>4, <3>1, <4>1, <4>2, <4>3 DEF LightStep
    <3>4. QED
      BY <3>2, <3>3
  <2>3. QED
    BY <2>1, <2>2
<1>7. QED
  BY <1>5, <1>6

\* The worker steps that keep deliveries, heads and capacity.
LEMMA WorkerLight ==
  ASSUME Typed, NEW w \in Workers,
         \/ ClaimNext(w) \/ Renew(w) \/ StartCheck(w)
         \/ \E h \in Heads : ReconcileDeferred(w, h) \/ ConfirmRefused(w, h)
         \/ BeginPaid(w) \/ BeginPaidExhausted(w) \/ Dispatch(w) \/ RefundPaid(w)
         \/ Retry(w) \/ Publish(w)
         \/ \E v \in Verdicts, closed \in BOOLEAN : Conclude(w, v, closed)
         \/ Drop(w)
  PROVE  LightStep /\ UNCHANGED retired
<1>1. UNCHANGED heads => SameHeads
  BY DEF SameHeads
<1>2. CASE BeginPaid(w) \/ RefundPaid(w)
  BY <1>2, ChargeLight DEF BeginPaid, RefundPaid
<1>3. CASE ClaimNext(w)
  BY <1>1, <1>3, ClaimNextLight DEF ClaimNext, LightStep
<1>4. CASE Renew(w)
  <2> DEFINE k == held[w].key
             v == [jobs[k] EXCEPT !.live = TRUE]
  <2>1. k \in Ids /\ jobs[k] \in Job /\ jobs[k] # None
    BY <1>4, OwnedType DEF Renew, OwnsLive
  <2>2. Light(jobs[k], v)
    BY <2>1 DEF Light, Keeps, Job, CheckHeads, HasCheck
  <2>3. jobs' = [jobs EXCEPT ![k] = v]
    BY <1>4 DEF Renew
  <2> HIDE DEF v
  <2>4. LightJobs
    BY <2>1, <2>2, <2>3, OneRewritten
  <2>5. QED
    BY <1>1, <1>4, <2>4 DEF Renew, LightStep
<1>5. CASE StartCheck(w)
  BY <1>1, <1>5, SetStageLight DEF StartCheck, Stages, LightStep
<1>6. ASSUME NEW v \in Verdicts, NEW closed \in BOOLEAN, Conclude(w, v, closed)
      PROVE  LightStep /\ UNCHANGED retired
  <2>1. CASE closed
    <3>1. OwnsLive(w) /\ OwnCheck(w) /\ jobs' = SetStage(w, "completed")
      BY <1>6, <2>1 DEF Conclude
    <3>2. LightJobs
      BY <3>1, SetStageLight DEF Stages
    <3>3. QED
      BY <1>1, <1>6, <3>2 DEF Conclude, LightStep
  <2>2. CASE ~closed
    BY <1>1, <1>6, <2>2, SameIsLight DEF Conclude, LightStep
  <2>3. QED
    BY <2>1, <2>2
<1>7. CASE \/ \E h \in Heads : ReconcileDeferred(w, h) \/ ConfirmRefused(w, h)
           \/ BeginPaidExhausted(w) \/ Dispatch(w) \/ Retry(w) \/ Publish(w)
           \/ Drop(w)
  <2>1. UNCHANGED sched
    BY <1>7 DEF ReconcileDeferred, ConfirmRefused, BeginPaidExhausted, Dispatch,
       Retry, Publish, Drop
  <2>2. QED
    BY <1>1, <2>1, SameIsLight DEF sched, LightStep
<1>8. QED
  BY <1>2, <1>3, <1>4, <1>5, <1>6, <1>7

\* The drainer steps that keep them.
LEMMA DrainerLight ==
  ASSUME Typed, NEW d \in Drainers,
         \/ ClaimMetadata(d) \/ ClaimCheck(d) \/ ClaimRetired(d)
         \/ MarkPostAttempted(d) \/ RecordCheckId(d) \/ RecordRetiredId(d)
         \/ CompleteRetired(d) \/ Abandon(d)
  PROVE  LightStep /\ Len(retired') <= Len(retired)
<1>1. UNCHANGED heads => SameHeads
  BY DEF SameHeads
<1>2. retired \in Seq(Retired) /\ Len(retired) \in Nat
  BY DEF Typed, TypeOK
<1>3. CASE ClaimMetadata(d)
  <2>1. PICK k \in Unfinished :
          jobs' = [jobs EXCEPT ![k].mgen = @ + 1, ![k].mlive = TRUE]
    BY <1>3 DEF ClaimMetadata
  <2> DEFINE v == [jobs[k] EXCEPT !.mgen = jobs[k].mgen + 1, !.mlive = TRUE]
  <2>2. k \in Ids /\ jobs[k] # None /\ jobs[k] \in Job
    BY DEF Unfinished, Typed, TypeOK
  <2>3. jobs[k].mgen + 1 \in Nat
    BY <2>2 DEF Job
  <2>4. jobs' = [jobs EXCEPT ![k] = v]
    BY <2>1, <2>2 DEF Typed, TypeOK
  <2>5. Light(jobs[k], v)
    BY <2>2, <2>3 DEF Light, Keeps, Job, CheckHeads, HasCheck
  <2> HIDE DEF v
  <2>6. LightJobs
    BY <2>2, <2>4, <2>5, OneRewritten
  <2>7. QED
    BY <1>1, <1>2, <1>3, <2>6 DEF ClaimMetadata, LightStep
<1>4. CASE ClaimCheck(d)
  <2>1. PICK k \in Unfinished :
          LET j == jobs[k]
              c == j.checks[j.head]
          IN /\ Drainable(j)
             /\ jobs' = [jobs EXCEPT ![k].checks[j.head] =
                           [@ EXCEPT !.wgen = c.wgen + 1, !.wlive = TRUE]]
    BY <1>4 DEF ClaimCheck
  <2> DEFINE j == jobs[k]
             h == j.head
             c == j.checks[h]
             v == [c EXCEPT !.wgen = c.wgen + 1, !.wlive = TRUE]
  <2>2. k \in Ids /\ j # None /\ j \in Job
    BY DEF Unfinished, Typed, TypeOK
  <2>3. h \in Heads /\ c \in Check /\ HasCheck(j, h)
    BY <2>1, <2>2 DEF Drainable, HasCheck, Job
  <2>4. v \in Check
    BY <2>3, CheckFieldsType
  <2>5. jobs' = [jobs EXCEPT ![k] =
          [jobs[k] EXCEPT !.checks = [jobs[k].checks EXCEPT ![h] = v]]]
    BY <2>1
  <2> HIDE DEF v, h
  <2>6. LightJobs
    BY <2>2, <2>3, <2>4, <2>5, CheckIsLight
  <2>7. UNCHANGED <<queue, terminal, heads, history, retired>>
    BY <1>4 DEF ClaimCheck
  <2>8. QED
    BY <1>1, <1>2, <2>6, <2>7 DEF LightStep
<1>5. CASE MarkPostAttempted(d) \/ RecordCheckId(d)
  <2> DEFINE h == drain[d].head
  <2>1. PICK k \in Ids :
          /\ DrainsActive(d) /\ ActiveCurrent(drain[d], k)
          /\ \/ jobs' = [jobs EXCEPT ![k].checks[h].attempted = TRUE]
             \/ jobs' = [jobs EXCEPT ![k].checks[h] =
                           [@ EXCEPT !.published = TRUE, !.wlive = FALSE]]
    BY <1>5 DEF MarkPostAttempted, RecordCheckId
  <2> DEFINE c == jobs[k].checks[h]
             c1 == [c EXCEPT !.attempted = TRUE]
             c2 == [c EXCEPT !.published = TRUE, !.wlive = FALSE]
  <2>2. jobs[k] # None /\ h \in Heads /\ c \in Check
    BY <2>1, ActiveCheckType
  <2>3. c1 \in Check /\ c2 \in Check /\ HasCheck(jobs[k], h)
    BY <2>1, <2>2, CheckFieldsType DEF ActiveCurrent
  <2>4. \/ jobs' = [jobs EXCEPT ![k] =
             [jobs[k] EXCEPT !.checks = [jobs[k].checks EXCEPT ![h] = c1]]]
        \/ jobs' = [jobs EXCEPT ![k] =
             [jobs[k] EXCEPT !.checks = [jobs[k].checks EXCEPT ![h] = c2]]]
    BY <2>1
  <2> HIDE DEF c1, c2, h
  <2>5. LightJobs
    BY <2>2, <2>3, <2>4, CheckIsLight
  <2>6. UNCHANGED <<queue, terminal, heads, history, retired>>
    BY <1>5 DEF MarkPostAttempted, RecordCheckId
  <2>7. QED
    BY <1>1, <1>2, <2>5, <2>6 DEF LightStep
<1>6. CASE ClaimRetired(d) \/ RecordRetiredId(d) \/ CompleteRetired(d)
  <2>1. UNCHANGED <<jobs, queue, terminal, heads, history>>
    BY <1>6 DEF ClaimRetired, RecordRetiredId, CompleteRetired
  <2>2. Len(retired') <= Len(retired)
    <3>1. CASE ClaimRetired(d)
      <4>1. PICK i \in DOMAIN retired :
              retired' = [retired EXCEPT ![i].check.wgen = @ + 1,
                                         ![i].check.wlive = TRUE]
        BY <3>1 DEF ClaimRetired
      <4>2. DOMAIN retired' = DOMAIN retired
        BY <4>1
      <4>3. retired' \in Seq(Retired)
        BY <3>1, ClaimRetiredType DEF Typed, TypeOK
      <4>4. QED
        BY <1>2, <4>2, <4>3
    <3>2. CASE RecordRetiredId(d)
      <4>1. PICK i \in DOMAIN retired :
              retired' = [retired EXCEPT ![i].check.published = TRUE]
        BY <3>2 DEF RecordRetiredId
      <4>2. DOMAIN retired' = DOMAIN retired
        BY <4>1
      <4>3. retired' \in Seq(Retired)
        BY <3>2, RecordRetiredIdType DEF Typed, TypeOK
      <4>4. QED
        BY <1>2, <4>2, <4>3
    <3>3. CASE CompleteRetired(d)
      <4>1. PICK i \in DOMAIN retired : retired' = RemoveAt(retired, i)
        BY <3>3 DEF CompleteRetired
      <4>2. retired' \in Seq(Retired) /\ DOMAIN retired' = 1 .. Len(retired) - 1
        BY <1>2, <4>1, RemoveAtType
      <4>3. i \in 1 .. Len(retired)
        BY <1>2
      <4>4. QED
        BY <1>2, <4>2, <4>3
    <3>4. QED
      BY <1>6, <3>1, <3>2, <3>3
  <2>3. QED
    BY <1>1, <2>1, <2>2, SameIsLight DEF LightStep
<1>7. CASE Abandon(d)
  BY <1>1, <1>2, <1>7, SameIsLight DEF Abandon, sched, LightStep
<1>8. QED
  BY <1>3, <1>4, <1>5, <1>6, <1>7

\* Leases and claims that lapse keep them, and so does a stuttering step.
LEMMA LapseLight ==
  ASSUME Typed,
         \/ \E k \in Ids : \/ LeaseLapses(k) \/ BackoffEnds(k)
                           \/ MetadataClaimLapses(k)
                           \/ \E h \in Heads : CheckClaimLapses(k, h)
         \/ \E i \in DOMAIN retired : RetiredClaimLapses(i)
         \/ UNCHANGED vars
  PROVE  LightStep /\ Len(retired') = Len(retired)
<1>1. UNCHANGED heads => SameHeads
  BY DEF SameHeads
<1>2. ASSUME NEW k \in Ids,
             LeaseLapses(k) \/ BackoffEnds(k) \/ MetadataClaimLapses(k)
      PROVE  LightStep /\ Len(retired') = Len(retired)
  <2> DEFINE j == jobs[k]
             v1 == [j EXCEPT !.live = FALSE]
             v2 == [j EXCEPT !.ready = TRUE]
             v3 == [j EXCEPT !.mlive = FALSE]
  <2>1. jobs[k] # None /\ jobs[k] \in Job
        /\ UNCHANGED <<queue, terminal, heads, history, retired>>
    BY <1>2 DEF LeaseLapses, BackoffEnds, MetadataClaimLapses, Typed, TypeOK
  <2>2. PICK v \in {v1, v2, v3} : jobs' = [jobs EXCEPT ![k] = v]
    BY <1>2 DEF LeaseLapses, BackoffEnds, MetadataClaimLapses
  <2>3. Light(j, v1) /\ Light(j, v2) /\ Light(j, v3)
    <3>1. v1 \in Job /\ v2 \in Job /\ v3 \in Job
      BY <2>1 DEF Job
    <3>2. QED
      BY <2>1, <3>1 DEF Light, Keeps, Job, CheckHeads, HasCheck
  <2>4. Light(j, v)
    BY <2>3
  <2>5. LightJobs
    BY <2>1, <2>2, <2>4, OneRewritten
  <2>6. QED
    BY <1>1, <2>1, <2>5 DEF LightStep
<1>3. ASSUME NEW k \in Ids, NEW h \in Heads, CheckClaimLapses(k, h)
      PROVE  LightStep /\ Len(retired') = Len(retired)
  <2> DEFINE c == [jobs[k].checks[h] EXCEPT !.wlive = FALSE]
  <2>1. jobs[k] # None /\ HasCheck(jobs[k], h) /\ jobs[k].checks[h] \in Check
        /\ UNCHANGED <<queue, terminal, heads, history, retired>>
    BY <1>3 DEF CheckClaimLapses, HasCheck, Job, Typed, TypeOK
  <2>2. c \in Check
    BY <2>1, CheckFieldsType
  <2>3. jobs' = [jobs EXCEPT ![k] =
          [jobs[k] EXCEPT !.checks = [jobs[k].checks EXCEPT ![h] = c]]]
    BY <1>3 DEF CheckClaimLapses
  <2> HIDE DEF c
  <2>4. LightJobs
    BY <2>1, <2>2, <2>3, CheckIsLight
  <2>5. QED
    BY <1>1, <2>1, <2>4 DEF LightStep
<1>4. ASSUME NEW i \in DOMAIN retired, RetiredClaimLapses(i)
      PROVE  LightStep /\ Len(retired') = Len(retired)
  <2>1. retired' = [retired EXCEPT ![i].check.wlive = FALSE]
        /\ UNCHANGED <<jobs, queue, terminal, heads, history>>
    BY <1>4 DEF RetiredClaimLapses
  <2>2. DOMAIN retired' = DOMAIN retired
    BY <2>1
  <2>3. retired \in Seq(Retired) /\ retired' \in Seq(Retired)
    <3>1. TimePasses
      BY <1>4 DEF TimePasses
    <3>2. QED
      BY <3>1, TimePassesType DEF Typed, TypeOK
  <2>4. Len(retired') = Len(retired)
    BY <2>2, <2>3
  <2>5. QED
    BY <1>1, <2>1, <2>4, SameIsLight DEF LightStep
<1>5. CASE UNCHANGED vars
  BY <1>1, <1>5, SameIsLight DEF vars, LightStep
<1>6. QED
  BY <1>2, <1>3, <1>4, <1>5

\* The record k is rewritten to v, and the checks of heads D are detached.
Moved(k, v, D) ==
  LET j == jobs[k] IN
  /\ j # None /\ j \in Job /\ Keeps(j, v) /\ jobs' = [jobs EXCEPT ![k] = v]
  /\ D \in SUBSET (CheckHeads(j) \ CheckHeads(v))
  /\ retired' = retired \/ retired' = retired \o RetiredEntries(j, D)

\* What a record keeps of its checks.
LEMMA KeptHeads ==
  ASSUME NEW j \in Job, NEW h, NEW v, v.checks = Kept(j, h)
  PROVE  /\ CheckHeads(v) = CheckHeads(j) \cap {h}
         /\ \A p : Detached(j, h, p) \in SUBSET (CheckHeads(j) \ CheckHeads(v))
<1>1. CheckHeads(v) = CheckHeads(j) \cap {h}
  BY DEF Kept, CheckHeads, HasCheck
<1>2. QED
  BY <1>1 DEF Detached

\* A record that goes back to the queue keeps its deliveries and reservations.
LEMMA ReleaseMoves ==
  ASSUME Typed, NEW w \in Workers, FinishYield(w) \/ DeferYield(w) \/ Defer(w)
  PROVE  /\ \E k \in Ids : \E v \in Job : \E D \in SUBSET Heads :
              /\ Moved(k, v, D) /\ CheckHeads(v) \subseteq CheckHeads(jobs[k])
              /\ v.resv = jobs[k].resv /\ v.spare = jobs[k].spare
              /\ v.meta = jobs[k].meta /\ v.hint = jobs[k].hint
              /\ v.head \in {jobs[k].head, jobs[k].hint} /\ v.owner = None
         /\ UNCHANGED <<queue, terminal, history>>
<1> DEFINE k == held[w].key
           j == jobs[k]
           r == Released(j, j.hint)
<1>1. k \in Ids /\ j \in Job /\ j # None /\ j.hint \in Heads \cup {NoHead}
  BY OwnedType DEF FinishYield, DeferYield, Defer, Concluded, OwnsLive, Job
<1>2. r \in Job /\ r.checks = Kept(j, j.hint) /\ Keeps(j, r)
      /\ r.resv = j.resv /\ r.spare = j.spare /\ r.meta = j.meta
      /\ r.hint = j.hint /\ r.head = j.hint /\ r.owner = None
  <2>1. r \in Job
    BY <1>1, ReleasedType
  <2>2. QED
    BY <1>1, <2>1 DEF Released, Keeps, Job
<1>3. UNCHANGED <<queue, terminal, history>>
  BY DEF FinishYield, DeferYield, Defer
<1> HIDE DEF r
<1>4. ASSUME NEW v \in Job, v.checks = Kept(j, j.hint), NEW p,
             retired' = retired \o RetiredEntries(j, Detached(j, j.hint, p)),
             jobs' = [jobs EXCEPT ![k] = v], Keeps(j, v)
      PROVE  \E D \in SUBSET Heads :
               Moved(k, v, D) /\ CheckHeads(v) \subseteq CheckHeads(j)
  <2> DEFINE D == Detached(j, j.hint, p)
  <2>1. CheckHeads(v) \subseteq CheckHeads(j)
        /\ D \in SUBSET (CheckHeads(j) \ CheckHeads(v))
    BY <1>1, <1>4, KeptHeads
  <2>2. D \in SUBSET Heads
    BY <2>1 DEF CheckHeads
  <2>3. QED
    BY <1>1, <1>4, <2>1, <2>2 DEF Moved
<1>5. CASE FinishYield(w) \/ DeferYield(w)
  <2>1. jobs' = [jobs EXCEPT ![k] = r]
        /\ \E p : retired' = retired \o RetiredEntries(j, Detached(j, j.hint, p))
    BY <1>5 DEF FinishYield, DeferYield, r
  <2>2. QED
    BY <1>1, <1>2, <1>3, <1>4, <2>1
<1>6. CASE Defer(w)
  <2> DEFINE ready == held[w].verdict # "defer_later"
             v1 == [r EXCEPT !.ready = ready]
             v2 == [j EXCEPT !.owner = None, !.live = FALSE, !.ready = ready]
  <2>1. CASE j.yield
    <3>1. jobs' = [jobs EXCEPT ![k] = v1]
          /\ retired' = retired \o RetiredEntries(j, Detached(j, j.hint, NoHead))
      BY <1>6, <2>1 DEF Defer, r
    <3>2. v1 \in Job /\ v1.checks = Kept(j, j.hint) /\ Keeps(j, v1)
          /\ v1.resv = j.resv /\ v1.spare = j.spare /\ v1.meta = j.meta
          /\ v1.hint = j.hint /\ v1.head = j.hint /\ v1.owner = None
      BY <1>2 DEF Keeps, Job
    <3> HIDE DEF v1
    <3>3. QED
      BY <1>1, <1>3, <1>4, <3>1, <3>2
  <2>2. CASE ~j.yield
    <3>1. jobs' = [jobs EXCEPT ![k] = v2] /\ retired' = retired
      BY <1>6, <2>2 DEF Defer
    <3>2. v2 \in Job /\ CheckHeads(v2) = CheckHeads(j) /\ Keeps(j, v2)
          /\ v2.resv = j.resv /\ v2.spare = j.spare /\ v2.meta = j.meta
          /\ v2.hint = j.hint /\ v2.head = j.head /\ v2.owner = None
      BY <1>1 DEF Keeps, Job, CheckHeads, HasCheck
    <3> HIDE DEF v2
    <3>3. Moved(k, v2, {})
      BY <1>1, <3>1, <3>2 DEF Moved
    <3>4. QED
      BY <1>1, <1>3, <3>2, <3>3
  <2>3. QED
    BY <2>1, <2>2
<1>7. QED
  BY <1>5, <1>6

\* A headless request gets its head and a check of it.
LEMMA ResolveOpenMoves ==
  ASSUME Typed, NEW d \in Drainers, NEW h \in Heads, ResolveOpen(d, h)
  PROVE  /\ \E k \in Ids : \E v \in Job :
              /\ jobs[k] # None /\ jobs[k] \in Job /\ Keeps(jobs[k], v)
              /\ jobs' = [jobs EXCEPT ![k] = v]
              /\ jobs[k].meta /\ ~v.meta
              /\ v.resv = jobs[k].resv /\ v.spare = jobs[k].spare
              /\ v.owner = None /\ v.head = h /\ v.hint = h
              /\ CheckHeads(v) = CheckHeads(jobs[k]) \cup {h}
         /\ UNCHANGED <<queue, terminal, heads, history, retired>>
<1> DEFINE k == drain[d].key
           j == jobs[k]
           c == IF HasCheck(j, h) THEN j.checks[h] ELSE NewCheck(j.id, h, None)
           x == [j.checks EXCEPT ![h] = c]
           v == [j EXCEPT !.head = h, !.hint = h, !.meta = FALSE,
                          !.mlive = FALSE, !.checks = x]
<1>1. k \in Ids /\ j # None /\ j \in Job /\ j.meta /\ j.owner = None
  BY MetaClaimType DEF ResolveOpen, MetadataCurrent, Typed, TypeOK
<1>2. c \in Check
  <2>1. j.id \in Ids /\ j.checks[h] \in Check \cup {None}
    BY <1>1 DEF Job
  <2>2. QED
    BY <2>1, NewCheckType DEF HasCheck
<1>3. c # None
  BY <1>2, NoneIsNoRecord
<1>4. jobs' = [jobs EXCEPT ![k] = v]
      /\ UNCHANGED <<queue, terminal, heads, history, retired>>
  BY <1>1 DEF ResolveOpen, Job
<1> HIDE DEF c
<1>5. x \in [Heads -> Check \cup {None}]
      /\ \A y \in Heads : x[y] = IF y = h THEN c ELSE j.checks[y]
  BY <1>1, <1>2 DEF Job
<1> HIDE DEF x
<1>6. v \in Job /\ v.checks = x
  BY <1>1, <1>5 DEF Job
<1>7. CheckHeads(v) = CheckHeads(j) \cup {h}
  BY <1>3, <1>5, <1>6 DEF CheckHeads, HasCheck
<1>8. /\ Keeps(j, v) /\ ~v.meta /\ v.resv = j.resv /\ v.spare = j.spare
      /\ v.owner = None /\ v.head = h /\ v.hint = h
  BY <1>1, <1>6 DEF Keeps, Job
<1> HIDE DEF v
<1>9. QED
  BY <1>1, <1>4, <1>6, <1>7, <1>8

\* A reconciled record keeps the check of its live head, or gets one on the
\* identity promised to it, and spends a reservation on a displaced result.
LEMMA ReconcileMoves ==
  ASSUME Typed, NEW w \in Workers, NEW h \in Heads, Reconcile(w, h)
  PROVE  LET k == held[w].key
             j == jobs[k]
         IN /\ UNCHANGED <<queue, terminal>> /\ OwnsLive(w) /\ k \in Ids
            /\ \E v \in Job : \E D \in SUBSET Heads :
                 /\ Moved(k, v, D)
                 /\ v = Reconciled(Spent(j, heads[j.pr], h), h,
                          IsIncremental(j) /\
                            (NextBudget(heads[j.pr], j, h).outcome # None
                              \/ Remembered(j.pr, h) # {}), held[w].gen)
                 /\ v.meta = j.meta /\ v.hint = j.hint /\ v.head = h
                 /\ v.owner = j.owner
                 /\ v.resv = IF IsIncremental(j) /\ Displaces(heads[j.pr], h)
                             THEN j.resv - 1 ELSE j.resv
                 /\ \/ CheckHeads(v) \subseteq CheckHeads(j) /\ v.spare = j.spare
                    \/ /\ CheckHeads(v) = {h} /\ h \notin CheckHeads(j)
                       /\ ~v.spare
<1> DEFINE k == held[w].key
           j == jobs[k]
           old == heads[j.pr]
           done == IsIncremental(j) /\ (NextBudget(old, j, h).outcome # None
                                         \/ Remembered(j.pr, h) # {})
           s == Spent(j, old, h)
           v == Reconciled(s, h, done, held[w].gen)
           kept == [s EXCEPT !.head = h, !.checks = Kept(s, h)]
           D == Detached(j, h, NoHead)
<1>1. held[w] \in Handle /\ k \in Ids /\ j \in Job /\ j # None /\ OwnsLive(w)
      /\ held[w].gen \in Nat
  BY OwnedType DEF Reconcile, OwnsLive, Handle
<1>2. jobs' = [jobs EXCEPT ![k] = v] /\ Reserved(j, old, h)
      /\ retired' = retired \o RetiredEntries(j, D)
      /\ UNCHANGED <<queue, terminal>>
  BY DEF Reconcile
<1>3. /\ s \in Job /\ s = [j EXCEPT !.resv = s.resv]
      /\ s.resv = IF IsIncremental(j) /\ Displaces(old, h) THEN j.resv - 1
                  ELSE j.resv
  <2>1. s \in Job /\ s = [j EXCEPT !.resv = s.resv]
    BY <1>1, <1>2, SpentType
  <2>2. QED
    BY <1>1, <2>1 DEF Spent, Job
<1>4. /\ s.pr = j.pr /\ s.mode = j.mode /\ s.id = j.id /\ s.ids = j.ids
      /\ s.checks = j.checks /\ s.meta = j.meta /\ s.hint = j.hint
      /\ s.owner = j.owner /\ s.spare = j.spare
  <2> HIDE DEF s, j
  <2>1. QED
    BY <1>1, <1>3 DEF Job
<1>5. CheckHeads(s) = CheckHeads(j) /\ Kept(s, h) = Kept(j, h)
  <2> HIDE DEF s, j
  <2>1. QED
    BY <1>4 DEF CheckHeads, HasCheck, Kept
<1> HIDE DEF s
<1>6. kept \in Job /\ kept.checks = Kept(j, h) /\ kept.head = h
      /\ Keeps(j, kept) /\ kept.meta = j.meta /\ kept.hint = j.hint
      /\ kept.owner = j.owner /\ kept.spare = j.spare /\ kept.resv = s.resv
  <2>1. Kept(s, h) \in [Heads -> Check \cup {None}]
    BY <1>3, KeptType
  <2>2. kept \in Job
    BY <1>3, <2>1 DEF Job
  <2> HIDE DEF j
  <2>3. QED
    BY <1>3, <1>4, <1>5, <2>2 DEF Job, Keeps
<1> HIDE DEF kept
<1>7. /\ CheckHeads(kept) = CheckHeads(j) \cap {h}
      /\ D \in SUBSET (CheckHeads(j) \ {h})
  BY <1>1, <1>6, KeptHeads DEF Detached
<1>8. /\ v \in Job /\ Keeps(j, v) /\ v.meta = j.meta /\ v.hint = j.hint
      /\ v.owner = j.owner /\ v.head = h /\ v.resv = s.resv
      /\ CheckHeads(v) \subseteq {h}
      /\ \/ CheckHeads(v) \subseteq CheckHeads(j) /\ v.spare = j.spare
         \/ CheckHeads(v) = {h} /\ h \notin CheckHeads(j) /\ ~v.spare
  <2>1. CASE v = kept
    BY <2>1, <1>6, <1>7
  <2>2. CASE v = StampCheck(kept, h, held[w].gen) /\ HasCheck(j, h)
    <3>1. v \in Job /\ v = [kept EXCEPT !.checks = v.checks]
      BY <2>2, <1>1, <1>6, StampCheckType, SMTT(30)
    <3> HIDE DEF v
    <3>2. /\ Keeps(kept, v) /\ v.meta = kept.meta /\ v.hint = kept.hint
          /\ v.owner = kept.owner /\ v.head = kept.head /\ v.resv = kept.resv
          /\ v.spare = kept.spare
      BY <1>6, <3>1 DEF Keeps, Job
    <3>3. CheckHeads(v) \subseteq {h}
      <4>1. HasCheck(kept, h) /\ h # NoHead /\ kept.checks \in [Heads -> Check \cup {None}]
        <5>1. h # NoHead
          BY ConstantsAssumption DEF ConstantsAssumption
        <5>2. HasCheck(kept, h)
          BY <2>2, <1>6 DEF Kept, HasCheck
        <5>3. QED
          BY <5>1, <5>2, <1>6 DEF Job
      <4>2. v = [kept EXCEPT !.checks =
              [kept.checks EXCEPT ![h] = [kept.checks[h] EXCEPT !.gen = held[w].gen]]]
        BY <2>2, <4>1 DEF StampCheck
      <4>3. v.checks =
              [kept.checks EXCEPT ![h] = [kept.checks[h] EXCEPT !.gen = held[w].gen]]
        BY <1>6, <4>2 DEF Job
      <4>4. \A y \in Heads : y # h => v.checks[y] = None
        BY <4>1, <4>3, <1>6 DEF Kept
      <4>5. QED
        BY <4>4 DEF CheckHeads, HasCheck
    <3>4. h \in CheckHeads(j)
      BY <2>2 DEF CheckHeads
    <3>5. QED
      BY <1>6, <3>1, <3>2, <3>3, <3>4 DEF Keeps
  <2>3. CASE v = [kept EXCEPT !.spare = FALSE,
                              !.checks[h] = NewCheck(s.id, h, held[w].gen)]
             /\ ~HasCheck(j, h)
    <3> DEFINE c == NewCheck(s.id, h, held[w].gen)
    <3>1. c \in Check /\ c # None
      <4>1. s.id \in Ids
        BY <1>3 DEF Job
      <4>2. c \in Check
        BY <4>1, <1>1, NewCheckType
      <4>3. QED
        BY <4>2, NoneIsNoRecord
    <3> HIDE DEF c
    <3>2. kept.checks \in [Heads -> Check \cup {None}]
      BY <1>6 DEF Job
    <3>3. [kept.checks EXCEPT ![h] = c] \in [Heads -> Check \cup {None}]
      BY <3>1, <3>2
    <3> DEFINE x == [kept.checks EXCEPT ![h] = c]
    <3>4. v = [kept EXCEPT !.spare = FALSE, !.checks = x]
      BY <2>3, <1>6 DEF c, Job
    <3>5. \A y \in Heads : x[y] = IF y = h THEN c ELSE None
      BY <3>2, <1>6 DEF Kept
    <3> HIDE DEF x, v
    <3>6. v \in Job
      BY <1>6, <3>3, <3>4, ZenonT(60) DEF x, Job
    <3>7. v.checks = x /\ ~v.spare
          /\ Keeps(kept, v) /\ v.meta = kept.meta /\ v.hint = kept.hint
          /\ v.owner = kept.owner /\ v.head = kept.head /\ v.resv = kept.resv
      BY <1>6, <3>4, <3>6 DEF Keeps, Job
    <3>8. CheckHeads(v) = {h}
      BY <3>1, <3>5, <3>7 DEF CheckHeads, HasCheck
    <3>9. h \notin CheckHeads(j)
      BY <2>3 DEF CheckHeads
    <3>10. QED
      BY <1>6, <3>6, <3>7, <3>8, <3>9 DEF Keeps
  <2>4. HasCheck(s, h) <=> HasCheck(j, h)
    BY <1>4 DEF HasCheck
  <2>5. QED
    BY <2>1, <2>2, <2>3, <2>4 DEF Reconciled, kept
<1> HIDE DEF v
<1>9. D \in SUBSET (CheckHeads(j) \ CheckHeads(v)) /\ D \in SUBSET Heads
  BY <1>7, <1>8 DEF CheckHeads
<1>10. Moved(k, v, D)
  BY <1>1, <1>2, <1>8, <1>9 DEF Moved
<1>11. v = Reconciled(Spent(j, heads[j.pr], h), h,
             IsIncremental(j) /\ (NextBudget(heads[j.pr], j, h).outcome # None
                                   \/ Remembered(j.pr, h) # {}), held[w].gen)
  BY DEF v, s
<1>12. QED
  BY <1>1, <1>2, <1>3, <1>8, <1>9, <1>10, <1>11

-----------------------------------------------------------------------------
(* An accepted delivery is in one place                                    *)

\* Of AcceptedOnce: what the claim order does not say by itself.
Apart == \A k, l \in Unfinished : k # l => jobs[k].ids \cap jobs[l].ids = {}
OwnIds == \A k \in Unfinished : k \in jobs[k].ids /\ jobs[k].id \in jobs[k].ids
Undecided == \A k \in Unfinished : \A id \in jobs[k].ids : terminal[id] = None
Single == \A pr \in PRs : \A k, l \in PendingFor(pr) : k = l
Accepted == Apart /\ OwnIds /\ Undecided /\ Single

\* The claim order lists as many records as there are.
LEMMA ListedOnce ==
  ASSUME Typed
  PROVE  /\ ToSet(queue) = Unfinished /\ Len(queue) = Cardinality(Unfinished)
         /\ IsFiniteSet(Unfinished)
<1>1. queue \in Seq(Ids) /\ Len(queue) \in Nat /\ DOMAIN queue = 1 .. Len(queue)
  BY DEF Typed, TypeOK
<1>2. queue \in [1 .. Len(queue) -> Unfinished]
  BY <1>1 DEF Typed, Listed, Unfinished
<1>3. queue \in Bijection(1 .. Len(queue), Unfinished)
  BY <1>1, <1>2, ZenonT(30)
     DEF Typed, Listed, Bijection, Injection, Surjection, IsInjective
<1>4. IsFiniteSet(1 .. Len(queue)) /\ Cardinality(1 .. Len(queue)) = Len(queue)
  <2>1. 1 \in Int /\ Len(queue) \in Int
    BY <1>1
  <2>2. /\ IsFiniteSet(1 .. Len(queue))
        /\ Cardinality(1 .. Len(queue))
             = IF 1 > Len(queue) THEN 0 ELSE Len(queue) - 1 + 1
    BY <2>1, FS_Interval
  <2>3. QED
    BY <1>1, <2>2
<1>5. ExistsBijection(1 .. Len(queue), Unfinished)
  BY <1>3 DEF ExistsBijection
<1>6. IsFiniteSet(Unfinished) /\ Cardinality(Unfinished) = Len(queue)
  BY <1>4, <1>5, FS_Bijection
<1>7. ToSet(queue) = Unfinished
  <2>1. \A i \in DOMAIN queue : queue[i] \in Unfinished
    BY <1>1, <1>2
  <2>2. \A k \in Unfinished : \E i \in DOMAIN queue : queue[i] = k
    BY DEF Typed, Listed
  <2>3. ToSet(queue) = {queue[i] : i \in DOMAIN queue}
    BY DEF ToSet
  <2>4. QED
    BY <2>1, <2>2, <2>3
<1>8. QED
  BY <1>6, <1>7

LEMMA AcceptedParts ==
  ASSUME Typed
  PROVE  Accepted <=> AcceptedOnce
  BY ListedOnce DEF Accepted, AcceptedOnce, Apart, OwnIds, Undecided, Single

\* Records that keep their deliveries, while no tombstone appears.
LEMMA AcceptedKept ==
  ASSUME Accepted, KeepsJobs,
         \A id \in Ids : terminal[id] = None => terminal'[id] = None,
         Typed
  PROVE  Accepted'
<1>1. Unfinished' = Unfinished
  BY DEF KeepsJobs, Unfinished
<1>2. \A k \in Unfinished :
        /\ jobs'[k].ids = jobs[k].ids /\ jobs'[k].id = jobs[k].id
        /\ jobs'[k].pr = jobs[k].pr /\ jobs'[k].mode = jobs[k].mode
        /\ jobs[k].ids \subseteq Ids
  BY DEF KeepsJobs, Keeps, Unfinished, Typed, TypeOK, Job
<1>3. Apart' /\ OwnIds'
  BY <1>1, <1>2 DEF Accepted, Apart, OwnIds
<1>4. Undecided'
  BY <1>1, <1>2 DEF Accepted, Undecided
<1>5. \A pr \in PRs : PendingFor(pr)' = PendingFor(pr)
  BY <1>1, <1>2 DEF PendingFor, IsIncremental
<1>6. Single'
  BY <1>5 DEF Accepted, Single
<1>7. QED
  BY <1>3, <1>4, <1>6 DEF Accepted

\* A record that ends takes its deliveries, and no other, into tombstones.
LEMMA AcceptedEnds ==
  ASSUME Typed, Accepted, NEW k \in Ids, jobs[k] # None, NEW o,
         jobs' = [jobs EXCEPT ![k] = None], terminal' = Tombstones(jobs[k], o)
  PROVE  Accepted'
<1>1. jobs'[k] = None /\ \A x \in Ids : x # k => jobs'[x] = jobs[x]
  BY DEF Typed, TypeOK
<1>2. Unfinished' = Unfinished \ {k} /\ k \in Unfinished
  BY <1>1 DEF Unfinished
<1>3. \A x \in Unfinished : jobs[x].ids \subseteq Ids
  BY DEF Unfinished, Typed, TypeOK, Job
<1>4. Apart' /\ OwnIds' /\ Single'
  BY <1>1, <1>2 DEF Accepted, Apart, OwnIds, Single, PendingFor, Unfinished
<1>5. Undecided'
  <2>1. SUFFICES ASSUME NEW x \in Unfinished', NEW id \in jobs'[x].ids
                 PROVE  terminal'[id] = None
    BY DEF Undecided
  <2>2. x \in Unfinished /\ x # k /\ jobs'[x] = jobs[x] /\ x \in Ids
    BY <1>1, <1>2 DEF Unfinished
  <2>3. id \in Ids /\ id \notin jobs[k].ids /\ terminal[id] = None
    BY <1>2, <1>3, <2>1, <2>2 DEF Accepted, Apart, Undecided
  <2>4. QED
    BY <2>3 DEF Tombstones
<1>6. QED
  BY <1>4, <1>5 DEF Accepted

\* A new record holds one delivery, which no record and no tombstone knew.
LEMMA AcceptedNew ==
  ASSUME Typed, Accepted, NEW r \in Requests, AdmitNew(r)
  PROVE  Accepted'
<1>1. r \in RequestRec /\ r.id \in Ids /\ r.pr \in PRs
  BY ConstantsAssumption DEF ConstantsAssumption, RequestRec
<1>2. ~Known(r.id) /\ PendingFor(r.pr) = {} /\ IsIncremental(r)
      /\ jobs' = [jobs EXCEPT ![r.id] = NewJob(r)] /\ terminal' = terminal
  BY DEF AdmitNew
<1> DEFINE n == NewJob(r)
<1>3. n \in Job /\ n.ids = {r.id} /\ n # None /\ n.pr = r.pr
  BY <1>1, NewJobType, NoneIsNoRecord
<1>4. n.id = r.id
  BY DEF NewJob
<1> HIDE DEF n
<1>5. jobs'[r.id] = n /\ \A x \in Ids : x # r.id => jobs'[x] = jobs[x]
  BY <1>1, <1>2 DEF Typed, TypeOK, n
<1>6. Unfinished' = Unfinished \cup {r.id}
  BY <1>1, <1>3, <1>5 DEF Unfinished
<1>7. \A x \in Unfinished : x # r.id /\ r.id \notin jobs[x].ids
  BY <1>2 DEF Known, Accepted, OwnIds
<1>8. \A x \in Unfinished : x \in Ids /\ jobs'[x] = jobs[x]
  BY <1>5, <1>7 DEF Unfinished
<1>9. Apart' /\ OwnIds' /\ Undecided'
  BY <1>2, <1>3, <1>4, <1>5, <1>6, <1>7, <1>8
     DEF Accepted, Apart, OwnIds, Undecided, Known
<1>10. Single'
  <2>1. \A pr \in PRs : \A k \in PendingFor(pr)' :
          k \in PendingFor(pr) \/ (k = r.id /\ pr = r.pr)
    BY <1>3, <1>5, <1>6, <1>8 DEF PendingFor, IsIncremental
  <2>2. QED
    BY <1>2, <2>1 DEF Accepted, Single
<1>11. QED
  BY <1>9, <1>10 DEF Accepted

\* A delivery that joins a record was known to none.
LEMMA AcceptedJoins ==
  ASSUME Typed, Accepted, NEW r \in Requests, AdmitCoalesced(r)
  PROVE  Accepted'
<1> DEFINE k == CHOOSE x \in PendingFor(r.pr) : TRUE
           j == jobs[k]
           headless == r.head = NoHead /\ j.head # NoHead
           v == IF headless THEN [j EXCEPT !.ids = j.ids \cup {r.id}]
                ELSE Joined(j, r)
<1>1. r \in RequestRec /\ r.id \in Ids /\ ~Known(r.id) /\ terminal' = terminal
      /\ jobs' = [jobs EXCEPT ![k] = v]
  BY ConstantsAssumption DEF ConstantsAssumption, RequestRec, AdmitCoalesced
<1>2. k \in Ids /\ k \in Unfinished /\ j # None /\ j \in Job
  <2>1. k \in PendingFor(r.pr)
    BY DEF AdmitCoalesced
  <2>2. QED
    BY <2>1 DEF PendingFor, Unfinished, Typed, TypeOK
<1> HIDE DEF k
<1>3. v \in Job /\ v # None
  <2>1. v \in Job
    BY <1>1, <1>2, JoinedType DEF Job
  <2>2. QED
    BY <2>1, NoneIsNoRecord
<1>4. v.pr = j.pr /\ v.mode = j.mode /\ v.ids = j.ids \cup {r.id}
      /\ v.id \in {j.id, r.id}
  <2>1. CASE headless
    BY <1>2, <2>1 DEF Job
  <2>2. CASE ~headless
    <3>1. v = Joined(j, r)
      BY <2>2
    <3>2. Joined(j, r).pr = j.pr /\ Joined(j, r).mode = j.mode
          /\ Joined(j, r).ids = j.ids \cup {r.id}
          /\ Joined(j, r).id \in {j.id, r.id}
      BY <1>2 DEF Joined, Job
    <3>3. QED
      BY <3>1, <3>2
  <2>3. QED
    BY <2>1, <2>2
<1> HIDE DEF v
<1>5. jobs'[k] = v /\ \A x \in Ids : x # k => jobs'[x] = jobs[x]
  BY <1>1, <1>2 DEF Typed, TypeOK
<1>6. Unfinished' = Unfinished
  BY <1>2, <1>3, <1>5 DEF Unfinished
<1>7. \A x \in Unfinished : x \in Ids /\ r.id \notin jobs[x].ids
  BY <1>1 DEF Known, Unfinished
<1>8. terminal[r.id] = None
  BY <1>1 DEF Known
<1>9. OwnIds' /\ Undecided'
  BY <1>1, <1>2, <1>4, <1>5, <1>6, <1>7, <1>8 DEF Accepted, OwnIds, Undecided
<1>10. Apart'
  BY <1>2, <1>4, <1>5, <1>6, <1>7 DEF Accepted, Apart
<1>11. \A pr \in PRs : PendingFor(pr)' = PendingFor(pr)
  BY <1>2, <1>4, <1>5, <1>6, <1>7 DEF PendingFor, IsIncremental
<1>12. Single'
  BY <1>11 DEF Accepted, Single
<1>13. QED
  BY <1>9, <1>10, <1>12 DEF Accepted

\* The records of a batch are fresh, Full, and hold one delivery each.
LEMMA BatchRecords ==
  ASSUME Typed, NEW batch \in Batches, AdmitManual(batch)
  PROVE  LET new == {batch[i].id : i \in DOMAIN batch} IN
         /\ new \subseteq Ids /\ \A k \in new : ~Known(k)
         /\ Unfinished' = Unfinished \cup new /\ Unfinished \cap new = {}
         /\ \A k \in Unfinished : jobs'[k] = jobs[k]
         /\ \A k \in new :
              /\ jobs'[k].ids = {k} /\ jobs'[k].id = k
              /\ ~IsIncremental(jobs'[k])
              /\ jobs'[k].resv = 0 /\ jobs'[k].spare /\ ~jobs'[k].meta
              /\ \E h : CheckHeads(jobs'[k]) \subseteq {h}
<1> DEFINE new == {batch[i].id : i \in DOMAIN batch}
           at(k) == CHOOSE i \in DOMAIN batch : batch[i].id = k
<1>1. \A i \in DOMAIN batch :
        batch[i] \in RequestRec /\ batch[i].id \in Ids /\ batch[i].mode = "full"
  BY BatchType
<1>2. jobs' = [k \in Ids |-> IF k \in new THEN NewJob(batch[at(k)]) ELSE jobs[k]]
      /\ \A k \in new : ~Known(k)
  BY DEF AdmitManual
<1>3. \A k \in new : at(k) \in DOMAIN batch /\ batch[at(k)].id = k /\ k \in Ids
  BY <1>1
<1> HIDE DEF new, at
<1>4. ASSUME NEW k \in new
      PROVE  /\ jobs'[k] # None /\ jobs'[k].ids = {k} /\ jobs'[k].id = k
             /\ ~IsIncremental(jobs'[k])
             /\ jobs'[k].resv = 0 /\ jobs'[k].spare /\ ~jobs'[k].meta
             /\ \E h : CheckHeads(jobs'[k]) \subseteq {h}
  <2> DEFINE q == batch[at(k)]
  <2>1. q \in RequestRec /\ q.id = k /\ q.mode = "full"
        /\ jobs'[k] = NewJob(q)
    BY <1>1, <1>2, <1>3
  <2> HIDE DEF q
  <2>2. NewJob(q) # None /\ NewJob(q).ids = {k}
    BY <2>1, NewJobType, NoneIsNoRecord
  <2>3. /\ NewJob(q).id = k /\ NewJob(q).mode = "full" /\ NewJob(q).resv = 0
        /\ NewJob(q).spare /\ ~NewJob(q).meta
    BY <2>1 DEF NewJob, IsIncremental
  <2>4. CheckHeads(NewJob(q)) \subseteq {q.head}
    BY DEF CheckHeads, HasCheck, NewJob
  <2>5. QED
    BY <2>1, <2>2, <2>3, <2>4 DEF IsIncremental
<1>5. \A k \in Ids : k \notin new => jobs'[k] = jobs[k]
  BY <1>2
<1>6. \A k \in Unfinished : k \notin new /\ k \in Ids
  BY <1>2 DEF Known, Typed, OwnId, Unfinished
<1>7. Unfinished' = Unfinished \cup new
  BY <1>3, <1>4, <1>5 DEF Unfinished
<1>8. QED
  BY <1>2, <1>3, <1>4, <1>5, <1>6, <1>7 DEF new

LEMMA AcceptedBatch ==
  ASSUME Typed, Accepted, NEW batch \in Batches, AdmitManual(batch)
  PROVE  Accepted'
<1> DEFINE new == {batch[i].id : i \in DOMAIN batch}
<1>1. /\ \A k \in new : ~Known(k)
      /\ Unfinished' = Unfinished \cup new
      /\ \A k \in Unfinished : jobs'[k] = jobs[k]
      /\ \A k \in new : jobs'[k].ids = {k} /\ jobs'[k].id = k
                        /\ ~IsIncremental(jobs'[k])
  BY BatchRecords
<1>2. terminal' = terminal
  BY DEF AdmitManual
<1> HIDE DEF new
<1>3. Apart' /\ OwnIds' /\ Undecided'
  BY <1>1, <1>2 DEF Accepted, Apart, OwnIds, Undecided, Known
<1>4. \A pr \in PRs : \A k \in PendingFor(pr)' : k \in PendingFor(pr)
  BY <1>1 DEF PendingFor, IsIncremental
<1>5. Single'
  BY <1>4 DEF Accepted, Single
<1>6. QED
  BY <1>3, <1>5 DEF Accepted

\* Every step but the admissions and the two ends of a record keeps all
\* deliveries where they are.
LEMMA StepKeeps ==
  ASSUME Typed, [Next]_vars
  PROVE  \/ \E r \in Requests : AdmitNew(r) \/ AdmitCoalesced(r)
         \/ \E batch \in Batches : AdmitManual(batch)
         \/ \E w \in Workers : Finish(w)
         \/ \E d \in Drainers : ResolveClosed(d)
         \/ \E id \in Ids : TombstoneExpires(id)
         \/ KeepsJobs /\ UNCHANGED terminal
<1>1. ASSUME NEW w \in Workers, WorkerStep(w), ~Finish(w)
      PROVE  KeepsJobs /\ UNCHANGED terminal
  <2>1. CASE \E h \in Heads : Reconcile(w, h)
    BY <2>1, ReconcileMoves, OneRewritten DEF Moved
  <2>2. CASE FinishYield(w) \/ DeferYield(w) \/ Defer(w)
    BY <2>2, ReleaseMoves, OneRewritten DEF Moved
  <2>3. QED
    BY <1>1, <2>1, <2>2, WorkerLight, LightKeeps DEF WorkerStep, LightStep
<1>2. ASSUME NEW d \in Drainers, DrainerStep(d), ~ResolveClosed(d)
      PROVE  KeepsJobs /\ UNCHANGED terminal
  <2>1. CASE \E h \in Heads : ResolveOpen(d, h)
    BY <2>1, ResolveOpenMoves, OneRewritten
  <2>2. QED
    BY <1>2, <2>1, DrainerLight, LightKeeps DEF DrainerStep, LightStep
<1>3. CASE TimePasses /\ ~\E id \in Ids : TombstoneExpires(id)
  <2>1. CASE \E pr \in PRs, h \in Heads, o \in HeadOutcomes :
               HistoryExpires(pr, h, o)
    BY <2>1, SameIsLight, LightKeeps DEF HistoryExpires
  <2>2. QED
    BY <1>3, <2>1, LapseLight, LightKeeps DEF TimePasses, LightStep
<1>4. CASE UNCHANGED vars
  BY <1>4, LapseLight, LightKeeps DEF LightStep
<1>5. QED
  BY <1>1, <1>2, <1>3, <1>4 DEF Next, Admit

\* The record that Finish and ResolveClosed end.
LEMMA EndsRecord ==
  ASSUME Typed,
         \/ \E w \in Workers : Finish(w)
         \/ \E d \in Drainers : ResolveClosed(d)
  PROVE  \E k \in Ids, o \in Outcomes :
           /\ jobs[k] # None /\ jobs[k] \in Job
           /\ jobs' = [jobs EXCEPT ![k] = None]
           /\ terminal' = Tombstones(jobs[k], o) /\ UNCHANGED history
<1>1. ASSUME NEW w \in Workers, Finish(w)
      PROVE  \E k \in Ids, o \in Outcomes :
               /\ jobs[k] # None /\ jobs[k] \in Job
               /\ jobs' = [jobs EXCEPT ![k] = None]
               /\ terminal' = Tombstones(jobs[k], o) /\ UNCHANGED history
  <2> DEFINE k == held[w].key
             j == jobs[k]
             o == IF ExistingTerminal(j) # None THEN ExistingTerminal(j)
                  ELSE held[w].verdict
  <2>1. k \in Ids /\ j \in Job /\ j # None
    BY <1>1, OwnedType DEF Finish, Concluded, OwnsLive
  <2>2. o \in Outcomes
    <3>1. held[w].verdict \in Outcomes
      BY <1>1 DEF Finish, Concluded
    <3>2. ExistingTerminal(j) # None => ExistingTerminal(j) \in Outcomes
      BY <2>1 DEF ExistingTerminal, Typed, TypeOK, Job, Budget, HeadOutcomes
    <3>3. QED
      BY <3>1, <3>2
  <2>3. /\ jobs' = [jobs EXCEPT ![k] = None]
        /\ terminal' = Tombstones(j, o) /\ UNCHANGED history
    BY <1>1 DEF Finish
  <2> HIDE DEF o, k
  <2>4. QED
    BY <2>1, <2>2, <2>3
<1>2. ASSUME NEW d \in Drainers, ResolveClosed(d)
      PROVE  \E k \in Ids, o \in Outcomes :
               /\ jobs[k] # None /\ jobs[k] \in Job
               /\ jobs' = [jobs EXCEPT ![k] = None]
               /\ terminal' = Tombstones(jobs[k], o) /\ UNCHANGED history
  <2>1. drain[d].key \in Ids /\ jobs[drain[d].key] # None
        /\ jobs[drain[d].key] \in Job
    BY <1>2, MetaClaimType DEF ResolveClosed, MetadataCurrent, Typed, TypeOK
  <2>2. /\ jobs' = [jobs EXCEPT ![drain[d].key] = None] /\ UNCHANGED history
        /\ terminal' = Tombstones(jobs[drain[d].key], "declined")
        /\ "declined" \in Outcomes
    BY <1>2 DEF ResolveClosed, Outcomes
  <2>3. QED
    BY <2>1, <2>2
<1>3. QED
  BY <1>1, <1>2

LEMMA AcceptedStep ==
  ASSUME Typed, Accepted, [Next]_vars
  PROVE  Accepted'
<1>1. ASSUME NEW id \in Ids, TombstoneExpires(id)
      PROVE  Accepted'
  <2>1. KeepsJobs
    BY <1>1, SameIsLight, LightKeeps DEF TombstoneExpires
  <2>2. \A x \in Ids : terminal[x] = None => terminal'[x] = None
    BY <1>1 DEF TombstoneExpires, Typed, TypeOK
  <2>3. QED
    BY <2>1, <2>2, AcceptedKept
<1>2. CASE \/ \E w \in Workers : Finish(w)
           \/ \E d \in Drainers : ResolveClosed(d)
  BY <1>2, EndsRecord, AcceptedEnds
<1>3. CASE KeepsJobs /\ UNCHANGED terminal
  BY <1>3, AcceptedKept
<1>4. QED
  BY <1>1, <1>2, <1>3, StepKeeps, AcceptedNew, AcceptedJoins, AcceptedBatch

\* An accepted delivery is in exactly one record or tombstone, and those of one
\* pull request share a record, through every coalescing, yield, retry, crash
\* and end (admit_batch, finish, resolve_pending_metadata).
THEOREM DeliveriesAcceptedOnce == Spec => []AcceptedOnce
<1>1. Init => Accepted
  BY DEF Init, Accepted, Apart, OwnIds, Undecided, Single, PendingFor, Unfinished
<1>2. Accepted /\ Typed /\ [Next]_vars => Accepted'
  BY AcceptedStep
<1>3. Typed /\ Accepted => AcceptedOnce
  BY AcceptedParts
<1>4. Spec => []Accepted
  BY <1>1, <1>2, AlwaysTyped, PTL DEF Spec
<1>5. QED
  BY <1>3, <1>4, AlwaysTyped, PTL

\* Records that may only gain deliveries, under tombstones that stay.
LEMMA GrowsKnown ==
  ASSUME \A k \in Ids : jobs[k] # None =>
           jobs'[k] # None /\ jobs[k].ids \subseteq jobs'[k].ids,
         UNCHANGED terminal
  PROVE  \A id \in Ids : Known(id) => Known(id)'
  BY DEF Known, Unfinished

LEMMA AckedStep ==
  ASSUME Typed, [Next]_vars
  PROVE  \A id \in Ids : Known(id) => Known(id)' \/ TombstoneExpires(id)
<1>1. CASE \E r \in Requests : AdmitNew(r)
  <2>1. PICK r \in Requests : AdmitNew(r)
    BY <1>1
  <2>2. jobs' = [jobs EXCEPT ![r.id] = NewJob(r)] /\ ~Known(r.id)
        /\ UNCHANGED terminal /\ r.id \in Ids
    BY <2>1, ConstantsAssumption DEF AdmitNew, ConstantsAssumption, RequestRec
  <2>3. jobs[r.id] = None
    BY <2>2 DEF Known, Typed, OwnId, Unfinished
  <2>4. \A k \in Ids : jobs[k] # None => jobs'[k] = jobs[k]
    BY <2>2, <2>3 DEF Typed, TypeOK
  <2>5. QED
    BY <2>2, <2>4, GrowsKnown
<1>2. CASE \E r \in Requests : AdmitCoalesced(r)
  <2>1. PICK r \in Requests : AdmitCoalesced(r)
    BY <1>2
  <2> DEFINE k == CHOOSE x \in PendingFor(r.pr) : TRUE
             j == jobs[k]
             headless == r.head = NoHead /\ j.head # NoHead
             v == IF headless THEN [j EXCEPT !.ids = j.ids \cup {r.id}]
                  ELSE Joined(j, r)
  <2>2. r \in RequestRec /\ r.id \in Ids /\ terminal' = terminal
        /\ jobs' = [jobs EXCEPT ![k] = v]
    BY <2>1, ConstantsAssumption
       DEF ConstantsAssumption, RequestRec, AdmitCoalesced
  <2>3. k \in Ids /\ j # None /\ j \in Job
    <3>1. k \in PendingFor(r.pr)
      BY <2>1 DEF AdmitCoalesced
    <3>2. QED
      BY <3>1 DEF PendingFor, Unfinished, Typed, TypeOK
  <2> HIDE DEF k
  <2>4. v \in Job /\ v # None /\ j.ids \subseteq v.ids
    <3>1. v \in Job /\ j.ids \subseteq v.ids
      BY <2>2, <2>3, JoinedType DEF Job
    <3>2. QED
      BY <3>1, NoneIsNoRecord
  <2> HIDE DEF v
  <2>5. jobs'[k] = v /\ \A x \in Ids : x # k => jobs'[x] = jobs[x]
    BY <2>2, <2>3 DEF Typed, TypeOK
  <2>6. QED
    BY <2>2, <2>4, <2>5, GrowsKnown
<1>3. CASE \E batch \in Batches : AdmitManual(batch)
  <2>1. PICK batch \in Batches : AdmitManual(batch)
    BY <1>3
  <2> DEFINE new == {batch[i].id : i \in DOMAIN batch}
  <2>2. /\ Unfinished' = Unfinished \cup new
        /\ \A k \in Unfinished : jobs'[k] = jobs[k]
    BY <2>1, BatchRecords
  <2>3. UNCHANGED terminal
    BY <2>1 DEF AdmitManual
  <2> HIDE DEF new
  <2>4. QED
    BY <2>2, <2>3 DEF Known
<1>4. CASE \/ \E w \in Workers : Finish(w)
           \/ \E d \in Drainers : ResolveClosed(d)
  <2>1. PICK k \in Ids, o \in Outcomes :
          /\ jobs[k] # None /\ jobs' = [jobs EXCEPT ![k] = None]
          /\ terminal' = Tombstones(jobs[k], o)
    BY <1>4, EndsRecord
  <2>2. o # None
    BY ConstantsAssumption DEF ConstantsAssumption
  <2>3. \A x \in Ids : x # k => jobs'[x] = jobs[x]
    BY <2>1 DEF Typed, TypeOK
  <2>4. \A id \in Ids : terminal'[id] = IF id \in jobs[k].ids THEN o ELSE terminal[id]
    BY <2>1 DEF Tombstones
  <2>5. QED
    BY <2>2, <2>3, <2>4 DEF Known, Unfinished
<1>5. ASSUME NEW x \in Ids, TombstoneExpires(x), NEW id \in Ids, Known(id)
      PROVE  Known(id)' \/ TombstoneExpires(id)
  <2>1. CASE id = x
    BY <1>5, <2>1
  <2>2. CASE id # x
    <3>1. jobs' = jobs /\ terminal'[id] = terminal[id]
      BY <1>5, <2>2 DEF TombstoneExpires, Typed, TypeOK
    <3>2. QED
      BY <1>5, <3>1 DEF Known, Unfinished
  <2>3. QED
    BY <2>1, <2>2
<1>6. CASE KeepsJobs /\ UNCHANGED terminal
  BY <1>6, GrowsKnown DEF KeepsJobs, Keeps
<1>7. QED
  BY <1>1, <1>2, <1>3, <1>4, <1>5, <1>6, StepKeeps

\* Once acknowledged, a delivery stays known to the document until its
\* tombstone expires, whatever step of whatever process comes next.
THEOREM DeliveriesNeverLost == Spec => AckedNeverLost
<1>1. Typed /\ [Next]_vars =>
        [\A id \in Ids : Known(id) => Known(id)' \/ TombstoneExpires(id)]_vars
  BY AckedStep
<1>2. QED
  BY <1>1, AlwaysTyped, PTL DEF Spec, AckedNeverLost

-----------------------------------------------------------------------------
(* A head keeps its result                                                 *)

\* HistoryAgrees, with what a pull request without a budget adds to it.
Agreeing ==
  \A pr \in PRs, h \in Heads :
    /\ \A o, p \in Remembered(pr, h) : o = p
    /\ heads[pr] = None => Remembered(pr, h) = {}
    /\ heads[pr] # None /\ heads[pr].head = h =>
         \A o \in Remembered(pr, h) : o = heads[pr].outcome

\* The head has the result o, in its budget or in the history.
Has(pr, h, o) ==
  \/ heads[pr] # None /\ heads[pr].head = h /\ heads[pr].outcome = o
  \/ o \in Remembered(pr, h)

LEMMA OutcomesFinite == IsFiniteSet(HeadOutcomes) /\ Cardinality(HeadOutcomes) <= 4
<1> DEFINE S == {"published", "declined", "exhausted", "deadline"}
<1>1. HeadOutcomes = S
  BY DEF HeadOutcomes, Outcomes
<1>2. IsFiniteSet({}) /\ Cardinality({}) = 0
  BY FS_EmptySet
<1>3. IsFiniteSet({"published"}) /\ Cardinality({"published"}) = 1
  BY FS_Singleton
<1>4. IsFiniteSet({"published"} \cup {"declined"})
      /\ Cardinality({"published"} \cup {"declined"}) \in {1, 2}
  BY <1>3, FS_AddElement
<1> DEFINE T == {"published"} \cup {"declined"}
<1> HIDE DEF T
<1>5. IsFiniteSet(T \cup {"exhausted"}) /\ Cardinality(T \cup {"exhausted"}) \in {1, 2, 3}
  BY <1>4, FS_AddElement DEF T
<1> DEFINE U == T \cup {"exhausted"}
<1> HIDE DEF U
<1>6. IsFiniteSet(U \cup {"deadline"}) /\ Cardinality(U \cup {"deadline"}) <= 4
  BY <1>5, FS_AddElement DEF U
<1>7. S = U \cup {"deadline"}
  BY DEF U, T
<1> HIDE DEF S
<1>8. QED
  BY <1>1, <1>6, <1>7

LEMMA RememberedFinite ==
  ASSUME NEW pr, NEW h
  PROVE  Remembered(pr, h) \subseteq HeadOutcomes /\ IsFiniteSet(Remembered(pr, h))
<1>1. Remembered(pr, h) \subseteq HeadOutcomes
  BY DEF Remembered
<1>2. QED
  BY <1>1, OutcomesFinite, FS_Subset

\* A set has at most one member when any two are the same.
LEMMA AtMostOne ==
  ASSUME NEW S, IsFiniteSet(S)
  PROVE  Cardinality(S) <= 1 <=> \A x, y \in S : x = y
<1>1. ASSUME Cardinality(S) <= 1, NEW x \in S, NEW y \in S, x # y
      PROVE  FALSE
  <2>1. IsFiniteSet({x}) /\ Cardinality({x}) = 1
    BY FS_Singleton
  <2> DEFINE T == {x}
  <2>a. IsFiniteSet(T) /\ Cardinality(T) = 1 /\ y \notin T
    BY <1>1, <2>1
  <2> HIDE DEF T
  <2>b. Cardinality(T \cup {y}) = Cardinality(T) + 1
    BY <2>a, FS_AddElement
  <2>2. Cardinality({x} \cup {y}) = 2
    BY <2>a, <2>b DEF T
  <2>3. {x} \cup {y} \in SUBSET S
    OBVIOUS
  <2>4. Cardinality({x} \cup {y}) <= Cardinality(S) /\ Cardinality(S) \in Nat
    BY <2>3, FS_Subset, FS_CardinalityType
  <2>5. QED
    BY <1>1, <2>2, <2>4
<1>2. ASSUME \A x, y \in S : x = y
      PROVE  Cardinality(S) <= 1
  <2>1. CASE S = {}
    BY <2>1, FS_EmptySet
  <2>2. CASE S # {}
    <3>1. PICK x \in S : S = {x}
      BY <1>2, <2>2
    <3>2. QED
      BY <3>1, FS_Singleton
  <2>3. QED
    BY <2>1, <2>2
<1>3. QED
  BY <1>1, <1>2

LEMMA AgreeingSafe ==
  ASSUME Agreeing
  PROVE  HistoryAgrees
<1>1. ASSUME NEW pr \in PRs, NEW h \in Heads
      PROVE  /\ Cardinality(Remembered(pr, h)) <= 1
             /\ heads[pr] # None /\ heads[pr].head = h =>
                  Remembered(pr, h) \subseteq {heads[pr].outcome}
  <2>1. Cardinality(Remembered(pr, h)) <= 1
    BY RememberedFinite, AtMostOne DEF Agreeing
  <2>2. QED
    BY <2>1 DEF Agreeing
<1>2. QED
  BY <1>1 DEF HistoryAgrees

\* One history count is set to n.
LEMMA HistorySet ==
  ASSUME history \in [PRs -> [Heads -> [HeadOutcomes -> Nat]]],
         NEW p \in PRs, NEW a \in Heads, NEW b \in HeadOutcomes, NEW n,
         history' = [history EXCEPT ![p] = [history[p] EXCEPT ![a] =
                      [history[p][a] EXCEPT ![b] = n]]]
  PROVE  \A pr \in PRs, h \in Heads, o \in HeadOutcomes :
           history'[pr][h][o] = IF pr = p /\ h = a /\ o = b THEN n
                                ELSE history[pr][h][o]
<1>1. history \in [PRs -> [Heads -> [HeadOutcomes -> Nat]]]
  OBVIOUS
<1>2. \A pr \in PRs : history'[pr] =
        IF pr = p THEN [history[p] EXCEPT ![a] = [history[p][a] EXCEPT ![b] = n]]
        ELSE history[pr]
  BY <1>1
<1>3. history[p] \in [Heads -> [HeadOutcomes -> Nat]]
      /\ history[p][a] \in [HeadOutcomes -> Nat]
  BY <1>1
<1>4. \A h \in Heads : history'[p][h] =
        IF h = a THEN [history[p][a] EXCEPT ![b] = n] ELSE history[p][h]
  BY <1>2, <1>3
<1>5. \A o \in HeadOutcomes : history'[p][a][o] = IF o = b THEN n ELSE history[p][a][o]
  BY <1>3, <1>4
<1>6. QED
  BY <1>2, <1>4, <1>5

\* A record with a result and one that is restored agree on it.
LEMMA ResultHas ==
  ASSUME Agreeing, TypeOK, NEW pr \in PRs, NEW h \in Heads, NEW o \in HeadOutcomes
  PROVE  Result(pr, h) = o <=> Has(pr, h, o)
<1>1. o # None
  BY ConstantsAssumption DEF ConstantsAssumption, HeadOutcomes
<1>2. RestoredOutcome(pr, h) = o <=> o \in Remembered(pr, h)
  <2>1. CASE Remembered(pr, h) = {}
    BY <1>1, <2>1 DEF RestoredOutcome
  <2>2. CASE Remembered(pr, h) # {}
    <3>1. RestoredOutcome(pr, h) \in Remembered(pr, h)
      BY <2>2 DEF RestoredOutcome
    <3>2. QED
      BY <3>1 DEF Agreeing
  <2>3. QED
    BY <2>1, <2>2
<1>3. CASE heads[pr] # None /\ heads[pr].head = h /\ heads[pr].outcome # None
  BY <1>3 DEF Result, Has, Agreeing
<1>4. CASE ~(heads[pr] # None /\ heads[pr].head = h /\ heads[pr].outcome # None)
  <2>1. Result(pr, h) = RestoredOutcome(pr, h)
    BY <1>4 DEF Result
  <2>2. QED
    BY <1>1, <1>2, <1>4, <2>1 DEF Has
<1>5. QED
  BY <1>3, <1>4

Consistent ==
  \A pr \in PRs, h \in Heads, o \in HeadOutcomes :
    Result(pr, h) = o <=> Has(pr, h, o)

LEMMA ResultsHas == Agreeing /\ TypeOK => Consistent
BY ResultHas DEF Consistent

\* The operations that store a result mark the head of the worker's record.
LEMMA Marking ==
  ASSUME Typed, NEW w \in Workers, Finish(w) \/ FinishYield(w)
  PROVE  /\ OwnsLive(w) /\ held[w].phase = "concluding"
         /\ held[w].verdict \in Outcomes /\ jobs[held[w].key] \in Job
         /\ heads' = MarkHead(jobs[held[w].key], held[w].verdict)
         /\ UNCHANGED history
<1>1. OwnsLive(w)
  BY DEF Finish, FinishYield, Concluded
<1>2. jobs[held[w].key] \in Job
  BY <1>1, OwnedType DEF OwnsLive
<1>3. QED
  BY <1>1, <1>2 DEF Finish, FinishYield, Concluded

\* Where the budgets and the history change.
LEMMA HeadsStep ==
  ASSUME Typed, [Next]_vars
  PROVE  \/ SameHeads /\ UNCHANGED history
         \/ \E r \in Requests : RearmIfExplicit(r)
         \/ \E w \in Workers, h \in Heads : Reconcile(w, h)
         \/ \E w \in Workers : Finish(w) \/ FinishYield(w)
         \/ /\ \E pr \in PRs, h \in Heads, o \in HeadOutcomes :
                 HistoryExpires(pr, h, o)
            /\ UNCHANGED heads
<1>1. UNCHANGED heads => SameHeads
  BY DEF SameHeads
<1>2. CASE Admit
  BY <1>1, <1>2 DEF Admit, AdmitNew, AdmitCoalesced, AdmitManual
<1>3. ASSUME NEW w \in Workers, WorkerStep(w)
      PROVE  \/ SameHeads /\ UNCHANGED history
             \/ \E h \in Heads : Reconcile(w, h)
             \/ Finish(w) \/ FinishYield(w)
  <2>1. CASE DeferYield(w) \/ Defer(w)
    BY <1>1, <2>1 DEF DeferYield, Defer
  <2>2. QED
    BY <1>3, <2>1, WorkerLight DEF WorkerStep, LightStep
<1>4. ASSUME NEW d \in Drainers, DrainerStep(d)
      PROVE  SameHeads /\ UNCHANGED history
  <2>1. CASE ResolveClosed(d) \/ \E h \in Heads : ResolveOpen(d, h)
    BY <1>1, <2>1 DEF ResolveClosed, ResolveOpen
  <2>2. QED
    BY <1>4, <2>1, DrainerLight DEF DrainerStep, LightStep
<1>5. CASE TimePasses
  <2>1. CASE \E pr \in PRs, h \in Heads, o \in HeadOutcomes :
               HistoryExpires(pr, h, o)
    BY <2>1 DEF HistoryExpires
  <2>2. CASE \E id \in Ids : TombstoneExpires(id)
    BY <1>1, <2>2 DEF TombstoneExpires
  <2>3. QED
    BY <1>5, <2>1, <2>2, LapseLight DEF TimePasses, LightStep
<1>6. CASE UNCHANGED vars
  BY <1>6, LapseLight DEF LightStep
<1>7. QED
  BY <1>2, <1>3, <1>4, <1>5, <1>6 DEF Next

\* No step but an expiry takes a published or declined result from a head.
KeepsResults ==
  \A pr \in PRs, h \in Heads, o \in {"published", "declined"} :
    Has(pr, h, o) => Has(pr, h, o)'

\* No step but a conclusion gives a head a result.
NoNewResult ==
  \A pr \in PRs, h \in Heads, o \in HeadOutcomes :
    Has(pr, h, o)' => Has(pr, h, o)

\* Light steps neither store nor drop a result.
LEMMA SameResults ==
  ASSUME Agreeing, SameHeads, UNCHANGED history
  PROVE  Agreeing' /\ KeepsResults /\ NoNewResult
<1>1. \A pr, h : Remembered(pr, h)' = Remembered(pr, h)
  BY DEF Remembered
<1>2. QED
  BY <1>1 DEF Agreeing, SameHeads, KeepsResults, NoNewResult, Has

\* An explicit re-request drops failures only.
LEMMA RearmResults ==
  ASSUME TypeOK, Agreeing, NEW r \in Requests, RearmIfExplicit(r)
  PROVE  Agreeing' /\ KeepsResults /\ NoNewResult
<1>1. r.pr \in PRs
  BY ConstantsAssumption DEF ConstantsAssumption, RequestRec
<1>2. CASE ~r.explicit
  BY <1>2, SameResults DEF RearmIfExplicit, SameHeads
<1>3. CASE r.explicit
  <2>1. heads \in [PRs -> Budget \cup {None}]
        /\ history \in [PRs -> [Heads -> [HeadOutcomes -> Nat]]]
    BY DEF TypeOK
  <2>2. /\ heads' = [heads EXCEPT ![r.pr] = Rearmed(heads[r.pr])]
        /\ history' = [history EXCEPT ![r.pr] =
                        [h \in Heads |-> [o \in HeadOutcomes |->
                           IF o \in FailedOutcomes THEN 0 ELSE history[r.pr][h][o]]]]
    BY <1>3 DEF RearmIfExplicit
  <2>3. \A pr \in PRs : pr # r.pr => heads'[pr] = heads[pr] /\ history'[pr] = history[pr]
    BY <2>1, <2>2
  <2>4. heads'[r.pr] = Rearmed(heads[r.pr])
        /\ \A h \in Heads, o \in HeadOutcomes :
             history'[r.pr][h][o] = IF o \in FailedOutcomes THEN 0
                                    ELSE history[r.pr][h][o]
    BY <1>1, <2>1, <2>2
  <2>5. \A pr \in PRs, h \in Heads : pr # r.pr => Remembered(pr, h)' = Remembered(pr, h)
    BY <2>3 DEF Remembered
  <2>6. \A h \in Heads : Remembered(r.pr, h)' = Remembered(r.pr, h) \ FailedOutcomes
    BY <2>4 DEF Remembered
  <2> DEFINE b == heads[r.pr]
             c == heads'[r.pr]
  <2>7. /\ b = None => c = None
        /\ b # None =>
             /\ c # None /\ c.head = b.head
             /\ c.outcome = IF b.outcome \in FailedOutcomes THEN None ELSE b.outcome
    <3>1. CASE b # None /\ b.outcome \in FailedOutcomes
      <4> DEFINE x == [b EXCEPT !.outcome = None, !.paid = 0, !.refunds = 0,
                                !.epoch = @ + 1]
      <4>1. c = x /\ b \in Budget
        BY <1>1, <2>1, <2>4, <3>1 DEF Rearmed
      <4>2. b.epoch + 1 \in Nat
        BY <4>1 DEF Budget
      <4>3. x \in Budget /\ x.head = b.head /\ x.outcome = None
        BY <4>1, <4>2 DEF Budget
      <4> HIDE DEF x, b, c
      <4>4. x # None
        BY <4>3, NoneIsNoRecord
      <4>5. QED
        BY <3>1, <4>1, <4>3, <4>4
    <3>2. CASE ~(b # None /\ b.outcome \in FailedOutcomes)
      BY <2>4, <3>2 DEF Rearmed
    <3>3. QED
      BY <3>1, <3>2
  <2> HIDE DEF b, c
  <2>8. heads[r.pr] = b /\ heads'[r.pr] = c
    BY DEF b, c
  <2>9. None \notin FailedOutcomes
    BY ConstantsAssumption DEF ConstantsAssumption, FailedOutcomes, Outcomes
  <2>10. Agreeing'
    <3>1. SUFFICES ASSUME NEW pr \in PRs, NEW h \in Heads
                   PROVE  /\ \A o, p \in Remembered(pr, h)' : o = p
                          /\ heads'[pr] = None => Remembered(pr, h)' = {}
                          /\ heads'[pr] # None /\ heads'[pr].head = h =>
                               \A o \in Remembered(pr, h)' : o = heads'[pr].outcome
      BY DEF Agreeing
    <3>2. CASE pr # r.pr
      BY <2>3, <2>5, <3>2 DEF Agreeing
    <3>3. CASE pr = r.pr
      BY <1>1, <2>6, <2>7, <2>8, <3>3 DEF Agreeing
    <3>4. QED
      BY <3>2, <3>3
  <2>11. KeepsResults
    <3>1. SUFFICES ASSUME NEW pr \in PRs, NEW h \in Heads,
                          NEW o \in {"published", "declined"}, Has(pr, h, o)
                   PROVE  Has(pr, h, o)'
      BY DEF KeepsResults
    <3>2. o \notin FailedOutcomes
      BY DEF FailedOutcomes
    <3>3. CASE pr # r.pr
      BY <2>3, <2>5, <3>1, <3>3 DEF Has
    <3>4. CASE pr = r.pr
      BY <2>6, <2>7, <2>8, <3>1, <3>2, <3>4 DEF Has
    <3>5. QED
      BY <3>3, <3>4
  <2>12. NoNewResult
    <3>1. SUFFICES ASSUME NEW pr \in PRs, NEW h \in Heads, NEW o \in HeadOutcomes,
                          Has(pr, h, o)'
                   PROVE  Has(pr, h, o)
      BY DEF NoNewResult
    <3>2. o # None
      BY ConstantsAssumption DEF ConstantsAssumption, HeadOutcomes
    <3>3. CASE pr # r.pr
      BY <2>3, <2>5, <3>1, <3>3 DEF Has
    <3>4. CASE pr = r.pr
      BY <2>6, <2>7, <2>8, <3>1, <3>2, <3>4 DEF Has
    <3>5. QED
      BY <3>3, <3>4
  <2>13. QED
    BY <2>10, <2>11, <2>12
<1>4. QED
  BY <1>2, <1>3

\* A result is stored only on a head that has none.
LEMMA MarkResults ==
  ASSUME TypeOK, Agreeing, NEW j \in Job, NEW o \in Outcomes,
         heads' = MarkHead(j, o), UNCHANGED history
  PROVE  Agreeing' /\ KeepsResults
<1>1. CASE UNCHANGED heads
  BY <1>1, SameResults DEF SameHeads
<1>2. CASE heads[j.pr] # None /\ ExistingTerminal(j) = None /\ IsIncremental(j)
           /\ o \in HeadOutcomes /\ heads' = [heads EXCEPT ![j.pr].outcome = o]
  <2> DEFINE p == j.pr
             b == heads[p]
             c == [b EXCEPT !.outcome = o]
  <2>1. p \in PRs /\ heads \in [PRs -> Budget \cup {None}]
    BY DEF TypeOK, Job
  <2>2. b \in Budget /\ b.outcome = None /\ heads' = [heads EXCEPT ![p] = c]
    BY <1>2, <2>1 DEF ExistingTerminal
  <2>3. c \in Budget /\ c.head = b.head /\ c.outcome = o
    BY <1>2, <2>2 DEF Budget
  <2>4. c # None /\ b # None
    BY <2>2, <2>3, NoneIsNoRecord
  <2> HIDE DEF c, p
  <2>5. heads'[p] = c /\ \A pr \in PRs : pr # p => heads'[pr] = heads[pr]
    BY <2>1, <2>2
  <2>6. \A pr, h : Remembered(pr, h)' = Remembered(pr, h)
    BY DEF Remembered
  <2>7. Remembered(p, b.head) = {}
    <3>1. b.head \in Heads
      BY <2>2 DEF Budget
    <3>2. \A x \in Remembered(p, b.head) : x \in HeadOutcomes /\ x = None
      BY <2>1, <2>2, <2>4, <3>1 DEF Agreeing, Remembered
    <3>3. QED
      BY <3>2, ConstantsAssumption DEF ConstantsAssumption, HeadOutcomes
  <2>8. Agreeing'
    BY <2>1, <2>2, <2>3, <2>4, <2>5, <2>6, <2>7 DEF Agreeing
  <2>9. KeepsResults
    <3>1. \A x \in {"published", "declined"} : x # None
      BY ConstantsAssumption DEF ConstantsAssumption, Outcomes
    <3>2. QED
      BY <2>2, <2>5, <2>6, <3>1 DEF KeepsResults, Has
  <2>10. QED
    BY <2>8, <2>9
<1>3. QED
  BY <1>1, <1>2 DEF MarkHead

\* A head makes way for another: its result goes to the history, and the one
\* the history has of the other comes back.
LEMMA ReconcileResults ==
  ASSUME Typed, Agreeing, NEW w \in Workers, NEW h \in Heads, Reconcile(w, h)
  PROVE  Agreeing' /\ KeepsResults /\ NoNewResult
<1> DEFINE j == jobs[held[w].key]
           p == j.pr
           old == heads[p]
           new == NextBudget(old, j, h)
<1>1. j \in Job /\ p \in PRs /\ old \in Budget \cup {None}
      /\ heads \in [PRs -> Budget \cup {None}] /\ TypeOK
  BY OwnedType DEF Reconcile, OwnsLive, Job, Typed, TypeOK
<1>2. CASE ~IsIncremental(j)
  BY <1>2, SameResults DEF Reconcile, SameHeads
<1>3. CASE IsIncremental(j)
  <2>1. heads' = [heads EXCEPT ![p] = new]
        /\ history' = IF Displaces(old, h)
                      THEN [history EXCEPT ![p][old.head][old.outcome] = @ + 1]
                      ELSE history
    BY <1>3 DEF Reconcile
  <2>2. new \in Budget /\ new.head = h /\ new # None
    <3>1. new \in Budget /\ new.head = h
      BY <1>1, NextBudgetType
    <3>2. QED
      BY <3>1, NoneIsNoRecord
  <2>3. /\ old = None => new.outcome = None
        /\ old # None /\ old.head = h => new = old
        /\ old # None /\ old.head # h => new.outcome = RestoredOutcome(p, h)
    BY DEF NextBudget
  <2> HIDE DEF new
  <2>4. heads'[p] = new /\ \A pr \in PRs : pr # p => heads'[pr] = heads[pr]
    BY <1>1, <2>1
  <2>5. ASSUME NEW pr \in PRs, NEW x \in Heads
        PROVE  Remembered(pr, x)' =
                 IF Displaces(old, h) /\ pr = p /\ x = old.head
                 THEN Remembered(pr, x) \cup {old.outcome} ELSE Remembered(pr, x)
    <3>1. CASE ~Displaces(old, h)
      BY <2>1, <3>1 DEF Remembered
    <3>2. CASE Displaces(old, h)
      <4> DEFINE a == old.head
                 o == old.outcome
                 n == history[p][a][o] + 1
      <4>1. a \in Heads /\ o \in HeadOutcomes
        BY <1>1, <3>2 DEF Displaces, Budget
      <4>2. history[p][a][o] \in Nat
        <5>1. history \in [PRs -> [Heads -> [HeadOutcomes -> Nat]]]
          BY DEF Typed, TypeOK
        <5> HIDE DEF p, a, o
        <5>2. QED
          BY <1>1, <4>1, <5>1
      <4>3. n > 0
        <5>1. \A m \in Nat : m + 1 > 0
          OBVIOUS
        <5> HIDE DEF p, a, o
        <5>2. QED
          BY <4>2, <5>1
      <4>4. history' = [history EXCEPT ![p] = [history[p] EXCEPT ![a] =
                          [history[p][a] EXCEPT ![o] = n]]]
        BY <2>1, <3>2
      <4>h. history \in [PRs -> [Heads -> [HeadOutcomes -> Nat]]]
        BY <1>1 DEF TypeOK
      <4> HIDE DEF n, p, a, o
      <4>5. \A q \in PRs, y \in Heads, z \in HeadOutcomes :
              history'[q][y][z] = IF q = p /\ y = a /\ z = o THEN n
                                  ELSE history[q][y][z]
        BY <1>1, <4>1, <4>4, <4>h, HistorySet
      <4>6. Remembered(pr, x)' = IF pr = p /\ x = a THEN Remembered(pr, x) \cup {o}
                                 ELSE Remembered(pr, x)
        <5>1. Remembered(pr, x)' = {z \in HeadOutcomes : history'[pr][x][z] > 0}
          BY DEF Remembered
        <5>2. QED
          BY <4>1, <4>3, <4>5, <5>1 DEF Remembered
      <4>7. QED
        BY <3>2, <4>6 DEF p, a, o
    <3>3. QED
      BY <3>1, <3>2
  <2>6. Displaces(old, h) => old # None /\ old.head # h /\ old.outcome # None
    BY DEF Displaces
  <2>7. ASSUME old # None, old.head # h, ~Displaces(old, h)
        PROVE  Remembered(p, old.head) = {} /\ old.outcome = None
    <3>1. old.outcome = None /\ old.head \in Heads
      BY <1>1, <2>7 DEF Displaces, Budget
    <3>2. \A x \in Remembered(p, old.head) : x \in HeadOutcomes /\ x = None
      BY <1>1, <2>7, <3>1 DEF Agreeing, Remembered
    <3>3. QED
      BY <3>1, <3>2, ConstantsAssumption DEF ConstantsAssumption, HeadOutcomes
  <2>8. \A o \in Remembered(p, h) : RestoredOutcome(p, h) = o
    BY <1>1 DEF Agreeing, RestoredOutcome
  <2> HIDE DEF old, p
  <2>9. heads[p] = old
    BY DEF old
  <2>10. Agreeing'
    <3>1. SUFFICES ASSUME NEW pr \in PRs, NEW x \in Heads
                   PROVE  /\ \A o, q \in Remembered(pr, x)' : o = q
                          /\ heads'[pr] = None => Remembered(pr, x)' = {}
                          /\ heads'[pr] # None /\ heads'[pr].head = x =>
                               \A o \in Remembered(pr, x)' : o = heads'[pr].outcome
      BY DEF Agreeing
    <3>2. CASE pr # p
      BY <2>4, <2>5, <3>2 DEF Agreeing
    <3>3. CASE pr = p
      <4>0. Remembered(pr, x)' =
              IF Displaces(old, h) /\ x = old.head
              THEN Remembered(pr, x) \cup {old.outcome} ELSE Remembered(pr, x)
        BY <2>5, <3>3
      <4>r. /\ \A o, q \in Remembered(pr, x) : o = q
            /\ old = None => Remembered(pr, x) = {}
            /\ old # None /\ old.head = x =>
                 \A o \in Remembered(pr, x) : o = old.outcome
        BY <2>9, <3>3 DEF Agreeing
      <4>1. \A o, q \in Remembered(pr, x)' : o = q
        <5>1. CASE Displaces(old, h) /\ x = old.head
          <6>1. Remembered(pr, x)' = Remembered(pr, x) \cup {old.outcome}
            BY <4>0, <5>1
          <6>2. \A o \in Remembered(pr, x)' : o = old.outcome
            BY <2>6, <4>r, <5>1, <6>1
          <6>3. QED
            BY <6>2
        <5>2. CASE ~(Displaces(old, h) /\ x = old.head)
          BY <4>0, <4>r, <5>2
        <5>3. QED
          BY <5>1, <5>2
      <4>2. ASSUME x = h
            PROVE  \A o \in Remembered(pr, x)' : o = new.outcome
        <5>1. Remembered(pr, x)' = Remembered(pr, x)
          BY <2>6, <4>0, <4>2
        <5>2. CASE old = None
          BY <4>r, <5>1, <5>2
        <5>3. CASE old # None /\ old.head = h
          BY <2>3, <4>2, <4>r, <5>1, <5>3
        <5>4. CASE old # None /\ old.head # h
          <6>1. Remembered(pr, x)' = Remembered(p, h)
            BY <3>3, <4>2, <5>1
          <6>2. \A o \in Remembered(pr, x)' : RestoredOutcome(p, h) = o
            BY <2>8, <6>1
          <6>3. new.outcome = RestoredOutcome(p, h)
            BY <2>3, <5>4
          <6>4. QED
            BY <6>2, <6>3
        <5>5. QED
          BY <5>2, <5>3, <5>4
      <4>3. heads'[pr] = new /\ new # None /\ new.head = h
        BY <2>2, <2>4, <3>3
      <4>4. QED
        BY <3>3, <4>1, <4>2, <4>3
    <3>4. QED
      BY <3>2, <3>3
  <2>11. KeepsResults
    <3>1. SUFFICES ASSUME NEW pr \in PRs, NEW x \in Heads,
                          NEW o \in {"published", "declined"}, Has(pr, x, o)
                   PROVE  Has(pr, x, o)'
      BY DEF KeepsResults
    <3>2. o \in Remembered(pr, x) => o \in Remembered(pr, x)'
      BY <2>5
    <3>3. CASE pr # p
      BY <2>4, <3>1, <3>2, <3>3 DEF Has
    <3>4. CASE pr = p /\ old # None /\ old.head = x /\ old.outcome = o
      <4>1. o # None
        BY ConstantsAssumption DEF ConstantsAssumption, Outcomes
      <4>2. CASE Displaces(old, h)
        BY <2>5, <3>4, <4>2 DEF Has
      <4>3. CASE ~Displaces(old, h)
        BY <2>3, <2>4, <2>7, <2>9, <3>4, <4>1, <4>3, <2>2 DEF Has
      <4>4. QED
        BY <4>2, <4>3
    <3>5. QED
      BY <2>9, <3>1, <3>2, <3>3, <3>4 DEF Has
  <2>12. NoNewResult
    <3>1. SUFFICES ASSUME NEW pr \in PRs, NEW x \in Heads, NEW o \in HeadOutcomes,
                          Has(pr, x, o)'
                   PROVE  Has(pr, x, o)
      BY DEF NoNewResult
    <3>2. o # None
      BY ConstantsAssumption DEF ConstantsAssumption, HeadOutcomes
    <3>3. CASE o \in Remembered(pr, x)'
      BY <2>5, <2>6, <2>9, <3>3 DEF Has
    <3>4. CASE heads'[pr] # None /\ heads'[pr].head = x /\ heads'[pr].outcome = o
      <4>1. CASE pr # p
        BY <2>4, <3>4, <4>1 DEF Has
      <4>2. CASE pr = p
        <5>1. new.head = x /\ new.outcome = o /\ x = h
          BY <2>2, <2>4, <3>4, <4>2
        <5>2. CASE old # None /\ old.head = h
          BY <2>3, <2>9, <4>2, <5>1, <5>2 DEF Has
        <5>3. CASE old # None /\ old.head # h
          <6>1. RestoredOutcome(pr, x) = o
            BY <2>3, <4>2, <5>1, <5>3
          <6>2. o \in Remembered(pr, x)
            BY <3>2, <6>1 DEF RestoredOutcome
          <6>3. QED
            BY <6>2 DEF Has
        <5>4. QED
          BY <2>3, <3>2, <5>1, <5>2, <5>3
      <4>3. QED
        BY <4>1, <4>2
    <3>5. QED
      BY <3>1, <3>3, <3>4 DEF Has
  <2>13. QED
    BY <2>10, <2>11, <2>12
<1>4. QED
  BY <1>2, <1>3

\* A history record expires: only its own head may lose a result.
LEMMA ExpiryResults ==
  ASSUME TypeOK, Agreeing, NEW p \in PRs, NEW a \in Heads, NEW b \in HeadOutcomes,
         HistoryExpires(p, a, b), UNCHANGED heads
  PROVE  /\ Agreeing' /\ NoNewResult
         /\ \A pr \in PRs, h \in Heads, o \in {"published", "declined"} :
              Has(pr, h, o) => Has(pr, h, o)' \/ (pr = p /\ h = a)
<1> DEFINE n == history[p][a][b] - 1
<1>1. /\ history' = [history EXCEPT ![p] = [history[p] EXCEPT ![a] =
                       [history[p][a] EXCEPT ![b] = n]]]
      /\ history[p][a][b] > 0
  BY DEF HistoryExpires
<1>h. history \in [PRs -> [Heads -> [HeadOutcomes -> Nat]]]
  BY DEF TypeOK
<1> HIDE DEF n
<1>2. \A pr \in PRs, h \in Heads, o \in HeadOutcomes :
        history'[pr][h][o] = IF pr = p /\ h = a /\ o = b THEN n
                             ELSE history[pr][h][o]
  BY <1>1, <1>h, HistorySet
<1>3. \A pr \in PRs, h \in Heads :
        /\ Remembered(pr, h)' \subseteq Remembered(pr, h)
        /\ ~(pr = p /\ h = a) => Remembered(pr, h)' = Remembered(pr, h)
  <2>1. ASSUME NEW pr \in PRs, NEW h \in Heads
        PROVE  /\ Remembered(pr, h)' \subseteq Remembered(pr, h)
               /\ ~(pr = p /\ h = a) => Remembered(pr, h)' = Remembered(pr, h)
    <3>1. Remembered(pr, h)' = {z \in HeadOutcomes : history'[pr][h][z] > 0}
      BY DEF Remembered
    <3>2. \A z \in HeadOutcomes : history'[pr][h][z] > 0 => history[pr][h][z] > 0
      BY <1>1, <1>2
    <3>3. QED
      BY <1>2, <3>1, <3>2 DEF Remembered
  <2>2. QED
    BY <2>1
<1>4. Agreeing'
  BY <1>3 DEF Agreeing
<1>5. QED
  BY <1>3, <1>4 DEF Has, NoNewResult

LEMMA AgreeingStep ==
  ASSUME Typed, Agreeing, [Next]_vars
  PROVE  /\ Agreeing'
         /\ \/ KeepsResults
            \/ \E p \in PRs, a \in Heads, b \in HeadOutcomes :
                 /\ HistoryExpires(p, a, b)
                 /\ \A pr \in PRs, h \in Heads, o \in {"published", "declined"} :
                      Has(pr, h, o) => Has(pr, h, o)' \/ (pr = p /\ h = a)
<1>1. TypeOK
  BY DEF Typed
<1>2. QED
  BY <1>1, HeadsStep, SameResults, RearmResults, ReconcileResults, Marking,
     MarkResults, ExpiryResults

\* A result is new only where an operation stores it.
LEMMA ResultsStep ==
  ASSUME Typed, Agreeing, [Next]_vars
  PROVE  NoNewResult \/ \E w \in Workers : Finish(w) \/ FinishYield(w)
<1>1. TypeOK
  BY DEF Typed
<1>2. QED
  BY <1>1, HeadsStep, SameResults, RearmResults, ReconcileResults, ExpiryResults

LEMMA AlwaysAgreeing == Spec => []Agreeing
<1>1. Init => Agreeing
  BY DEF Init, Agreeing, Remembered
<1>2. Agreeing /\ Typed /\ [Next]_vars => Agreeing'
  BY AgreeingStep
<1>3. QED
  BY <1>1, <1>2, AlwaysTyped, PTL DEF Spec

\* Whatever the order of pushes, reviews, yields and re-requests, all history
\* records of a head agree, and agree with its budget (confirm_head).
THEOREM HistoryAlwaysAgrees == Spec => []HistoryAgrees
<1>1. Agreeing => HistoryAgrees
  BY AgreeingSafe
<1>2. QED
  BY <1>1, AlwaysAgreeing, PTL

\* No push, yield, late finish or re-request takes a published or declined
\* result from a head: only the expiry of its history does.
THEOREM ReviewIsKept == Spec => ReviewedStaysReviewed
<1> DEFINE Kept1 ==
      \A pr \in PRs, h \in Heads :
        Result(pr, h) \in {"published", "declined"} =>
          \/ Result(pr, h)' = Result(pr, h)
          \/ \E o \in HeadOutcomes : HistoryExpires(pr, h, o)
<1>c. Typed /\ Agreeing => Consistent
  BY ResultsHas DEF Typed
<1>1. Typed /\ Consistent /\ Consistent' /\ Agreeing /\ [Next]_vars => [Kept1]_vars
  <2>1. SUFFICES ASSUME Typed, Consistent, Consistent', Agreeing, [Next]_vars,
                        NEW pr \in PRs, NEW h \in Heads,
                        Result(pr, h) \in {"published", "declined"},
                        ~\E o \in HeadOutcomes : HistoryExpires(pr, h, o)
                 PROVE  Result(pr, h)' = Result(pr, h)
    OBVIOUS
  <2>2. PICK o \in {"published", "declined"} : Result(pr, h) = o
    BY <2>1
  <2>3. o \in HeadOutcomes
    BY DEF HeadOutcomes, Outcomes
  <2>4. Has(pr, h, o)
    BY <2>1, <2>2, <2>3 DEF Consistent
  <2>5. ASSUME KeepsResults
        PROVE  Has(pr, h, o)'
    BY <2>4, <2>5 DEF KeepsResults
  <2>6. ASSUME NEW p \in PRs, NEW a \in Heads, NEW b \in HeadOutcomes,
               HistoryExpires(p, a, b),
               \A q \in PRs, g \in Heads, x \in {"published", "declined"} :
                 Has(q, g, x) => Has(q, g, x)' \/ (q = p /\ g = a)
        PROVE  Has(pr, h, o)'
    <3>1. ~(pr = p /\ h = a)
      BY <2>1, <2>6
    <3>2. QED
      BY <2>4, <2>6, <3>1
  <2>7. Has(pr, h, o)'
    BY <2>1, <2>5, <2>6, AgreeingStep
  <2>8. Result(pr, h)' = o
    BY <2>1, <2>3, <2>7 DEF Consistent
  <2>9. QED
    BY <2>2, <2>8
<1>2. QED
  BY <1>1, <1>c, AlwaysTyped, AlwaysAgreeing, PTL DEF Spec, ReviewedStaysReviewed


-----------------------------------------------------------------------------
(* A queued check never hides a review                                     *)

\* Some drainer may still post the queued check of the record's head.
Claimed(j) ==
  /\ j.head \in CheckHeads(j)
  /\ j.checks[j.head].wlive /\ ~j.checks[j.head].published
\* No drainer holds a check of the record.
Idle(j) == \A h \in CheckHeads(j) : ~j.checks[h].wlive
Ended == {"published", "deadline"}

\* The record keeps its head; a claim is not new and an id is not forgotten.
Calm(j, v) ==
  /\ v.pr = j.pr /\ v.mode = j.mode /\ v.head = j.head
  /\ \A h \in CheckHeads(v) :
       v.checks[h].wlive => h \in CheckHeads(j) /\ j.checks[h].wlive
  /\ j.head \in CheckHeads(j) =>
       /\ j.head \in CheckHeads(v)
       /\ j.checks[j.head].published => v.checks[j.head].published
SameOwner(j, v) ==
  v.owner # None => v.owner = j.owner /\ v.id = j.id /\ v.gen = j.gen
\* A record is calm, or one that no worker owns and no drainer works on.
Settles ==
  \A k \in Ids : jobs'[k] # None =>
    \/ jobs[k] # None /\ Calm(jobs[k], jobs'[k]) /\ SameOwner(jobs[k], jobs'[k])
    \/ Idle(jobs'[k]) /\ jobs'[k].owner = None

\* Checks of other heads are idle: a head that returns brings no claim back.
QuietApart ==
  \A k \in Unfinished : \A h \in CheckHeads(jobs[k]) :
    h # jobs[k].head => ~jobs[k].checks[h].wlive

LEMMA OneSettles ==
  ASSUME Typed, NEW k \in Ids, NEW v, jobs' = [jobs EXCEPT ![k] = v],
         v # None => \/ jobs[k] # None /\ Calm(jobs[k], v) /\ SameOwner(jobs[k], v)
                     \/ Idle(v) /\ v.owner = None
  PROVE  Settles
<1>1. jobs'[k] = v /\ \A x \in Ids : x # k => jobs'[x] = jobs[x]
  BY DEF Typed, TypeOK
<1>2. \A j : Calm(j, j) /\ SameOwner(j, j)
  BY DEF Calm, SameOwner
<1>3. QED
  BY <1>1, <1>2 DEF Settles

LEMMA SameSettles ==
  ASSUME UNCHANGED jobs
  PROVE  Settles
<1>1. \A j : Calm(j, j) /\ SameOwner(j, j)
  BY DEF Calm, SameOwner
<1>2. QED
  BY <1>1 DEF Settles

LEMMA FieldsSettle ==
  ASSUME Typed, NEW k \in Ids, jobs[k] # None, NEW v,
         jobs' = [jobs EXCEPT ![k] = v],
         v.pr = jobs[k].pr, v.mode = jobs[k].mode, v.head = jobs[k].head,
         v.checks = jobs[k].checks, SameOwner(jobs[k], v)
  PROVE  Settles
<1>1. CheckHeads(v) = CheckHeads(jobs[k])
  BY DEF CheckHeads, HasCheck
<1>2. Calm(jobs[k], v)
  BY <1>1 DEF Calm
<1>3. QED
  BY <1>2, OneSettles

\* Rewriting a check that exists, without claiming it.
LEMMA CheckSettles ==
  ASSUME Typed, NEW k \in Ids, jobs[k] # None, NEW h \in Heads,
         HasCheck(jobs[k], h), NEW c \in Check,
         c.wlive => jobs[k].checks[h].wlive,
         jobs[k].checks[h].published => c.published,
         jobs' = [jobs EXCEPT ![k] =
           [jobs[k] EXCEPT !.checks = [jobs[k].checks EXCEPT ![h] = c]]]
  PROVE  Settles
<1> DEFINE j == jobs[k]
           x == [j.checks EXCEPT ![h] = c]
           v == [j EXCEPT !.checks = x]
<1>1. j \in Job /\ j.checks \in [Heads -> Check \cup {None}]
  BY DEF Typed, TypeOK, Job
<1>2. c # None
  BY NoneIsNoRecord
<1>3. v.checks = x /\ \A y \in Heads : x[y] = IF y = h THEN c ELSE j.checks[y]
  BY <1>1 DEF Job
<1>4. /\ v.pr = j.pr /\ v.mode = j.mode /\ v.head = j.head
      /\ v.owner = j.owner /\ v.id = j.id /\ v.gen = j.gen
  BY <1>1 DEF Job
<1>5. jobs' = [jobs EXCEPT ![k] = v]
  OBVIOUS
<1> HIDE DEF v, x
<1>6. CheckHeads(v) = CheckHeads(j)
  BY <1>2, <1>3 DEF CheckHeads, HasCheck
<1>7. Calm(j, v)
  BY <1>3, <1>4, <1>6 DEF Calm, CheckHeads
<1>8. SameOwner(j, v)
  BY <1>4 DEF SameOwner
<1>9. QED
  BY <1>5, <1>7, <1>8, OneSettles

LEMMA StageSettles ==
  ASSUME Typed, NEW w \in Workers, OwnsLive(w), OwnCheck(w),
         NEW stage \in Stages, jobs' = SetStage(w, stage)
  PROVE  Settles
<1> DEFINE k == held[w].key
           j == jobs[k]
           c == [j.checks[j.head] EXCEPT !.stage = stage]
<1>1. k \in Ids /\ j \in Job /\ j # None
  BY OwnedType DEF OwnsLive
<1>2. j.head \in Heads /\ j.checks[j.head] \in Check /\ HasCheck(j, j.head)
  BY <1>1 DEF OwnCheck, HasCheck, Job
<1> DEFINE h == j.head
<1>3. /\ c \in Check /\ (c.wlive => j.checks[h].wlive)
      /\ (j.checks[h].published => c.published)
  BY <1>2 DEF Check
<1>4. jobs' = [jobs EXCEPT ![k] =
                 [j EXCEPT !.checks = [j.checks EXCEPT ![h] = c]]]
  BY DEF SetStage
<1>5. h \in Heads /\ HasCheck(j, h)
  BY <1>2
<1> HIDE DEF c, h
<1>6. QED
  BY <1>1, <1>3, <1>4, <1>5, CheckSettles

LEMMA ChargeSettles ==
  ASSUME Typed, NEW w \in Workers, BeginPaid(w) \/ RefundPaid(w)
  PROVE  Settles
<1> DEFINE k == held[w].key
           j == jobs[k]
<1>1. held[w] \in Handle /\ k \in Ids /\ jobs \in [Ids -> Job \cup {None}]
  BY DEF BeginPaid, RefundPaid, OwnsLive, Owns, Typed, TypeOK, Handle
<1>2. CASE ~ UNCHANGED jobs
  <2>1. /\ j # None
        /\ \/ jobs' = [jobs EXCEPT ![k].paid = @ + 1]
           \/ jobs' = [jobs EXCEPT ![k].paid = @ - 1, ![k].refunds = @ + 1]
    BY <1>2 DEF BeginPaid, RefundPaid, Refundable, OwnsLive, Owns
  <2>2. j \in Job
    BY <1>1, <2>1
  <2>3. PICK p, q : jobs' = [jobs EXCEPT ![k] = [j EXCEPT !.paid = p, !.refunds = q]]
    <3>1. CASE jobs' = [jobs EXCEPT ![k].paid = @ + 1]
      <4>1. jobs' = [jobs EXCEPT ![k] =
                      [j EXCEPT !.paid = j.paid + 1, !.refunds = j.refunds]]
        BY <1>1, <2>2, <3>1 DEF Job
      <4>2. QED
        BY <4>1
    <3>2. CASE jobs' = [jobs EXCEPT ![k].paid = @ - 1, ![k].refunds = @ + 1]
      <4>1. jobs' = [jobs EXCEPT ![k] =
                      [j EXCEPT !.paid = j.paid - 1, !.refunds = j.refunds + 1]]
        BY <1>1, <2>2, <3>2 DEF Job
      <4>2. QED
        BY <4>1
    <3>3. QED
      BY <2>1, <3>1, <3>2
  <2> DEFINE v == [j EXCEPT !.paid = p, !.refunds = q]
  <2>4. /\ v.pr = j.pr /\ v.mode = j.mode /\ v.head = j.head
        /\ v.checks = j.checks /\ v.owner = j.owner /\ v.id = j.id
        /\ v.gen = j.gen
    BY <2>2 DEF Job
  <2>5. jobs' = [jobs EXCEPT ![k] = v]
    BY <2>3
  <2> HIDE DEF v
  <2>6. QED
    BY <1>1, <2>1, <2>4, <2>5, FieldsSettle DEF SameOwner
<1>3. QED
  BY <1>2, SameSettles

\* A record goes back to the queue on the head the hint names.
LEMMA ReleaseSettles ==
  ASSUME Typed, QuietApart, NEW w \in Workers,
         FinishYield(w) \/ DeferYield(w) \/ Defer(w)
  PROVE  Settles
<1> DEFINE k == held[w].key
           j == jobs[k]
           r == Released(j, j.hint)
<1>1. k \in Ids /\ j \in Job /\ j # None
  BY OwnedType DEF FinishYield, DeferYield, Defer, Concluded, OwnsLive
<1>2. /\ r.pr = j.pr /\ r.mode = j.mode /\ r.head = j.hint
      /\ r.owner = None /\ r.checks = Kept(j, j.hint) /\ r \in Job
  <2>1. r \in Job
    BY <1>1, ReleasedType, ZenonT(30) DEF Job
  <2>2. QED
    BY <1>1, <2>1 DEF Released, Job
<1> HIDE DEF r
<1>3. ASSUME NEW v, v.pr = j.pr, v.mode = j.mode, v.head = j.hint,
             v.owner = None, v.checks = Kept(j, j.hint),
             jobs' = [jobs EXCEPT ![k] = v]
      PROVE  Settles
  <2>1. CheckHeads(v) = CheckHeads(j) \cap {j.hint}
    BY <1>1, <1>3, KeptHeads
  <2>2. \A h \in CheckHeads(v) : v.checks[h] = j.checks[h] /\ h = j.hint
    BY <1>3, <2>1 DEF Kept, CheckHeads
  <2>3. CASE j.hint = j.head
    <3>1. Calm(j, v)
      BY <1>3, <2>1, <2>2, <2>3 DEF Calm
    <3>2. QED
      BY <1>1, <1>3, <3>1, OneSettles DEF SameOwner
  <2>4. CASE j.hint # j.head
    <3>1. \A h \in CheckHeads(j) : h # j.head => ~j.checks[h].wlive
      BY <1>1 DEF QuietApart, Unfinished
    <3>2. Idle(v)
      BY <2>1, <2>2, <2>4, <3>1 DEF Idle
    <3>3. QED
      BY <1>1, <1>3, <3>2, OneSettles
  <2>5. QED
    BY <2>3, <2>4
<1>4. CASE FinishYield(w) \/ DeferYield(w)
  <2>1. jobs' = [jobs EXCEPT ![k] = r]
    BY <1>4 DEF FinishYield, DeferYield, r
  <2>2. QED
    BY <1>2, <1>3, <2>1
<1>5. CASE Defer(w)
  <2> DEFINE ready == held[w].verdict # "defer_later"
             v1 == [r EXCEPT !.ready = ready]
             v2 == [j EXCEPT !.owner = None, !.live = FALSE, !.ready = ready]
  <2>1. CASE j.yield
    <3>1. jobs' = [jobs EXCEPT ![k] = v1]
      BY <1>5, <2>1 DEF Defer, r
    <3>2. /\ v1.pr = j.pr /\ v1.mode = j.mode /\ v1.head = j.hint
          /\ v1.owner = None /\ v1.checks = Kept(j, j.hint)
      BY <1>2 DEF Job
    <3> HIDE DEF v1
    <3>3. QED
      BY <1>3, <3>1, <3>2
  <2>2. CASE ~j.yield
    <3>1. jobs' = [jobs EXCEPT ![k] = v2]
      BY <1>5, <2>2 DEF Defer
    <3>2. /\ v2.pr = j.pr /\ v2.mode = j.mode /\ v2.head = j.head
          /\ v2.checks = j.checks /\ v2.owner = None
      BY <1>1 DEF Job
    <3> HIDE DEF v2
    <3>3. QED
      BY <1>1, <3>1, <3>2, FieldsSettle DEF SameOwner
  <2>3. QED
    BY <2>1, <2>2
<1>6. QED
  BY <1>4, <1>5

\* The worker steps but a claim and a reconciliation.
LEMMA WorkerSettles ==
  ASSUME Typed, QuietApart, NEW w \in Workers, WorkerStep(w), ~ClaimNext(w),
         ~\E h \in Heads : Reconcile(w, h)
  PROVE  Settles
<1>1. CASE Renew(w)
  <2> DEFINE k == held[w].key
             v == [jobs[k] EXCEPT !.live = TRUE]
  <2>1. k \in Ids /\ jobs[k] \in Job /\ jobs[k] # None
    BY <1>1, OwnedType DEF Renew, OwnsLive
  <2>2. /\ v.pr = jobs[k].pr /\ v.mode = jobs[k].mode
        /\ v.head = jobs[k].head /\ v.checks = jobs[k].checks
        /\ v.owner = jobs[k].owner /\ v.id = jobs[k].id /\ v.gen = jobs[k].gen
    BY <2>1 DEF Job
  <2>3. jobs' = [jobs EXCEPT ![k] = v]
    BY <1>1 DEF Renew
  <2> HIDE DEF v
  <2>4. QED
    BY <2>1, <2>2, <2>3, FieldsSettle DEF SameOwner
<1>2. CASE StartCheck(w)
  BY <1>2, StageSettles DEF StartCheck, Stages
<1>3. ASSUME NEW v \in Verdicts, NEW closed \in BOOLEAN, Conclude(w, v, closed)
      PROVE  Settles
  <2>1. CASE closed
    <3>1. OwnsLive(w) /\ OwnCheck(w) /\ jobs' = SetStage(w, "completed")
      BY <1>3, <2>1 DEF Conclude
    <3>2. QED
      BY <3>1, StageSettles DEF Stages
  <2>2. CASE ~closed
    BY <1>3, <2>2, SameSettles DEF Conclude
  <2>3. QED
    BY <2>1, <2>2
<1>4. CASE Finish(w)
  <2>1. held[w].key \in Ids
    BY <1>4, OwnedType DEF Finish, Concluded, OwnsLive
  <2>2. jobs' = [jobs EXCEPT ![held[w].key] = None]
    BY <1>4 DEF Finish
  <2>3. QED
    BY <2>1, <2>2, OneSettles
<1>5. CASE \/ \E h \in Heads : ReconcileDeferred(w, h) \/ ConfirmRefused(w, h)
           \/ BeginPaidExhausted(w) \/ Dispatch(w) \/ Retry(w) \/ Publish(w)
           \/ Drop(w)
  <2>1. UNCHANGED jobs
    BY <1>5 DEF ReconcileDeferred, ConfirmRefused, BeginPaidExhausted, Dispatch,
       Retry, Publish, Drop, sched
  <2>2. QED
    BY <2>1, SameSettles
<1>6. QED
  BY <1>1, <1>2, <1>3, <1>4, <1>5, ChargeSettles, ReleaseSettles DEF WorkerStep

\* The drainer steps but a claim of a queued check.
LEMMA DrainerSettles ==
  ASSUME Typed, QuietApart, NEW d \in Drainers, DrainerStep(d), ~ClaimCheck(d)
  PROVE  Settles
<1>1. CASE ClaimMetadata(d)
  <2>1. PICK k \in Unfinished :
          jobs' = [jobs EXCEPT ![k].mgen = @ + 1, ![k].mlive = TRUE]
    BY <1>1 DEF ClaimMetadata
  <2> DEFINE j == jobs[k]
             v == [j EXCEPT !.mgen = j.mgen + 1, !.mlive = TRUE]
  <2>2. k \in Ids /\ j # None /\ j \in Job
    BY DEF Unfinished, Typed, TypeOK
  <2>3. jobs' = [jobs EXCEPT ![k] = v]
    BY <2>1, <2>2 DEF Typed, TypeOK
  <2>4. /\ v.pr = j.pr /\ v.mode = j.mode /\ v.head = j.head
        /\ v.checks = j.checks /\ v.owner = j.owner /\ v.id = j.id
        /\ v.gen = j.gen
    BY <2>2 DEF Job
  <2> HIDE DEF v
  <2>5. QED
    BY <2>2, <2>3, <2>4, FieldsSettle DEF SameOwner
<1>2. CASE ResolveClosed(d)
  BY <1>2, MetaClaimType, OneSettles DEF ResolveClosed
<1>3. ASSUME NEW h \in Heads, ResolveOpen(d, h)
      PROVE  Settles
  <2> DEFINE k == drain[d].key
             j == jobs[k]
             c == IF HasCheck(j, h) THEN j.checks[h] ELSE NewCheck(j.id, h, None)
             x == [j.checks EXCEPT ![h] = c]
             v == [j EXCEPT !.head = h, !.hint = h, !.meta = FALSE,
                            !.mlive = FALSE, !.checks = x]
  <2>1. k \in Ids /\ j # None /\ j \in Job /\ j.owner = None /\ j.head = NoHead
    BY <1>3, MetaClaimType DEF ResolveOpen, MetadataCurrent, Typed, TypeOK
  <2>2. jobs' = [jobs EXCEPT ![k] = v]
    BY <1>3, <2>1 DEF ResolveOpen, Job
  <2>3. \A y \in CheckHeads(j) : ~j.checks[y].wlive
    BY <2>1, ConstantsAssumption
       DEF QuietApart, Unfinished, CheckHeads, ConstantsAssumption
  <2>4. ~c.wlive
    BY <2>3 DEF CheckHeads, NewCheck
  <2> HIDE DEF c
  <2>5. \A y \in Heads : x[y] = IF y = h THEN c ELSE j.checks[y]
    BY <2>1 DEF Job
  <2> HIDE DEF x
  <2>6. v.checks = x /\ v.owner = None
    BY <2>1 DEF Job
  <2> HIDE DEF v
  <2>7. Idle(v)
    BY <2>3, <2>4, <2>5, <2>6 DEF Idle, CheckHeads, HasCheck
  <2>8. QED
    BY <2>1, <2>2, <2>6, <2>7, OneSettles
<1>4. CASE MarkPostAttempted(d) \/ RecordCheckId(d)
  <2> DEFINE h == drain[d].head
  <2>1. PICK k \in Ids :
          /\ DrainsActive(d) /\ ActiveCurrent(drain[d], k)
          /\ \/ jobs' = [jobs EXCEPT ![k].checks[h].attempted = TRUE]
             \/ jobs' = [jobs EXCEPT ![k].checks[h] =
                           [@ EXCEPT !.published = TRUE, !.wlive = FALSE]]
    BY <1>4 DEF MarkPostAttempted, RecordCheckId
  <2> DEFINE c == jobs[k].checks[h]
             c1 == [c EXCEPT !.attempted = TRUE]
             c2 == [c EXCEPT !.published = TRUE, !.wlive = FALSE]
  <2>2. jobs[k] # None /\ h \in Heads /\ c \in Check
    BY <2>1, ActiveCheckType
  <2>3. c1 \in Check /\ c2 \in Check /\ HasCheck(jobs[k], h)
    BY <2>1, <2>2, CheckFieldsType DEF ActiveCurrent
  <2>4. /\ c1.wlive = c.wlive /\ c1.published = c.published
        /\ ~c2.wlive /\ c2.published
    BY <2>2 DEF Check
  <2>5. \/ jobs' = [jobs EXCEPT ![k] =
             [jobs[k] EXCEPT !.checks = [jobs[k].checks EXCEPT ![h] = c1]]]
        \/ jobs' = [jobs EXCEPT ![k] =
             [jobs[k] EXCEPT !.checks = [jobs[k].checks EXCEPT ![h] = c2]]]
    BY <2>1
  <2> HIDE DEF c1, c2, h
  <2>6. QED
    BY <2>2, <2>3, <2>4, <2>5, CheckSettles
<1>5. CASE \/ ClaimRetired(d) \/ RecordRetiredId(d) \/ CompleteRetired(d)
           \/ Abandon(d)
  BY <1>5, SameSettles
     DEF ClaimRetired, RecordRetiredId, CompleteRetired, Abandon, sched
<1>6. QED
  BY <1>1, <1>2, <1>3, <1>4, <1>5 DEF DrainerStep

LEMMA TimeSettles ==
  ASSUME Typed, TimePasses
  PROVE  Settles
<1>1. ASSUME NEW k \in Ids,
             LeaseLapses(k) \/ BackoffEnds(k) \/ MetadataClaimLapses(k)
      PROVE  Settles
  <2> DEFINE j == jobs[k]
             v1 == [j EXCEPT !.live = FALSE]
             v2 == [j EXCEPT !.ready = TRUE]
             v3 == [j EXCEPT !.mlive = FALSE]
  <2>1. j # None /\ j \in Job
    BY <1>1 DEF LeaseLapses, BackoffEnds, MetadataClaimLapses, Typed, TypeOK
  <2>2. PICK v \in {v1, v2, v3} : jobs' = [jobs EXCEPT ![k] = v]
    BY <1>1 DEF LeaseLapses, BackoffEnds, MetadataClaimLapses
  <2>3. /\ v.pr = j.pr /\ v.mode = j.mode /\ v.head = j.head
        /\ v.checks = j.checks /\ v.owner = j.owner /\ v.id = j.id
        /\ v.gen = j.gen
    BY <2>1 DEF Job
  <2>4. QED
    BY <2>1, <2>2, <2>3, FieldsSettle DEF SameOwner
<1>2. ASSUME NEW k \in Ids, NEW h \in Heads, CheckClaimLapses(k, h)
      PROVE  Settles
  <2> DEFINE c == [jobs[k].checks[h] EXCEPT !.wlive = FALSE]
  <2>1. jobs[k] # None /\ HasCheck(jobs[k], h) /\ jobs[k].checks[h] \in Check
    BY <1>2 DEF CheckClaimLapses, HasCheck, Job, Typed, TypeOK
  <2>2. c \in Check /\ ~c.wlive /\ c.published = jobs[k].checks[h].published
    <3>1. \A d \in Check : /\ [d EXCEPT !.wlive = FALSE] \in Check
                          /\ ~[d EXCEPT !.wlive = FALSE].wlive
                          /\ [d EXCEPT !.wlive = FALSE].published = d.published
      BY DEF Check
    <3>2. QED
      BY <2>1, <3>1
  <2>3. jobs' = [jobs EXCEPT ![k] =
          [jobs[k] EXCEPT !.checks = [jobs[k].checks EXCEPT ![h] = c]]]
    BY <1>2 DEF CheckClaimLapses
  <2> HIDE DEF c
  <2>4. QED
    BY <2>1, <2>2, <2>3, CheckSettles
<1>3. QED
  BY <1>1, <1>2, SameSettles
     DEF TimePasses, TombstoneExpires, RetiredClaimLapses, HistoryExpires

\* Deliveries: a fresh record is idle, and so is one that changes its head.
LEMMA AdmitSettles ==
  ASSUME Typed, QuietApart, Admit
  PROVE  Settles
<1>1. \A q \in RequestRec : Idle(NewJob(q)) /\ NewJob(q).owner = None
  <2>1. \A q \in RequestRec : \A h \in CheckHeads(NewJob(q)) :
          NewJob(q).checks[h] = NewCheck(q.id, h, None)
    BY DEF NewJob, CheckHeads, HasCheck
  <2>2. \A id, h : ~NewCheck(id, h, None).wlive
    BY DEF NewCheck
  <2>3. QED
    BY <2>1, <2>2, NewJobType DEF Idle
<1>2. ASSUME NEW r \in Requests, AdmitNew(r)
      PROVE  Settles
  <2>1. r \in RequestRec /\ r.id \in Ids /\ jobs' = [jobs EXCEPT ![r.id] = NewJob(r)]
    BY <1>2, ConstantsAssumption DEF ConstantsAssumption, RequestRec, AdmitNew
  <2>2. QED
    BY <1>1, <2>1, OneSettles
<1>3. ASSUME NEW batch \in Batches, AdmitManual(batch)
      PROVE  Settles
  <2> DEFINE new == {batch[i].id : i \in DOMAIN batch}
             at(k) == CHOOSE i \in DOMAIN batch : batch[i].id = k
  <2>1. \A i \in DOMAIN batch : batch[i] \in RequestRec
    BY BatchType
  <2>2. jobs' = [k \in Ids |-> IF k \in new THEN NewJob(batch[at(k)]) ELSE jobs[k]]
    BY <1>3 DEF AdmitManual
  <2>3. \A k \in new : at(k) \in DOMAIN batch
    OBVIOUS
  <2> HIDE DEF new, at
  <2>4. ASSUME NEW k \in Ids
        PROVE  jobs'[k] = jobs[k] \/ (Idle(jobs'[k]) /\ jobs'[k].owner = None)
    BY <1>1, <2>1, <2>2, <2>3
  <2>5. \A j : Calm(j, j) /\ SameOwner(j, j)
    BY DEF Calm, SameOwner
  <2>6. QED
    BY <2>4, <2>5 DEF Settles
<1>4. ASSUME NEW r \in Requests, AdmitCoalesced(r)
      PROVE  Settles
  <2> DEFINE k == CHOOSE x \in PendingFor(r.pr) : TRUE
             j == jobs[k]
             headless == r.head = NoHead /\ j.head # NoHead
             v == IF headless THEN [j EXCEPT !.ids = j.ids \cup {r.id}]
                  ELSE Joined(j, r)
  <2>1. jobs' = [jobs EXCEPT ![k] = v]
    BY <1>4 DEF AdmitCoalesced
  <2>2. k \in Ids /\ k \in Unfinished /\ j # None /\ j \in Job
    <3>1. k \in PendingFor(r.pr)
      BY <1>4 DEF AdmitCoalesced
    <3>2. QED
      BY <3>1 DEF PendingFor, Unfinished, Typed, TypeOK
  <2> HIDE DEF k
  <2>3. CASE headless
    <3>1. /\ v.pr = j.pr /\ v.mode = j.mode /\ v.head = j.head
          /\ v.checks = j.checks /\ v.owner = j.owner /\ v.id = j.id
          /\ v.gen = j.gen
      BY <2>2, <2>3 DEF Job
    <3> HIDE DEF v
    <3>2. QED
      BY <2>1, <2>2, <3>1, FieldsSettle DEF SameOwner
  <2>4. CASE ~headless
    <3> DEFINE checked == [h \in Heads |->
                             IF h = r.head /\ ~HasCheck(j, h)
                             THEN NewCheck(r.id, h, None) ELSE j.checks[h]]
    <3>1. v = Joined(j, r)
      BY <2>4
    <3>2. \A h \in Heads : /\ HasCheck(j, h) => checked[h] = j.checks[h]
                           /\ ~HasCheck(j, h) /\ checked[h] # None =>
                                ~checked[h].wlive
      BY DEF NewCheck, HasCheck
    <3>3. CASE j.owner # None
      <4>1. /\ v.pr = j.pr /\ v.mode = j.mode /\ v.head = j.head
            /\ v.checks = checked /\ v.owner = j.owner /\ v.id = j.id
            /\ v.gen = j.gen
        BY <2>2, <3>1, <3>3 DEF Joined, Job
      <4> HIDE DEF checked, v
      <4>2. Calm(j, v)
        BY <3>2, <4>1 DEF Calm, CheckHeads, HasCheck
      <4>3. QED
        BY <2>1, <2>2, <4>1, <4>2, OneSettles DEF SameOwner
    <3>4. CASE j.owner = None
      <4>1. /\ v.pr = j.pr /\ v.mode = j.mode /\ v.head = r.head
            /\ v.owner = None
            /\ v.checks = IF j.head # r.head
                          THEN [h \in Heads |-> IF h = r.head THEN checked[h] ELSE None]
                          ELSE checked
        BY <2>2, <3>1, <3>4 DEF Joined, Job, Kept
      <4> HIDE DEF checked, v
      <4>2. CASE j.head = r.head
        <5>1. Calm(j, v)
          BY <3>2, <4>1, <4>2 DEF Calm, CheckHeads, HasCheck
        <5>2. QED
          BY <2>1, <2>2, <4>1, <5>1, OneSettles DEF SameOwner
      <4>3. CASE j.head # r.head
        <5>1. \A h \in CheckHeads(v) : h = r.head /\ v.checks[h] = checked[h]
                                       /\ checked[h] # None /\ h \in Heads
          BY <4>1, <4>3 DEF CheckHeads, HasCheck
        <5>2. \A h \in CheckHeads(j) : h # j.head => ~j.checks[h].wlive
          BY <2>2 DEF QuietApart
        <5>3. Idle(v)
          BY <3>2, <4>3, <5>1, <5>2 DEF Idle, CheckHeads
        <5>4. QED
          BY <2>1, <2>2, <4>1, <5>3, OneSettles
      <4>4. QED
        BY <4>2, <4>3
    <3>5. QED
      BY <3>3, <3>4
  <2>5. QED
    BY <2>3, <2>4
<1>5. QED
  BY <1>2, <1>3, <1>4 DEF Admit

\* A claim of a record stamps its check, if it has one.
LEMMA ClaimCalm ==
  ASSUME Typed, NEW w \in Workers, ClaimNext(w)
  PROVE  \E k \in Ids :
           /\ \A x \in Ids : /\ x # k => jobs'[x] = jobs[x]
                             /\ jobs'[x] # None =>
                                  jobs[x] # None /\ Calm(jobs[x], jobs'[x])
           /\ \A v \in Workers : v # w => held'[v] = held[v]
           /\ held'[w].phase = "claimed"
           /\ held'[w].key = k /\ Owns(w)'
<1>1. PICK i \in DOMAIN queue :
        LET k == queue[i]
            j == jobs[k]
            g == NextGeneration(j)
        IN
        /\ jobs' = [jobs EXCEPT ![k] =
             StampCheck([j EXCEPT !.gen = g, !.owner = OwnerOf[w], !.live = TRUE],
                        j.head, g)]
        /\ held' = [held EXCEPT ![w] =
             [key |-> k, id |-> j.id, owner |-> OwnerOf[w], gen |-> g,
              phase |-> "claimed", charge |-> None, verdict |-> None,
              wrote |-> NoHead]]
  BY DEF ClaimNext
<1> DEFINE k == queue[i]
           j == jobs[k]
           g == NextGeneration(j)
           own == [j EXCEPT !.gen = g, !.owner = OwnerOf[w], !.live = TRUE]
           v == StampCheck(own, j.head, g)
           n == [key |-> k, id |-> j.id, owner |-> OwnerOf[w], gen |-> g,
                 phase |-> "claimed", charge |-> None, verdict |-> None,
                 wrote |-> NoHead]
<1>2. k \in Ids /\ j # None /\ j \in Job
  BY DEF Typed, TypeOK, Listed
<1>3. g \in Nat /\ OwnerOf[w] \in Owners /\ j.head \in Heads \cup {NoHead}
  BY <1>2, ConstantsAssumption DEF NextGeneration, Job, ConstantsAssumption
<1>4. /\ own \in Job /\ own.pr = j.pr /\ own.mode = j.mode /\ own.head = j.head
      /\ own.checks = j.checks /\ own.id = j.id /\ own.owner = OwnerOf[w]
      /\ own.gen = g
  BY <1>2, <1>3 DEF Job
<1>5. jobs' = [jobs EXCEPT ![k] = v] /\ held' = [held EXCEPT ![w] = n]
  BY <1>1
<1>6. held'[w] = n /\ \A x \in Workers : x # w => held'[x] = held[x]
  BY <1>5 DEF Typed, TypeOK
<1> HIDE DEF k, g, own
<1>7. v \in Job /\ v = [own EXCEPT !.checks = v.checks]
  BY <1>3, <1>4, StampCheckType
<1>8. \A h \in Heads :
        /\ v.checks[h] = None <=> own.checks[h] = None
        /\ own.checks[h] # None =>
             /\ v.checks[h].wlive = own.checks[h].wlive
             /\ v.checks[h].published = own.checks[h].published
  <2>1. CASE j.head # NoHead /\ HasCheck(own, j.head)
    <3> DEFINE c == [own.checks[j.head] EXCEPT !.gen = g]
    <3>1. v = [own EXCEPT !.checks[j.head].gen = g]
      BY <2>1 DEF StampCheck
    <3>2. j.head \in Heads /\ own.checks \in [Heads -> Check \cup {None}]
          /\ own.checks[j.head] \in Check
      BY <2>1, <1>3, <1>4 DEF Job, HasCheck
    <3>3. c \in Check /\ c.wlive = own.checks[j.head].wlive
          /\ c.published = own.checks[j.head].published
      BY <3>2, <1>3 DEF Check
    <3>4. c # None
      BY <3>3, NoneIsNoRecord
    <3>5. v.checks = [own.checks EXCEPT ![j.head] = c]
      BY <3>1, <1>4 DEF Job
    <3> HIDE DEF c, v
    <3>6. \A y \in Heads : v.checks[y] = IF y = j.head THEN c ELSE own.checks[y]
      BY <3>2, <3>5
    <3>7. QED
      BY <2>1, <3>3, <3>4, <3>6 DEF HasCheck
  <2>2. CASE ~(j.head # NoHead /\ HasCheck(own, j.head))
    BY <2>2 DEF StampCheck
  <2>3. QED
    BY <2>1, <2>2
<1> HIDE DEF v
<1>9. /\ v.pr = j.pr /\ v.mode = j.mode /\ v.head = j.head /\ v.id = j.id
      /\ v.owner = OwnerOf[w] /\ v.gen = g
  BY <1>4, <1>7 DEF Job
<1>10. Calm(j, v)
  BY <1>4, <1>8, <1>9 DEF Calm, CheckHeads, HasCheck
<1>11. jobs'[k] = v /\ \A x \in Ids : x # k => jobs'[x] = jobs[x]
  BY <1>2, <1>5 DEF Typed, TypeOK, k
<1>12. \A x : Calm(x, x)
  BY DEF Calm
<1>13. /\ n.key = k /\ n.id = j.id /\ n.owner = OwnerOf[w] /\ n.gen = g
       /\ n.phase = "claimed"
  BY DEF k
<1>14. n # None
  <2>1. n \in Handle
    BY <1>2, <1>3 DEF Handle, Phases, Job, k
  <2>2. QED
    BY <2>1, NoneIsNoRecord
<1>15. Owns(w)'
  BY <1>6, <1>7, <1>9, <1>11, <1>13, <1>14, NoneIsNoRecord DEF Owns
<1>16. QED
  BY <1>2, <1>6, <1>10, <1>11, <1>12, <1>13, <1>15 DEF k

\* A reconciled record keeps the check of its live head as it is, or has a
\* fresh one.
LEMMA ReconciledChecks ==
  ASSUME NEW j \in Job, NEW h \in Heads, NEW done, NEW g \in Nat
  PROVE  LET v == Reconciled(j, h, done, g) IN
         /\ v.head = h /\ v.id = j.id
         /\ CheckHeads(v) \subseteq {h}
         /\ HasCheck(j, h) =>
              /\ h \in CheckHeads(v)
              /\ v.checks[h].wlive = j.checks[h].wlive
              /\ v.checks[h].published = j.checks[h].published
         /\ ~HasCheck(j, h) => Idle(v)
<1> DEFINE kept == [j EXCEPT !.head = h, !.checks = Kept(j, h)]
           v == Reconciled(j, h, done, g)
<1>1. kept \in Job
  BY KeptType DEF Job
<1>2. /\ kept.checks = Kept(j, h) /\ kept.head = h /\ kept.id = j.id
      /\ kept.checks \in [Heads -> Check \cup {None}]
  <2>1. kept.checks = Kept(j, h) /\ kept.head = h /\ kept.id = j.id
    BY DEF Job
  <2> HIDE DEF kept
  <2>2. QED
    BY <1>1, <2>1 DEF Job
<1> HIDE DEF kept
<1>3. \A y \in Heads : kept.checks[y] = IF y = h THEN j.checks[y] ELSE None
  BY <1>2 DEF Kept
<1>4. CASE v = kept
  BY <1>2, <1>3, <1>4 DEF CheckHeads, HasCheck, Idle
<1>5. CASE v = StampCheck(kept, h, g) /\ HasCheck(j, h)
  <2> DEFINE c == [kept.checks[h] EXCEPT !.gen = g]
  <2>1. h # NoHead /\ HasCheck(kept, h)
    BY <1>3, <1>5, ConstantsAssumption DEF ConstantsAssumption, HasCheck
  <2>2. v = [kept EXCEPT !.checks = [kept.checks EXCEPT ![h] = c]]
    BY <1>5, <2>1 DEF StampCheck
  <2>3. kept.checks[h] \in Check
    BY <1>2, <2>1 DEF HasCheck
  <2>4. c \in Check /\ c.wlive = kept.checks[h].wlive
        /\ c.published = kept.checks[h].published
    BY <2>3 DEF Check
  <2>5. c # None
    BY <2>4, NoneIsNoRecord
  <2> HIDE DEF c, v
  <2>6. v.head = h /\ v.id = j.id /\ v.checks = [kept.checks EXCEPT ![h] = c]
    BY <1>1, <1>2, <2>2 DEF Job
  <2>7. \A y \in Heads : v.checks[y] = IF y = h THEN c ELSE None
    BY <1>2, <1>3, <2>6
  <2>8. QED
    BY <1>3, <1>5, <2>4, <2>5, <2>6, <2>7 DEF CheckHeads, HasCheck, v
<1>6. CASE /\ v = [kept EXCEPT !.spare = FALSE, !.checks[h] = NewCheck(j.id, h, g)]
           /\ ~HasCheck(j, h)
  <2> DEFINE c == NewCheck(j.id, h, g)
  <2>1. ~c.wlive
    BY DEF NewCheck
  <2> HIDE DEF c
  <2>2. v = [kept EXCEPT !.spare = FALSE, !.checks = [kept.checks EXCEPT ![h] = c]]
    BY <1>1, <1>6 DEF Job, c
  <2> HIDE DEF v
  <2>3. v.head = h /\ v.id = j.id /\ v.checks = [kept.checks EXCEPT ![h] = c]
    BY <1>1, <1>2, <2>2 DEF Job
  <2>4. \A y \in Heads : v.checks[y] = IF y = h THEN c ELSE None
    BY <1>2, <1>3, <2>3
  <2>5. CheckHeads(v) \subseteq {h} /\ Idle(v)
    BY <2>1, <2>4 DEF CheckHeads, HasCheck, Idle
  <2>6. QED
    BY <1>6, <2>3, <2>5 DEF v
<1>7. QED
  BY <1>4, <1>5, <1>6 DEF Reconciled, kept

\* A reconciliation with another head leaves the record idle.
LEMMA ReconcileSettles ==
  ASSUME Typed, QuietApart, NEW w \in Workers, NEW h \in Heads, Reconcile(w, h)
  PROVE  LET k == held[w].key IN
         /\ OwnsLive(w) /\ k \in Ids
         /\ \A x \in Ids : x # k => jobs'[x] = jobs[x]
         /\ jobs'[k] # None
         /\ jobs'[k].pr = jobs[k].pr /\ jobs'[k].mode = jobs[k].mode
         /\ jobs'[k].owner = jobs[k].owner /\ jobs'[k].id = jobs[k].id
         /\ jobs'[k].gen = jobs[k].gen /\ jobs'[k].head = h
         /\ Calm(jobs[k], jobs'[k]) \/ Idle(jobs'[k])
         /\ \A v \in Workers : v # w => held'[v] = held[v]
         /\ held'[w].key = k /\ held'[w].phase \in {"ready", "terminal", "pending"}
         /\ held'[w].phase = "ready" =>
              h \in CheckHeads(jobs'[k]) /\ jobs'[k].checks[h].published
<1> DEFINE k == held[w].key
           j == jobs[k]
           old == heads[j.pr]
           done == IsIncremental(j) /\ (NextBudget(old, j, h).outcome # None
                                         \/ Remembered(j.pr, h) # {})
           shown == HasCheck(j, h) /\ j.checks[h].published
           s == Spent(j, old, h)
           v == Reconciled(s, h, done, held[w].gen)
<1>1. held[w] \in Handle /\ k \in Ids /\ j \in Job /\ j # None /\ OwnsLive(w)
      /\ held[w].gen \in Nat
  BY OwnedType DEF Reconcile, OwnsLive, Handle
<1>2. jobs' = [jobs EXCEPT ![k] = v] /\ Reserved(j, old, h)
      /\ held' = Become(w, IF shown THEN "ready"
                           ELSE IF done THEN "terminal" ELSE "pending")
  BY DEF Reconcile
<1>3. s \in Job /\ s = [j EXCEPT !.resv = s.resv]
  BY <1>1, <1>2, SpentType
<1>4. v \in Job /\ v.pr = j.pr /\ v.mode = j.mode /\ v.owner = j.owner
      /\ v.gen = j.gen
  <2> HIDE DEF j, old, done
  <2>1. QED
    BY <1>1, <1>2, SpentReconciledType
<1>5. s.checks = j.checks /\ s.id = j.id
  <2> HIDE DEF s, j
  <2>1. QED
    BY <1>1, <1>3 DEF Job
<1> HIDE DEF s
<1>6. HasCheck(s, h) <=> HasCheck(j, h)
  BY <1>5 DEF HasCheck
<1>7. /\ v.head = h /\ v.id = j.id /\ CheckHeads(v) \subseteq {h}
      /\ HasCheck(j, h) =>
           /\ h \in CheckHeads(v)
           /\ v.checks[h].wlive = j.checks[h].wlive
           /\ v.checks[h].published = j.checks[h].published
      /\ ~HasCheck(j, h) => Idle(v)
  <2> HIDE DEF j, k, old, done
  <2>1. /\ v.head = h /\ v.id = s.id /\ CheckHeads(v) \subseteq {h}
        /\ HasCheck(s, h) =>
             /\ h \in CheckHeads(v)
             /\ v.checks[h].wlive = s.checks[h].wlive
             /\ v.checks[h].published = s.checks[h].published
        /\ ~HasCheck(s, h) => Idle(v)
    BY <1>1, <1>3, ReconciledChecks DEF k
  <2> HIDE DEF v
  <2>2. QED
    BY <1>5, <1>6, <2>1
<1> HIDE DEF v
<1>8. jobs'[k] = v /\ \A x \in Ids : x # k => jobs'[x] = jobs[x]
  BY <1>1, <1>2 DEF Typed, TypeOK
<1>9. Calm(j, v) \/ Idle(v)
  <2>1. CASE h = j.head
    <3>1. CASE HasCheck(j, h)
      BY <1>4, <1>7, <2>1, <3>1 DEF Calm, CheckHeads
    <3>2. CASE ~HasCheck(j, h)
      BY <1>7, <3>2
    <3>3. QED
      BY <3>1, <3>2
  <2>2. CASE h # j.head /\ HasCheck(j, h)
    <3>1. ~j.checks[h].wlive
      BY <1>1, <2>2 DEF QuietApart, Unfinished, CheckHeads
    <3>2. QED
      BY <1>7, <2>2, <3>1 DEF Idle
  <2>3. QED
    BY <1>7, <2>1, <2>2
<1>10. /\ \A x \in Workers : x # w => held'[x] = held[x]
       /\ held'[w].key = k
       /\ held'[w].phase = IF shown THEN "ready"
                           ELSE IF done THEN "terminal" ELSE "pending"
  <2>1. PICK p : p = IF shown THEN "ready" ELSE IF done THEN "terminal" ELSE "pending"
    OBVIOUS
  <2>2. held' = [held EXCEPT ![w] = [held[w] EXCEPT !.phase = p]]
    BY <1>2, <2>1 DEF Become
  <2>3. [held[w] EXCEPT !.phase = p].phase = p /\ [held[w] EXCEPT !.phase = p].key = k
    BY <1>1 DEF Handle
  <2>4. held'[w] = [held[w] EXCEPT !.phase = p]
        /\ \A x \in Workers : x # w => held'[x] = held[x]
    BY <2>2 DEF Typed, TypeOK
  <2> HIDE DEF k, shown, done
  <2>5. QED
    BY <2>1, <2>3, <2>4
<1>11. held'[w].phase = "ready" => shown
  BY <1>10
<1>12. held'[w].phase \in {"ready", "terminal", "pending"}
  BY <1>10
<1>13. v # None
  BY <1>4, NoneIsNoRecord
<1>14. QED
  BY <1>1, <1>4, <1>7, <1>8, <1>9, <1>10, <1>11, <1>12, <1>13

\* A drainer claims the check of a head without a result.
LEMMA ClaimCheckOne ==
  ASSUME Typed, NEW d \in Drainers, ClaimCheck(d)
  PROVE  /\ \E k \in Ids :
              /\ \A x \in Ids : x # k => jobs'[x] = jobs[x]
              /\ jobs[k] # None /\ jobs'[k] # None /\ ~KnownTerminal(jobs[k])
              /\ jobs'[k].pr = jobs[k].pr /\ jobs'[k].mode = jobs[k].mode
              /\ jobs'[k].owner = jobs[k].owner /\ jobs'[k].id = jobs[k].id
              /\ jobs'[k].gen = jobs[k].gen /\ jobs'[k].head = jobs[k].head
              /\ CheckHeads(jobs'[k]) = CheckHeads(jobs[k])
              /\ \A h \in Heads :
                   /\ h # jobs[k].head => jobs'[k].checks[h] = jobs[k].checks[h]
                   /\ jobs'[k].checks[h].published = jobs[k].checks[h].published
         /\ UNCHANGED <<heads, history, held>>
<1>1. PICK k \in Unfinished :
        LET j == jobs[k]
            c == j.checks[j.head]
        IN /\ Drainable(j)
           /\ jobs' = [jobs EXCEPT ![k].checks[j.head] =
                         [@ EXCEPT !.wgen = c.wgen + 1, !.wlive = TRUE]]
  BY DEF ClaimCheck
<1> DEFINE j == jobs[k]
           h == j.head
           c == j.checks[h]
           n == [c EXCEPT !.wgen = c.wgen + 1, !.wlive = TRUE]
           x == [j.checks EXCEPT ![h] = n]
           v == [j EXCEPT !.checks = x]
<1>2. k \in Ids /\ j # None /\ j \in Job
  BY DEF Unfinished, Typed, TypeOK
<1>3. h \in Heads /\ c \in Check /\ HasCheck(j, h) /\ ~KnownTerminal(j)
  BY <1>1, <1>2 DEF Drainable, HasCheck, Job
<1>4. n \in Check /\ n.published = c.published
  BY <1>3, CheckFieldsType, ZenonT(30) DEF Check
<1>5. n # None
  BY <1>4, NoneIsNoRecord
<1>6. jobs' = [jobs EXCEPT ![k] = v]
  BY <1>1
<1> HIDE DEF n
<1>7. \A y \in Heads : x[y] = IF y = h THEN n ELSE j.checks[y]
  BY <1>2 DEF Job
<1>8. v \in Job
  BY <1>2, <1>3, <1>4, CheckUpdateType
<1> HIDE DEF x
<1>9. /\ v.checks = x /\ v.pr = j.pr /\ v.mode = j.mode /\ v.owner = j.owner
      /\ v.id = j.id /\ v.gen = j.gen /\ v.head = j.head
  BY <1>2 DEF Job
<1> HIDE DEF v
<1>10. v # None /\ jobs'[k] = v /\ \A y \in Ids : y # k => jobs'[y] = jobs[y]
  BY <1>2, <1>6, <1>8, NoneIsNoRecord DEF Typed, TypeOK
<1>11. CheckHeads(v) = CheckHeads(j)
  BY <1>3, <1>5, <1>7, <1>9 DEF CheckHeads, HasCheck
<1>12. UNCHANGED <<heads, history, held>>
  BY DEF ClaimCheck
<1> HIDE DEF h, j
<1>13. \A y \in Heads :
         /\ y # h => v.checks[y] = j.checks[y]
         /\ v.checks[y].published = j.checks[y].published
  BY <1>4, <1>7, <1>9
<1>14. QED
  BY <1>2, <1>3, <1>9, <1>10, <1>11, <1>12, <1>13 DEF h, j

\* The worker holds a shown check, and may end on a review or a deadline.
Works(phase, verdict) ==
  \/ phase \in {"ready", "paid", "published"}
  \/ phase = "concluding" /\ verdict \in Ended
Working(x) == Works(x.phase, x.verdict)
WorkingKept ==
  \A w \in Workers : held'[w] # None /\ Working(held'[w]) =>
    /\ held[w] # None /\ Working(held[w])
    /\ held'[w].key = held[w].key /\ held'[w].id = held[w].id
    /\ held'[w].owner = held[w].owner /\ held'[w].gen = held[w].gen

LEMMA WorkerWorking ==
  ASSUME Typed, NEW w \in Workers, WorkerStep(w), ~ClaimNext(w),
         ~\E x \in Heads : Reconcile(w, x)
  PROVE  WorkingKept
<1>1. held \in [Workers -> Handle \cup {None}]
  BY DEF Typed, TypeOK
<1>2. CASE UNCHANGED held
  BY <1>2 DEF WorkingKept
<1>3. CASE held' = [held EXCEPT ![w] = None]
  BY <1>1, <1>3 DEF WorkingKept
<1> DEFINE h == held[w]
           To(p, c, v, q) == [held EXCEPT ![w] =
             [h EXCEPT !.phase = p, !.charge = c, !.verdict = v, !.wrote = q]]
<1>4. ASSUME h # None, NEW p, NEW c, NEW v, NEW q, held' = To(p, c, v, q),
             Works(p, v) => Working(h)
      PROVE  WorkingKept
  <2> DEFINE x == [h EXCEPT !.phase = p, !.charge = c, !.verdict = v, !.wrote = q]
  <2>1. h \in Handle
    BY <1>1, <1>4
  <2>2. /\ x.key = h.key /\ x.gen = h.gen /\ x.id = h.id /\ x.owner = h.owner
        /\ x.phase = p /\ x.verdict = v
    BY <2>1 DEF Handle
  <2>3. held' = [held EXCEPT ![w] = x]
    BY <1>4
  <2> HIDE DEF x
  <2>4. held'[w] = x /\ \A y \in Workers : y # w => held'[y] = held[y]
    BY <1>1, <2>3
  <2>5. Working(x) => Working(h)
    BY <1>4, <2>2 DEF Working
  <2>6. QED
    BY <1>4, <2>2, <2>4, <2>5 DEF WorkingKept
<1>5. CASE ~(UNCHANGED held \/ held' = [held EXCEPT ![w] = None])
  <2>1. h # None /\ h \in Handle
    BY <1>1, <1>5 DEF WorkerStep, OwnsLive, Owns, ReconcileDeferred, Reconcile,
       BeginPaid, BeginPaidExhausted, Dispatch, RefundPaid, Retry, Publish,
       Conclude, Renew, StartCheck, ConfirmRefused, Finish, FinishYield,
       DeferYield, Defer, Drop
  <2>2. ASSUME NEW p, held' = Become(w, p), p \in {"pending", "exhausted"}
        PROVE  WorkingKept
    <3>1. held' = To(p, h.charge, h.verdict, h.wrote)
      BY <2>1, <2>2 DEF Become, Handle
    <3>2. ~Works(p, h.verdict)
      BY <2>2 DEF Works
    <3>3. QED
      BY <2>1, <3>1, <3>2, <1>4
  <2>3. CASE \E x \in Heads : ReconcileDeferred(w, x)
    BY <2>2, <2>3 DEF ReconcileDeferred
  <2>4. CASE BeginPaidExhausted(w)
    BY <2>2, <2>4 DEF BeginPaidExhausted
  <2>5. ASSUME NEW p, NEW c, held' = [held EXCEPT ![w].phase = p, ![w].charge = c],
               p \in {"fenced", "claimed", "paid"}, p = "paid" => Working(h)
        PROVE  WorkingKept
    <3>1. held' = To(p, c, h.verdict, h.wrote)
      BY <2>1, <2>5, <1>1 DEF Handle
    <3>2. Works(p, h.verdict) => Working(h)
      BY <2>5 DEF Works
    <3>3. QED
      BY <2>1, <3>1, <3>2, <1>4
  <2>6. CASE BeginPaid(w)
    <3>1. PICK c : held' = [held EXCEPT ![w].phase = "paid", ![w].charge = c]
      BY <2>6 DEF BeginPaid
    <3>2. Working(h)
      BY <2>6 DEF BeginPaid, Working, Works
    <3>3. QED
      BY <2>5, <3>1, <3>2
  <2>7. CASE RefundPaid(w) \/ Retry(w)
    <3>1. \/ held' = [held EXCEPT ![w].phase = "fenced", ![w].charge = None]
          \/ held' = [held EXCEPT ![w].phase = "claimed", ![w].charge = None]
      BY <2>7 DEF RefundPaid, Retry
    <3>2. QED
      BY <2>5, <3>1
  <2>8. CASE Dispatch(w)
    <3>1. held' = To(h.phase, None, h.verdict, h.wrote) /\ Working(h)
      BY <2>1, <2>8 DEF Dispatch, Handle, Working, Works
    <3>2. QED
      BY <2>1, <3>1, <1>4
  <2>9. ASSUME NEW v \in Verdicts, NEW closed \in BOOLEAN, Conclude(w, v, closed)
        PROVE  WorkingKept
    <3>1. held' = [held EXCEPT ![w].phase = "concluding", ![w].verdict = v,
                               ![w].charge = None]
      BY <2>9 DEF Conclude
    <3>2. held' = To("concluding", None, v, h.wrote)
      BY <2>1, <3>1, <1>1 DEF Handle
    <3>3. ASSUME v \in Ended
          PROVE  Working(h)
      <4>1. v \in VerdictsFrom(h.phase) /\ h.phase \in Phases
        BY <2>1, <2>9, <3>3 DEF Conclude, Decides, Ended, Handle
      <4>2. QED
        BY <3>3, <4>1 DEF VerdictsFrom, Ended, Phases, Working, Works
    <3>4. Works("concluding", v) => Working(h)
      BY <3>3 DEF Works
    <3>5. QED
      BY <2>1, <3>2, <3>4, <1>4
  <2>10. CASE Publish(w)
    <3>1. PICK q :
            held' = [held EXCEPT ![w].phase = "published", ![w].charge = None,
                                 ![w].wrote = q]
      BY <2>10 DEF Publish
    <3>2. held' = To("published", None, h.verdict, q) /\ Working(h)
      BY <2>1, <2>10, <3>1, <1>1 DEF Handle, Publish, Working, Works
    <3>3. QED
      BY <2>1, <3>2, <1>4
  <2>11. QED
    BY <1>5, <2>3, <2>4, <2>6, <2>7, <2>8, <2>9, <2>10 DEF WorkerStep, Renew,
       StartCheck, ConfirmRefused, Finish, FinishYield, DeferYield, Defer, Drop
<1>6. QED
  BY <1>2, <1>3, <1>5

\* A working owner's check is shown.
ShownPublished ==
  \A w \in Workers : Owns(w) /\ Working(held[w]) =>
    LET j == jobs[held[w].key] IN
    j.head \in CheckHeads(j) /\ j.checks[j.head].published
\* No check is claimed of a head that was reviewed or ran out of time.
ClaimedUnended ==
  \A k \in Unfinished : IsIncremental(jobs[k]) /\ Claimed(jobs[k]) =>
    \A o \in Ended : ~Has(jobs[k].pr, jobs[k].head, o)
Posted == QuietApart /\ ShownPublished /\ ClaimedUnended

LEMMA CalmClaimed ==
  ASSUME NEW j, NEW v, Calm(j, v), Claimed(v)
  PROVE  Claimed(j)
  BY DEF Calm, Claimed

\* What the checks of the records do in each kind of step.
LEMMA QuietStep ==
  ASSUME Typed, QuietApart, [Next]_vars
  PROVE  QuietApart'
<1>1. ASSUME NEW k \in Ids, jobs'[k] # None,
             \/ jobs[k] # None /\ Calm(jobs[k], jobs'[k])
             \/ Idle(jobs'[k])
      PROVE  \A h \in CheckHeads(jobs'[k]) :
               h # jobs'[k].head => ~jobs'[k].checks[h].wlive
  BY <1>1 DEF QuietApart, Unfinished, Calm, Idle
<1>2. CASE Settles
  BY <1>1, <1>2 DEF Settles, QuietApart, Unfinished
<1>3. ASSUME NEW w \in Workers, ClaimNext(w)
      PROVE  QuietApart'
  <2>1. \A x \in Ids : jobs'[x] # None => jobs[x] # None /\ Calm(jobs[x], jobs'[x])
    BY <1>3, ClaimCalm
  <2>2. QED
    BY <1>1, <2>1 DEF QuietApart, Unfinished
<1>4. ASSUME NEW w \in Workers, NEW h \in Heads, Reconcile(w, h)
      PROVE  QuietApart'
  <2> DEFINE k == held[w].key
  <2>1. /\ k \in Ids /\ jobs[k] # None
        /\ \A x \in Ids : x # k => jobs'[x] = jobs[x]
        /\ Calm(jobs[k], jobs'[k]) \/ Idle(jobs'[k])
    BY <1>4, ReconcileSettles DEF OwnsLive, Owns
  <2> HIDE DEF k
  <2>2. QED
    BY <1>1, <2>1 DEF QuietApart, Unfinished
<1>5. ASSUME NEW d \in Drainers, ClaimCheck(d)
      PROVE  QuietApart'
  <2>1. PICK k \in Ids :
          /\ \A x \in Ids : x # k => jobs'[x] = jobs[x]
          /\ jobs[k] # None /\ jobs'[k].head = jobs[k].head
          /\ CheckHeads(jobs'[k]) = CheckHeads(jobs[k])
          /\ \A h \in Heads :
               h # jobs[k].head => jobs'[k].checks[h] = jobs[k].checks[h]
    BY <1>5, ClaimCheckOne
  <2>2. QED
    BY <2>1 DEF QuietApart, Unfinished, CheckHeads
<1>6. CASE Admit
  BY <1>2, <1>6, AdmitSettles
<1>7. CASE \E w \in Workers : WorkerStep(w)
  BY <1>2, <1>3, <1>4, <1>7, WorkerSettles
<1>8. CASE \E d \in Drainers : DrainerStep(d)
  BY <1>2, <1>5, <1>8, DrainerSettles
<1>9. CASE TimePasses
  BY <1>2, <1>9, TimeSettles
<1>10. CASE UNCHANGED vars
  BY <1>2, <1>10, SameSettles DEF vars
<1>11. QED
  BY <1>6, <1>7, <1>8, <1>9, <1>10 DEF Next

\* A working owner keeps its record, its head and the check of it.
LEMMA ShownStep ==
  ASSUME Typed, QuietApart, FenceExclusive', FenceExclusive, ShownPublished,
         [Next]_vars
  PROVE  ShownPublished'
<1> DEFINE Shown(j) == j.head \in CheckHeads(j) /\ j.checks[j.head].published
<1>1. ASSUME NEW j, NEW v, Calm(j, v), Shown(j)
      PROVE  Shown(v)
  BY <1>1 DEF Calm
<1> HIDE DEF Shown
<1>t. held \in [Workers -> Handle \cup {None}]
  BY DEF Typed, TypeOK
<1>s. \A w \in Workers : Owns(w) /\ Working(held[w]) => Shown(jobs[held[w].key])
  BY DEF ShownPublished, Shown
<1>2. CASE Settles /\ WorkingKept
  <2>1. ASSUME NEW w \in Workers, Owns(w)', Working(held'[w])
        PROVE  Shown(jobs'[held'[w].key])
    <3> DEFINE k == held[w].key
    <3>1. /\ held[w] # None /\ Working(held[w])
          /\ held'[w].key = k /\ held'[w].id = held[w].id
          /\ held'[w].owner = held[w].owner /\ held'[w].gen = held[w].gen
      BY <1>2, <2>1 DEF WorkingKept, Owns
    <3>2. k \in Ids /\ held[w].owner # None
      BY <1>t, <3>1, ConstantsAssumption DEF ConstantsAssumption, Handle
    <3>3. /\ jobs'[k] # None /\ jobs'[k].id = held[w].id
          /\ jobs'[k].owner = held[w].owner /\ jobs'[k].gen = held[w].gen
      BY <2>1, <3>1 DEF Owns
    <3>4. jobs[k] # None /\ Calm(jobs[k], jobs'[k]) /\ SameOwner(jobs[k], jobs'[k])
      BY <1>2, <3>2, <3>3 DEF Settles
    <3>5. Owns(w)
      BY <3>1, <3>2, <3>3, <3>4 DEF Owns, SameOwner
    <3>6. QED
      BY <1>1, <1>s, <3>1, <3>4, <3>5
  <2>2. QED
    BY <2>1 DEF ShownPublished, Shown
<1>3. ASSUME NEW w \in Workers, ClaimNext(w)
      PROVE  ShownPublished'
  <2>1. PICK k \in Ids :
          /\ \A x \in Ids : x # k => jobs'[x] = jobs[x]
          /\ \A v \in Workers : v # w => held'[v] = held[v]
          /\ held'[w].phase = "claimed"
          /\ held'[w].key = k /\ Owns(w)'
    BY <1>3, ClaimCalm
  <2>2. ASSUME NEW v \in Workers, Owns(v)', Working(held'[v])
        PROVE  Shown(jobs'[held'[v].key])
    <3>1. v # w
      BY <2>1, <2>2 DEF Working, Works
    <3>2. held'[v].key # k /\ held'[v] = held[v]
      BY <2>1, <2>2, <3>1 DEF FenceExclusive
    <3>3. held[v].key \in Ids
      BY <1>t, <2>2, <3>2 DEF Owns, Handle
    <3>4. jobs'[held[v].key] = jobs[held[v].key]
      BY <2>1, <3>2, <3>3
    <3>5. Owns(v)
      BY <2>2, <3>2, <3>4 DEF Owns
    <3>6. QED
      BY <1>s, <2>2, <3>2, <3>4, <3>5
  <2>3. QED
    BY <2>2 DEF ShownPublished, Shown
<1>4. ASSUME NEW w \in Workers, NEW h \in Heads, Reconcile(w, h)
      PROVE  ShownPublished'
  <2> DEFINE k == held[w].key
  <2>1. /\ OwnsLive(w) /\ k \in Ids
        /\ \A x \in Ids : x # k => jobs'[x] = jobs[x]
        /\ jobs'[k].owner = jobs[k].owner /\ jobs'[k].id = jobs[k].id
        /\ jobs'[k].gen = jobs[k].gen /\ jobs'[k].head = h
        /\ \A v \in Workers : v # w => held'[v] = held[v]
        /\ held'[w].key = k /\ held'[w].phase \in {"ready", "terminal", "pending"}
        /\ held'[w].phase = "ready" =>
             h \in CheckHeads(jobs'[k]) /\ jobs'[k].checks[h].published
    BY <1>4, ReconcileSettles
  <2>2. Owns(w) /\ jobs[k] # None
    BY <2>1 DEF OwnsLive, Owns
  <2>3. ASSUME NEW v \in Workers, Owns(v)', Working(held'[v])
        PROVE  Shown(jobs'[held'[v].key])
    <3>1. CASE v = w
      BY <2>1, <2>3, <3>1 DEF Working, Works, Shown
    <3>2. CASE v # w
      <4>1. held'[v] = held[v] /\ held[v].key \in Ids
        BY <1>t, <2>1, <2>3, <3>2 DEF Owns, Handle
      <4>2. Owns(v)
        BY <2>1, <2>2, <2>3, <4>1 DEF Owns
      <4>3. held[v].key # k
        BY <2>2, <3>2, <4>2 DEF FenceExclusive
      <4>4. QED
        BY <1>s, <2>1, <2>3, <4>1, <4>2, <4>3
    <3>3. QED
      BY <3>1, <3>2
  <2>4. QED
    BY <2>3 DEF ShownPublished, Shown
<1>5. ASSUME NEW d \in Drainers, ClaimCheck(d)
      PROVE  ShownPublished'
  <2>1. PICK k \in Ids :
          /\ \A x \in Ids : x # k => jobs'[x] = jobs[x]
          /\ jobs[k] # None /\ jobs'[k] # None
          /\ jobs'[k].owner = jobs[k].owner /\ jobs'[k].id = jobs[k].id
          /\ jobs'[k].gen = jobs[k].gen /\ jobs'[k].head = jobs[k].head
          /\ CheckHeads(jobs'[k]) = CheckHeads(jobs[k])
          /\ \A h \in Heads :
               jobs'[k].checks[h].published = jobs[k].checks[h].published
    BY <1>5, ClaimCheckOne
  <2>2. UNCHANGED held
    BY <1>5, ClaimCheckOne
  <2>3. ASSUME NEW v \in Workers, Owns(v)', Working(held'[v])
        PROVE  Shown(jobs'[held'[v].key])
    <3>1. held[v].key \in Ids
      BY <1>t, <2>2, <2>3 DEF Owns, Handle
    <3>2. Owns(v)
      BY <2>1, <2>2, <2>3, <3>1 DEF Owns
    <3>3. Shown(jobs[held[v].key])
      BY <1>s, <2>2, <2>3, <3>2
    <3>4. Shown(jobs[k]) => Shown(jobs'[k])
      BY <2>1 DEF Shown, CheckHeads
    <3>5. QED
      BY <2>1, <2>2, <3>1, <3>3, <3>4
  <2>4. QED
    BY <2>3 DEF ShownPublished, Shown
<1>6. UNCHANGED held => WorkingKept
  BY DEF WorkingKept
<1>7. CASE Admit
  <2>1. UNCHANGED held
    BY <1>7 DEF Admit, AdmitNew, AdmitCoalesced, AdmitManual
  <2>2. QED
    BY <1>2, <1>6, <1>7, <2>1, AdmitSettles
<1>8. CASE \E w \in Workers : WorkerStep(w)
  BY <1>2, <1>3, <1>4, <1>8, WorkerSettles, WorkerWorking
<1>9. ASSUME NEW d \in Drainers, DrainerStep(d)
      PROVE  ShownPublished'
  <2>1. UNCHANGED held
    BY <1>9 DEF DrainerStep, ClaimMetadata, ResolveClosed, ResolveOpen, ClaimCheck,
       ClaimRetired, MarkPostAttempted, RecordCheckId, RecordRetiredId,
       CompleteRetired, Abandon
  <2>2. QED
    BY <1>2, <1>5, <1>6, <1>9, <2>1, DrainerSettles
<1>10. CASE TimePasses
  <2>1. UNCHANGED held
    BY <1>10 DEF TimePasses, LeaseLapses, BackoffEnds, TombstoneExpires,
       MetadataClaimLapses, CheckClaimLapses, RetiredClaimLapses, HistoryExpires
  <2>2. QED
    BY <1>2, <1>6, <1>10, <2>1, TimeSettles
<1>11. CASE UNCHANGED vars
  BY <1>2, <1>6, <1>11, SameSettles DEF vars
<1>12. QED
  BY <1>7, <1>8, <1>9, <1>10, <1>11 DEF Next

\* Marking a head gives that head the outcome, and no other head anything.
LEMMA MarkedHas ==
  ASSUME TypeOK, NEW j \in Job, NEW o, heads' = MarkHead(j, o), UNCHANGED history,
         NEW pr \in PRs, NEW h, NEW e \in HeadOutcomes, Has(pr, h, e)'
  PROVE  Has(pr, h, e) \/ (IsIncremental(j) /\ pr = j.pr /\ e = o)
<1>1. \A p, x : Remembered(p, x)' = Remembered(p, x)
  BY DEF Remembered
<1>2. CASE UNCHANGED heads
  BY <1>1, <1>2 DEF Has
<1>3. CASE IsIncremental(j) /\ heads[j.pr] # None
           /\ heads' = [heads EXCEPT ![j.pr].outcome = o]
  <2> DEFINE p == j.pr
             c == [heads[p] EXCEPT !.outcome = o]
  <2>1. p \in PRs /\ heads \in [PRs -> Budget \cup {None}]
    BY DEF TypeOK, Job
  <2>2. heads[p] \in Budget
    BY <1>3, <2>1
  <2>3. c.outcome = o
    BY <2>2 DEF Budget
  <2>4. heads' = [heads EXCEPT ![p] = c]
    BY <1>3
  <2> HIDE DEF c, p
  <2>5. heads'[p] = c /\ (pr # p => heads'[pr] = heads[pr])
    BY <2>1, <2>4
  <2>6. QED
    BY <1>1, <1>3, <2>3, <2>5 DEF Has, p
<1>4. QED
  BY <1>2, <1>3 DEF MarkHead

\* A worker that stores a review, or a deadline, has a shown check.
LEMMA MarkUnended ==
  ASSUME Typed, Posted, Single, NEW w \in Workers, Finish(w) \/ FinishYield(w),
         NEW k \in Ids, jobs'[k] # None, IsIncremental(jobs'[k]),
         Claimed(jobs'[k]), NEW p, NEW x, p = jobs[k].pr, x = jobs[k].head,
         NEW e \in Ended, Has(p, x, e)'
  PROVE  Has(p, x, e)
<1> DEFINE m == held[w].key
           o == held[w].verdict
<1>1. /\ Owns(w) /\ m \in Ids /\ jobs[m] # None /\ jobs[m] \in Job
      /\ held[w].phase = "concluding" /\ heads' = MarkHead(jobs[m], o)
      /\ UNCHANGED history
  BY Marking, OwnedType DEF OwnsLive
<1>2. SUFFICES ASSUME ~Has(p, x, e)
               PROVE  FALSE
  OBVIOUS
<1>3. Settles
  <2>1. WorkerStep(w) /\ ~ClaimNext(w) /\ ~\E h \in Heads : Reconcile(w, h)
    BY <1>1 DEF WorkerStep, ClaimNext, Reconcile, Owns
  <2>2. QED
    BY <2>1, WorkerSettles DEF Posted
<1>4. jobs[k] # None /\ Calm(jobs[k], jobs'[k]) /\ Claimed(jobs[k])
  <2>1. ~Idle(jobs'[k])
    BY DEF Idle, Claimed
  <2>2. QED
    BY <1>3, <2>1, CalmClaimed DEF Settles
<1>5. IsIncremental(jobs[k]) /\ p \in PRs
  BY <1>4 DEF Calm, IsIncremental, Typed, TypeOK, Job
<1>6. IsIncremental(jobs[m]) /\ p = jobs[m].pr /\ e = o
  <2>1. TypeOK /\ e \in HeadOutcomes
    BY DEF Typed, Ended, HeadOutcomes, Outcomes
  <2>2. QED
    BY <1>1, <1>2, <1>5, <2>1, MarkedHas
<1>7. k = m
  BY <1>1, <1>4, <1>5, <1>6 DEF Single, PendingFor, Unfinished
<1>8. Working(held[w])
  BY <1>1, <1>6 DEF Working, Works
<1>9. jobs[m].checks[jobs[m].head].published
  BY <1>1, <1>8 DEF Posted, ShownPublished
<1>10. QED
  BY <1>4, <1>7, <1>9 DEF Claimed

\* Only ClaimCheck claims a check.
LEMMA CalmOrIdle ==
  ASSUME Typed, QuietApart, [Next]_vars, ~\E d \in Drainers : ClaimCheck(d),
         NEW k \in Ids, jobs'[k] # None
  PROVE  (jobs[k] # None /\ Calm(jobs[k], jobs'[k])) \/ Idle(jobs'[k])
<1>1. CASE Settles
  BY <1>1 DEF Settles
<1>2. CASE \E w \in Workers : ClaimNext(w)
  BY <1>2, ClaimCalm
<1>3. ASSUME NEW w \in Workers, NEW h \in Heads, Reconcile(w, h)
      PROVE  (jobs[k] # None /\ Calm(jobs[k], jobs'[k])) \/ Idle(jobs'[k])
  <2>1. CASE k = held[w].key
    BY <1>3, <2>1, ReconcileSettles DEF OwnsLive, Owns
  <2>2. CASE k # held[w].key
    <3>1. jobs'[k] = jobs[k]
      BY <1>3, <2>2, ReconcileSettles
    <3>2. QED
      BY <3>1 DEF Calm
  <2>3. QED
    BY <2>1, <2>2
<1>4. CASE Admit
  BY <1>1, <1>4, AdmitSettles
<1>5. CASE \E w \in Workers : WorkerStep(w)
  BY <1>1, <1>2, <1>3, <1>5, WorkerSettles
<1>6. CASE \E d \in Drainers : DrainerStep(d)
  BY <1>1, <1>6, DrainerSettles
<1>7. CASE TimePasses
  BY <1>1, <1>7, TimeSettles
<1>8. CASE UNCHANGED vars
  BY <1>1, <1>8, SameSettles DEF vars
<1>9. QED
  BY <1>4, <1>5, <1>6, <1>7, <1>8 DEF Next

\* A check is claimed before the review of its head can end.
LEMMA ClaimedStep ==
  ASSUME Typed, Agreeing, Single, Posted, [Next]_vars
  PROVE  ClaimedUnended'
<1>1. SUFFICES ASSUME NEW k \in Ids, jobs'[k] # None, IsIncremental(jobs'[k]),
                      Claimed(jobs'[k]), NEW p, NEW x, p = jobs'[k].pr,
                      x = jobs'[k].head, NEW e \in Ended
               PROVE  ~Has(p, x, e)'
  BY DEF ClaimedUnended, Unfinished, Has, Remembered
<1>2. e \in HeadOutcomes /\ e # None
  BY ConstantsAssumption DEF ConstantsAssumption, Ended, HeadOutcomes, Outcomes
<1>3. ClaimedUnended
  BY DEF Posted
<1>4. ASSUME NEW d \in Drainers, ClaimCheck(d)
      PROVE  ~Has(p, x, e)'
  <2>1. Has(p, x, e)' = Has(p, x, e)
    <3>1. UNCHANGED <<heads, history>>
      BY <1>4, ClaimCheckOne
    <3>2. QED
      BY <3>1 DEF Has, Remembered
  <2>2. PICK m \in Ids :
          /\ \A y \in Ids : y # m => jobs'[y] = jobs[y]
          /\ jobs[m] # None /\ ~KnownTerminal(jobs[m])
          /\ jobs'[m].pr = jobs[m].pr /\ jobs'[m].mode = jobs[m].mode
          /\ jobs'[m].head = jobs[m].head
          /\ CheckHeads(jobs'[m]) = CheckHeads(jobs[m])
    BY <1>4, ClaimCheckOne
  <2>3. CASE k = m
    <3>1. IsIncremental(jobs[m]) /\ p = jobs[m].pr /\ x = jobs[m].head
      BY <1>1, <2>2, <2>3 DEF IsIncremental
    <3>2. jobs[m].head \in CheckHeads(jobs[m])
      BY <1>1, <2>2, <2>3 DEF Claimed
    <3>3. jobs[m].head # NoHead
      BY <3>2, ConstantsAssumption DEF ConstantsAssumption, CheckHeads
    <3>4. ~Has(p, x, e)
      BY <1>2, <2>2, <3>1, <3>3 DEF KnownTerminal, Has
    <3>5. QED
      BY <2>1, <3>4
  <2>4. CASE k # m
    <3>1. ~Has(p, x, e)
      BY <1>1, <1>3, <2>2, <2>4 DEF ClaimedUnended, Unfinished
    <3>2. QED
      BY <2>1, <3>1
  <2>5. QED
    BY <2>3, <2>4
<1>5. CASE ~\E d \in Drainers : ClaimCheck(d)
  <2>1. (jobs[k] # None /\ Calm(jobs[k], jobs'[k])) \/ Idle(jobs'[k])
    BY <1>1, <1>5, CalmOrIdle DEF Posted
  <2>2. jobs[k] # None /\ Calm(jobs[k], jobs'[k]) /\ Claimed(jobs[k])
    BY <1>1, <2>1, CalmClaimed DEF Idle, Claimed
  <2>3. IsIncremental(jobs[k]) /\ p = jobs[k].pr /\ x = jobs[k].head
    BY <1>1, <2>2 DEF Calm, IsIncremental
  <2>4. ~Has(p, x, e)
    BY <1>3, <2>2, <2>3 DEF ClaimedUnended, Unfinished
  <2>5. p \in PRs /\ x \in Heads
    BY <2>2, <2>3 DEF Typed, TypeOK, Job, Claimed, CheckHeads
  <2>6. CASE NoNewResult
    BY <1>2, <2>4, <2>5, <2>6 DEF NoNewResult
  <2>7. CASE \E w \in Workers : Finish(w) \/ FinishYield(w)
    BY <1>1, <2>3, <2>4, <2>7, MarkUnended
  <2>8. QED
    BY <2>6, <2>7, ResultsStep
<1>6. QED
  BY <1>4, <1>5

LEMMA AlwaysPosted == Spec => []Posted
<1>1. Init => Posted
  BY DEF Init, Posted, QuietApart, ShownPublished, ClaimedUnended, Unfinished, Owns
<1>2. AcceptedOnce /\ Typed => Single
  BY AcceptedParts DEF Accepted
<1>3. Posted /\ Typed /\ Agreeing /\ Single /\ FenceExclusive /\ FenceExclusive'
        /\ [Next]_vars => Posted'
  BY QuietStep, ShownStep, ClaimedStep DEF Posted
<1>4. QED
  BY <1>1, <1>2, <1>3, AlwaysTyped, AlwaysAgreeing, DeliveriesAcceptedOnce,
     FenceIsExclusive, PTL DEF Spec

\* A check claimed before the review ended is never posted over its result, on
\* whichever processes the worker and the drainer run (claim_pending_checks,
\* reconcile_live_check, finish_with_yield).
THEOREM ReviewNeverHidden == Spec => []NoQueuedPostOnReviewedHead
<1>1. Typed /\ Agreeing /\ Posted => NoQueuedPostOnReviewedHead
  <2>1. SUFFICES ASSUME Typed, Agreeing, Posted, NEW d \in Drainers, NEW k \in Ids,
                        DrainsActive(d), ActiveCurrent(drain[d], k),
                        IsIncremental(jobs[k])
                 PROVE  Result(jobs[k].pr, jobs[k].head) \notin {"published", "deadline"}
    BY DEF NoQueuedPostOnReviewedHead
  <2>2. jobs[k] # None /\ jobs[k] \in Job
    BY <2>1 DEF ActiveCurrent, Typed, TypeOK
  <2>3. drain[d] \in CheckClaim
    BY <2>1 DEF DrainsActive, Typed, TypeOK, MetaClaim
  <2>4. jobs[k].head \in Heads
    BY <2>1, <2>3 DEF ActiveCurrent, CheckClaim
  <2>5. Claimed(jobs[k])
    BY <2>1, <2>4 DEF ActiveCurrent, Claimed, CheckHeads
  <2>6. \A e \in Ended : ~Has(jobs[k].pr, jobs[k].head, e)
    BY <2>1, <2>2, <2>5 DEF Posted, ClaimedUnended, Unfinished
  <2>7. Consistent
    BY <2>1, ResultsHas DEF Typed
  <2>8. jobs[k].pr \in PRs /\ Ended \subseteq HeadOutcomes
    BY <2>2 DEF Job, Ended, HeadOutcomes, Outcomes
  <2>9. QED
    BY <2>4, <2>6, <2>7, <2>8 DEF Consistent, Ended
<1>2. QED
  BY <1>1, AlwaysTyped, AlwaysAgreeing, AlwaysPosted, PTL

-----------------------------------------------------------------------------
(* Totals over finite families                                             *)

FiniteFamily(F) == IsFiniteSet(DOMAIN F) /\ \A x \in DOMAIN F : IsFiniteSet(F[x])
Members(F) == UNION {{x} \X F[x] : x \in DOMAIN F}

LEMMA MembersAre ==
  ASSUME NEW F, NEW p
  PROVE  p \in Members(F) <=> \E x \in DOMAIN F : \E y \in F[x] : p = <<x, y>>
<1>1. p \in Members(F) <=> \E x \in DOMAIN F : p \in {x} \X F[x]
  BY DEF Members
<1>2. \A x \in DOMAIN F : p \in {x} \X F[x] <=> \E y \in F[x] : p = <<x, y>>
  OBVIOUS
<1>3. QED
  BY <1>1, <1>2

LEMMA TotalFinite ==
  ASSUME NEW F, FiniteFamily(F)
  PROVE  IsFiniteSet(Members(F)) /\ Total(F) = Cardinality(Members(F))
         /\ Total(F) \in Nat
<1> DEFINE Parts == {{x} \X F[x] : x \in DOMAIN F}
           f == [x \in DOMAIN F |-> {x} \X F[x]]
<1>1. IsFiniteSet(Parts)
  <2>1. f \in Surjection(DOMAIN F, Parts)
    BY DEF Surjection
  <2>2. QED
    BY <2>1, FS_Surjection DEF FiniteFamily
<1>2. ASSUME NEW P \in Parts
      PROVE  IsFiniteSet(P)
  <2>1. PICK x \in DOMAIN F : P = {x} \X F[x]
    OBVIOUS
  <2>2. IsFiniteSet({x}) /\ IsFiniteSet(F[x])
    BY FS_Singleton DEF FiniteFamily
  <2>3. QED
    BY <2>1, <2>2, FS_Product
<1>3. IsFiniteSet(UNION Parts)
  BY <1>1, <1>2, FS_UNION
<1>4. QED
  BY <1>3, FS_CardinalityType DEF Members, Total

\* The total of a family is that of two parts of its index set.
LEMMA TotalParts ==
  ASSUME NEW F, NEW G, NEW H, FiniteFamily(F),
         DOMAIN F = DOMAIN G \cup DOMAIN H, DOMAIN G \cap DOMAIN H = {},
         \A x \in DOMAIN G : F[x] = G[x], \A x \in DOMAIN H : F[x] = H[x]
  PROVE  /\ FiniteFamily(G) /\ FiniteFamily(H)
         /\ Total(F) = Total(G) + Total(H)
<1>1. FiniteFamily(G) /\ FiniteFamily(H)
  BY FS_Subset DEF FiniteFamily
<1>2. Members(F) = Members(G) \cup Members(H)
  BY MembersAre
<1>3. Members(G) \cap Members(H) = {}
  BY MembersAre
<1>4. /\ IsFiniteSet(Members(G)) /\ Total(G) = Cardinality(Members(G))
      /\ IsFiniteSet(Members(H)) /\ Total(H) = Cardinality(Members(H))
      /\ Total(F) = Cardinality(Members(F)) /\ Total(G) \in Nat /\ Total(H) \in Nat
  BY <1>1, TotalFinite
<1>5. Cardinality(Members(F)) =
        Cardinality(Members(G)) + Cardinality(Members(H)) - Cardinality({})
  BY <1>2, <1>3, <1>4, FS_Union
<1>6. QED
  BY <1>1, <1>4, <1>5, FS_EmptySet

SizeAt(F, k) == IF k \in DOMAIN F THEN Cardinality(F[k]) ELSE 0

LEMMA TotalSplit ==
  ASSUME NEW F, FiniteFamily(F), NEW k
  PROVE  LET R == [x \in DOMAIN F \ {k} |-> F[x]] IN
         Total(R) \in Nat /\ SizeAt(F, k) \in Nat /\ Total(F) = Total(R) + SizeAt(F, k)
<1> DEFINE R == [x \in DOMAIN F \ {k} |-> F[x]]
           H == [x \in DOMAIN F \cap {k} |-> F[x]]
<1>1. FiniteFamily(R) /\ FiniteFamily(H) /\ Total(F) = Total(R) + Total(H)
  <2>1. DOMAIN F = DOMAIN R \cup DOMAIN H /\ DOMAIN R \cap DOMAIN H = {}
    OBVIOUS
  <2>2. (\A x \in DOMAIN R : F[x] = R[x]) /\ \A x \in DOMAIN H : F[x] = H[x]
    OBVIOUS
  <2> HIDE DEF R, H
  <2>3. QED
    BY <2>1, <2>2, TotalParts
<1>2. Total(R) \in Nat
  BY <1>1, TotalFinite
<1>3. Total(H) = SizeAt(F, k) /\ SizeAt(F, k) \in Nat
  <2>1. Total(H) = Cardinality(Members(H)) /\ Total(H) \in Nat
    BY <1>1, TotalFinite
  <2>2. CASE k \in DOMAIN F
    <3>1. Members(H) = {k} \X F[k]
      <4>1. DOMAIN H = {k} /\ H[k] = F[k]
        BY <2>2
      <4> HIDE DEF H
      <4>2. QED
        BY <4>1 DEF Members
    <3>2. IsFiniteSet(F[k]) /\ IsFiniteSet({k}) /\ Cardinality({k}) = 1
      BY <2>2, FS_Singleton DEF FiniteFamily
    <3>3. Cardinality(Members(H)) = 1 * Cardinality(F[k]) /\ Cardinality(F[k]) \in Nat
      BY <3>1, <3>2, FS_Product, FS_CardinalityType
    <3>4. QED
      BY <2>1, <2>2, <3>3 DEF SizeAt
  <2>3. CASE k \notin DOMAIN F
    <3>1. Members(H) = {}
      <4>1. DOMAIN H = {}
        BY <2>3
      <4> HIDE DEF H
      <4>2. QED
        BY <4>1 DEF Members
    <3>2. QED
      BY <2>1, <2>3, <3>1, FS_EmptySet DEF SizeAt
  <2>4. QED
    BY <2>2, <2>3
<1>4. QED
  BY <1>1, <1>2, <1>3

\* Two families that differ at one index.
LEMMA TotalUpdate ==
  ASSUME NEW F, NEW G, FiniteFamily(F), FiniteFamily(G), NEW k,
         DOMAIN F \ {k} = DOMAIN G \ {k}, \A x \in DOMAIN F \ {k} : F[x] = G[x]
  PROVE  /\ Total(F) \in Nat /\ Total(G) \in Nat
         /\ SizeAt(F, k) \in Nat /\ SizeAt(G, k) \in Nat
         /\ Total(G) + SizeAt(F, k) = Total(F) + SizeAt(G, k)
<1> DEFINE R(f) == [x \in DOMAIN f \ {k} |-> f[x]]
<1>1. R(F) = R(G)
  OBVIOUS
<1>2. Total(R(F)) \in Nat /\ SizeAt(F, k) \in Nat
      /\ Total(F) = Total(R(F)) + SizeAt(F, k)
  BY TotalSplit
<1>3. Total(R(G)) \in Nat /\ SizeAt(G, k) \in Nat
      /\ Total(G) = Total(R(G)) + SizeAt(G, k)
  BY TotalSplit
<1>4. Total(F) \in Nat /\ Total(G) \in Nat
  BY TotalFinite
<1> HIDE DEF R
<1>5. QED
  BY <1>1, <1>2, <1>3, <1>4

LEMMA TotalMonotone ==
  ASSUME NEW F, NEW G, FiniteFamily(G), DOMAIN F \subseteq DOMAIN G,
         \A x \in DOMAIN F : F[x] \subseteq G[x]
  PROVE  FiniteFamily(F) /\ Total(F) <= Total(G)
<1>1. FiniteFamily(F)
  BY FS_Subset DEF FiniteFamily
<1>2. Members(F) \subseteq Members(G)
  BY MembersAre
<1>3. QED
  BY <1>1, <1>2, TotalFinite, FS_Subset

\* A family of sets of at most one member.
LEMMA TotalOfSmall ==
  ASSUME NEW F, FiniteFamily(F), \A x \in DOMAIN F : \E h : F[x] \subseteq {h}
  PROVE  Total(F) <= Cardinality(DOMAIN F)
<1> DEFINE f == [p \in Members(F) |-> p[1]]
<1>1. ASSUME NEW p \in Members(F)
      PROVE  p[1] \in DOMAIN F /\ p[2] \in F[p[1]] /\ p = <<p[1], p[2]>>
  <2>1. PICK x \in DOMAIN F : \E y \in F[x] : p = <<x, y>>
    BY MembersAre
  <2>2. PICK y \in F[x] : p = <<x, y>>
    BY <2>1
  <2>3. QED
    BY <2>2
<1>2. ASSUME NEW p \in Members(F), NEW q \in Members(F), p[1] = q[1]
      PROVE  p = q
  <2>1. PICK h : F[p[1]] \subseteq {h}
    BY <1>1
  <2>2. p[2] = h /\ q[2] = h
    BY <1>1, <1>2, <2>1
  <2>3. QED
    BY <1>1, <1>2, <2>2
<1>3. f \in Injection(Members(F), DOMAIN F)
  BY <1>1, <1>2 DEF Injection, IsInjective
<1>4. QED
  BY <1>3, FS_Injection, TotalFinite DEF FiniteFamily

-----------------------------------------------------------------------------
(* What the records weigh                                                  *)

\* The parts of the two capacities that the records jobs = J hold.
Present(J) == {k \in Ids : J[k] # None}
ChecksIn(J) == [k \in Present(J) |-> CheckHeads(J[k])]
SparesIn(J) == {k \in Present(J) : J[k].spare}
UnresolvedIn(J) == {k \in Present(J) : J[k].meta}
Identities(J) ==
  Total(ChecksIn(J)) + Cardinality(SparesIn(J)) + Cardinality(UnresolvedIn(J))
AcceptedIn(J) == [k \in Present(J) |-> J[k].ids]
ReservedIn(J) == [k \in Present(J) |-> 1 .. J[k].resv]
Promises(J) == Total(AcceptedIn(J)) + Total(ReservedIn(J))

\* And those of one record.
IdentitiesOf(j) ==
  IF j = None THEN 0
  ELSE Cardinality(CheckHeads(j)) + (IF j.spare THEN 1 ELSE 0)
         + (IF j.meta THEN 1 ELSE 0)
PromisesOf(j) == IF j = None THEN 0 ELSE Cardinality(j.ids) + j.resv

LEMMA FamiliesFinite ==
  ASSUME NEW J \in [Ids -> Job \cup {None}]
  PROVE  /\ IsFiniteSet(Present(J)) /\ IsFiniteSet(SparesIn(J))
         /\ IsFiniteSet(UnresolvedIn(J))
         /\ FiniteFamily(ChecksIn(J)) /\ FiniteFamily(AcceptedIn(J))
         /\ FiniteFamily(ReservedIn(J))
<1>1. IsFiniteSet(Ids) /\ IsFiniteSet(Heads)
  BY ConstantsAssumption DEF ConstantsAssumption
<1>2. IsFiniteSet(Present(J)) /\ Present(J) \subseteq Ids
  BY <1>1, FS_Subset DEF Present
<1>3. IsFiniteSet(SparesIn(J)) /\ IsFiniteSet(UnresolvedIn(J))
  <2>1. SparesIn(J) \subseteq Present(J) /\ UnresolvedIn(J) \subseteq Present(J)
    BY DEF SparesIn, UnresolvedIn
  <2>2. QED
    BY <1>2, <2>1, FS_Subset
<1>4. \A k \in Present(J) : J[k] \in Job
  BY DEF Present
<1>5. \A k \in Present(J) : IsFiniteSet(CheckHeads(J[k]))
  <2>1. \A k \in Present(J) : CheckHeads(J[k]) \in SUBSET Heads
    BY DEF CheckHeads
  <2>2. QED
    BY <1>1, <2>1, FS_Subset
<1>6. \A k \in Present(J) : IsFiniteSet(J[k].ids)
  <2>1. \A k \in Present(J) : J[k].ids \in SUBSET Ids
    BY <1>4 DEF Job
  <2>2. QED
    BY <1>1, <2>1, FS_Subset
<1>7. \A k \in Present(J) : IsFiniteSet(1 .. J[k].resv)
  <2>1. \A k \in Present(J) : 1 \in Int /\ J[k].resv \in Int
    BY <1>4 DEF Job
  <2>2. QED
    BY <2>1, FS_Interval
<1>8. QED
  BY <1>2, <1>3, <1>5, <1>6, <1>7
     DEF FiniteFamily, ChecksIn, AcceptedIn, ReservedIn

Counted(k, S) == IF k \in S THEN 1 ELSE 0

LEMMA WeightsType ==
  ASSUME NEW J \in [Ids -> Job \cup {None}], NEW k \in Ids
  PROVE  /\ Identities(J) \in Nat /\ Promises(J) \in Nat
         /\ IdentitiesOf(J[k]) =
              SizeAt(ChecksIn(J), k) + Counted(k, SparesIn(J))
                + Counted(k, UnresolvedIn(J))
         /\ PromisesOf(J[k]) = SizeAt(AcceptedIn(J), k) + SizeAt(ReservedIn(J), k)
<1>1. Identities(J) \in Nat /\ Promises(J) \in Nat
  BY FamiliesFinite, TotalFinite, FS_CardinalityType DEF Identities, Promises
<1>2. CASE J[k] = None
  <2>1. k \notin Present(J)
    BY <1>2 DEF Present
  <2>2. QED
    BY <1>1, <1>2, <2>1 DEF IdentitiesOf, PromisesOf, SizeAt, ChecksIn, SparesIn,
       UnresolvedIn, AcceptedIn, ReservedIn, Counted
<1>3. CASE J[k] # None
  <2>1. k \in Present(J) /\ J[k] \in Job /\ J[k].resv \in Nat
    BY <1>3 DEF Present, Job
  <2>2. Cardinality(1 .. J[k].resv) = J[k].resv
    <3>1. 1 \in Int /\ J[k].resv \in Int
      BY <2>1
    <3>2. Cardinality(1 .. J[k].resv) =
            IF 1 > J[k].resv THEN 0 ELSE J[k].resv - 1 + 1
      BY <3>1, FS_Interval
    <3>3. QED
      BY <2>1, <3>2
  <2>3. /\ SizeAt(ChecksIn(J), k) = Cardinality(CheckHeads(J[k]))
        /\ SizeAt(AcceptedIn(J), k) = Cardinality(J[k].ids)
        /\ SizeAt(ReservedIn(J), k) = J[k].resv
    BY <2>1, <2>2 DEF SizeAt, ChecksIn, AcceptedIn, ReservedIn
  <2>4. /\ k \in SparesIn(J) <=> J[k].spare
        /\ k \in UnresolvedIn(J) <=> J[k].meta
    BY <2>1 DEF SparesIn, UnresolvedIn
  <2>5. QED
    BY <1>1, <1>3, <2>3, <2>4 DEF IdentitiesOf, PromisesOf, Counted
<1>4. QED
  BY <1>2, <1>3

\* Membership of one element.
LEMMA SetUpdate ==
  ASSUME NEW S, NEW T, IsFiniteSet(S), IsFiniteSet(T), NEW k, S \ {k} = T \ {k}
  PROVE  /\ Cardinality(S) \in Nat /\ Cardinality(T) \in Nat
         /\ Cardinality(T) + Counted(k, S) = Cardinality(S) + Counted(k, T)
<1>1. /\ Cardinality(S) \in Nat /\ Cardinality(T) \in Nat
      /\ Cardinality(S \ {k}) \in Nat
  BY FS_CardinalityType, FS_RemoveElement
<1>2. Cardinality(S \ {k}) = IF k \in S THEN Cardinality(S) - 1 ELSE Cardinality(S)
  BY FS_RemoveElement
<1>3. Cardinality(T \ {k}) = IF k \in T THEN Cardinality(T) - 1 ELSE Cardinality(T)
  BY FS_RemoveElement
<1>4. Cardinality(S \ {k}) = Cardinality(T \ {k})
  OBVIOUS
<1>5. Cardinality(S) = Cardinality(S \ {k}) + Counted(k, S)
  BY <1>1, <1>2 DEF Counted
<1>6. Cardinality(T) = Cardinality(T \ {k}) + Counted(k, T)
  BY <1>1, <1>3 DEF Counted
<1>7. Counted(k, S) \in Nat /\ Counted(k, T) \in Nat
  BY DEF Counted
<1>8. QED
  BY <1>1, <1>4, <1>5, <1>6, <1>7

\* One record is added, rewritten or removed.
LEMMA WeightsUpdate ==
  ASSUME NEW A \in [Ids -> Job \cup {None}], NEW B \in [Ids -> Job \cup {None}],
         NEW k \in Ids, \A x \in Ids : x # k => A[x] = B[x]
  PROVE  /\ Identities(A) \in Nat /\ Identities(B) \in Nat
         /\ Promises(A) \in Nat /\ Promises(B) \in Nat
         /\ Identities(B) + IdentitiesOf(A[k]) = Identities(A) + IdentitiesOf(B[k])
         /\ Promises(B) + PromisesOf(A[k]) = Promises(A) + PromisesOf(B[k])
<1>1. Present(A) \ {k} = Present(B) \ {k}
  BY DEF Present
<1>2. \A x \in Present(A) \ {k} : A[x] = B[x]
  BY DEF Present
<1>3. /\ Total(ChecksIn(A)) \in Nat /\ Total(ChecksIn(B)) \in Nat
      /\ SizeAt(ChecksIn(A), k) \in Nat /\ SizeAt(ChecksIn(B), k) \in Nat
      /\ Total(ChecksIn(B)) + SizeAt(ChecksIn(A), k)
           = Total(ChecksIn(A)) + SizeAt(ChecksIn(B), k)
  <2>1. DOMAIN ChecksIn(A) \ {k} = DOMAIN ChecksIn(B) \ {k}
        /\ \A x \in DOMAIN ChecksIn(A) \ {k} : ChecksIn(A)[x] = ChecksIn(B)[x]
    BY <1>1, <1>2 DEF ChecksIn
  <2>2. QED
    BY <2>1, FamiliesFinite, TotalUpdate
<1>4. /\ Total(AcceptedIn(A)) \in Nat /\ Total(AcceptedIn(B)) \in Nat
      /\ SizeAt(AcceptedIn(A), k) \in Nat /\ SizeAt(AcceptedIn(B), k) \in Nat
      /\ Total(AcceptedIn(B)) + SizeAt(AcceptedIn(A), k)
           = Total(AcceptedIn(A)) + SizeAt(AcceptedIn(B), k)
  <2>1. DOMAIN AcceptedIn(A) \ {k} = DOMAIN AcceptedIn(B) \ {k}
        /\ \A x \in DOMAIN AcceptedIn(A) \ {k} : AcceptedIn(A)[x] = AcceptedIn(B)[x]
    BY <1>1, <1>2 DEF AcceptedIn
  <2>2. QED
    BY <2>1, FamiliesFinite, TotalUpdate
<1>5. /\ Total(ReservedIn(A)) \in Nat /\ Total(ReservedIn(B)) \in Nat
      /\ SizeAt(ReservedIn(A), k) \in Nat /\ SizeAt(ReservedIn(B), k) \in Nat
      /\ Total(ReservedIn(B)) + SizeAt(ReservedIn(A), k)
           = Total(ReservedIn(A)) + SizeAt(ReservedIn(B), k)
  <2>1. DOMAIN ReservedIn(A) \ {k} = DOMAIN ReservedIn(B) \ {k}
        /\ \A x \in DOMAIN ReservedIn(A) \ {k} : ReservedIn(A)[x] = ReservedIn(B)[x]
    BY <1>1, <1>2 DEF ReservedIn
  <2>2. QED
    BY <2>1, FamiliesFinite, TotalUpdate
<1>6. /\ Cardinality(SparesIn(A)) \in Nat /\ Cardinality(SparesIn(B)) \in Nat
      /\ Cardinality(SparesIn(B)) + Counted(k, SparesIn(A))
           = Cardinality(SparesIn(A)) + Counted(k, SparesIn(B))
  <2>1. SparesIn(A) \ {k} = SparesIn(B) \ {k}
    BY <1>1, <1>2 DEF SparesIn
  <2>2. QED
    BY <2>1, FamiliesFinite, SetUpdate
<1>7. /\ Cardinality(UnresolvedIn(A)) \in Nat /\ Cardinality(UnresolvedIn(B)) \in Nat
      /\ Cardinality(UnresolvedIn(B)) + Counted(k, UnresolvedIn(A))
           = Cardinality(UnresolvedIn(A)) + Counted(k, UnresolvedIn(B))
  <2>1. UnresolvedIn(A) \ {k} = UnresolvedIn(B) \ {k}
    BY <1>1, <1>2 DEF UnresolvedIn
  <2>2. QED
    BY <2>1, FamiliesFinite, SetUpdate
<1>8. \A S : Counted(k, S) \in Nat
  BY DEF Counted
<1>9. Identities(A) \in Nat /\ Identities(B) \in Nat
      /\ Promises(A) \in Nat /\ Promises(B) \in Nat
  BY WeightsType
<1>10. Identities(B) + IdentitiesOf(A[k]) = Identities(A) + IdentitiesOf(B[k])
  BY <1>3, <1>6, <1>7, <1>8, WeightsType DEF Identities
<1>11. Promises(B) + PromisesOf(A[k]) = Promises(A) + PromisesOf(B[k])
  BY <1>4, <1>5, WeightsType DEF Promises
<1>12. QED
  BY <1>9, <1>10, <1>11

\* The parts that no record holds.
HistoryIn(H) ==
  [x \in PRs \X Heads \X HeadOutcomes |-> 1 .. H[x[1]][x[2]][x[3]]]

LEMMA HistoryFinite ==
  ASSUME NEW H \in [PRs -> [Heads -> [HeadOutcomes -> Nat]]]
  PROVE  FiniteFamily(HistoryIn(H)) /\ Total(HistoryIn(H)) \in Nat
<1> DEFINE D == PRs \X Heads \X HeadOutcomes
           P == (PRs \X Heads) \X HeadOutcomes
           f == [x \in D |-> <<<<x[1], x[2]>>, x[3]>>]
<1>1. IsFiniteSet(P)
  <2>1. IsFiniteSet(PRs) /\ IsFiniteSet(Heads) /\ IsFiniteSet(HeadOutcomes)
    BY ConstantsAssumption, OutcomesFinite DEF ConstantsAssumption
  <2>2. IsFiniteSet(PRs \X Heads)
    BY <2>1, FS_Product
  <2>3. QED
    BY <2>1, <2>2, FS_Product
<1>2. IsFiniteSet(D)
  <2>1. f \in Injection(D, P)
    BY DEF Injection, IsInjective
  <2>2. QED
    BY <1>1, <2>1, FS_Injection
<1>3. ASSUME NEW x \in D
      PROVE  IsFiniteSet(1 .. H[x[1]][x[2]][x[3]])
  <2>1. 1 \in Int /\ H[x[1]][x[2]][x[3]] \in Int
    OBVIOUS
  <2>2. QED
    BY <2>1, FS_Interval
<1>4. FiniteFamily(HistoryIn(H))
  BY <1>2, <1>3 DEF FiniteFamily, HistoryIn
<1>5. QED
  BY <1>4, TotalFinite

LEMMA CapacityParts ==
  ASSUME TypeOK, TypeOK'
  PROVE  /\ StatusRecords = Len(retired) + Identities(jobs)
         /\ StatusRecords' = Len(retired') + Identities(jobs')
         /\ HeadState = Cardinality(Entombed) + Cardinality(HeadSlots)
                          + Total(HistoryIn(history)) + Promises(jobs)
         /\ HeadState' = Cardinality(Entombed') + Cardinality(HeadSlots')
                           + Total(HistoryIn(history')) + Promises(jobs')
         /\ ReservedCapacity >= HeadState
         /\ Len(retired) \in Nat /\ Len(retired') \in Nat
         /\ Identities(jobs) \in Nat /\ Identities(jobs') \in Nat
         /\ Promises(jobs) \in Nat /\ Promises(jobs') \in Nat
         /\ Total(HistoryIn(history)) \in Nat /\ Total(HistoryIn(history')) \in Nat
         /\ IsFiniteSet(Entombed) /\ IsFiniteSet(Entombed')
         /\ IsFiniteSet(HeadSlots) /\ IsFiniteSet(HeadSlots')
         /\ Cardinality(Entombed) \in Nat /\ Cardinality(Entombed') \in Nat
         /\ Cardinality(HeadSlots) \in Nat /\ Cardinality(HeadSlots') \in Nat
<1>1. /\ ChecksOf = ChecksIn(jobs) /\ Spares = SparesIn(jobs)
      /\ Unresolved = UnresolvedIn(jobs) /\ AcceptedOf = AcceptedIn(jobs)
      /\ ReservedOf = ReservedIn(jobs) /\ HistoryOf = HistoryIn(history)
  BY DEF ChecksOf, ChecksIn, Spares, SparesIn, Unresolved, UnresolvedIn,
     AcceptedOf, AcceptedIn, ReservedOf, ReservedIn, Present, Unfinished,
     HistoryOf, HistoryIn
<1>2. /\ ChecksOf' = ChecksIn(jobs') /\ Spares' = SparesIn(jobs')
      /\ Unresolved' = UnresolvedIn(jobs') /\ AcceptedOf' = AcceptedIn(jobs')
      /\ ReservedOf' = ReservedIn(jobs') /\ HistoryOf' = HistoryIn(history')
  BY DEF ChecksOf, ChecksIn, Spares, SparesIn, Unresolved, UnresolvedIn,
     AcceptedOf, AcceptedIn, ReservedOf, ReservedIn, Present, Unfinished,
     HistoryOf, HistoryIn
<1>3. /\ jobs \in [Ids -> Job \cup {None}] /\ jobs' \in [Ids -> Job \cup {None}]
      /\ Len(retired) \in Nat /\ Len(retired') \in Nat
      /\ Total(HistoryIn(history)) \in Nat /\ Total(HistoryIn(history')) \in Nat
  BY HistoryFinite DEF TypeOK
<1>4. /\ IsFiniteSet(Entombed) /\ IsFiniteSet(Entombed')
      /\ IsFiniteSet(HeadSlots) /\ IsFiniteSet(HeadSlots')
  <2>1. IsFiniteSet(Ids) /\ IsFiniteSet(PRs)
    BY ConstantsAssumption DEF ConstantsAssumption
  <2>2. /\ Entombed \in SUBSET Ids /\ Entombed' \in SUBSET Ids
        /\ HeadSlots \in SUBSET PRs /\ HeadSlots' \in SUBSET PRs
    BY DEF Entombed, HeadSlots
  <2>3. QED
    BY <2>1, <2>2, FS_Subset
<1>5. /\ Cardinality(Entombed) \in Nat /\ Cardinality(Entombed') \in Nat
      /\ Cardinality(HeadSlots) \in Nat /\ Cardinality(HeadSlots') \in Nat
  BY <1>4, FS_CardinalityType
<1>6. /\ Total(ChecksIn(jobs)) \in Nat /\ Total(ChecksIn(jobs')) \in Nat
      /\ Total(AcceptedIn(jobs)) \in Nat /\ Total(AcceptedIn(jobs')) \in Nat
      /\ Total(ReservedIn(jobs)) \in Nat /\ Total(ReservedIn(jobs')) \in Nat
      /\ Cardinality(SparesIn(jobs)) \in Nat /\ Cardinality(SparesIn(jobs')) \in Nat
      /\ Cardinality(UnresolvedIn(jobs)) \in Nat
      /\ Cardinality(UnresolvedIn(jobs')) \in Nat
  BY <1>3, FamiliesFinite, TotalFinite, FS_CardinalityType
<1>7. /\ Identities(jobs) \in Nat /\ Identities(jobs') \in Nat
      /\ Promises(jobs) \in Nat /\ Promises(jobs') \in Nat
  BY <1>6 DEF Identities, Promises
<1>8. /\ StatusRecords = Len(retired) + Identities(jobs)
      /\ StatusRecords' = Len(retired') + Identities(jobs')
  BY <1>1, <1>2, <1>3, <1>6, SMTT(30) DEF StatusRecords, Identities
<1>9. /\ HeadState = Cardinality(Entombed) + Cardinality(HeadSlots)
                       + Total(HistoryIn(history)) + Promises(jobs)
      /\ HeadState' = Cardinality(Entombed') + Cardinality(HeadSlots')
                        + Total(HistoryIn(history')) + Promises(jobs')
  <2>1. ASSUME NEW c \in Nat, NEW s \in Nat, NEW t \in Nat, NEW a \in Nat,
               NEW r \in Nat
        PROVE  c + s + t + a + r = c + s + t + (a + r)
    OBVIOUS
  <2>2. HeadState = Cardinality(Entombed) + Cardinality(HeadSlots)
          + Total(HistoryIn(history)) + Total(AcceptedIn(jobs))
          + Total(ReservedIn(jobs))
    BY <1>1 DEF HeadState
  <2>3. HeadState' = Cardinality(Entombed') + Cardinality(HeadSlots')
          + Total(HistoryIn(history')) + Total(AcceptedIn(jobs'))
          + Total(ReservedIn(jobs'))
    BY <1>2 DEF HeadState
  <2>4. HeadState = Cardinality(Entombed) + Cardinality(HeadSlots)
          + Total(HistoryIn(history))
          + (Total(AcceptedIn(jobs)) + Total(ReservedIn(jobs)))
    <3>1. /\ Cardinality(Entombed) \in Nat /\ Cardinality(HeadSlots) \in Nat
          /\ Total(HistoryIn(history)) \in Nat /\ Total(AcceptedIn(jobs)) \in Nat
          /\ Total(ReservedIn(jobs)) \in Nat
      BY <1>3, <1>5, <1>6
    <3>2. QED
      BY <2>1, <2>2, <3>1
  <2>5. HeadState' = Cardinality(Entombed') + Cardinality(HeadSlots')
          + Total(HistoryIn(history'))
          + (Total(AcceptedIn(jobs')) + Total(ReservedIn(jobs')))
    <3>1. /\ Cardinality(Entombed') \in Nat /\ Cardinality(HeadSlots') \in Nat
          /\ Total(HistoryIn(history')) \in Nat /\ Total(AcceptedIn(jobs')) \in Nat
          /\ Total(ReservedIn(jobs')) \in Nat
      BY <1>3, <1>5, <1>6
    <3>2. QED
      BY <2>1, <2>3, <3>1
  <2>6. QED
    BY <2>4, <2>5 DEF Promises
<1>10. ReservedCapacity >= HeadState
  <2>1. HeadState \in Nat
    BY <1>3, <1>5, <1>7, <1>9, SMTT(30)
  <2>2. ReservedCapacity = HeadState + Len(retired) + Total(ChecksIn(jobs))
                             + Cardinality(SparesIn(jobs))
    BY <1>1 DEF ReservedCapacity
  <2>3. QED
    BY <1>3, <1>6, <2>1, <2>2, SMTT(30)
<1>11. QED
  BY <1>3, <1>4, <1>5, <1>7, <1>8, <1>9, <1>10

LEMMA RetiredLength ==
  ASSUME NEW j \in Job, NEW S \in SUBSET CheckHeads(j), NEW R \in Seq(Retired)
  PROVE  /\ Len(R \o RetiredEntries(j, S)) = Len(R) + Cardinality(S)
         /\ Cardinality(S) \in Nat
<1> DEFINE s == SetToSeq(S)
<1>1. IsFiniteSet(S)
  <2>1. S \in SUBSET Heads /\ IsFiniteSet(Heads)
    BY ConstantsAssumption DEF CheckHeads, ConstantsAssumption
  <2>2. QED
    BY <2>1, FS_Subset
<1>2. s \in [1 .. Cardinality(S) -> S] /\ Cardinality(S) \in Nat
  BY <1>1, SetToSeqType
<1>3. DOMAIN RetiredEntries(j, S) = 1 .. Cardinality(S)
  BY <1>2 DEF RetiredEntries
<1>4. RetiredEntries(j, S) \in Seq(Retired)
  BY RetiredEntriesType
<1>5. Len(RetiredEntries(j, S)) = Cardinality(S)
  BY <1>2, <1>3, <1>4
<1>6. QED
  BY <1>2, <1>4, <1>5

\* A manual expansion of n requests.
LEMMA BatchWeights ==
  ASSUME Typed, Typed', NEW batch \in Batches, AdmitManual(batch)
  PROVE  /\ Len(batch) \in Nat
         /\ Identities(jobs') <= Identities(jobs) + 2 * Len(batch)
         /\ Promises(jobs') <= Promises(jobs) + Len(batch)
         /\ HeadSlots' = HeadSlots
<1> DEFINE new == {batch[i].id : i \in DOMAIN batch}
           n == Len(batch)
<1>1. /\ new \subseteq Ids
      /\ Present(jobs') = Present(jobs) \cup new /\ Present(jobs) \cap new = {}
      /\ \A k \in Present(jobs) : jobs'[k] = jobs[k]
      /\ \A k \in new :
           /\ jobs'[k].ids = {k} /\ ~IsIncremental(jobs'[k])
           /\ jobs'[k].resv = 0 /\ jobs'[k].spare /\ ~jobs'[k].meta
           /\ \E h : CheckHeads(jobs'[k]) \subseteq {h}
  <2>1. Present(jobs) = Unfinished /\ Present(jobs') = Unfinished'
    BY DEF Present, Unfinished
  <2>2. /\ new \subseteq Ids
        /\ Unfinished' = Unfinished \cup new /\ Unfinished \cap new = {}
        /\ \A k \in Unfinished : jobs'[k] = jobs[k]
        /\ \A k \in new :
             /\ jobs'[k].ids = {k} /\ ~IsIncremental(jobs'[k])
             /\ jobs'[k].resv = 0 /\ jobs'[k].spare /\ ~jobs'[k].meta
    BY BatchRecords
  <2>3. \A k \in new : \E h : CheckHeads(jobs'[k]) \subseteq {h}
    BY BatchRecords
  <2>4. QED
    BY <2>1, <2>2, <2>3
<1>2. Cardinality(new) = n /\ UNCHANGED heads
  BY DEF AdmitManual
<1>3. n \in Nat /\ IsFiniteSet(new)
  <2>1. IsFiniteSet(new)
    BY <1>1, FS_Subset, ConstantsAssumption DEF ConstantsAssumption
  <2>2. QED
    BY <1>2, <2>1, FS_CardinalityType
<1> HIDE DEF new, n
<1>4. /\ jobs \in [Ids -> Job \cup {None}] /\ jobs' \in [Ids -> Job \cup {None}]
  BY DEF Typed, TypeOK
<1>5. /\ FiniteFamily(ChecksIn(jobs)) /\ FiniteFamily(ChecksIn(jobs'))
      /\ FiniteFamily(AcceptedIn(jobs)) /\ FiniteFamily(AcceptedIn(jobs'))
      /\ FiniteFamily(ReservedIn(jobs)) /\ FiniteFamily(ReservedIn(jobs'))
      /\ IsFiniteSet(SparesIn(jobs)) /\ IsFiniteSet(UnresolvedIn(jobs))
  BY <1>4, FamiliesFinite
<1>6. /\ Total(ChecksIn(jobs)) \in Nat /\ Total(ChecksIn(jobs')) \in Nat
      /\ Total(AcceptedIn(jobs)) \in Nat /\ Total(AcceptedIn(jobs')) \in Nat
      /\ Total(ReservedIn(jobs)) \in Nat /\ Total(ReservedIn(jobs')) \in Nat
      /\ Cardinality(SparesIn(jobs)) \in Nat
      /\ Cardinality(UnresolvedIn(jobs)) \in Nat
  BY <1>5, TotalFinite, FS_CardinalityType
<1>7. Total(ChecksIn(jobs')) <= Total(ChecksIn(jobs)) + n
  <2> DEFINE H == [k \in new |-> CheckHeads(jobs'[k])]
  <2>1. /\ DOMAIN ChecksIn(jobs') = DOMAIN ChecksIn(jobs) \cup DOMAIN H
        /\ DOMAIN ChecksIn(jobs) \cap DOMAIN H = {}
        /\ \A k \in DOMAIN ChecksIn(jobs) : ChecksIn(jobs')[k] = ChecksIn(jobs)[k]
        /\ \A k \in DOMAIN H : ChecksIn(jobs')[k] = H[k]
    BY <1>1 DEF ChecksIn
  <2>2. (\A k \in DOMAIN H : \E h : H[k] \subseteq {h}) /\ DOMAIN H = new
    BY <1>1
  <2> HIDE DEF H
  <2>3. FiniteFamily(H)
        /\ Total(ChecksIn(jobs')) = Total(ChecksIn(jobs)) + Total(H)
    BY <1>5, <2>1, TotalParts
  <2>4. Total(H) <= n /\ Total(H) \in Nat
    BY <1>2, <2>2, <2>3, TotalOfSmall, TotalFinite
  <2>5. QED
    BY <1>3, <1>6, <2>3, <2>4
<1>8. Total(AcceptedIn(jobs')) <= Total(AcceptedIn(jobs)) + n
  <2> DEFINE H == [k \in new |-> jobs'[k].ids]
  <2>1. /\ DOMAIN AcceptedIn(jobs') = DOMAIN AcceptedIn(jobs) \cup DOMAIN H
        /\ DOMAIN AcceptedIn(jobs) \cap DOMAIN H = {}
        /\ \A k \in DOMAIN AcceptedIn(jobs) :
             AcceptedIn(jobs')[k] = AcceptedIn(jobs)[k]
        /\ \A k \in DOMAIN H : AcceptedIn(jobs')[k] = H[k]
    BY <1>1 DEF AcceptedIn
  <2>2. (\A k \in DOMAIN H : \E h : H[k] \subseteq {h}) /\ DOMAIN H = new
    BY <1>1
  <2> HIDE DEF H
  <2>3. FiniteFamily(H)
        /\ Total(AcceptedIn(jobs')) = Total(AcceptedIn(jobs)) + Total(H)
    BY <1>5, <2>1, TotalParts
  <2>4. Total(H) <= n /\ Total(H) \in Nat
    BY <1>2, <2>2, <2>3, TotalOfSmall, TotalFinite
  <2>5. QED
    BY <1>3, <1>6, <2>3, <2>4
<1>9. Total(ReservedIn(jobs')) <= Total(ReservedIn(jobs))
  <2> DEFINE H == [k \in new |-> 1 .. jobs'[k].resv]
  <2>1. /\ DOMAIN ReservedIn(jobs') = DOMAIN ReservedIn(jobs) \cup DOMAIN H
        /\ DOMAIN ReservedIn(jobs) \cap DOMAIN H = {}
        /\ \A k \in DOMAIN ReservedIn(jobs) :
             ReservedIn(jobs')[k] = ReservedIn(jobs)[k]
        /\ \A k \in DOMAIN H : ReservedIn(jobs')[k] = H[k]
    BY <1>1 DEF ReservedIn
  <2>2. \A k \in DOMAIN H : H[k] = {}
    BY <1>1
  <2> HIDE DEF H
  <2>3. Total(ReservedIn(jobs')) = Total(ReservedIn(jobs)) + Total(H)
        /\ FiniteFamily(H)
    BY <1>5, <2>1, TotalParts
  <2>4. Members(H) = {}
    BY <2>2, MembersAre
  <2>5. Total(H) = 0
    BY <2>3, <2>4, TotalFinite, FS_EmptySet
  <2>6. QED
    BY <1>6, <2>3, <2>5
<1>10. Cardinality(SparesIn(jobs')) = Cardinality(SparesIn(jobs)) + n
  <2>1. SparesIn(jobs') = SparesIn(jobs) \cup new /\ SparesIn(jobs) \cap new = {}
    BY <1>1 DEF SparesIn
  <2>2. Cardinality(SparesIn(jobs) \cup new) =
          Cardinality(SparesIn(jobs)) + Cardinality(new) - Cardinality({})
    BY <1>3, <1>5, <2>1, FS_Union
  <2>3. QED
    BY <1>2, <1>3, <1>6, <2>1, <2>2, FS_EmptySet
<1>11. UnresolvedIn(jobs') = UnresolvedIn(jobs)
  BY <1>1 DEF UnresolvedIn
<1>12. HeadSlots' = HeadSlots
  <2>1. \A pr : PendingFor(pr)' = PendingFor(pr)
    BY <1>1 DEF PendingFor, Unfinished, Present
  <2>2. QED
    BY <1>2, <2>1 DEF HeadSlots
<1>13. Identities(jobs') <= Identities(jobs) + 2 * n
  BY <1>3, <1>6, <1>7, <1>10, <1>11 DEF Identities
<1>14. Promises(jobs') <= Promises(jobs) + n
  BY <1>3, <1>6, <1>8, <1>9 DEF Promises
<1>15. QED
  BY <1>3, <1>12, <1>13, <1>14 DEF n

-----------------------------------------------------------------------------
(* What admission reserved is enough                                       *)

\* Every step, by what it does to the records.
LEMMA SortedStep ==
  ASSUME Typed, [Next]_vars
  PROVE  \/ LightStep /\ Len(retired') <= Len(retired)
         \/ \E r \in Requests : AdmitNew(r) \/ AdmitCoalesced(r)
         \/ \E batch \in Batches : AdmitManual(batch)
         \/ \E w \in Workers, h \in Heads : Reconcile(w, h)
         \/ \E w \in Workers : FinishYield(w) \/ DeferYield(w) \/ Defer(w)
         \/ \E w \in Workers : Finish(w)
         \/ \E d \in Drainers : ResolveClosed(d)
         \/ \E d \in Drainers, h \in Heads : ResolveOpen(d, h)
         \/ \E id \in Ids : TombstoneExpires(id)
         \/ \E pr \in PRs, h \in Heads, o \in HeadOutcomes : HistoryExpires(pr, h, o)
<1>1. Len(retired) \in Nat
  BY DEF Typed, TypeOK
<1>2. CASE Admit
  BY <1>2 DEF Admit
<1>3. ASSUME NEW w \in Workers, WorkerStep(w)
      PROVE  \/ LightStep /\ Len(retired') <= Len(retired)
             \/ \E h \in Heads : Reconcile(w, h)
             \/ FinishYield(w) \/ DeferYield(w) \/ Defer(w) \/ Finish(w)
  BY <1>1, <1>3, WorkerLight DEF WorkerStep
<1>4. ASSUME NEW d \in Drainers, DrainerStep(d)
      PROVE  \/ LightStep /\ Len(retired') <= Len(retired)
             \/ ResolveClosed(d) \/ \E h \in Heads : ResolveOpen(d, h)
  BY <1>4, DrainerLight DEF DrainerStep
<1>5. CASE TimePasses
  BY <1>1, <1>5, LapseLight DEF TimePasses
<1>6. CASE UNCHANGED vars
  BY <1>1, <1>6, LapseLight
<1>7. QED
  BY <1>2, <1>3, <1>4, <1>5, <1>6 DEF Next

\* A light step changes no weight.
LEMMA LightWeights ==
  ASSUME LightJobs
  PROVE  /\ Identities(jobs') = Identities(jobs)
         /\ Promises(jobs') = Promises(jobs)
<1>1. Present(jobs') = Present(jobs)
  BY DEF LightJobs, Present
<1>2. ASSUME NEW k \in Present(jobs)
      PROVE  /\ CheckHeads(jobs'[k]) = CheckHeads(jobs[k])
             /\ jobs'[k].spare = jobs[k].spare /\ jobs'[k].meta = jobs[k].meta
             /\ jobs'[k].ids = jobs[k].ids /\ jobs'[k].resv = jobs[k].resv
  BY DEF LightJobs, Light, Keeps, Present
<1>3. ChecksIn(jobs') = ChecksIn(jobs)
  BY <1>1, <1>2 DEF ChecksIn
<1>4. SparesIn(jobs') = SparesIn(jobs) /\ UnresolvedIn(jobs') = UnresolvedIn(jobs)
  BY <1>1, <1>2 DEF SparesIn, UnresolvedIn
<1>5. AcceptedIn(jobs') = AcceptedIn(jobs)
  BY <1>1, <1>2 DEF AcceptedIn
<1>6. ReservedIn(jobs') = ReservedIn(jobs)
  BY <1>1, <1>2 DEF ReservedIn
<1>7. QED
  BY <1>3, <1>4, <1>5, <1>6 DEF Identities, Promises

\* Records that keep their pull request and budgets that stay keep their slot.
LEMMA KeepsSlots ==
  ASSUME KeepsJobs, \A pr \in PRs : heads'[pr] = None <=> heads[pr] = None
  PROVE  HeadSlots' = HeadSlots
<1>1. \A pr : PendingFor(pr)' = PendingFor(pr)
  BY DEF KeepsJobs, Keeps, PendingFor, Unfinished, IsIncremental
<1>2. QED
  BY <1>1 DEF HeadSlots

\* An incremental record without a head waits for its metadata, unclaimed.
HeadKnown(j) ==
  IsIncremental(j) =>
    /\ j.meta <=> j.head = NoHead
    /\ j.hint = NoHead <=> j.head = NoHead
    /\ j.owner # None => j.head # NoHead
HeadsKnown == \A k \in Unfinished : HeadKnown(jobs[k])

\* A new incremental record weighs what admission counted for it.
LEMMA NewWeights ==
  ASSUME NEW r \in RequestRec, IsIncremental(r)
  PROVE  LET v == NewJob(r) IN
         /\ IdentitiesOf(v) = 2 /\ PromisesOf(v) = 2
         /\ v.head = r.head /\ v.hint = r.head /\ v.owner = None
         /\ v.meta <=> r.head = NoHead
<1> DEFINE v == NewJob(r)
<1>1. v \in Job /\ v # None
  BY NewJobType, NoneIsNoRecord
<1>2. /\ v.ids = {r.id} /\ v.resv = 1 /\ v.spare /\ (v.meta <=> r.head = NoHead)
      /\ v.head = r.head /\ v.hint = r.head /\ v.owner = None
      /\ v.checks = [h \in Heads |->
                       IF h = r.head THEN NewCheck(r.id, h, None) ELSE None]
  BY DEF NewJob, IsIncremental
<1>3. \A h \in Heads : NewCheck(r.id, h, None) # None
  <2>1. r.id \in Ids
    BY DEF RequestRec
  <2>2. QED
    BY <2>1, NewCheckType, NoneIsNoRecord
<1> HIDE DEF v
<1>4. CheckHeads(v) = IF r.head = NoHead THEN {} ELSE {r.head}
  <2>1. r.head \in Heads \cup {NoHead} /\ NoHead \notin Heads
    BY ConstantsAssumption DEF ConstantsAssumption, RequestRec
  <2>2. CheckHeads(v) = {h \in Heads : h = r.head}
    BY <1>2, <1>3 DEF CheckHeads, HasCheck
  <2>3. QED
    BY <2>1, <2>2
<1>5. Cardinality(CheckHeads(v)) = IF r.head = NoHead THEN 0 ELSE 1
  BY <1>4, FS_EmptySet, FS_Singleton
<1>6. IdentitiesOf(v) = 2
  BY <1>1, <1>2, <1>5 DEF IdentitiesOf
<1>7. PromisesOf(v) = 2
  <2>1. Cardinality(v.ids) = 1
    BY <1>2, FS_Singleton
  <2>2. QED
    BY <1>1, <1>2, <2>1 DEF PromisesOf
<1>8. QED
  BY <1>2, <1>6, <1>7 DEF v

\* A record that a delivery joins.
LEMMA JoinedFacts ==
  ASSUME NEW j \in Job, NEW r \in RequestRec
  PROVE  LET v == Joined(j, r) IN
         /\ v \in Job /\ v.pr = j.pr /\ v.mode = j.mode /\ v.owner = j.owner
         /\ v.hint = r.head /\ v.spare /\ (v.meta <=> r.head = NoHead)
         /\ v.ids = j.ids \cup {r.id} /\ v.resv = j.resv + 1
         /\ v.head = IF j.owner # None THEN j.head ELSE r.head
         /\ CheckHeads(v) \subseteq CheckHeads(j) \cup {r.head}
         /\ j.owner = None /\ j.head # r.head => CheckHeads(v) \subseteq {r.head}
<1> DEFINE x == [h \in Heads |-> IF h = r.head /\ ~HasCheck(j, h)
                                 THEN NewCheck(r.id, h, None) ELSE j.checks[h]]
           n == [j EXCEPT !.ids = j.ids \cup {r.id}, !.hint = r.head, !.checks = x,
                   !.resv = j.resv + 1, !.spare = TRUE, !.meta = (r.head = NoHead),
                   !.mgen = j.mgen + 1, !.mlive = FALSE]
           y == IF j.head # r.head THEN Kept(n, r.head) ELSE x
           u == [n EXCEPT !.id = r.id, !.head = r.head, !.checks = y]
           v == Joined(j, r)
<1>1. v \in Job
  BY JoinedType
<1>2. /\ n.pr = j.pr /\ n.mode = j.mode /\ n.owner = j.owner /\ n.head = j.head
      /\ n.hint = r.head /\ n.spare /\ (n.meta <=> r.head = NoHead)
      /\ n.ids = j.ids \cup {r.id} /\ n.resv = j.resv + 1 /\ n.checks = x
  BY DEF Job
<1>3. \A h \in Heads : x[h] # None => HasCheck(j, h) \/ h = r.head
  BY DEF HasCheck
<1>4. CASE j.owner # None
  <2>1. v \in {n, [n EXCEPT !.yield = @ \/ j.head # r.head]}
    BY <1>4 DEF Joined
  <2> DEFINE m == [n EXCEPT !.yield = @ \/ j.head # r.head]
  <2>2. /\ v.pr = n.pr /\ v.mode = n.mode /\ v.owner = n.owner /\ v.head = n.head
        /\ v.hint = n.hint /\ v.spare = n.spare /\ v.meta = n.meta
        /\ v.ids = n.ids /\ v.resv = n.resv /\ v.checks = x
    <3>1. /\ m.pr = n.pr /\ m.mode = n.mode /\ m.owner = n.owner /\ m.head = n.head
          /\ m.hint = n.hint /\ m.spare = n.spare /\ m.meta = n.meta
          /\ m.ids = n.ids /\ m.resv = n.resv /\ m.checks = n.checks
      OBVIOUS
    <3>2. v = n \/ v = m
      BY <2>1
    <3> HIDE DEF m, n, v, x
    <3>3. QED
      BY <1>2, <3>1, <3>2
  <2> HIDE DEF v, n, x
  <2>3. CheckHeads(v) \subseteq CheckHeads(j) \cup {r.head}
    BY <1>3, <2>2 DEF CheckHeads, HasCheck
  <2>4. QED
    BY <1>1, <1>2, <1>4, <2>2, <2>3 DEF v
<1>5. CASE j.owner = None
  <2>1. v = u
    BY <1>2, <1>5 DEF Joined
  <2>2. /\ u.pr = n.pr /\ u.mode = n.mode /\ u.owner = n.owner /\ u.head = r.head
        /\ u.hint = n.hint /\ u.spare = n.spare /\ u.meta = n.meta
        /\ u.ids = n.ids /\ u.resv = n.resv /\ u.checks = y
    OBVIOUS
  <2>3. \A h \in Heads : y[h] # None =>
          /\ x[h] # None
          /\ j.head # r.head => h = r.head
    BY <1>2 DEF Kept
  <2> HIDE DEF v, n, x, y, u
  <2>4. /\ CheckHeads(v) \subseteq CheckHeads(j) \cup {r.head}
        /\ j.head # r.head => CheckHeads(v) \subseteq {r.head}
    BY <1>3, <2>1, <2>2, <2>3 DEF CheckHeads, HasCheck
  <2>5. QED
    BY <1>1, <1>2, <1>5, <2>1, <2>2, <2>4 DEF v
<1>6. QED
  BY <1>4, <1>5

\* What admission makes sure of before r joins the record j.
RoomToJoin(j, r) ==
  Room(0, (IF r.head # NoHead /\ ~HasCheck(j, r.head) THEN 1 ELSE 0)
            + (IF j.spare THEN 0 ELSE 1), 2)

\* A delivery r joins the record k, now v, and detaches its checks of heads D.
Joins(r, k, v, D) ==
  LET j == jobs[k] IN
  /\ j # None /\ j \in Job /\ IsIncremental(j)
  /\ jobs' = [jobs EXCEPT ![k] = v] /\ v.pr = j.pr /\ v.mode = j.mode
  /\ D \in SUBSET (CheckHeads(j) \ CheckHeads(v))
  /\ retired' = retired \/ retired' = retired \o RetiredEntries(j, D)
  /\ v.ids = j.ids \cup {r.id} /\ v.owner = j.owner
  /\ RoomToJoin(j, r)
  /\ \/ /\ r.head = NoHead /\ j.head # NoHead /\ v.head = j.head
        /\ v.hint = j.hint /\ v.meta = j.meta /\ v.spare = j.spare
        /\ v.resv = j.resv /\ CheckHeads(v) = CheckHeads(j)
     \/ /\ r.head = NoHead => j.head = NoHead
        /\ v.head = IF j.owner # None THEN j.head ELSE r.head
        /\ v.hint = r.head /\ v.spare /\ (v.meta <=> r.head = NoHead)
        /\ v.resv = j.resv + 1
        /\ CheckHeads(v) \subseteq CheckHeads(j) \cup {r.head}

LEMMA CoalescedMoves ==
  ASSUME Typed, NEW r \in Requests, AdmitCoalesced(r)
  PROVE  /\ r \in RequestRec /\ UNCHANGED <<queue, terminal>>
         /\ \E k \in Ids, v \in Job, D \in SUBSET Heads : Joins(r, k, v, D)
<1> DEFINE k == CHOOSE x \in PendingFor(r.pr) : TRUE
           j == jobs[k]
           headless == r.head = NoHead /\ j.head # NoHead
           u == [j EXCEPT !.ids = j.ids \cup {r.id}]
           v == IF headless THEN u ELSE Joined(j, r)
           moves == ~headless /\ j.owner = None /\ j.head # r.head
           D == IF moves THEN Detached(j, r.head, NoHead) ELSE {}
<1>1. r \in RequestRec /\ r.id \in Ids
  BY ConstantsAssumption DEF ConstantsAssumption, RequestRec
<1>2. k \in Ids /\ j # None /\ j \in Job /\ IsIncremental(j)
  <2>1. k \in PendingFor(r.pr)
    BY DEF AdmitCoalesced
  <2>2. QED
    BY <2>1 DEF PendingFor, Unfinished, Typed, TypeOK
<1>3. /\ jobs' = [jobs EXCEPT ![k] = v] /\ RoomToJoin(j, r)
      /\ UNCHANGED <<queue, terminal>>
  BY DEF AdmitCoalesced, RoomToJoin
<1>4. /\ retired' = retired \/ retired' = retired \o RetiredEntries(j, D)
  <2>1. retired' = IF headless \/ j.owner # None \/ j.head = r.head THEN retired
                   ELSE retired \o RetiredEntries(j, Detached(j, r.head, NoHead))
    BY DEF AdmitCoalesced
  <2>2. CASE moves
    <3>1. D = Detached(j, r.head, NoHead)
      BY <2>2
    <3>2. retired' = retired \o RetiredEntries(j, Detached(j, r.head, NoHead))
      BY <2>1, <2>2
    <3> HIDE DEF D, k
    <3>3. QED
      BY <3>1, <3>2
  <2>3. CASE ~moves
    <3>1. retired' = retired
      BY <2>1, <2>3
    <3>2. QED
      BY <3>1
  <2>4. QED
    BY <2>2, <2>3
<1>5. CheckHeads(u) = CheckHeads(j)
      /\ u \in Job /\ u.pr = j.pr /\ u.mode = j.mode /\ u.owner = j.owner
      /\ u.head = j.head /\ u.hint = j.hint /\ u.meta = j.meta /\ u.spare = j.spare
      /\ u.resv = j.resv /\ u.ids = j.ids \cup {r.id}
  <2> HIDE DEF k
  <2>1. u \in Job
    BY <1>1, <1>2 DEF Job
  <2>2. /\ u.pr = j.pr /\ u.mode = j.mode /\ u.owner = j.owner
        /\ u.head = j.head /\ u.hint = j.hint /\ u.meta = j.meta
        /\ u.spare = j.spare /\ u.checks = j.checks
        /\ u.resv = j.resv /\ u.ids = j.ids \cup {r.id}
    BY <1>2 DEF Job
  <2>3. CheckHeads(u) = CheckHeads(j)
    BY <2>2 DEF CheckHeads, HasCheck
  <2>4. QED
    BY <2>1, <2>2, <2>3
<1>6. LET x == Joined(j, r) IN
      /\ x \in Job /\ x.pr = j.pr /\ x.mode = j.mode /\ x.owner = j.owner
      /\ x.hint = r.head /\ x.spare /\ (x.meta <=> r.head = NoHead)
      /\ x.ids = j.ids \cup {r.id} /\ x.resv = j.resv + 1
      /\ x.head = IF j.owner # None THEN j.head ELSE r.head
      /\ CheckHeads(x) \subseteq CheckHeads(j) \cup {r.head}
      /\ j.owner = None /\ j.head # r.head => CheckHeads(x) \subseteq {r.head}
  BY <1>1, <1>2, JoinedFacts
<1>7. D \in SUBSET Heads /\ D \in SUBSET (CheckHeads(j) \ CheckHeads(v))
  BY <1>6 DEF Detached, CheckHeads
<1>8. /\ v \in Job /\ v.pr = j.pr /\ v.mode = j.mode /\ v.owner = j.owner
      /\ v.ids = j.ids \cup {r.id}
      /\ \/ /\ r.head = NoHead /\ j.head # NoHead /\ v.head = j.head
            /\ v.hint = j.hint /\ v.meta = j.meta /\ v.spare = j.spare
            /\ v.resv = j.resv /\ CheckHeads(v) = CheckHeads(j)
         \/ /\ r.head = NoHead => j.head = NoHead
            /\ v.head = IF j.owner # None THEN j.head ELSE r.head
            /\ v.hint = r.head /\ v.spare /\ (v.meta <=> r.head = NoHead)
            /\ v.resv = j.resv + 1
            /\ CheckHeads(v) \subseteq CheckHeads(j) \cup {r.head}
  <2>1. CASE headless
    <3>1. v = u
      BY <2>1
    <3> HIDE DEF v, u
    <3>2. QED
      BY <1>5, <2>1, <3>1
  <2>2. CASE ~headless
    <3>1. v = Joined(j, r)
      BY <2>2
    <3> HIDE DEF v, u
    <3>2. QED
      BY <1>6, <2>2, <3>1
  <2>3. QED
    BY <2>1, <2>2
<1> HIDE DEF k, v, D, u
<1>9. Joins(r, k, v, D)
  BY <1>2, <1>3, <1>4, <1>7, <1>8 DEF Joins
<1>10. QED
  BY <1>1, <1>2, <1>3, <1>7, <1>8, <1>9

LEMMA HeadKnownAt ==
  ASSUME Typed, HeadsKnown, NEW k \in Ids, NEW v, jobs' = [jobs EXCEPT ![k] = v],
         v # None => HeadKnown(v)
  PROVE  HeadsKnown'
<1>1. \A x \in Ids : x # k => jobs'[x] = jobs[x]
  BY DEF Typed, TypeOK
<1>2. jobs'[k] = v
  BY DEF Typed, TypeOK
<1>3. QED
  BY <1>1, <1>2 DEF HeadsKnown, Unfinished

\* A step that gives no record an owner keeps what is known of its head.
LEMMA HeadKnownLight ==
  ASSUME Typed, HeadsKnown, LightJobs,
         \/ Settles
         \/ \E w \in Workers : ClaimNext(w)
         \/ \E d \in Drainers : ClaimCheck(d)
  PROVE  HeadsKnown'
<1>1. SUFFICES ASSUME NEW k \in Ids, jobs'[k] # None
               PROVE  HeadKnown(jobs'[k])
  BY DEF HeadsKnown, Unfinished
<1> DEFINE j == jobs[k]
           v == jobs'[k]
<1>2. j # None /\ Light(j, v) /\ HeadKnown(j)
  BY <1>1 DEF LightJobs, HeadsKnown, Unfinished
<1>3. v.owner # None /\ IsIncremental(j) => j.head # NoHead
  <2>1. CASE Settles
    BY <1>1, <1>2, <2>1 DEF Settles, SameOwner, HeadKnown
  <2>2. ASSUME NEW w \in Workers, ClaimNext(w)
        PROVE  v.owner # None /\ IsIncremental(j) => j.head # NoHead
    <3>1. PICK i \in DOMAIN queue : \E x :
            Claimable(jobs[queue[i]]) /\ jobs' = [jobs EXCEPT ![queue[i]] = x]
      BY <2>2 DEF ClaimNext
    <3>2. CASE queue[i] = k
      BY <1>2, <3>1, <3>2 DEF Claimable, HeadKnown
    <3>3. CASE queue[i] # k
      <4>1. v = j
        BY <3>1, <3>3 DEF Typed, TypeOK
      <4>2. QED
        BY <1>2, <4>1 DEF HeadKnown
    <3>4. QED
      BY <3>2, <3>3
  <2>3. ASSUME NEW d \in Drainers, ClaimCheck(d)
        PROVE  v.owner # None /\ IsIncremental(j) => j.head # NoHead
    <3>1. PICK l \in Ids : \E x :
            /\ jobs' = [jobs EXCEPT ![l] = x] /\ x.owner = jobs[l].owner
      <4>1. PICK l \in Unfinished :
              jobs' = [jobs EXCEPT ![l].checks[jobs[l].head] =
                         [@ EXCEPT !.wgen = jobs[l].checks[jobs[l].head].wgen + 1,
                                   !.wlive = TRUE]]
        BY <2>3 DEF ClaimCheck
      <4>2. l \in Ids /\ jobs[l] \in Job
        BY DEF Unfinished, Typed, TypeOK
      <4> DEFINE x == [jobs[l] EXCEPT !.checks[jobs[l].head] =
                         [@ EXCEPT !.wgen = jobs[l].checks[jobs[l].head].wgen + 1,
                                   !.wlive = TRUE]]
      <4>3. x.owner = jobs[l].owner
        BY <4>2 DEF Job
      <4>4. jobs' = [jobs EXCEPT ![l] = x]
        BY <4>1
      <4> HIDE DEF x
      <4>5. QED
        BY <4>2, <4>3, <4>4
    <3>2. v.owner = j.owner
      BY <3>1 DEF Typed, TypeOK
    <3>3. QED
      BY <1>2, <3>2 DEF HeadKnown
  <2>4. QED
    BY <2>1, <2>2, <2>3
<1> HIDE DEF j, v
<1>4. HeadKnown(v)
  BY <1>2, <1>3 DEF HeadKnown, Light, Keeps, IsIncremental
<1>5. QED
  BY <1>4 DEF v

\* A push joins only a record whose head is known, or one that waits as well.
LEMMA JoinKeepsHead ==
  ASSUME NEW j, HeadKnown(j), IsIncremental(j), NEW r \in RequestRec, NEW v,
         v.mode = j.mode, v.owner = j.owner,
         \/ /\ r.head = NoHead /\ j.head # NoHead /\ v.head = j.head
            /\ v.hint = j.hint /\ v.meta = j.meta
         \/ /\ r.head = NoHead => j.head = NoHead
            /\ v.head = IF j.owner # None THEN j.head ELSE r.head
            /\ v.hint = r.head /\ (v.meta <=> r.head = NoHead)
  PROVE  HeadKnown(v)
  BY DEF HeadKnown, IsIncremental

LEMMA HeadsKnownStep ==
  ASSUME Typed, Typed', QuietApart, HeadsKnown, [Next]_vars
  PROVE  HeadsKnown'
<1>1. ASSUME NEW r \in Requests, AdmitNew(r)
      PROVE  HeadsKnown'
  <2>1. r \in RequestRec /\ r.id \in Ids /\ IsIncremental(r)
        /\ jobs' = [jobs EXCEPT ![r.id] = NewJob(r)]
    BY <1>1, ConstantsAssumption DEF ConstantsAssumption, RequestRec, AdmitNew
  <2>2. HeadKnown(NewJob(r))
    BY <2>1, NewWeights DEF HeadKnown
  <2>3. QED
    BY <2>1, <2>2, HeadKnownAt
<1>2. ASSUME NEW r \in Requests, AdmitCoalesced(r)
      PROVE  HeadsKnown'
  <2>1. PICK k \in Ids, v \in Job, D \in SUBSET Heads : Joins(r, k, v, D)
    BY <1>2, CoalescedMoves
  <2>2. HeadKnown(jobs[k])
    BY <2>1 DEF HeadsKnown, Unfinished, Joins
  <2>3. HeadKnown(v)
    <3>1. r \in RequestRec
      BY <1>2, CoalescedMoves
    <3>2. QED
      BY <2>1, <2>2, <3>1, JoinKeepsHead DEF Joins
  <2>4. QED
    BY <2>1, <2>3, HeadKnownAt DEF Joins
<1>3. ASSUME NEW batch \in Batches, AdmitManual(batch)
      PROVE  HeadsKnown'
  <2>1. \A k \in Unfinished' : \/ k \in Unfinished /\ jobs'[k] = jobs[k]
                              \/ ~IsIncremental(jobs'[k])
    BY <1>3, BatchRecords
  <2>2. QED
    BY <2>1 DEF HeadsKnown, HeadKnown
<1>4. ASSUME NEW w \in Workers, NEW h \in Heads, Reconcile(w, h)
      PROVE  HeadsKnown'
  <2>1. PICK k \in Ids, v \in Job :
          /\ jobs[k] # None /\ Keeps(jobs[k], v) /\ jobs' = [jobs EXCEPT ![k] = v]
          /\ v.meta = jobs[k].meta /\ v.hint = jobs[k].hint /\ v.head = h
          /\ v.owner = jobs[k].owner /\ jobs[k].owner # None
    <3>1. OwnsLive(w) /\ jobs[held[w].key].owner # None
      <4>1. OwnsLive(w)
        BY <1>4, ReconcileMoves
      <4>2. held[w] \in Handle
        BY <4>1 DEF OwnsLive, Owns, Typed, TypeOK
      <4>3. QED
        BY <4>1, <4>2, ConstantsAssumption
           DEF OwnsLive, Owns, Handle, ConstantsAssumption
    <3>2. QED
      BY <1>4, <3>1, ReconcileMoves DEF Moved
  <2>2. HeadKnown(v)
    <3>1. HeadKnown(jobs[k]) /\ v.mode = jobs[k].mode
      BY <2>1 DEF HeadsKnown, Unfinished, Keeps
    <3>2. h # NoHead
      BY ConstantsAssumption DEF ConstantsAssumption
    <3>3. QED
      BY <2>1, <3>1, <3>2 DEF HeadKnown, IsIncremental
  <2>3. QED
    BY <2>1, <2>2, HeadKnownAt
<1>5. ASSUME NEW w \in Workers, FinishYield(w) \/ DeferYield(w) \/ Defer(w)
      PROVE  HeadsKnown'
  <2>1. PICK k \in Ids, v \in Job :
          /\ jobs[k] # None /\ Keeps(jobs[k], v) /\ jobs' = [jobs EXCEPT ![k] = v]
          /\ v.meta = jobs[k].meta /\ v.hint = jobs[k].hint
          /\ v.head \in {jobs[k].head, jobs[k].hint} /\ v.owner = None
    BY <1>5, ReleaseMoves DEF Moved
  <2>2. HeadKnown(jobs[k]) /\ v.mode = jobs[k].mode
    BY <2>1 DEF HeadsKnown, Unfinished, Keeps
  <2>3. HeadKnown(v)
    BY <2>1, <2>2 DEF HeadKnown, IsIncremental
  <2>4. QED
    BY <2>1, <2>3, HeadKnownAt
<1>6. CASE \/ \E w \in Workers : Finish(w)
           \/ \E d \in Drainers : ResolveClosed(d)
  BY <1>6, EndsRecord, HeadKnownAt
<1>7. ASSUME NEW d \in Drainers, NEW h \in Heads, ResolveOpen(d, h)
      PROVE  HeadsKnown'
  <2>1. PICK k \in Ids, v \in Job :
          /\ jobs' = [jobs EXCEPT ![k] = v]
          /\ ~v.meta /\ v.owner = None /\ v.head = h /\ v.hint = h
    BY <1>7, ResolveOpenMoves
  <2>2. HeadKnown(v)
    BY <2>1, ConstantsAssumption DEF HeadKnown, ConstantsAssumption
  <2>3. QED
    BY <2>1, <2>2, HeadKnownAt
<1>8. ASSUME NEW w \in Workers, WorkerStep(w)
      PROVE  HeadsKnown'
  <2>1. CASE \/ \E h \in Heads : Reconcile(w, h)
             \/ FinishYield(w) \/ DeferYield(w) \/ Defer(w) \/ Finish(w)
    BY <1>4, <1>5, <1>6, <2>1
  <2>2. CASE ~\/ \E h \in Heads : Reconcile(w, h)
              \/ FinishYield(w) \/ DeferYield(w) \/ Defer(w) \/ Finish(w)
    <3>1. LightJobs
      BY <1>8, <2>2, WorkerLight DEF WorkerStep, LightStep
    <3>2. Settles \/ ClaimNext(w)
      BY <1>8, <2>2, WorkerSettles
    <3>3. QED
      BY <3>1, <3>2, HeadKnownLight
  <2>3. QED
    BY <2>1, <2>2
<1>9. ASSUME NEW d \in Drainers, DrainerStep(d)
      PROVE  HeadsKnown'
  <2>1. CASE ResolveClosed(d) \/ \E h \in Heads : ResolveOpen(d, h)
    BY <1>6, <1>7, <2>1
  <2>2. CASE ~(ResolveClosed(d) \/ \E h \in Heads : ResolveOpen(d, h))
    <3>1. LightJobs
      BY <1>9, <2>2, DrainerLight DEF DrainerStep, LightStep
    <3>2. Settles \/ ClaimCheck(d)
      BY <1>9, DrainerSettles
    <3>3. QED
      BY <3>1, <3>2, HeadKnownLight
  <2>3. QED
    BY <2>1, <2>2
<1>10. CASE TimePasses
  <2>1. CASE UNCHANGED jobs
    BY <2>1, SameIsLight, SameSettles, HeadKnownLight
  <2>2. CASE ~UNCHANGED jobs
    <3>1. LightJobs
      BY <1>10, <2>2, LapseLight
         DEF TimePasses, LightStep, TombstoneExpires, HistoryExpires
    <3>2. QED
      BY <1>10, <3>1, TimeSettles, HeadKnownLight
  <2>3. QED
    BY <2>1, <2>2
<1>11. CASE UNCHANGED vars
  BY <1>11, SameIsLight, SameSettles, HeadKnownLight DEF vars
<1>12. QED
  BY <1>1, <1>2, <1>3, <1>8, <1>9, <1>10, <1>11 DEF Next, Admit

-----------------------------------------------------------------------------
(* The check identities fit                                                *)

\* Checks kept and checks detached were checks before, except that of h.
LEMMA DetachedSize ==
  ASSUME NEW j \in Job, NEW v \in Job, NEW D \in SUBSET (CheckHeads(j) \ CheckHeads(v)),
         NEW h, CheckHeads(v) \subseteq CheckHeads(j) \cup {h}
  PROVE  /\ Cardinality(CheckHeads(j)) \in Nat /\ Cardinality(CheckHeads(v)) \in Nat
         /\ Cardinality(D) \in Nat
         /\ Cardinality(CheckHeads(v)) + Cardinality(D) <= Cardinality(CheckHeads(j)) + 1
         /\ CheckHeads(v) \subseteq CheckHeads(j) =>
              Cardinality(CheckHeads(v)) + Cardinality(D) <= Cardinality(CheckHeads(j))
<1> DEFINE A == CheckHeads(v)
           B == CheckHeads(j)
<1>1. IsFiniteSet(A) /\ IsFiniteSet(B) /\ IsFiniteSet(D)
  <2>1. A \in SUBSET Heads /\ B \in SUBSET Heads /\ D \in SUBSET Heads
    BY DEF CheckHeads
  <2>2. IsFiniteSet(Heads)
    BY ConstantsAssumption DEF ConstantsAssumption
  <2>3. QED
    BY <2>1, <2>2, FS_Subset
<1>2. D \subseteq B \ A /\ A \subseteq B \cup {h}
  OBVIOUS
<1> HIDE DEF A, B
<1>3. Cardinality(A) \in Nat /\ Cardinality(B) \in Nat /\ Cardinality(D) \in Nat
  BY <1>1, FS_CardinalityType
<1>4. Cardinality(A \cup D) = Cardinality(A) + Cardinality(D)
  <2>1. A \cap D = {}
    BY <1>2
  <2>2. Cardinality(A \cup D) = Cardinality(A) + Cardinality(D) - Cardinality({})
    BY <1>1, <2>1, FS_Union
  <2>3. QED
    BY <1>3, <2>2, FS_EmptySet
<1>5. Cardinality(A \cup D) <= Cardinality(B) + 1
  <2>1. A \cup D \subseteq B \cup {h}
    BY <1>2
  <2>2. IsFiniteSet(B \cup {h})
        /\ Cardinality(B \cup {h}) = IF h \in B THEN Cardinality(B) ELSE Cardinality(B) + 1
    BY <1>1, FS_AddElement
  <2>3. Cardinality(A \cup D) <= Cardinality(B \cup {h})
    BY <2>1, <2>2, FS_Subset
  <2>4. QED
    BY <1>3, <1>4, <2>2, <2>3
<1>6. A \subseteq B => Cardinality(A \cup D) <= Cardinality(B)
  <2>1. A \subseteq B => A \cup D \subseteq B
    BY <1>2
  <2>2. QED
    BY <1>1, <2>1, FS_Subset
<1>7. QED
  BY <1>3, <1>4, <1>5, <1>6 DEF A, B

LEMMA IdentitiesType ==
  ASSUME NEW j \in Job \cup {None}
  PROVE  /\ IdentitiesOf(j) \in Nat
         /\ j # None => Cardinality(CheckHeads(j)) \in Nat
<1>1. CASE j # None
  <2>1. CheckHeads(j) \in SUBSET Heads /\ IsFiniteSet(Heads)
    BY ConstantsAssumption DEF CheckHeads, ConstantsAssumption
  <2>2. Cardinality(CheckHeads(j)) \in Nat
    BY <2>1, FS_Subset, FS_CardinalityType
  <2>3. QED
    BY <1>1, <2>2 DEF IdentitiesOf
<1>2. QED
  BY <1>1 DEF IdentitiesOf

LEMMA StatusType ==
  ASSUME Typed, Typed'
  PROVE  StatusRecords \in Nat /\ StatusRecords' \in Nat
<1>1. TypeOK /\ TypeOK'
  BY DEF Typed
<1>2. /\ StatusRecords = Len(retired) + Identities(jobs)
      /\ StatusRecords' = Len(retired') + Identities(jobs')
      /\ Len(retired) \in Nat /\ Len(retired') \in Nat
      /\ Identities(jobs) \in Nat /\ Identities(jobs') \in Nat
  BY <1>1, CapacityParts
<1>3. QED
  BY <1>2

\* What one record gains is what the document gains.
LEMMA StatusAt ==
  ASSUME Typed, Typed', NEW k \in Ids, NEW v \in Job \cup {None},
         jobs' = [jobs EXCEPT ![k] = v], NEW c \in Nat,
         Len(retired') + IdentitiesOf(v) <= Len(retired) + IdentitiesOf(jobs[k]) + c
  PROVE  StatusRecords' <= StatusRecords + c
<1>1. /\ jobs \in [Ids -> Job \cup {None}] /\ jobs' \in [Ids -> Job \cup {None}]
      /\ jobs'[k] = v /\ \A x \in Ids : x # k => jobs[x] = jobs'[x]
  BY DEF Typed, TypeOK
<1>2. Identities(jobs') + IdentitiesOf(jobs[k]) = Identities(jobs) + IdentitiesOf(v)
  BY <1>1, WeightsUpdate
<1>3. IdentitiesOf(v) \in Nat /\ IdentitiesOf(jobs[k]) \in Nat
  BY <1>1, IdentitiesType
<1>4. /\ StatusRecords = Len(retired) + Identities(jobs)
      /\ StatusRecords' = Len(retired') + Identities(jobs')
      /\ Len(retired) \in Nat /\ Len(retired') \in Nat
      /\ Identities(jobs) \in Nat /\ Identities(jobs') \in Nat
  BY CapacityParts DEF Typed
<1>5. ASSUME NEW a \in Nat, NEW b \in Nat, NEW p \in Nat, NEW q \in Nat,
             NEW x \in Nat, NEW y \in Nat, q + x = p + y, b + y <= a + x + c
      PROVE  b + q <= a + p + c
  BY <1>5
<1>6. QED
  BY <1>2, <1>3, <1>4, <1>5

\* A record that sends checks of D to the outbox gains what it does not send.
LEMMA StatusMoved ==
  ASSUME Typed, Typed', NEW k \in Ids, jobs[k] # None, NEW v \in Job,
         jobs' = [jobs EXCEPT ![k] = v],
         NEW D \in SUBSET (CheckHeads(jobs[k]) \ CheckHeads(v)),
         retired' = retired \/ retired' = retired \o RetiredEntries(jobs[k], D),
         NEW h, CheckHeads(v) \subseteq CheckHeads(jobs[k]) \cup {h},
         v.meta => jobs[k].meta
  PROVE  /\ CheckHeads(v) \subseteq CheckHeads(jobs[k]) /\ v.spare = jobs[k].spare
              => StatusRecords' <= StatusRecords
         /\ v.spare = jobs[k].spare => StatusRecords' <= StatusRecords + 1
         /\ ~v.spare /\ jobs[k].spare => StatusRecords' <= StatusRecords
         /\ ~v.spare => StatusRecords' <= StatusRecords + 1
         /\ CheckHeads(v) \subseteq CheckHeads(jobs[k])
              => StatusRecords' <= StatusRecords + (IF jobs[k].spare THEN 0 ELSE 1)
         /\ StatusRecords' <= StatusRecords + (1 + IF jobs[k].spare THEN 0 ELSE 1)
<1> DEFINE j == jobs[k]
           a == Cardinality(CheckHeads(j))
           b == Cardinality(CheckHeads(v))
           d == Cardinality(D)
<1>1. j \in Job /\ v # None
  BY NoneIsNoRecord DEF Typed, TypeOK
<1>2. /\ a \in Nat /\ b \in Nat /\ d \in Nat /\ b + d <= a + 1
      /\ CheckHeads(v) \subseteq CheckHeads(j) => b + d <= a
  BY <1>1, DetachedSize
<1>3. Len(retired) \in Nat /\ Len(retired') \in Nat /\ Len(retired') <= Len(retired) + d
  <2>1. retired \in Seq(Retired)
    BY DEF Typed, TypeOK
  <2>2. D \in SUBSET CheckHeads(j)
    OBVIOUS
  <2>3. Len(retired \o RetiredEntries(j, D)) = Len(retired) + d
    BY <1>1, <2>1, <2>2, RetiredLength
  <2>4. Len(retired) \in Nat
    BY <2>1
  <2>5. QED
    BY <1>2, <2>3, <2>4
<1>4. /\ IdentitiesOf(j) = a + (IF j.spare THEN 1 ELSE 0) + (IF j.meta THEN 1 ELSE 0)
      /\ IdentitiesOf(v) = b + (IF v.spare THEN 1 ELSE 0) + (IF v.meta THEN 1 ELSE 0)
  BY <1>1 DEF IdentitiesOf
<1>5. v.meta => j.meta
  OBVIOUS
<1>6. \A c \in Nat :
        Len(retired') + IdentitiesOf(v) <= Len(retired) + IdentitiesOf(j) + c
          => StatusRecords' <= StatusRecords + c
  <2>1. v \in Job \cup {None}
    OBVIOUS
  <2>2. QED
    BY <2>1, StatusAt
<1>7. StatusRecords \in Nat /\ StatusRecords' \in Nat
  BY StatusType
<1> HIDE DEF j, a, b, d
<1>8. CheckHeads(v) \subseteq CheckHeads(j) /\ v.spare = j.spare
        => StatusRecords' <= StatusRecords + 0
  BY <1>2, <1>3, <1>4, <1>5, <1>6
<1>9. v.spare = j.spare => StatusRecords' <= StatusRecords + 1
  BY <1>2, <1>3, <1>4, <1>5, <1>6
<1>10. ~v.spare /\ j.spare => StatusRecords' <= StatusRecords + 0
  BY <1>2, <1>3, <1>4, <1>5, <1>6
<1>11. ~v.spare => StatusRecords' <= StatusRecords + 1
  BY <1>2, <1>3, <1>4, <1>5, <1>6
<1>12. CheckHeads(v) \subseteq CheckHeads(j)
        => StatusRecords' <= StatusRecords + (IF j.spare THEN 0 ELSE 1)
  <2>1. j.spare => (CheckHeads(v) \subseteq CheckHeads(j)
                     => StatusRecords' <= StatusRecords + 0)
    BY <1>2, <1>3, <1>4, <1>5, <1>6
  <2>2. ~j.spare => (CheckHeads(v) \subseteq CheckHeads(j)
                     => StatusRecords' <= StatusRecords + 1)
    BY <1>2, <1>3, <1>4, <1>5, <1>6
  <2>3. QED
    BY <2>1, <2>2
<1>13. StatusRecords' <= StatusRecords + (1 + IF j.spare THEN 0 ELSE 1)
  <2>1. j.spare => StatusRecords' <= StatusRecords + 1
    BY <1>2, <1>3, <1>4, <1>5, <1>6
  <2>2. ~j.spare => StatusRecords' <= StatusRecords + 2
    BY <1>2, <1>3, <1>4, <1>5, <1>6
  <2>3. QED
    BY <2>1, <2>2
<1>14. QED
  BY <1>7, <1>8, <1>9, <1>10, <1>11, <1>12, <1>13 DEF j

\* Detaching, confirming and redelivering gain no more than was promised.
LEMMA StatusJoins ==
  ASSUME Typed, Typed', HeadsKnown, NEW r \in Requests, AdmitCoalesced(r)
  PROVE  StatusRecords' <= MaxStatusRecords
<1>1. r \in RequestRec
      /\ \E k \in Ids, v \in Job, D \in SUBSET Heads : Joins(r, k, v, D)
  BY CoalescedMoves
<1>2. PICK k \in Ids, v \in Job, D \in SUBSET Heads : Joins(r, k, v, D)
  BY <1>1
<1> DEFINE j == jobs[k]
<1>3. HeadKnown(j)
  BY <1>2 DEF HeadsKnown, Unfinished, Joins
<1>4. v.meta => j.meta
  BY <1>2, <1>3 DEF HeadKnown, Joins
<1>5. CheckHeads(v) \subseteq CheckHeads(j) \cup {r.head}
  BY <1>2 DEF Joins
<1>6. /\ CheckHeads(v) \subseteq CheckHeads(j)
           => StatusRecords' <= StatusRecords + (IF j.spare THEN 0 ELSE 1)
      /\ StatusRecords' <= StatusRecords + (1 + IF j.spare THEN 0 ELSE 1)
  BY <1>2, <1>4, <1>5, StatusMoved DEF Joins
<1>7. ~(r.head # NoHead /\ ~HasCheck(j, r.head))
        => CheckHeads(v) \subseteq CheckHeads(j)
  <2>1. CheckHeads(v) \subseteq Heads /\ NoHead \notin Heads
        /\ r.head \in Heads \cup {NoHead}
    BY <1>1, ConstantsAssumption DEF CheckHeads, ConstantsAssumption, RequestRec
  <2>2. r.head \in Heads /\ HasCheck(j, r.head) => r.head \in CheckHeads(j)
    BY DEF CheckHeads
  <2>3. QED
    BY <1>5, <2>1, <2>2
<1>8. StatusRecords + ((IF r.head # NoHead /\ ~HasCheck(j, r.head) THEN 1 ELSE 0)
                         + (IF j.spare THEN 0 ELSE 1)) <= MaxStatusRecords
  BY <1>2 DEF Room, RoomToJoin, Joins
<1>9. StatusRecords \in Nat /\ StatusRecords' \in Nat /\ MaxStatusRecords \in Nat
  BY StatusType, ConstantsAssumption DEF ConstantsAssumption
<1> HIDE DEF j
<1>10. QED
  BY <1>6, <1>7, <1>8, <1>9

\* A live head gets its check on the spare, or on room that is left.
LEMMA StatusReconciles ==
  ASSUME Typed, Typed', StatusRecordsFit, NEW w \in Workers, NEW h \in Heads,
         Reconcile(w, h)
  PROVE  StatusRecords' <= MaxStatusRecords
<1> DEFINE k == held[w].key
           j == jobs[k]
<1>1. PICK v \in Job, D \in SUBSET Heads :
        /\ k \in Ids /\ Moved(k, v, D) /\ v.meta = j.meta
        /\ \/ CheckHeads(v) \subseteq CheckHeads(j) /\ v.spare = j.spare
           \/ CheckHeads(v) = {h} /\ h \notin CheckHeads(j) /\ ~v.spare
  BY ReconcileMoves
<1>2. CheckHeads(v) \subseteq CheckHeads(j) \cup {h}
  BY <1>1
<1>3. /\ CheckHeads(v) \subseteq CheckHeads(j) /\ v.spare = j.spare
           => StatusRecords' <= StatusRecords
      /\ ~v.spare /\ j.spare => StatusRecords' <= StatusRecords
      /\ ~v.spare => StatusRecords' <= StatusRecords + 1
  BY <1>1, <1>2, StatusMoved DEF Moved
<1>4. ~StatusFull(j, h)
  BY DEF Reconcile
<1>5. StatusRecords \in Nat /\ StatusRecords' \in Nat /\ MaxStatusRecords \in Nat
  BY StatusType, ConstantsAssumption DEF ConstantsAssumption
<1>6. h \notin CheckHeads(j) /\ ~j.spare => StatusRecords < MaxStatusRecords
  BY <1>4, <1>5 DEF StatusFull, CheckHeads
<1> HIDE DEF j, k
<1>7. QED
  BY <1>1, <1>3, <1>5, <1>6 DEF StatusRecordsFit

\* A record that ends sends no more than it held.
LEMMA StatusEnds ==
  ASSUME Typed, Typed',
         \/ \E w \in Workers : Finish(w)
         \/ \E d \in Drainers : ResolveClosed(d)
  PROVE  StatusRecords' <= StatusRecords
<1>1. PICK k \in Ids : jobs[k] # None /\ jobs[k] \in Job
                       /\ jobs' = [jobs EXCEPT ![k] = None]
  BY EndsRecord
<1>2. \E D \in SUBSET CheckHeads(jobs[k]) :
        retired' = retired \/ retired' = retired \o RetiredEntries(jobs[k], D)
  <2>1. ASSUME NEW w \in Workers, Finish(w)
        PROVE  \E D \in SUBSET CheckHeads(jobs[k]) :
                 retired' = retired \o RetiredEntries(jobs[k], D)
    <3>1. k = held[w].key
      <4>1. jobs' = [jobs EXCEPT ![held[w].key] = None] /\ held[w].key \in Ids
        BY <2>1, OwnedType DEF Finish, Concluded, OwnsLive
      <4>2. jobs'[k] = None /\ jobs[k] # None
        BY <1>1 DEF Typed, TypeOK
      <4>3. QED
        BY <4>1, <4>2 DEF Typed, TypeOK
    <3>2. \E o : retired' = retired \o RetiredEntries(jobs[k], RemovedChecks(jobs[k], o))
      BY <2>1, <3>1 DEF Finish
    <3>3. \A o : RemovedChecks(jobs[k], o) \in SUBSET CheckHeads(jobs[k])
      BY DEF RemovedChecks
    <3>4. QED
      BY <3>2, <3>3
  <2>2. ASSUME NEW d \in Drainers, ResolveClosed(d)
        PROVE  retired' = retired
    BY <2>2 DEF ResolveClosed
  <2>3. QED
    BY <2>1, <2>2
<1>3. PICK D \in SUBSET CheckHeads(jobs[k]) :
        retired' = retired \/ retired' = retired \o RetiredEntries(jobs[k], D)
  BY <1>2
<1> DEFINE a == Cardinality(CheckHeads(jobs[k]))
<1>4. Cardinality(D) <= a /\ a \in Nat /\ Cardinality(D) \in Nat
  <2>1. CheckHeads(jobs[k]) \in SUBSET Heads /\ IsFiniteSet(Heads)
    BY ConstantsAssumption DEF CheckHeads, ConstantsAssumption
  <2>2. IsFiniteSet(CheckHeads(jobs[k]))
    BY <2>1, FS_Subset
  <2>3. QED
    BY <2>2, FS_Subset, FS_CardinalityType
<1>5. /\ Len(retired) \in Nat /\ Len(retired') <= Len(retired) + a
      /\ Len(retired') \in Nat
  <2>1. retired \in Seq(Retired) /\ retired' \in Seq(Retired)
    BY DEF Typed, TypeOK
  <2>2. Len(retired \o RetiredEntries(jobs[k], D)) = Len(retired) + Cardinality(D)
    BY <1>1, <2>1, RetiredLength
  <2>3. Len(retired) \in Nat /\ Len(retired') \in Nat
    BY <2>1
  <2>4. QED
    BY <1>3, <1>4, <2>2, <2>3
<1>6. IdentitiesOf(None) = 0 /\ a <= IdentitiesOf(jobs[k]) /\ IdentitiesOf(jobs[k]) \in Nat
  <2>1. IdentitiesOf(jobs[k]) = a + (IF jobs[k].spare THEN 1 ELSE 0)
                                  + (IF jobs[k].meta THEN 1 ELSE 0)
    BY <1>1 DEF IdentitiesOf
  <2> HIDE DEF a
  <2>2. QED
    BY <1>4, <2>1 DEF IdentitiesOf
<1>7. Len(retired') + IdentitiesOf(None) <= Len(retired) + IdentitiesOf(jobs[k]) + 0
  <2> HIDE DEF a
  <2>1. QED
    BY <1>4, <1>5, <1>6
<1>8. StatusRecords' <= StatusRecords + 0
  <2>1. None \in Job \cup {None} /\ 0 \in Nat
    OBVIOUS
  <2>2. QED
    BY <1>1, <1>7, <2>1, StatusAt
<1>9. QED
  BY <1>8, StatusType

LEMMA StatusStep ==
  ASSUME Typed, Typed', HeadsKnown, StatusRecordsFit, [Next]_vars
  PROVE  StatusRecordsFit'
<1>1. StatusRecords \in Nat /\ StatusRecords' \in Nat /\ MaxStatusRecords \in Nat
  BY StatusType, ConstantsAssumption DEF ConstantsAssumption
<1>2. SUFFICES StatusRecords' <= MaxStatusRecords
  BY DEF StatusRecordsFit
<1>3. StatusRecords' <= StatusRecords => StatusRecords' <= MaxStatusRecords
  BY <1>1 DEF StatusRecordsFit
<1>4. /\ StatusRecords = Len(retired) + Identities(jobs)
      /\ StatusRecords' = Len(retired') + Identities(jobs')
      /\ Len(retired) \in Nat /\ Len(retired') \in Nat
      /\ Identities(jobs) \in Nat /\ Identities(jobs') \in Nat
  BY CapacityParts DEF Typed
<1>5. CASE LightStep /\ Len(retired') <= Len(retired)
  <2>1. Identities(jobs') = Identities(jobs)
    BY <1>5, LightWeights DEF LightStep
  <2>2. QED
    BY <1>3, <1>4, <1>5, <2>1
<1>6. ASSUME NEW r \in Requests, AdmitNew(r)
      PROVE  StatusRecords' <= MaxStatusRecords
  <2>1. /\ r \in RequestRec /\ r.id \in Ids /\ IsIncremental(r) /\ ~Known(r.id)
        /\ jobs' = [jobs EXCEPT ![r.id] = NewJob(r)] /\ UNCHANGED retired
        /\ StatusRecords + 2 <= MaxStatusRecords
    BY <1>6, ConstantsAssumption DEF ConstantsAssumption, RequestRec, AdmitNew, Room
  <2>2. jobs[r.id] = None
    BY <2>1 DEF Known, Typed, OwnId, Unfinished
  <2>3. NewJob(r) \in Job \cup {None}
    BY <2>1, NewJobType
  <2>4. IdentitiesOf(NewJob(r)) = 2 /\ IdentitiesOf(jobs[r.id]) = 0
    BY <2>1, <2>2, NewWeights DEF IdentitiesOf
  <2>5. Len(retired') + IdentitiesOf(NewJob(r))
          <= Len(retired) + IdentitiesOf(jobs[r.id]) + 2
    BY <1>4, <2>1, <2>4
  <2>6. StatusRecords' <= StatusRecords + 2
    BY <2>1, <2>3, <2>5, StatusAt
  <2>7. QED
    BY <1>1, <2>1, <2>6
<1>7. ASSUME NEW batch \in Batches, AdmitManual(batch)
      PROVE  StatusRecords' <= MaxStatusRecords
  <2>1. /\ Len(batch) \in Nat
        /\ Identities(jobs') <= Identities(jobs) + 2 * Len(batch)
    BY <1>7, BatchWeights
  <2>2. StatusRecords + 2 * Len(batch) <= MaxStatusRecords /\ UNCHANGED retired
    BY <1>7 DEF AdmitManual, Room
  <2>3. QED
    BY <1>1, <1>4, <2>1, <2>2
<1>8. ASSUME NEW w \in Workers, FinishYield(w) \/ DeferYield(w) \/ Defer(w)
      PROVE  StatusRecords' <= MaxStatusRecords
  <2>1. PICK k \in Ids, v \in Job, D \in SUBSET Heads :
          /\ Moved(k, v, D) /\ CheckHeads(v) \subseteq CheckHeads(jobs[k])
          /\ v.spare = jobs[k].spare /\ v.meta = jobs[k].meta
    BY <1>8, ReleaseMoves
  <2>2. CheckHeads(v) \subseteq CheckHeads(jobs[k]) \cup {NoHead}
    BY <2>1
  <2>3. StatusRecords' <= StatusRecords
    BY <2>1, <2>2, StatusMoved DEF Moved
  <2>4. QED
    BY <1>3, <2>3
<1>9. ASSUME NEW d \in Drainers, NEW h \in Heads, ResolveOpen(d, h)
      PROVE  StatusRecords' <= MaxStatusRecords
  <2>1. PICK k \in Ids, v \in Job :
          /\ jobs[k] # None /\ jobs[k] \in Job /\ jobs' = [jobs EXCEPT ![k] = v]
          /\ jobs[k].meta /\ ~v.meta /\ v.spare = jobs[k].spare
          /\ CheckHeads(v) = CheckHeads(jobs[k]) \cup {h} /\ UNCHANGED retired
    BY <1>9, ResolveOpenMoves
  <2> DEFINE a == Cardinality(CheckHeads(jobs[k]))
             b == Cardinality(CheckHeads(v))
  <2>2. a \in Nat /\ b \in Nat /\ b <= a + 1
    <3>1. {} \in SUBSET (CheckHeads(jobs[k]) \ CheckHeads(v))
          /\ CheckHeads(v) \subseteq CheckHeads(jobs[k]) \cup {h}
      BY <2>1
    <3>2. a \in Nat /\ b \in Nat /\ b + Cardinality({}) <= a + 1
      BY <2>1, <3>1, DetachedSize
    <3>3. QED
      BY <3>2, FS_EmptySet
  <2>3. /\ IdentitiesOf(jobs[k]) = a + (IF jobs[k].spare THEN 1 ELSE 0)
                                     + (IF jobs[k].meta THEN 1 ELSE 0)
        /\ IdentitiesOf(v) = b + (IF v.spare THEN 1 ELSE 0) + (IF v.meta THEN 1 ELSE 0)
    BY <2>1, NoneIsNoRecord DEF IdentitiesOf
  <2> HIDE DEF a, b
  <2>4. Len(retired') + IdentitiesOf(v) <= Len(retired) + IdentitiesOf(jobs[k]) + 0
    BY <1>4, <2>1, <2>2, <2>3
  <2>5. StatusRecords' <= StatusRecords + 0
    BY <2>1, <2>4, StatusAt
  <2>6. QED
    BY <1>1, <1>3, <2>5
<1>10. CASE \/ \E id \in Ids : TombstoneExpires(id)
            \/ \E pr \in PRs, h \in Heads, o \in HeadOutcomes :
                 HistoryExpires(pr, h, o)
  BY <1>3, <1>4, <1>10 DEF TombstoneExpires, HistoryExpires
<1>11. CASE \/ \E w \in Workers : Finish(w)
            \/ \E d \in Drainers : ResolveClosed(d)
  BY <1>3, <1>11, StatusEnds
<1>12. ASSUME NEW r \in Requests, AdmitCoalesced(r)
       PROVE  StatusRecords' <= MaxStatusRecords
  BY <1>12, StatusJoins
<1>13. ASSUME NEW w \in Workers, NEW h \in Heads, Reconcile(w, h)
       PROVE  StatusRecords' <= MaxStatusRecords
  BY <1>13, StatusReconciles
<1>14. QED
  BY <1>5, <1>6, <1>7, <1>8, <1>9, <1>10, <1>11, <1>12, <1>13, SortedStep

\* Active, detached and promised check identities never exceed the cap, however
\* pushes, yields and redeliveries move them (admit_batch, reconcile_live_check,
\* detach_checks_except, retire_removed_record_checks).
THEOREM StatusRecordsAlwaysFit == Spec => []StatusRecordsFit
<1>1. Init /\ Typed => HeadsKnown /\ StatusRecordsFit
  <2>1. ASSUME Init, Typed
        PROVE  HeadsKnown /\ StatusRecordsFit
    <3>1. Unfinished = {} /\ retired = <<>>
      BY <2>1 DEF Init, Unfinished
    <3>2. HeadsKnown
      BY <3>1 DEF HeadsKnown
    <3>3. Spares = {} /\ Unresolved = {} /\ DOMAIN ChecksOf = {}
      BY <3>1 DEF Spares, Unresolved, ChecksOf
    <3>4. UNION {{x} \X ChecksOf[x] : x \in DOMAIN ChecksOf} = {}
      BY <3>3
    <3>5. StatusRecords = 0
      BY <3>1, <3>3, <3>4, FS_EmptySet DEF StatusRecords, Total
    <3>6. QED
      BY <3>2, <3>5, ConstantsAssumption DEF StatusRecordsFit, ConstantsAssumption
  <2>2. QED
    BY <2>1
<1>2. HeadsKnown /\ StatusRecordsFit /\ Typed /\ Typed' /\ Posted /\ [Next]_vars
        => HeadsKnown' /\ StatusRecordsFit'
  BY HeadsKnownStep, StatusStep DEF Posted
<1>3. QED
  BY <1>1, <1>2, AlwaysTyped, AlwaysPosted, PTL DEF Spec

-----------------------------------------------------------------------------
(* What may happen to the heads fits                                       *)

\* The part of HeadState that no record holds.
Outside ==
  Cardinality(Entombed) + Cardinality(HeadSlots) + Total(HistoryIn(history))

LEMMA OutsideType ==
  ASSUME Typed, Typed'
  PROVE  /\ Outside \in Nat /\ Outside' \in Nat
         /\ Promises(jobs) \in Nat /\ Promises(jobs') \in Nat
         /\ HeadState = Outside + Promises(jobs)
         /\ HeadState' = Outside' + Promises(jobs')
         /\ HeadState <= ReservedCapacity
<1>1. TypeOK /\ TypeOK'
  BY DEF Typed
<1>2. /\ HeadState = Cardinality(Entombed) + Cardinality(HeadSlots)
                       + Total(HistoryIn(history)) + Promises(jobs)
      /\ HeadState' = Cardinality(Entombed') + Cardinality(HeadSlots')
                        + Total(HistoryIn(history')) + Promises(jobs')
      /\ ReservedCapacity >= HeadState
      /\ Promises(jobs) \in Nat /\ Promises(jobs') \in Nat
  BY <1>1, CapacityParts
<1>3. /\ Total(HistoryIn(history)) \in Nat /\ Total(HistoryIn(history')) \in Nat
      /\ Cardinality(Entombed) \in Nat /\ Cardinality(Entombed') \in Nat
      /\ Cardinality(HeadSlots) \in Nat /\ Cardinality(HeadSlots') \in Nat
  BY <1>1, CapacityParts
<1>4. Outside' = Cardinality(Entombed') + Cardinality(HeadSlots')
                   + Total(HistoryIn(history'))
  BY DEF Outside, HistoryIn
<1>5. Outside \in Nat /\ Outside' \in Nat
  BY <1>3, <1>4 DEF Outside
<1>6. ReservedCapacity >= HeadState => HeadState <= ReservedCapacity
  BY <1>2, <1>3 DEF ReservedCapacity
<1>7. QED
  BY <1>2, <1>4, <1>5, <1>6 DEF Outside

\* The bound on head state is a number.
LEMMA ReservationsNat ==
  MaxReservations \in Nat
  BY ConstantsAssumption DEF ConstantsAssumption

LEMMA CapacityType ==
  ASSUME Typed
  PROVE  ReservedCapacity \in Nat
<1>1. /\ jobs \in [Ids -> Job \cup {None}] /\ Len(retired) \in Nat
      /\ Total(HistoryIn(history)) \in Nat
  BY HistoryFinite DEF Typed, TypeOK
<1>2. /\ ChecksOf = ChecksIn(jobs) /\ Spares = SparesIn(jobs)
      /\ AcceptedOf = AcceptedIn(jobs) /\ ReservedOf = ReservedIn(jobs)
      /\ HistoryOf = HistoryIn(history)
  BY DEF ChecksOf, ChecksIn, Spares, SparesIn, AcceptedOf, AcceptedIn,
     ReservedOf, ReservedIn, Present, Unfinished, HistoryOf, HistoryIn
<1>3. /\ Total(ChecksOf) \in Nat /\ Total(AcceptedOf) \in Nat
      /\ Total(ReservedOf) \in Nat /\ Cardinality(Spares) \in Nat
  BY <1>1, <1>2, FamiliesFinite, TotalFinite, FS_CardinalityType
<1>4. Cardinality(Entombed) \in Nat /\ Cardinality(HeadSlots) \in Nat
  <2>1. Entombed \in SUBSET Ids /\ HeadSlots \in SUBSET PRs
    BY DEF Entombed, HeadSlots
  <2>2. IsFiniteSet(Ids) /\ IsFiniteSet(PRs)
    BY ConstantsAssumption DEF ConstantsAssumption
  <2>3. QED
    BY <2>1, <2>2, FS_Subset, FS_CardinalityType
<1>5. HeadState \in Nat
  BY <1>1, <1>2, <1>3, <1>4 DEF HeadState
<1>6. QED
  BY <1>1, <1>3, <1>5 DEF ReservedCapacity

\* At most the tombstones S and the head slots T are new, and no history is.
LEMMA OutsideGrows ==
  ASSUME Typed, Typed', NEW S, NEW T, IsFiniteSet(S), IsFiniteSet(T),
         Entombed' \subseteq Entombed \cup S, HeadSlots' \subseteq HeadSlots \cup T,
         \A pr \in PRs, h \in Heads, o \in HeadOutcomes :
           history'[pr][h][o] <= history[pr][h][o]
  PROVE  /\ Cardinality(S) \in Nat /\ Cardinality(T) \in Nat
         /\ Outside' <= Outside + (Cardinality(S) + Cardinality(T))
<1>1. TypeOK /\ TypeOK'
  BY DEF Typed
<1>2. /\ IsFiniteSet(Entombed) /\ IsFiniteSet(HeadSlots)
      /\ Total(HistoryIn(history)) \in Nat /\ Total(HistoryIn(history')) \in Nat
      /\ Cardinality(Entombed) \in Nat /\ Cardinality(Entombed') \in Nat
      /\ Cardinality(HeadSlots) \in Nat /\ Cardinality(HeadSlots') \in Nat
  BY <1>1, CapacityParts
<1>3. ASSUME NEW A, NEW B, NEW U, IsFiniteSet(A), IsFiniteSet(U), B \subseteq A \cup U
      PROVE  Cardinality(B) <= Cardinality(A) + Cardinality(U)
  <2>1. IsFiniteSet(A \cup U)
        /\ Cardinality(A \cup U) = Cardinality(A) + Cardinality(U) - Cardinality(A \cap U)
    BY <1>3, FS_Union
  <2>2. Cardinality(B) <= Cardinality(A \cup U) /\ Cardinality(B) \in Nat
    BY <1>3, <2>1, FS_Subset, FS_CardinalityType
  <2>3. Cardinality(A \cap U) \in Nat /\ Cardinality(A) \in Nat /\ Cardinality(U) \in Nat
    BY <1>3, FS_Subset, FS_CardinalityType
  <2>4. QED
    BY <2>1, <2>2, <2>3
<1>4. /\ Cardinality(Entombed') <= Cardinality(Entombed) + Cardinality(S)
      /\ Cardinality(HeadSlots') <= Cardinality(HeadSlots) + Cardinality(T)
  BY <1>2, <1>3
<1>5. Total(HistoryIn(history')) <= Total(HistoryIn(history))
  <2>1. FiniteFamily(HistoryIn(history))
    BY <1>1, HistoryFinite DEF TypeOK
  <2>2. /\ history \in [PRs -> [Heads -> [HeadOutcomes -> Nat]]]
        /\ history' \in [PRs -> [Heads -> [HeadOutcomes -> Nat]]]
    BY <1>1 DEF TypeOK
  <2>3. \A x \in PRs \X Heads \X HeadOutcomes :
          (1 .. history'[x[1]][x[2]][x[3]]) \subseteq (1 .. history[x[1]][x[2]][x[3]])
    <3>1. TAKE x \in PRs \X Heads \X HeadOutcomes
    <3>2. /\ history'[x[1]][x[2]][x[3]] \in Nat /\ history[x[1]][x[2]][x[3]] \in Nat
          /\ history'[x[1]][x[2]][x[3]] <= history[x[1]][x[2]][x[3]]
      BY <2>2
    <3>3. \A m, n \in Nat : m <= n => (1 .. m) \subseteq (1 .. n)
      OBVIOUS
    <3>4. QED
      BY <3>2, <3>3
  <2>4. /\ DOMAIN HistoryIn(history') \subseteq DOMAIN HistoryIn(history)
        /\ \A x \in DOMAIN HistoryIn(history') :
             HistoryIn(history')[x] \subseteq HistoryIn(history)[x]
    BY <2>3 DEF HistoryIn
  <2>5. QED
    BY <2>1, <2>4, TotalMonotone
<1>6. Cardinality(S) \in Nat /\ Cardinality(T) \in Nat
  BY FS_CardinalityType
<1>7. Outside' = Cardinality(Entombed') + Cardinality(HeadSlots')
                   + Total(HistoryIn(history'))
  BY DEF Outside, HistoryIn
<1>8. QED
  BY <1>2, <1>4, <1>5, <1>6, <1>7 DEF Outside

LEMMA OutsideShrinks ==
  ASSUME Typed, Typed', Entombed' \subseteq Entombed, HeadSlots' \subseteq HeadSlots,
         \A pr \in PRs, h \in Heads, o \in HeadOutcomes :
           history'[pr][h][o] <= history[pr][h][o]
  PROVE  Outside' <= Outside
<1>1. Outside' <= Outside + (Cardinality({}) + Cardinality({}))
  BY OutsideGrows, FS_EmptySet
<1>2. QED
  BY <1>1, OutsideType, FS_EmptySet

LEMMA PromisesType ==
  ASSUME NEW j \in Job \cup {None}
  PROVE  /\ PromisesOf(j) \in Nat
         /\ j # None => /\ IsFiniteSet(j.ids) /\ Cardinality(j.ids) \in Nat
                        /\ j.resv \in Nat
<1>1. CASE j # None
  <2>1. j.ids \in SUBSET Ids /\ IsFiniteSet(Ids) /\ j.resv \in Nat
    BY <1>1, ConstantsAssumption DEF Job, ConstantsAssumption
  <2>2. IsFiniteSet(j.ids) /\ Cardinality(j.ids) \in Nat
    BY <2>1, FS_Subset, FS_CardinalityType
  <2>3. QED
    BY <1>1, <2>1, <2>2 DEF PromisesOf
<1>2. QED
  BY <1>1 DEF PromisesOf

\* What is outside and what one record promises, together.
LEMMA HeadStateAt ==
  ASSUME Typed, Typed', NEW k \in Ids, NEW v \in Job \cup {None},
         jobs' = [jobs EXCEPT ![k] = v], NEW c \in Nat,
         Outside' + PromisesOf(v) <= Outside + PromisesOf(jobs[k]) + c
  PROVE  HeadState' <= HeadState + c
<1>1. /\ jobs \in [Ids -> Job \cup {None}] /\ jobs' \in [Ids -> Job \cup {None}]
      /\ jobs'[k] = v /\ \A x \in Ids : x # k => jobs[x] = jobs'[x]
  BY DEF Typed, TypeOK
<1>2. Promises(jobs') + PromisesOf(jobs[k]) = Promises(jobs) + PromisesOf(v)
  BY <1>1, WeightsUpdate
<1>3. PromisesOf(v) \in Nat /\ PromisesOf(jobs[k]) \in Nat
  BY <1>1, PromisesType
<1>4. /\ Outside \in Nat /\ Outside' \in Nat
      /\ Promises(jobs) \in Nat /\ Promises(jobs') \in Nat
      /\ HeadState = Outside + Promises(jobs)
      /\ HeadState' = Outside' + Promises(jobs')
  BY OutsideType
<1>5. ASSUME NEW a \in Nat, NEW b \in Nat, NEW p \in Nat, NEW q \in Nat,
             NEW x \in Nat, NEW y \in Nat, q + x = p + y, b + y <= a + x + c
      PROVE  b + q <= a + p + c
  BY <1>5
<1>6. QED
  BY <1>2, <1>3, <1>4, <1>5

\* Only a confirmation gives a pull request a budget.
LEMMA BudgetsStay ==
  ASSUME Typed, [Next]_vars, ~\E w \in Workers, h \in Heads : Reconcile(w, h)
  PROVE  \A pr \in PRs : heads'[pr] # None => heads[pr] # None
<1>1. heads \in [PRs -> Budget \cup {None}]
  BY DEF Typed, TypeOK
<1>2. ASSUME NEW r \in Requests, RearmIfExplicit(r)
      PROVE  \A pr \in PRs : heads'[pr] # None => heads[pr] # None
  <2>1. CASE r.explicit
    <3>1. heads' = [heads EXCEPT ![r.pr] = Rearmed(heads[r.pr])]
      BY <1>2, <2>1 DEF RearmIfExplicit
    <3>2. Rearmed(None) = None
      BY DEF Rearmed
    <3>3. QED
      BY <1>1, <3>1, <3>2
  <2>2. QED
    BY <1>2, <2>1 DEF RearmIfExplicit
<1>3. ASSUME NEW w \in Workers, Finish(w) \/ FinishYield(w)
      PROVE  \A pr \in PRs : heads'[pr] # None => heads[pr] # None
  <2> DEFINE j == jobs[held[w].key]
             o == held[w].verdict
  <2>1. heads' = MarkHead(j, o)
    BY <1>3, Marking
  <2> HIDE DEF j, o
  <2>2. QED
    BY <1>1, <2>1 DEF MarkHead
<1>4. QED
  BY <1>2, <1>3, HeadsStep DEF SameHeads

\* A pull request that got no record and no budget got no slot.
LEMMA SlotsKept ==
  ASSUME \A k \in Ids : jobs'[k] # None =>
           /\ jobs[k] # None /\ jobs'[k].pr = jobs[k].pr
           /\ jobs'[k].mode = jobs[k].mode,
         \A pr \in PRs : heads'[pr] # None => pr \in HeadSlots
  PROVE  HeadSlots' \subseteq HeadSlots
<1>1. \A pr : PendingFor(pr)' \subseteq PendingFor(pr)
  BY DEF PendingFor, Unfinished, IsIncremental
<1>2. ASSUME NEW pr \in HeadSlots'
      PROVE  pr \in HeadSlots
  <2>1. pr \in PRs /\ (PendingFor(pr)' # {} \/ heads'[pr] # None)
    BY <1>2 DEF HeadSlots
  <2>2. QED
    BY <1>1, <2>1 DEF HeadSlots
<1>3. QED
  BY <1>2

\* A rewritten record that keeps its deliveries and reservations, and budgets
\* and history that only shrink, promise no more.
LEMMA HeadStateKept ==
  ASSUME Typed, Typed', NEW k \in Ids, jobs[k] # None, NEW v \in Job,
         jobs' = [jobs EXCEPT ![k] = v], v.pr = jobs[k].pr, v.mode = jobs[k].mode,
         v.ids = jobs[k].ids, v.resv = jobs[k].resv, UNCHANGED <<terminal, history>>,
         \A pr \in PRs : heads'[pr] # None => pr \in HeadSlots
  PROVE  HeadState' <= HeadState
<1>1. jobs'[k] = v /\ (\A x \in Ids : x # k => jobs'[x] = jobs[x]) /\ v # None
  BY NoneIsNoRecord DEF Typed, TypeOK
<1>2. HeadSlots' \subseteq HeadSlots
  BY <1>1, SlotsKept
<1>3. Entombed' \subseteq Entombed
  BY DEF Entombed
<1>4. \A pr \in PRs, h \in Heads, o \in HeadOutcomes :
        history'[pr][h][o] <= history[pr][h][o]
  BY DEF Typed, TypeOK
<1>5. Outside' <= Outside
  BY <1>2, <1>3, <1>4, OutsideShrinks
<1>6. PromisesOf(v) = PromisesOf(jobs[k]) /\ PromisesOf(v) \in Nat
  BY <1>1, PromisesType DEF PromisesOf
<1>7. Outside' + PromisesOf(v) <= Outside + PromisesOf(jobs[k]) + 0
  BY <1>5, <1>6, OutsideType
<1>8. HeadState' <= HeadState + 0
  BY <1>7, HeadStateAt
<1>9. HeadState \in Nat /\ HeadState' \in Nat
  BY OutsideType
<1>10. QED
  BY <1>8, <1>9

\* Re-arming drops failures from the history and adds nothing.
LEMMA RearmShrinks ==
  ASSUME Typed, NEW r \in Requests, RearmIfExplicit(r)
  PROVE  \A pr \in PRs, h \in Heads, o \in HeadOutcomes :
           history'[pr][h][o] <= history[pr][h][o]
<1>1. history \in [PRs -> [Heads -> [HeadOutcomes -> Nat]]] /\ r.pr \in PRs
  BY ConstantsAssumption DEF Typed, TypeOK, ConstantsAssumption, RequestRec
<1>2. CASE r.explicit
  <2> DEFINE new == [h \in Heads |-> [o \in HeadOutcomes |->
                       IF o \in FailedOutcomes THEN 0 ELSE history[r.pr][h][o]]]
  <2>1. history' = [history EXCEPT ![r.pr] = new]
    BY <1>2 DEF RearmIfExplicit
  <2>2. \A h \in Heads, o \in HeadOutcomes : new[h][o] <= history[r.pr][h][o]
    BY <1>1
  <2> HIDE DEF new
  <2>3. TAKE pr \in PRs, h \in Heads, o \in HeadOutcomes
  <2>4. history[pr][h][o] \in Nat
    BY <1>1
  <2>5. CASE pr = r.pr
    BY <1>1, <2>1, <2>2, <2>5
  <2>6. CASE pr # r.pr
    BY <1>1, <2>1, <2>4, <2>6
  <2>7. QED
    BY <2>5, <2>6
<1>3. CASE ~r.explicit
  <2>1. history' = history
    BY <1>3 DEF RearmIfExplicit
  <2>2. QED
    BY <1>1, <2>1
<1>4. QED
  BY <1>2, <1>3

LEMMA HeadStateNew ==
  ASSUME Typed, Typed', NEW r \in Requests, AdmitNew(r), [Next]_vars
  PROVE  HeadState' <= MaxReservations
<1> DEFINE v == NewJob(r)
           T == IF heads[r.pr] = None THEN {r.pr} ELSE {}
           c == IF heads[r.pr] = None THEN 3 ELSE 2
<1>1. /\ r \in RequestRec /\ r.id \in Ids /\ r.pr \in PRs /\ IsIncremental(r)
      /\ ~Known(r.id) /\ jobs' = [jobs EXCEPT ![r.id] = v] /\ UNCHANGED terminal
      /\ RearmIfExplicit(r) /\ ReservedCapacity + c <= MaxReservations
  BY ConstantsAssumption DEF ConstantsAssumption, RequestRec, AdmitNew, Room
<1>2. jobs[r.id] = None
  BY <1>1 DEF Known, Typed, OwnId, Unfinished
<1>3. v \in Job /\ v # None /\ v.pr = r.pr
  BY <1>1, NewJobType, NoneIsNoRecord DEF NewJob
<1>4. PromisesOf(v) = 2 /\ PromisesOf(jobs[r.id]) = 0
  BY <1>1, <1>2, NewWeights DEF PromisesOf
<1>5. /\ jobs'[r.id] = v /\ \A x \in Ids : x # r.id => jobs'[x] = jobs[x]
  BY <1>1 DEF Typed, TypeOK
<1>6. \A pr \in PRs : heads'[pr] # None => heads[pr] # None
  <2>1. CASE ~r.explicit
    BY <1>1, <2>1 DEF RearmIfExplicit
  <2>2. CASE r.explicit
    <3>1. heads' = [heads EXCEPT ![r.pr] = Rearmed(heads[r.pr])]
      BY <1>1, <2>2 DEF RearmIfExplicit
    <3>2. Rearmed(None) = None
      BY DEF Rearmed
    <3>3. QED
      BY <3>1, <3>2 DEF Typed, TypeOK
  <2>3. QED
    BY <2>1, <2>2
<1> HIDE DEF v
<1>7. HeadSlots' \subseteq HeadSlots \cup T
  <2>1. ASSUME NEW pr \in PRs, pr # r.pr
        PROVE  PendingFor(pr)' \subseteq PendingFor(pr)
    BY <1>3, <1>5, <2>1 DEF PendingFor, Unfinished
  <2>2. ASSUME NEW pr \in HeadSlots'
        PROVE  pr \in HeadSlots \cup T
    <3>1. pr \in PRs /\ (PendingFor(pr)' # {} \/ heads'[pr] # None)
      BY <2>2 DEF HeadSlots
    <3>2. heads[pr] # None => pr \in HeadSlots
      BY <3>1 DEF HeadSlots
    <3>3. CASE pr = r.pr
      BY <3>2, <3>3
    <3>4. CASE pr # r.pr
      BY <1>6, <2>1, <3>1, <3>2, <3>4 DEF HeadSlots
    <3>5. QED
      BY <3>3, <3>4
  <2>3. QED
    BY <2>2
<1>8. Entombed' \subseteq Entombed \cup {}
  BY <1>1 DEF Entombed
<1>9. /\ Outside' <= Outside + (Cardinality({}) + Cardinality(T))
      /\ Cardinality(T) + 2 = c
  <2>1. IsFiniteSet(T) /\ IsFiniteSet({}) /\ Cardinality(T) + 2 = c
    BY FS_EmptySet, FS_Singleton
  <2>2. \A pr \in PRs, h \in Heads, o \in HeadOutcomes :
          history'[pr][h][o] <= history[pr][h][o]
    BY <1>1, RearmShrinks
  <2> HIDE DEF T, c
  <2>3. Outside' <= Outside + (Cardinality({}) + Cardinality(T))
    BY <1>7, <1>8, <2>1, <2>2, OutsideGrows
  <2>4. QED
    BY <2>1, <2>3
<1>10. c \in Nat /\ Cardinality(T) \in Nat /\ Cardinality({}) = 0
  BY FS_EmptySet, FS_Singleton
<1> HIDE DEF c, T
<1>11. Outside' + PromisesOf(v) <= Outside + PromisesOf(jobs[r.id]) + c
  BY <1>4, <1>9, <1>10, OutsideType
<1>12. HeadState' <= HeadState + c
  BY <1>1, <1>3, <1>10, <1>11, HeadStateAt
<1>13. /\ HeadState <= ReservedCapacity /\ HeadState \in Nat /\ HeadState' \in Nat
       /\ MaxReservations \in Nat /\ ReservedCapacity \in Nat
  BY OutsideType, CapacityType, ReservationsNat
<1>14. QED
  BY <1>1, <1>10, <1>12, <1>13

LEMMA HeadStateJoins ==
  ASSUME Typed, Typed', NEW r \in Requests, AdmitCoalesced(r), [Next]_vars,
         \A pr \in PRs : heads'[pr] # None => heads[pr] # None
  PROVE  HeadState' <= MaxReservations
<1>1. PICK k \in Ids, v \in Job, D \in SUBSET Heads : Joins(r, k, v, D)
  BY CoalescedMoves
<1> DEFINE j == jobs[k]
<1>2. /\ j # None /\ j \in Job /\ jobs' = [jobs EXCEPT ![k] = v]
      /\ v.pr = j.pr /\ v.mode = j.mode /\ v.ids = j.ids \cup {r.id}
      /\ v.resv = j.resv \/ v.resv = j.resv + 1
      /\ UNCHANGED terminal
  BY <1>1, CoalescedMoves DEF Joins
<1>3. jobs'[k] = v /\ (\A x \in Ids : x # k => jobs'[x] = jobs[x]) /\ v # None
  BY <1>2, NoneIsNoRecord DEF Typed, TypeOK
<1>4. HeadSlots' \subseteq HeadSlots
  <2>1. \A pr \in PRs : heads'[pr] # None => pr \in HeadSlots
    BY DEF HeadSlots
  <2>2. QED
    BY <1>2, <1>3, <2>1, SlotsKept
<1>5. Outside' <= Outside
  <2>1. Entombed' \subseteq Entombed
    BY <1>2 DEF Entombed
  <2>2. RearmIfExplicit(r)
    BY DEF AdmitCoalesced
  <2>3. QED
    BY <1>4, <2>1, <2>2, RearmShrinks, OutsideShrinks
<1>6. /\ Cardinality(v.ids) <= Cardinality(j.ids) + 1
      /\ Cardinality(v.ids) \in Nat /\ Cardinality(j.ids) \in Nat /\ j.resv \in Nat
  <2>1. IsFiniteSet(j.ids) /\ Cardinality(j.ids) \in Nat /\ j.resv \in Nat
        /\ Cardinality(v.ids) \in Nat
    BY <1>2, <1>3, PromisesType
  <2>2. Cardinality(j.ids \cup {r.id}) =
          IF r.id \in j.ids THEN Cardinality(j.ids) ELSE Cardinality(j.ids) + 1
    BY <2>1, FS_AddElement
  <2>3. QED
    BY <1>2, <2>1, <2>2
<1>7. PromisesOf(v) <= PromisesOf(j) + 2 /\ PromisesOf(v) \in Nat
      /\ PromisesOf(j) \in Nat
  <2>1. PromisesOf(v) = Cardinality(v.ids) + v.resv
        /\ PromisesOf(j) = Cardinality(j.ids) + j.resv
    BY <1>2, <1>3 DEF PromisesOf
  <2> HIDE DEF j
  <2>2. QED
    BY <1>2, <1>6, <2>1
<1>8. Outside' + PromisesOf(v) <= Outside + PromisesOf(j) + 2
  BY <1>5, <1>7, OutsideType
<1>9. HeadState' <= HeadState + 2
  BY <1>2, <1>8, HeadStateAt
<1>10. ReservedCapacity + 2 <= MaxReservations
  BY <1>1 DEF Joins, RoomToJoin, Room
<1>11. /\ HeadState <= ReservedCapacity /\ HeadState \in Nat /\ HeadState' \in Nat
       /\ MaxReservations \in Nat /\ ReservedCapacity \in Nat
  BY OutsideType, CapacityType, ReservationsNat
<1>12. QED
  BY <1>9, <1>10, <1>11

\* One more record in the history.
Adds(H, G, p, h, o) ==
  \A q \in PRs, g \in Heads, e \in HeadOutcomes :
    G[q][g][e] = IF q = p /\ g = h /\ e = o THEN H[q][g][e] + 1 ELSE H[q][g][e]

LEMMA HistoryAdds ==
  ASSUME NEW H \in [PRs -> [Heads -> [HeadOutcomes -> Nat]]],
         NEW p \in PRs, NEW h \in Heads, NEW o \in HeadOutcomes,
         NEW G \in [PRs -> [Heads -> [HeadOutcomes -> Nat]]],
         Adds(H, G, p, h, o)
  PROVE  Total(HistoryIn(G)) = Total(HistoryIn(H)) + 1
<1> DEFINE x == <<p, h, o>>
           n == H[p][h][o]
<1>1. n \in Nat
  OBVIOUS
<1>2. /\ G[p][h][o] = n + 1
      /\ \A q \in PRs, g \in Heads, e \in HeadOutcomes :
           <<q, g, e>> # x => G[q][g][e] = H[q][g][e]
  BY DEF Adds
<1>3. FiniteFamily(HistoryIn(H)) /\ FiniteFamily(HistoryIn(G))
  BY <1>1, HistoryFinite
<1>4. x \in DOMAIN HistoryIn(H) /\ DOMAIN HistoryIn(G) = DOMAIN HistoryIn(H)
  BY DEF HistoryIn
<1>5. ASSUME NEW y \in DOMAIN HistoryIn(H), y # x
      PROVE  HistoryIn(H)[y] = HistoryIn(G)[y]
  <2>1. y \in PRs \X Heads \X HeadOutcomes
    BY DEF HistoryIn
  <2>2. y = <<y[1], y[2], y[3]>> /\ y[1] \in PRs /\ y[2] \in Heads
        /\ y[3] \in HeadOutcomes
    BY <2>1
  <2>3. G[y[1]][y[2]][y[3]] = H[y[1]][y[2]][y[3]]
    BY <1>2, <1>5, <2>2
  <2>4. QED
    BY <2>1, <2>3 DEF HistoryIn
<1>6. SizeAt(HistoryIn(H), x) = n /\ SizeAt(HistoryIn(G), x) = n + 1
  <2>1. HistoryIn(H)[x] = 1 .. n /\ HistoryIn(G)[x] = 1 .. (n + 1)
    BY <1>2, <1>4 DEF HistoryIn
  <2>2. \A m \in Nat : Cardinality(1 .. m) = m
    <3>1. TAKE m \in Nat
    <3>2. 1 \in Int /\ m \in Int
      OBVIOUS
    <3>3. Cardinality(1 .. m) = IF 1 > m THEN 0 ELSE m - 1 + 1
      BY <3>2, FS_Interval
    <3>4. QED
      BY <3>3
  <2>3. n + 1 \in Nat
    BY <1>1
  <2> HIDE DEF n, x
  <2>4. Cardinality(1 .. n) = n /\ Cardinality(1 .. (n + 1)) = n + 1
    BY <1>1, <2>2, <2>3
  <2>5. QED
    BY <1>4, <2>1, <2>4 DEF SizeAt
<1> HIDE DEF x, n
<1>7. /\ Total(HistoryIn(H)) \in Nat /\ Total(HistoryIn(G)) \in Nat
      /\ Total(HistoryIn(G)) + SizeAt(HistoryIn(H), x)
           = Total(HistoryIn(H)) + SizeAt(HistoryIn(G), x)
  <2>1. DOMAIN HistoryIn(H) \ {x} = DOMAIN HistoryIn(G) \ {x}
        /\ \A y \in DOMAIN HistoryIn(H) \ {x} : HistoryIn(H)[y] = HistoryIn(G)[y]
    BY <1>4, <1>5
  <2>2. QED
    BY <1>3, <2>1, TotalUpdate
<1>8. QED
  BY <1>1, <1>6, <1>7

\* A displaced result takes the place that a delivery reserved for it.
LEMMA HeadStateReconciles ==
  ASSUME Typed, Typed', NEW w \in Workers, NEW h \in Heads, Reconcile(w, h)
  PROVE  HeadState' <= HeadState
<1> DEFINE k == held[w].key
           j == jobs[k]
           old == heads[j.pr]
           displaces == IsIncremental(j) /\ Displaces(old, h)
<1>1. PICK v \in Job, D \in SUBSET Heads :
        /\ k \in Ids /\ Moved(k, v, D)
        /\ v.resv = IF displaces THEN j.resv - 1 ELSE j.resv
  BY ReconcileMoves
<1>2. /\ j # None /\ j \in Job /\ jobs' = [jobs EXCEPT ![k] = v]
      /\ v.pr = j.pr /\ v.mode = j.mode /\ v.ids = j.ids /\ UNCHANGED terminal
  BY <1>1, ReconcileMoves DEF Moved, Keeps
<1>3. \A pr \in PRs : heads'[pr] # None => pr \in HeadSlots
  <2>1. heads' = IF IsIncremental(j)
                 THEN [heads EXCEPT ![j.pr] = NextBudget(old, j, h)] ELSE heads
    BY DEF Reconcile
  <2>2. \A pr \in PRs : heads[pr] # None => pr \in HeadSlots
    BY DEF HeadSlots
  <2>3. IsIncremental(j) => j.pr \in HeadSlots
    BY <1>1, <1>2 DEF HeadSlots, PendingFor, Unfinished, Job
  <2> HIDE DEF k
  <2>4. QED
    BY <2>1, <2>2, <2>3 DEF Typed, TypeOK
<1>4. CASE ~displaces
  <2>1. UNCHANGED history
    BY <1>4 DEF Reconcile
  <2> HIDE DEF k
  <2>2. QED
    BY <1>1, <1>2, <1>3, <1>4, <2>1, HeadStateKept
<1>5. CASE displaces
  <2>1. /\ history' = [history EXCEPT ![j.pr][old.head][old.outcome] = @ + 1]
        /\ Reserved(j, old, h)
    BY <1>5 DEF Reconcile
  <2>2. j.resv > 0 /\ j.resv \in Nat
    BY <1>2, <1>5, <2>1 DEF Reserved, Job
  <2>3. j.pr \in PRs /\ old.head \in Heads /\ old.outcome \in HeadOutcomes
    BY <1>2, <1>5 DEF Displaces, Job, Budget, Typed, TypeOK
  <2> HIDE DEF old, k
  <2>4. Total(HistoryIn(history')) = Total(HistoryIn(history)) + 1
    <3>1. /\ history \in [PRs -> [Heads -> [HeadOutcomes -> Nat]]]
          /\ history' \in [PRs -> [Heads -> [HeadOutcomes -> Nat]]]
      BY DEF Typed, TypeOK
    <3>2. PICK p \in PRs, g \in Heads, o \in HeadOutcomes :
            history' = [history EXCEPT ![p][g][o] = @ + 1]
      BY <2>1, <2>3
    <3>3. Adds(history, history', p, g, o)
      BY <3>1, <3>2 DEF Adds
    <3>4. QED
      BY <3>1, <3>3, HistoryAdds
  <2>5. jobs'[k] = v /\ (\A x \in Ids : x # k => jobs'[x] = jobs[x]) /\ v # None
    BY <1>1, <1>2, NoneIsNoRecord DEF Typed, TypeOK
  <2>6. HeadSlots' \subseteq HeadSlots
    BY <1>2, <1>3, <2>5, SlotsKept
  <2>7. Entombed' = Entombed
    BY <1>2 DEF Entombed
  <2>8. /\ IsFiniteSet(HeadSlots) /\ Cardinality(HeadSlots) \in Nat
        /\ Cardinality(HeadSlots') \in Nat /\ Cardinality(Entombed) \in Nat
        /\ Total(HistoryIn(history)) \in Nat
    BY CapacityParts DEF Typed
  <2>9. Cardinality(HeadSlots') <= Cardinality(HeadSlots)
    BY <2>6, <2>8, FS_Subset
  <2>10. Outside' <= Outside + 1
    <3>1. Outside' = Cardinality(Entombed') + Cardinality(HeadSlots')
                       + Total(HistoryIn(history'))
      BY DEF Outside, HistoryIn
    <3>2. QED
      BY <2>4, <2>7, <2>8, <2>9, <3>1 DEF Outside
  <2>11. PromisesOf(v) + 1 = PromisesOf(j) /\ PromisesOf(v) \in Nat
    <3>1. /\ PromisesOf(v) = Cardinality(j.ids) + (j.resv - 1)
          /\ PromisesOf(j) = Cardinality(j.ids) + j.resv
      BY <1>1, <1>2, <1>5, <2>5 DEF PromisesOf
    <3>2. Cardinality(j.ids) \in Nat
      BY <1>2, PromisesType
    <3>3. PromisesOf(v) \in Nat
      BY PromisesType
    <3> HIDE DEF j
    <3>4. QED
      BY <2>2, <3>1, <3>2, <3>3
  <2>12. Outside' + PromisesOf(v) <= Outside + PromisesOf(j) + 0
    BY <2>10, <2>11, OutsideType
  <2>13. HeadState' <= HeadState + 0
    BY <1>1, <1>2, <2>12, HeadStateAt
  <2>14. HeadState \in Nat /\ HeadState' \in Nat
    BY OutsideType
  <2>15. QED
    BY <2>13, <2>14
<1>6. QED
  BY <1>4, <1>5

\* The deliveries of a record that ends become its tombstones.
LEMMA HeadStateEnds ==
  ASSUME Typed, Typed',
         \/ \E w \in Workers : Finish(w)
         \/ \E d \in Drainers : ResolveClosed(d),
         \A pr \in PRs : heads'[pr] # None => heads[pr] # None
  PROVE  HeadState' <= HeadState
<1>1. PICK k \in Ids, o \in Outcomes :
        /\ jobs[k] # None /\ jobs[k] \in Job /\ jobs' = [jobs EXCEPT ![k] = None]
        /\ terminal' = Tombstones(jobs[k], o) /\ UNCHANGED history
  BY EndsRecord
<1> DEFINE j == jobs[k]
<1>2. /\ IsFiniteSet(j.ids) /\ Cardinality(j.ids) \in Nat /\ j.resv \in Nat
  BY <1>1, PromisesType
<1>3. Entombed' \subseteq Entombed \cup j.ids
  BY <1>1 DEF Entombed, Tombstones
<1>4. HeadSlots' \subseteq HeadSlots \cup {}
  <2>1. \A pr \in PRs : heads'[pr] # None => pr \in HeadSlots
    BY DEF HeadSlots
  <2>2. jobs'[k] = None /\ \A x \in Ids : x # k => jobs'[x] = jobs[x]
    BY <1>1 DEF Typed, TypeOK
  <2>3. HeadSlots' \subseteq HeadSlots
    BY <2>1, <2>2, SlotsKept
  <2>4. QED
    BY <2>3
<1>5. \A pr \in PRs, h \in Heads, e \in HeadOutcomes :
        history'[pr][h][e] <= history[pr][h][e]
  BY <1>1 DEF Typed, TypeOK
<1> HIDE DEF j
<1>6. Outside' <= Outside + (Cardinality(j.ids) + Cardinality({}))
  BY <1>2, <1>3, <1>4, <1>5, OutsideGrows, FS_EmptySet
<1>7. PromisesOf(None) = 0 /\ PromisesOf(j) = Cardinality(j.ids) + j.resv
  BY <1>1 DEF PromisesOf, j
<1>8. Outside' + PromisesOf(None) <= Outside + PromisesOf(j) + 0
  BY <1>2, <1>6, <1>7, OutsideType, FS_EmptySet
<1>9. HeadState' <= HeadState + 0
  <2>1. None \in Job \cup {None} /\ 0 \in Nat
    OBVIOUS
  <2>2. QED
    BY <1>1, <1>8, <2>1, HeadStateAt DEF j
<1>10. QED
  BY <1>9, OutsideType

LEMMA HeadStateStep ==
  ASSUME Typed, Typed', HeadStateFits, [Next]_vars
  PROVE  HeadStateFits'
<1>1. /\ HeadState \in Nat /\ HeadState' \in Nat /\ MaxReservations \in Nat
      /\ HeadState <= ReservedCapacity /\ ReservedCapacity \in Nat
  BY OutsideType, CapacityType, ReservationsNat
<1>2. SUFFICES HeadState' <= MaxReservations
  BY DEF HeadStateFits
<1>3. HeadState' <= HeadState => HeadState' <= MaxReservations
  BY <1>1 DEF HeadStateFits
<1>4. CASE \E w \in Workers, h \in Heads : Reconcile(w, h)
  BY <1>3, <1>4, HeadStateReconciles
<1>5. CASE ~\E w \in Workers, h \in Heads : Reconcile(w, h)
  <2>1. \A pr \in PRs : heads'[pr] # None => heads[pr] # None
    BY <1>5, BudgetsStay
  <2>2. \A pr \in PRs : heads'[pr] # None => pr \in HeadSlots
    BY <2>1 DEF HeadSlots
  <2>3. UNCHANGED history =>
          \A pr \in PRs, h \in Heads, o \in HeadOutcomes :
            history'[pr][h][o] <= history[pr][h][o]
    BY DEF Typed, TypeOK
  <2>4. CASE LightStep
    <3>1. Promises(jobs') = Promises(jobs)
      BY <2>4, LightWeights DEF LightStep
    <3>2. HeadSlots' \subseteq HeadSlots
      <4>1. \A k \in Ids : jobs'[k] # None =>
              /\ jobs[k] # None /\ jobs'[k].pr = jobs[k].pr
              /\ jobs'[k].mode = jobs[k].mode
        BY <2>4 DEF LightStep, LightJobs, Light, Keeps
      <4>2. QED
        BY <2>2, <4>1, SlotsKept
    <3>3. Entombed' \subseteq Entombed
      BY <2>4 DEF LightStep, Entombed
    <3>4. Outside' <= Outside
      BY <2>3, <2>4, <3>2, <3>3, OutsideShrinks DEF LightStep
    <3>5. HeadState' <= HeadState
      BY <3>1, <3>4, OutsideType
    <3>6. QED
      BY <1>3, <3>5
  <2>5. ASSUME NEW r \in Requests, AdmitNew(r)
        PROVE  HeadState' <= MaxReservations
    BY <2>5, HeadStateNew
  <2>6. ASSUME NEW r \in Requests, AdmitCoalesced(r)
        PROVE  HeadState' <= MaxReservations
    BY <2>1, <2>6, HeadStateJoins
  <2>7. ASSUME NEW batch \in Batches, AdmitManual(batch)
        PROVE  HeadState' <= MaxReservations
    <3>1. /\ Len(batch) \in Nat /\ HeadSlots' = HeadSlots
          /\ Promises(jobs') <= Promises(jobs) + Len(batch)
      BY <2>7, BatchWeights
    <3>2. /\ ReservedCapacity + Len(batch) <= MaxReservations
          /\ UNCHANGED <<terminal, history>>
      BY <2>7 DEF AdmitManual, Room
    <3>3. Entombed' \subseteq Entombed /\ HeadSlots' \subseteq HeadSlots
      BY <3>1, <3>2 DEF Entombed
    <3>4. Outside' <= Outside
      BY <2>3, <3>2, <3>3, OutsideShrinks
    <3>5. HeadState' <= HeadState + Len(batch)
      BY <3>1, <3>4, OutsideType
    <3>6. QED
      BY <1>1, <3>1, <3>2, <3>5
  <2>8. ASSUME NEW w \in Workers, FinishYield(w) \/ DeferYield(w) \/ Defer(w)
        PROVE  HeadState' <= MaxReservations
    <3>1. PICK k \in Ids, v \in Job, D \in SUBSET Heads :
            Moved(k, v, D) /\ v.resv = jobs[k].resv
      BY <2>8, ReleaseMoves
    <3>2. UNCHANGED <<terminal, history>>
      BY <2>8, ReleaseMoves
    <3>3. HeadState' <= HeadState
      BY <2>2, <3>1, <3>2, HeadStateKept DEF Moved, Keeps
    <3>4. QED
      BY <1>3, <3>3
  <2>9. ASSUME NEW d \in Drainers, NEW h \in Heads, ResolveOpen(d, h)
        PROVE  HeadState' <= MaxReservations
    <3>1. PICK k \in Ids, v \in Job :
            /\ jobs[k] # None /\ Keeps(jobs[k], v) /\ jobs' = [jobs EXCEPT ![k] = v]
            /\ v.resv = jobs[k].resv
      BY <2>9, ResolveOpenMoves
    <3>2. UNCHANGED <<terminal, history>>
      BY <2>9 DEF ResolveOpen
    <3>3. HeadState' <= HeadState
      BY <2>2, <3>1, <3>2, HeadStateKept DEF Keeps
    <3>4. QED
      BY <1>3, <3>3
  <2>10. CASE \/ \E w \in Workers : Finish(w)
              \/ \E d \in Drainers : ResolveClosed(d)
    BY <1>3, <2>1, <2>10, HeadStateEnds
  <2>11. CASE \/ \E id \in Ids : TombstoneExpires(id)
              \/ \E pr \in PRs, h \in Heads, o \in HeadOutcomes :
                   HistoryExpires(pr, h, o)
    <3>1. UNCHANGED <<jobs, heads>>
      BY <2>11 DEF TombstoneExpires, HistoryExpires
    <3>2. Entombed' \subseteq Entombed
      BY <2>11 DEF TombstoneExpires, HistoryExpires, Entombed, Typed, TypeOK
    <3>3. \A pr \in PRs, h \in Heads, o \in HeadOutcomes :
            history'[pr][h][o] <= history[pr][h][o]
      <4>1. ASSUME NEW pr \in PRs, NEW h \in Heads, NEW o \in HeadOutcomes,
                   HistoryExpires(pr, h, o)
            PROVE  \A q \in PRs, g \in Heads, e \in HeadOutcomes :
                     history'[q][g][e] <= history[q][g][e]
        <5>1. /\ history \in [PRs -> [Heads -> [HeadOutcomes -> Nat]]]
              /\ history' = [history EXCEPT ![pr][h][o] = @ - 1]
          BY <4>1 DEF HistoryExpires, Typed, TypeOK
        <5>2. TAKE q \in PRs, g \in Heads, e \in HeadOutcomes
        <5>3. history'[q][g][e] = IF q = pr /\ g = h /\ e = o
                                  THEN history[q][g][e] - 1 ELSE history[q][g][e]
          BY <5>1
        <5>4. history[q][g][e] \in Nat
          BY <5>1
        <5>5. QED
          BY <5>3, <5>4
      <4>2. QED
        BY <2>3, <2>11, <4>1 DEF TombstoneExpires
    <3>4. HeadSlots' \subseteq HeadSlots
      BY <2>2, <3>1, SlotsKept
    <3>5. Outside' <= Outside
      BY <3>2, <3>3, <3>4, OutsideShrinks
    <3>6. HeadState' <= HeadState
      BY <3>1, <3>5, OutsideType
    <3>7. QED
      BY <1>3, <3>6
  <2>12. QED
    BY <1>5, <2>4, <2>5, <2>6, <2>7, <2>8, <2>9, <2>10, <2>11, SortedStep
<1>6. QED
  BY <1>4, <1>5

\* No tombstone, head budget or history record ever has to be evicted: what
\* finishes, moves and expires fits what admission reserved, for every order of
\* pushes, claims and ends (reserved_capacity, admit_batch, confirm_head).
THEOREM HeadStateAlwaysFits == Spec => []HeadStateFits
<1>1. Init => HeadStateFits
  <2>1. ASSUME Init
        PROVE  HeadStateFits
    <3>1. /\ Unfinished = {} /\ Entombed = {} /\ HeadSlots = {}
      BY <2>1 DEF Init, Unfinished, Entombed, HeadSlots, PendingFor
    <3>2. DOMAIN AcceptedOf = {} /\ DOMAIN ReservedOf = {}
      BY <3>1 DEF AcceptedOf, ReservedOf
    <3>3. Total(AcceptedOf) = 0 /\ Total(ReservedOf) = 0
      <4>1. /\ UNION {{x} \X AcceptedOf[x] : x \in DOMAIN AcceptedOf} = {}
            /\ UNION {{x} \X ReservedOf[x] : x \in DOMAIN ReservedOf} = {}
        BY <3>2
      <4>2. QED
        BY <4>1, FS_EmptySet DEF Total
    <3>4. Total(HistoryOf) = 0
      <4>1. \A x \in DOMAIN HistoryOf : HistoryOf[x] = {}
        <5>1. \A x \in PRs \X Heads \X HeadOutcomes : history[x[1]][x[2]][x[3]] = 0
          BY <2>1 DEF Init
        <5>2. 1 .. 0 = {}
          OBVIOUS
        <5>3. QED
          BY <5>1, <5>2 DEF HistoryOf
      <4>2. UNION {{x} \X HistoryOf[x] : x \in DOMAIN HistoryOf} = {}
        BY <4>1
      <4>3. QED
        BY <4>2, FS_EmptySet DEF Total
    <3>5. HeadState = 0
      BY <3>1, <3>3, <3>4, FS_EmptySet DEF HeadState
    <3>6. QED
      BY <3>5, ConstantsAssumption DEF HeadStateFits, ConstantsAssumption
  <2>2. QED
    BY <2>1
<1>2. HeadStateFits /\ Typed /\ Typed' /\ [Next]_vars => HeadStateFits'
  BY HeadStateStep
<1>3. QED
  BY <1>1, <1>2, AlwaysTyped, PTL DEF Spec

=============================================================================

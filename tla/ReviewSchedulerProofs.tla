------------------------ MODULE ReviewSchedulerProofs ------------------------
(***************************************************************************)
(* TLAPS proofs about ReviewScheduler.                                     *)
(***************************************************************************)
EXTENDS ReviewScheduler, FiniteSetTheorems, TLAPS

-----------------------------------------------------------------------------
(* Sequences                                                               *)

\* Removing the element at position i shifts the later ones down by one.
LEMMA RemoveAtType ==
  ASSUME NEW S, NEW s \in Seq(S), NEW i \in DOMAIN s
  PROVE  /\ RemoveAt(s, i) \in Seq(S)
         /\ DOMAIN RemoveAt(s, i) = 1 .. Len(s) - 1
         /\ \A e \in 1 .. Len(s) - 1 :
              RemoveAt(s, i)[e] = IF e < i THEN s[e] ELSE s[e + 1]
<1> DEFINE u == SubSeq(s, 1, i - 1)
           v == SubSeq(s, i + 1, Len(s))
<1>1. Len(s) \in Nat /\ DOMAIN s = 1 .. Len(s) /\ i \in 1 .. Len(s)
  OBVIOUS
<1>2. u \in Seq(S) /\ Len(u) = i - 1 /\ \A e \in 1 .. i - 1 : u[e] = s[e]
  BY <1>1
<1>3. /\ v \in Seq(S) /\ Len(v) = Len(s) - i
      /\ \A e \in 1 .. Len(s) - i : v[e] = s[i + e]
  BY <1>1
<1>4. RemoveAt(s, i) = u \o v
  BY DEF RemoveAt
<1> HIDE DEF u, v
<1>5. u \o v \in Seq(S) /\ DOMAIN (u \o v) = 1 .. Len(s) - 1
  <2>0. u \in Seq(S) /\ v \in Seq(S)
    BY <1>2, <1>3
  <2>1. u \o v \in Seq(S) /\ Len(u \o v) = Len(u) + Len(v)
    BY <2>0
  <2>2. Len(u \o v) = Len(s) - 1
    BY <2>1, <1>1, <1>2, <1>3
  <2>3. QED
    BY <2>1, <2>2
<1>6. ASSUME NEW e \in 1 .. Len(s) - 1
      PROVE  (u \o v)[e] = IF e < i THEN s[e] ELSE s[e + 1]
  <2>1. CASE e < i
    <3>1. e \in 1 .. Len(u)
      BY <2>1, <1>1, <1>2
    <3>2. (u \o v)[e] = u[e]
      BY <3>1, <1>1, <1>2, <1>3
    <3>3. QED
      BY <2>1, <3>1, <3>2, <1>2
  <2>2. CASE ~(e < i)
    <3>1. e - Len(u) \in 1 .. Len(v) /\ i + (e - Len(u)) = e + 1
      BY <2>2, <1>1, <1>2, <1>3
    <3>2. (u \o v)[e] = v[e - Len(u)]
      BY <3>1, <1>1, <1>2, <1>3
    <3>3. v[e - Len(u)] = s[e + 1]
      BY <3>1, <1>2, <1>3
    <3>4. QED
      BY <2>2, <3>2, <3>3
  <2>3. QED
    BY <2>1, <2>2
<1>7. QED
  BY <1>4, <1>5, <1>6

\* Only the element at position i leaves a sequence without repetitions.
LEMMA RemoveAtDistinct ==
  ASSUME NEW S, NEW s \in Seq(S), NEW i \in DOMAIN s,
         \A d, e \in DOMAIN s : s[d] = s[e] => d = e
  PROVE  LET t == RemoveAt(s, i) IN
         /\ \A d, e \in DOMAIN t : t[d] = t[e] => d = e
         /\ \A e \in DOMAIN t :
              t[e] # s[i] /\ \E f \in DOMAIN s : t[e] = s[f]
         /\ \A e \in DOMAIN s : e # i => \E f \in DOMAIN t : t[f] = s[e]
<1> DEFINE t == RemoveAt(s, i)
           from(e) == IF e < i THEN e ELSE e + 1
<1>1. Len(s) \in Nat /\ DOMAIN s = 1 .. Len(s) /\ i \in 1 .. Len(s)
  OBVIOUS
<1>2. /\ DOMAIN t = 1 .. Len(s) - 1
      /\ \A e \in 1 .. Len(s) - 1 : t[e] = IF e < i THEN s[e] ELSE s[e + 1]
  BY RemoveAtType
<1> HIDE DEF t
<1>3. \A e \in DOMAIN t : from(e) \in DOMAIN s /\ t[e] = s[from(e)] /\ from(e) # i
  BY <1>1, <1>2
<1>4. \A d, e \in DOMAIN t : from(d) = from(e) => d = e
  BY <1>1, <1>2
<1>5. ASSUME NEW e \in DOMAIN s, e # i
      PROVE  \E f \in DOMAIN t : t[f] = s[e]
  <2>1. CASE e < i
    BY <2>1, <1>1, <1>2
  <2>2. CASE e > i
    <3>1. e - 1 \in DOMAIN t /\ ~(e - 1 < i) /\ (e - 1) + 1 = e
      BY <2>2, <1>1, <1>2
    <3>2. t[e - 1] = s[e]
      BY <3>1, <1>2
    <3>3. QED
      BY <3>1, <3>2
  <2>3. QED
    BY <1>1, <1>5, <2>1, <2>2
<1> HIDE DEF from
<1>6. QED
  BY <1>3, <1>4, <1>5 DEF t

\* A finite set can be enumerated: SetToSeq is not an arbitrary value.
LEMMA SetToSeqType ==
  ASSUME NEW S, IsFiniteSet(S)
  PROVE  SetToSeq(S) \in [1 .. Cardinality(S) -> S] /\ Cardinality(S) \in Nat
<1>1. Cardinality(S) \in Nat
  BY FS_CardinalityType
<1>2. PICK f : f \in Bijection(1 .. Cardinality(S), S)
  BY FS_NatBijection, FS_CardinalityType DEF ExistsBijection
<1>3. f \in [1 .. Cardinality(S) -> S] /\ IsInjective(f)
  BY <1>2 DEF Bijection, Injection, IsInjective
<1>4. QED
  BY <1>1, <1>3 DEF SetToSeq

-----------------------------------------------------------------------------
(* The values the operations build                                         *)

\* A fresh check has the shape of a ReviewCheckRecord.
LEMMA NewCheckType ==
  ASSUME NEW id \in Ids, NEW h \in Heads, NEW g \in Nat \cup {None}
  PROVE  NewCheck(id, h, g) \in Check
  BY DEF NewCheck, Check, Stages

\* A fresh record has the shape of a ScheduledReview.
LEMMA NewJobType ==
  ASSUME NEW r \in RequestRec
  PROVE  NewJob(r) \in Job /\ NewJob(r).pr = r.pr /\ NewJob(r).gen = 0
         /\ NewJob(r).paid = 0 /\ NewJob(r).owner = None
         /\ NewJob(r).ids = {r.id}
<1>1. r.id \in Ids /\ r.pr \in PRs /\ r.head \in Heads \cup {NoHead}
      /\ r.mode \in {"incremental", "full"}
  BY DEF RequestRec
<1>2. [h \in Heads |-> IF h = r.head THEN NewCheck(r.id, h, None) ELSE None]
        \in [Heads -> Check \cup {None}]
  BY <1>1, NewCheckType
<1>3. (r.mode = "incremental") \in BOOLEAN
      /\ (r.mode = "incremental" /\ r.head = NoHead) \in BOOLEAN
  OBVIOUS
<1>4. QED
  BY <1>1, <1>2, <1>3 DEF NewJob, Job, IsIncremental

\* Keeping one head's check, or none, keeps the shape of the checks.
LEMMA KeptType ==
  ASSUME NEW j \in Job, NEW h
  PROVE  Kept(j, h) \in [Heads -> Check \cup {None}]
  BY DEF Kept, Job

\* Stamping a check with a generation keeps the record's shape.
LEMMA StampCheckType ==
  ASSUME NEW j \in Job, NEW h \in Heads \cup {NoHead}, NEW g \in Nat
  PROVE  /\ StampCheck(j, h, g) \in Job
         /\ StampCheck(j, h, g) = [j EXCEPT !.checks = StampCheck(j, h, g).checks]
<1>1. CASE h # NoHead /\ HasCheck(j, h)
  <2>1. j.checks \in [Heads -> Check \cup {None}] /\ h \in Heads
        /\ j.checks[h] \in Check
    BY <1>1 DEF Job, HasCheck
  <2>2. [j.checks[h] EXCEPT !.gen = g] \in Check
    BY <2>1 DEF Check
  <2>3. StampCheck(j, h, g)
          = [j EXCEPT !.checks =
               [j.checks EXCEPT ![h] = [j.checks[h] EXCEPT !.gen = g]]]
    BY <1>1, <2>1 DEF StampCheck
  <2>4. [j.checks EXCEPT ![h] = [j.checks[h] EXCEPT !.gen = g]]
          \in [Heads -> Check \cup {None}]
    BY <2>1, <2>2
  <2>5. QED
    BY <2>3, <2>4 DEF Job
<1>2. CASE ~(h # NoHead /\ HasCheck(j, h))
  BY <1>2 DEF StampCheck, Job
<1>3. QED
  BY <1>1, <1>2

\* Fencing a check's writers keeps its shape.
LEMMA FencedType ==
  ASSUME NEW c \in Check
  PROVE  Fenced(c) \in Check
<1>1. c.wgen + 1 \in Nat
  BY DEF Check
<1>2. Fenced(c) = [c EXCEPT !.wgen = c.wgen + 1, !.wlive = FALSE]
  BY DEF Fenced
<1>3. QED
  BY <1>1, <1>2 DEF Check

\* Detached checks become entries of the retired outbox.
LEMMA RetiredEntriesType ==
  ASSUME NEW j \in Job, NEW S \in SUBSET CheckHeads(j)
  PROVE  RetiredEntries(j, S) \in Seq(Retired)
<1> DEFINE s == SetToSeq(S)
<1>1. S \subseteq Heads /\ IsFiniteSet(S)
  BY ConstantsAssumption, FS_Subset DEF CheckHeads, ConstantsAssumption
<1>2. s \in [1 .. Cardinality(S) -> S] /\ Cardinality(S) \in Nat
  BY <1>1, SetToSeqType
<1>3. RetiredEntries(j, S) =
        [i \in DOMAIN s |->
          [pr |-> j.pr, head |-> s[i], check |-> Fenced(j.checks[s[i]])]]
  BY DEF RetiredEntries
<1> HIDE DEF s
<1>4. ASSUME NEW i \in DOMAIN s
      PROVE  [pr |-> j.pr, head |-> s[i], check |-> Fenced(j.checks[s[i]])]
               \in Retired
  <2>1. s[i] \in S /\ s[i] \in Heads
    BY <1>1, <1>2
  <2>2. j.checks[s[i]] \in Check
    BY <2>1 DEF CheckHeads, HasCheck, Job
  <2>3. Fenced(j.checks[s[i]]) \in Check
    BY <2>2, FencedType
  <2>4. QED
    BY <2>1, <2>3 DEF Retired, Job
<1>5. QED
  <2> DEFINE n == Cardinality(S)
             f == [i \in DOMAIN s |->
                    [pr |-> j.pr, head |-> s[i], check |-> Fenced(j.checks[s[i]])]]
  <2>1. f \in [1 .. n -> Retired]
    BY <1>2, <1>4
  <2> HIDE DEF f, n
  <2>2. f \in Seq(Retired)
    BY <2>1, <1>2 DEF n
  <2>3. QED
    BY <2>2, <1>3 DEF f

-----------------------------------------------------------------------------
(* Type correctness                                                        *)

\* The claim order lists every unfinished record once, and nothing else.
Listed ==
  /\ \A k \in Unfinished : \E i \in DOMAIN queue : queue[i] = k
  /\ \A i \in DOMAIN queue : jobs[queue[i]] # None
  /\ \A i, e \in DOMAIN queue : queue[i] = queue[e] => i = e
\* A record still holds the delivery that created it.
OwnId == \A k \in Unfinished : k \in jobs[k].ids
Typed == TypeOK /\ Listed /\ OwnId

\* An operation that creates and ends no record keeps the claim order.
LEMMA SameQueue ==
  ASSUME Listed, OwnId, TypeOK, UNCHANGED queue,
         \A k \in Ids : jobs'[k] # None <=> jobs[k] # None,
         \A k \in Ids : jobs[k] # None => jobs[k].ids \subseteq jobs'[k].ids
  PROVE  Listed' /\ OwnId'
<1>1. \A i \in DOMAIN queue : queue[i] \in Ids
  BY DEF TypeOK
<1>2. Unfinished' = Unfinished
  BY DEF Unfinished
<1>3. Listed'
  BY <1>1, <1>2 DEF Listed
<1>4. OwnId'
  BY <1>2 DEF OwnId, Unfinished
<1>5. QED
  BY <1>3, <1>4

\* The null value is no record.
LEMMA NoneIsNoRecord ==
  ASSUME NEW v
  PROVE  /\ v \in Job \/ v \in Budget \/ v \in Check \/ v \in Handle => v # None
         /\ v \in Charge \/ v \in CheckClaim \/ v \in MetaClaim => v # None
  BY ConstantsAssumption DEF ConstantsAssumption

\* The record under an update keeps its key and its deliveries.
LEMMA UpdateType ==
  ASSUME Typed, NEW k \in Ids, jobs[k] # None, NEW v \in Job,
         jobs[k].ids \subseteq v.ids,
         jobs' = [jobs EXCEPT ![k] = v], UNCHANGED queue
  PROVE  jobs' \in [Ids -> Job \cup {None}] /\ Listed' /\ OwnId'
<1>1. jobs \in [Ids -> Job \cup {None}]
  BY DEF Typed, TypeOK
<1>2. jobs' \in [Ids -> Job \cup {None}]
  BY <1>1
<1>3. v # None
  BY NoneIsNoRecord
<1>4. \A x \in Ids : jobs'[x] # None <=> jobs[x] # None
  BY <1>1, <1>3
<1>5. \A x \in Ids : jobs[x] # None => jobs[x].ids \subseteq jobs'[x].ids
  BY <1>1
<1>6. QED
  BY <1>2, <1>4, <1>5, SameQueue DEF Typed

\* Re-arming keeps the shape of budgets and history.
LEMMA RearmType ==
  ASSUME TypeOK, NEW r \in RequestRec, RearmIfExplicit(r)
  PROVE  /\ heads' \in [PRs -> Budget \cup {None}]
         /\ history' \in [PRs -> [Heads -> [HeadOutcomes -> Nat]]]
<1>1. r.pr \in PRs /\ heads[r.pr] \in Budget \cup {None}
      /\ history[r.pr] \in [Heads -> [HeadOutcomes -> Nat]]
  BY DEF TypeOK, RequestRec
<1>2. Rearmed(heads[r.pr]) \in Budget \cup {None}
  <2>1. CASE heads[r.pr] # None /\ heads[r.pr].outcome \in FailedOutcomes
    <3>1. heads[r.pr].epoch + 1 \in Nat
      BY <1>1, <2>1 DEF Budget
    <3>2. QED
      BY <1>1, <2>1, <3>1 DEF Rearmed, Budget
  <2>2. QED
    BY <1>1, <2>1 DEF Rearmed
<1>3. CASE r.explicit
  <2>1. heads' = [heads EXCEPT ![r.pr] = Rearmed(heads[r.pr])]
    BY <1>3 DEF RearmIfExplicit
  <2>2. history' = [history EXCEPT ![r.pr] =
                      [h \in Heads |-> [o \in HeadOutcomes |->
                         IF o \in FailedOutcomes THEN 0
                         ELSE history[r.pr][h][o]]]]
    BY <1>3 DEF RearmIfExplicit
  <2>3. [h \in Heads |-> [o \in HeadOutcomes |->
           IF o \in FailedOutcomes THEN 0 ELSE history[r.pr][h][o]]]
          \in [Heads -> [HeadOutcomes -> Nat]]
    BY <1>1
  <2>4. QED
    BY <1>1, <1>2, <2>1, <2>2, <2>3 DEF TypeOK
<1>4. QED
  BY <1>3 DEF RearmIfExplicit, TypeOK

LEMMA AdmitNewType ==
  ASSUME Typed, NEW r \in Requests, AdmitNew(r)
  PROVE  Typed'
<1>1. r \in RequestRec /\ r.id \in Ids
  BY ConstantsAssumption DEF ConstantsAssumption, RequestRec
<1>2. /\ jobs' = [jobs EXCEPT ![r.id] = NewJob(r)]
      /\ queue' = Append(queue, r.id)
      /\ UNCHANGED <<terminal, retired, held, drain, ledger>>
      /\ RearmIfExplicit(r)
  BY DEF AdmitNew
<1>3. jobs \in [Ids -> Job \cup {None}] /\ queue \in Seq(Ids)
  BY DEF Typed, TypeOK
<1>4. jobs' \in [Ids -> Job \cup {None}] /\ queue' \in Seq(Ids)
  BY <1>1, <1>2, <1>3, NewJobType
<1>5. NewJob(r) # None /\ NewJob(r).ids = {r.id}
  BY <1>1, NewJobType, NoneIsNoRecord
<1>6. jobs[r.id] = None
  BY <1>1 DEF AdmitNew, Known, Typed, OwnId, Unfinished
<1>7. OwnId'
  BY <1>1, <1>2, <1>3, <1>5 DEF Typed, OwnId, Unfinished
<1>8. Listed'
  <2>1. DOMAIN queue' = 1 .. Len(queue) + 1 /\ Len(queue) \in Nat
        /\ DOMAIN queue = 1 .. Len(queue)
    BY <1>1, <1>2, <1>3
  <2>2. /\ queue'[Len(queue) + 1] = r.id
        /\ \A i \in DOMAIN queue : queue'[i] = queue[i]
    BY <1>1, <1>2, <1>3
  <2>3. \A i \in DOMAIN queue : queue[i] \in Ids /\ jobs[queue[i]] # None
    BY <1>3 DEF Typed, Listed
  <2>4. /\ jobs'[r.id] # None
        /\ \A k \in Ids : k # r.id => jobs'[k] = jobs[k]
    BY <1>1, <1>2, <1>3, <1>5
  <2>5. \A i \in DOMAIN queue' : jobs'[queue'[i]] # None
    BY <2>1, <2>2, <2>3, <2>4, <1>6
  <2>6. \A i, e \in DOMAIN queue' : queue'[i] = queue'[e] => i = e
    BY <2>1, <2>2, <2>3, <1>6 DEF Typed, Listed
  <2>7. ASSUME NEW k \in Ids, jobs'[k] # None
        PROVE  \E i \in DOMAIN queue' : queue'[i] = k
    BY <2>1, <2>2, <2>4, <2>7 DEF Typed, Listed, Unfinished
  <2>8. QED
    BY <2>5, <2>6, <2>7 DEF Listed, Unfinished
<1>9. QED
  BY <1>1, <1>2, <1>4, <1>7, <1>8, RearmType DEF Typed, TypeOK

\* A record joined by a delivery keeps its shape, its pull request and mode.
LEMMA JoinedType ==
  ASSUME NEW j \in Job, NEW r \in RequestRec
  PROVE  Joined(j, r) \in Job /\ j.ids \subseteq Joined(j, r).ids
<1> DEFINE checked == [h \in Heads |->
                         IF h = r.head /\ ~HasCheck(j, h)
                         THEN NewCheck(r.id, h, None) ELSE j.checks[h]]
           noted == [j EXCEPT !.ids = @ \cup {r.id}, !.hint = r.head,
                       !.checks = checked, !.resv = @ + 1, !.spare = TRUE,
                       !.meta = (r.head = NoHead), !.mgen = @ + 1,
                       !.mlive = FALSE]
<1>1. r.id \in Ids /\ r.head \in Heads \cup {NoHead}
  BY DEF RequestRec
<1>2. checked \in [Heads -> Check \cup {None}]
  BY <1>1, NewCheckType DEF Job
<1>3. /\ (j.ids \cup {r.id}) \in SUBSET Ids
      /\ j.resv + 1 \in Nat /\ j.mgen + 1 \in Nat
      /\ (r.head = NoHead) \in BOOLEAN
      /\ (j.yield \/ j.head # r.head) \in BOOLEAN
  BY <1>1 DEF Job
<1> HIDE DEF checked
<1>4. noted \in Job
  BY <1>1, <1>2, <1>3, ZenonT(60) DEF Job
<1>5. Joined(j, r) =
        IF j.owner # None
        THEN [noted EXCEPT !.yield = j.yield \/ j.head # r.head]
        ELSE [noted EXCEPT !.id = r.id, !.head = r.head,
                !.checks = IF j.head # r.head THEN Kept(noted, r.head)
                           ELSE noted.checks]
  BY DEF Joined, checked, Job
<1> HIDE DEF noted
<1>6. Kept(noted, r.head) \in [Heads -> Check \cup {None}]
  BY <1>4, KeptType
<1>7. (IF j.head # r.head THEN Kept(noted, r.head) ELSE noted.checks)
        \in [Heads -> Check \cup {None}]
  BY <1>4, <1>6 DEF Job
<1>8. [noted EXCEPT !.yield = j.yield \/ j.head # r.head] \in Job
  BY <1>3, <1>4, ZenonT(60) DEF Job
<1>9. [noted EXCEPT !.id = r.id, !.head = r.head,
         !.checks = IF j.head # r.head THEN Kept(noted, r.head)
                    ELSE noted.checks] \in Job
  BY <1>1, <1>4, <1>7, ZenonT(60) DEF Job
<1>10. noted.ids = j.ids \cup {r.id} /\ Joined(j, r).ids = noted.ids
  BY <1>4, <1>5 DEF noted, Job
<1>11. QED
  BY <1>5, <1>8, <1>9, <1>10

\* Detached checks extend the retired outbox.
LEMMA RetireType ==
  ASSUME TypeOK, NEW j \in Job, NEW S \in SUBSET CheckHeads(j)
  PROVE  retired \o RetiredEntries(j, S) \in Seq(Retired)
<1>1. retired \in Seq(Retired) /\ RetiredEntries(j, S) \in Seq(Retired)
  BY RetiredEntriesType DEF TypeOK
<1>2. QED
  BY <1>1

LEMMA AdmitCoalescedType ==
  ASSUME Typed, NEW r \in Requests, AdmitCoalesced(r)
  PROVE  Typed'
<1> DEFINE k == CHOOSE x \in PendingFor(r.pr) : TRUE
           j == jobs[k]
           headless == r.head = NoHead /\ j.head # NoHead
           next == IF headless THEN [j EXCEPT !.ids = j.ids \cup {r.id}]
                   ELSE Joined(j, r)
<1>1. r \in RequestRec /\ r.id \in Ids
  BY ConstantsAssumption DEF ConstantsAssumption, RequestRec
<1>2. k \in Ids /\ jobs[k] # None /\ j \in Job
  <2>1. k \in PendingFor(r.pr)
    BY DEF AdmitCoalesced
  <2>2. QED
    BY <2>1 DEF PendingFor, Unfinished, Typed, TypeOK
<1>3. /\ jobs' = [jobs EXCEPT ![k] = next]
      /\ retired' =
          IF headless \/ j.owner # None \/ j.head = r.head THEN retired
          ELSE retired \o RetiredEntries(j, Detached(j, r.head, NoHead))
      /\ RearmIfExplicit(r)
      /\ UNCHANGED <<queue, terminal, held, drain, ledger>>
  BY DEF AdmitCoalesced
<1> HIDE DEF k
<1>4. next \in Job /\ j.ids \subseteq next.ids
  BY <1>1, <1>2, JoinedType DEF Job
<1> HIDE DEF next, headless
<1>5. jobs' \in [Ids -> Job \cup {None}] /\ Listed' /\ OwnId'
  BY <1>2, <1>3, <1>4, UpdateType
<1>6. retired' \in Seq(Retired)
  <2>1. Detached(j, r.head, NoHead) \in SUBSET CheckHeads(j)
    BY DEF Detached
  <2>2. QED
    BY <2>1, <1>2, <1>3, RetireType DEF Typed, TypeOK
<1>7. QED
  BY <1>1, <1>3, <1>5, <1>6, RearmType DEF Typed, TypeOK

\* A manual expansion is a sequence of Full requests.
LEMMA BatchType ==
  ASSUME NEW batch \in Batches
  PROVE  /\ batch \in Seq(RequestRec)
         /\ \A i \in DOMAIN batch :
              /\ batch[i] \in RequestRec /\ batch[i].id \in Ids
              /\ batch[i].mode = "full"
<1> DEFINE S == {r \in RequestRec : r.mode = "full"}
<1>1. batch \in Seq(S)
  BY ConstantsAssumption DEF ConstantsAssumption
<1>2. \A i \in DOMAIN batch : batch[i] \in S
  BY <1>1
<1>3. batch \in Seq(RequestRec)
  <2>1. batch \in [1 .. Len(batch) -> S] /\ Len(batch) \in Nat
    BY <1>1
  <2>2. batch \in [1 .. Len(batch) -> RequestRec]
    BY <2>1
  <2>3. QED
    BY <2>1, <2>2
<1>4. QED
  BY <1>2, <1>3 DEF RequestRec

LEMMA AdmitManualType ==
  ASSUME Typed, NEW batch \in Batches, AdmitManual(batch)
  PROVE  Typed'
<1> DEFINE new == {batch[i].id : i \in DOMAIN batch}
           at(k) == CHOOSE i \in DOMAIN batch : batch[i].id = k
           added == [i \in DOMAIN batch |-> batch[i].id]
<1>1. batch \in Seq(RequestRec)
  BY BatchType
<1>2. \A i \in DOMAIN batch : batch[i] \in RequestRec /\ batch[i].id \in Ids
  <2>1. \A i \in DOMAIN batch : batch[i] \in RequestRec
    BY <1>1
  <2>2. QED
    BY <2>1 DEF RequestRec
<1>3. /\ jobs' = [k \in Ids |-> IF k \in new THEN NewJob(batch[at(k)])
                                ELSE jobs[k]]
      /\ queue' = queue \o added
      /\ UNCHANGED <<terminal, heads, history, retired, held, drain, ledger>>
  BY DEF AdmitManual
<1>4. \A k \in new : at(k) \in DOMAIN batch /\ batch[at(k)].id = k
  OBVIOUS
<1>5. jobs \in [Ids -> Job \cup {None}] /\ queue \in Seq(Ids)
  BY DEF Typed, TypeOK
<1>6. added \in Seq(Ids) /\ DOMAIN added = DOMAIN batch
  BY <1>1, <1>2
<1> HIDE DEF at, added
<1>7. jobs' \in [Ids -> Job \cup {None}]
  BY <1>2, <1>3, <1>4, <1>5, NewJobType
<1>8. queue' \in Seq(Ids) /\ DOMAIN queue' = 1 .. Len(queue) + Len(added)
  BY <1>3, <1>5, <1>6
<1>9. \A i, e \in DOMAIN batch : batch[i].id = batch[e].id => i = e
  <2>1. Cardinality(new) = Cardinality(DOMAIN batch) /\ IsFiniteSet(DOMAIN batch)
    <3>1. DOMAIN batch = 1 .. Len(batch) /\ Len(batch) \in Nat
      BY <1>1
    <3>2. QED
      <4>1. Cardinality(new) = Len(batch)
        BY DEF AdmitManual
      <4>2. IsFiniteSet(1 .. Len(batch)) /\ Cardinality(1 .. Len(batch)) = Len(batch)
        <5>1. 1 \in Int /\ Len(batch) \in Int
          BY <3>1
        <5>2. /\ IsFiniteSet(1 .. Len(batch))
              /\ Cardinality(1 .. Len(batch))
                   = IF 1 > Len(batch) THEN 0 ELSE Len(batch) - 1 + 1
          BY <5>1, FS_Interval
        <5>3. QED
          BY <3>1, <5>2
      <4>3. QED
        BY <3>1, <4>1, <4>2
  <2>2. added \in Surjection(DOMAIN batch, new)
    BY DEF Surjection, added
  <2>3. added \in Injection(DOMAIN batch, new)
    BY <2>1, <2>2, FS_SurjSameCardinalityImpliesInj
  <2>4. QED
    BY <2>3 DEF Injection, IsInjective, added
<1>10. /\ Len(added) \in Nat /\ DOMAIN added = 1 .. Len(added)
       /\ Len(queue) \in Nat /\ DOMAIN queue = 1 .. Len(queue)
  BY <1>5, <1>6
<1>11. /\ \A i \in DOMAIN queue : queue'[i] = queue[i]
       /\ \A i \in DOMAIN added : queue'[Len(queue) + i] = batch[i].id
  <2>1. \A i \in DOMAIN queue : queue'[i] = queue[i]
    BY <1>3, <1>5, <1>6
  <2>2. \A i \in DOMAIN added : queue'[Len(queue) + i] = added[i]
    BY <1>3, <1>5, <1>6, <1>10
  <2>3. QED
    BY <2>1, <2>2, <1>6 DEF added
<1>12. /\ \A k \in new : k \in Ids /\ jobs[k] = None
       /\ \A k \in new : jobs'[k] # None /\ k \in jobs'[k].ids
       /\ \A k \in Ids : k \notin new => jobs'[k] = jobs[k]
  <2>1. \A k \in new : k \in Ids
    BY <1>2
  <2>2. ASSUME NEW k \in new
        PROVE  jobs[k] = None
    BY <2>1, <2>2 DEF AdmitManual, Known, Typed, OwnId, Unfinished
  <2>3. ASSUME NEW k \in new
        PROVE  jobs'[k] # None /\ k \in jobs'[k].ids
    <3>1. batch[at(k)] \in RequestRec /\ batch[at(k)].id = k
      BY <1>2, <1>4
    <3>2. jobs'[k] = NewJob(batch[at(k)])
      BY <1>3, <2>1
    <3>3. QED
      BY <3>1, <3>2, NewJobType, NoneIsNoRecord
  <2>4. QED
    BY <2>1, <2>2, <2>3, <1>3
<1>13. OwnId'
  BY <1>12 DEF Typed, OwnId, Unfinished
<1>14. Listed'
  <2>1. ASSUME NEW i \in DOMAIN queue'
        PROVE  \/ i \in DOMAIN queue /\ queue'[i] = queue[i]
                    /\ jobs[queue[i]] # None
               \/ i - Len(queue) \in DOMAIN batch
                    /\ queue'[i] = batch[i - Len(queue)].id
    <3>1. CASE i \in DOMAIN queue
      BY <3>1, <1>11 DEF Typed, Listed
    <3>2. CASE i \notin DOMAIN queue
      <4>1. i - Len(queue) \in DOMAIN added /\ Len(queue) + (i - Len(queue)) = i
        BY <3>2, <1>8, <1>10
      <4>2. QED
        BY <4>1, <1>6, <1>11
    <3>3. QED
      BY <3>1, <3>2
  <2>2. \A i \in DOMAIN queue' : jobs'[queue'[i]] # None
    BY <2>1, <1>5, <1>12
  <2>3. \A i, e \in DOMAIN queue' : queue'[i] = queue'[e] => i = e
    BY <2>1, <1>8, <1>9, <1>10, <1>12 DEF Typed, Listed
  <2>4. ASSUME NEW k \in Ids, jobs'[k] # None
        PROVE  \E i \in DOMAIN queue' : queue'[i] = k
    <3>1. CASE k \in new
      <4>1. PICK i \in DOMAIN batch : batch[i].id = k
        BY <3>1
      <4>2. Len(queue) + i \in DOMAIN queue'
        BY <4>1, <1>6, <1>8, <1>10
      <4>3. QED
        BY <4>1, <4>2, <1>6, <1>11
    <3>2. CASE k \notin new
      <4>1. PICK i \in DOMAIN queue : queue[i] = k
        BY <2>4, <3>2, <1>12 DEF Typed, Listed, Unfinished
      <4>2. QED
        BY <4>1, <1>8, <1>10, <1>11
    <3>3. QED
      BY <3>1, <3>2
  <2>5. QED
    BY <2>2, <2>3, <2>4 DEF Listed, Unfinished
<1>15. QED
  BY <1>3, <1>7, <1>8, <1>13, <1>14 DEF Typed, TypeOK

\* Replacing one check keeps the record's shape and its deliveries.
LEMMA CheckUpdateType ==
  ASSUME NEW j \in Job, NEW h \in Heads, NEW c \in Check
  PROVE  LET v == [j EXCEPT !.checks = [j.checks EXCEPT ![h] = c]] IN
         v \in Job /\ v.ids = j.ids
<1>1. [j.checks EXCEPT ![h] = c] \in [Heads -> Check \cup {None}]
  BY DEF Job
<1>2. QED
  BY <1>1 DEF Job

\* A worker that passes the fence holds a handle on an unfinished record.
LEMMA OwnedType ==
  ASSUME Typed, NEW w \in Workers, Owns(w)
  PROVE  /\ held[w] \in Handle /\ held[w].key \in Ids
         /\ jobs[held[w].key] \in Job /\ jobs[held[w].key] # None
<1>1. held[w] \in Handle
  BY DEF Owns, Typed, TypeOK
<1>2. held[w].key \in Ids
  BY <1>1 DEF Handle
<1>3. QED
  BY <1>1, <1>2 DEF Owns, Typed, TypeOK

\* A step of worker w that leaves the document alone and moves w to the
\* handle v.
LEMMA HandleOnlyType ==
  ASSUME Typed, NEW w \in Workers, NEW v \in Handle \cup {None},
         held' = [held EXCEPT ![w] = v],
         UNCHANGED <<jobs, queue, terminal, heads, history, retired, drain,
                     ledger>>
  PROVE  Typed'
<1>1. held' \in [Workers -> Handle \cup {None}]
  BY DEF Typed, TypeOK
<1>2. QED
  BY <1>1 DEF Typed, TypeOK, Listed, OwnId, Unfinished

\* Handles after a worker moved to another phase.
LEMMA BecomeType ==
  ASSUME NEW h \in Handle, NEW p \in Phases, NEW c \in Charge \cup {None}
  PROVE  [h EXCEPT !.phase = p] \in Handle
         /\ [h EXCEPT !.phase = p, !.charge = c] \in Handle
  BY DEF Handle

\* The worker steps that only move the worker on.
LEMMA HandleStepsType ==
  ASSUME Typed, NEW w \in Workers,
         \/ \E h \in Heads : ReconcileDeferred(w, h) \/ ConfirmRefused(w, h)
         \/ BeginPaidExhausted(w) \/ Dispatch(w) \/ Retry(w) \/ Publish(w)
         \/ Drop(w)
  PROVE  Typed'
<1>1. CASE \E h \in Heads : ReconcileDeferred(w, h)
  <2>1. OwnsLive(w) /\ held' = [held EXCEPT ![w] = [held[w] EXCEPT !.phase = "pending"]]
        /\ UNCHANGED <<sched, drain, ledger>>
    BY <1>1 DEF ReconcileDeferred, Become
  <2>2. [held[w] EXCEPT !.phase = "pending"] \in Handle
    BY <2>1, OwnedType, BecomeType DEF OwnsLive, Phases
  <2>3. QED
    BY <2>1, <2>2, HandleOnlyType DEF sched
<1>2. CASE \E h \in Heads : ConfirmRefused(w, h)
  BY <1>2, HandleOnlyType DEF ConfirmRefused, sched
<1>3. CASE BeginPaidExhausted(w)
  <2>1. OwnsLive(w)
        /\ held' = [held EXCEPT ![w] = [held[w] EXCEPT !.phase = "exhausted"]]
        /\ UNCHANGED <<sched, drain, ledger>>
    BY <1>3 DEF BeginPaidExhausted, Become
  <2>2. [held[w] EXCEPT !.phase = "exhausted"] \in Handle
    BY <2>1, OwnedType, BecomeType DEF OwnsLive, Phases
  <2>3. QED
    BY <2>1, <2>2, HandleOnlyType DEF sched
<1>4. CASE Dispatch(w)
  <2>1. held[w] \in Handle
    BY <1>4 DEF Dispatch, Typed, TypeOK
  <2>2. [held[w] EXCEPT !.charge = None] \in Handle
    BY <2>1 DEF Handle
  <2>3. QED
    BY <1>4, <2>2, HandleOnlyType DEF Dispatch, sched
<1>5. CASE Retry(w)
  <2>1. [held[w] EXCEPT !.phase = "claimed", !.charge = None] \in Handle
    BY <1>5, OwnedType, BecomeType DEF Retry, OwnsLive, Phases
  <2>2. held' = [held EXCEPT ![w] = [held[w] EXCEPT !.phase = "claimed", !.charge = None]]
    BY <1>5 DEF Retry, Typed, TypeOK
  <2>3. QED
    BY <1>5, <2>1, <2>2, HandleOnlyType DEF Retry, sched
<1>6. CASE Publish(w)
  <2>1. held[w] \in Handle
    BY <1>6 DEF Publish, Typed, TypeOK
  <2> DEFINE x == IF Owns(w) THEN jobs[held[w].key].head ELSE NoHead
  <2>2. x \in Heads \cup {NoHead}
    <3>1. CASE Owns(w)
      BY <3>1, OwnedType DEF Job
    <3>2. QED
      BY <3>1
  <2>3. [held[w] EXCEPT !.phase = "published", !.charge = None, !.wrote = x]
          \in Handle
    <3> HIDE DEF x
    <3>1. QED
      BY <2>1, <2>2 DEF Handle, Phases
  <2>4. held' = [held EXCEPT ![w] =
            [held[w] EXCEPT !.phase = "published", !.charge = None, !.wrote = x]]
    BY <1>6 DEF Publish, Typed, TypeOK
  <2>5. QED
    BY <1>6, <2>3, <2>4, HandleOnlyType DEF Publish, sched
<1>7. CASE Drop(w)
  BY <1>7, HandleOnlyType DEF Drop, sched
<1>8. QED
  BY <1>1, <1>2, <1>3, <1>4, <1>5, <1>6, <1>7

LEMMA RenewType ==
  ASSUME Typed, NEW w \in Workers, Renew(w)
  PROVE  Typed'
<1> DEFINE k == held[w].key
<1>1. k \in Ids /\ jobs[k] \in Job /\ jobs[k] # None
  BY OwnedType DEF Renew, OwnsLive
<1>2. [jobs[k] EXCEPT !.live = TRUE] \in Job
      /\ [jobs[k] EXCEPT !.live = TRUE].ids = jobs[k].ids
  BY <1>1 DEF Job
<1>3. jobs' = [jobs EXCEPT ![k] = [jobs[k] EXCEPT !.live = TRUE]]
      /\ UNCHANGED <<queue, terminal, heads, history, retired, held, drain, ledger>>
  BY DEF Renew
<1>4. jobs' \in [Ids -> Job \cup {None}] /\ Listed' /\ OwnId'
  BY <1>1, <1>2, <1>3, UpdateType
<1>5. QED
  BY <1>3, <1>4 DEF Typed, TypeOK

\* Recording a stage on the check of the record's head.
LEMMA SetStageType ==
  ASSUME Typed, NEW w \in Workers, OwnsLive(w), OwnCheck(w),
         NEW stage \in Stages, jobs' = SetStage(w, stage), UNCHANGED queue
  PROVE  jobs' \in [Ids -> Job \cup {None}] /\ Listed' /\ OwnId'
<1> DEFINE k == held[w].key
           j == jobs[k]
           c == [j.checks[j.head] EXCEPT !.stage = stage]
<1>1. k \in Ids /\ j \in Job /\ j # None
  BY OwnedType DEF OwnsLive
<1>2. j.head \in Heads /\ j.checks[j.head] \in Check
  BY <1>1 DEF OwnCheck, HasCheck, Job
<1>3. c \in Check
  BY <1>2 DEF Check
<1>4. jobs' = [jobs EXCEPT ![k] =
                 [j EXCEPT !.checks = [j.checks EXCEPT ![j.head] = c]]]
  BY DEF SetStage
<1> HIDE DEF c
<1>5. /\ [j EXCEPT !.checks = [j.checks EXCEPT ![j.head] = c]] \in Job
      /\ [j EXCEPT !.checks = [j.checks EXCEPT ![j.head] = c]].ids = j.ids
  BY <1>1, <1>2, <1>3, CheckUpdateType
<1>6. QED
  BY <1>1, <1>4, <1>5, UpdateType

LEMMA StartCheckType ==
  ASSUME Typed, NEW w \in Workers, StartCheck(w)
  PROVE  Typed'
<1>1. jobs' \in [Ids -> Job \cup {None}] /\ Listed' /\ OwnId'
  BY SetStageType DEF StartCheck, Stages
<1>2. QED
  BY <1>1 DEF StartCheck, Typed, TypeOK

LEMMA ClaimNextType ==
  ASSUME Typed, NEW w \in Workers, ClaimNext(w)
  PROVE  Typed'
<1>1. PICK i \in DOMAIN queue :
        LET k == queue[i]
            j == jobs[k]
            g == NextGeneration(j)
        IN
        /\ jobs' = [jobs EXCEPT ![k] =
             StampCheck([j EXCEPT !.gen = g, !.owner = OwnerOf[w], !.live = TRUE],
                        j.head, g)]
        /\ held' = [held EXCEPT ![w] =
             [key |-> k, id |-> j.id, owner |-> OwnerOf[w], gen |-> g,
              phase |-> "claimed", charge |-> None, verdict |-> None,
              wrote |-> NoHead]]
  BY DEF ClaimNext
<1> DEFINE k == queue[i]
           j == jobs[k]
           g == NextGeneration(j)
           own == [j EXCEPT !.gen = g, !.owner = OwnerOf[w], !.live = TRUE]
           new == StampCheck(own, j.head, g)
           handle == [key |-> k, id |-> j.id, owner |-> OwnerOf[w], gen |-> g,
                      phase |-> "claimed", charge |-> None, verdict |-> None,
                      wrote |-> NoHead]
<1>2. k \in Ids /\ j # None /\ j \in Job
  BY DEF Typed, TypeOK, Listed
<1>3. g \in Nat /\ OwnerOf[w] \in Owners /\ j.head \in Heads \cup {NoHead}
      /\ j.id \in Ids
  BY <1>2, ConstantsAssumption DEF NextGeneration, Job, ConstantsAssumption
<1>4. own \in Job /\ own.ids = j.ids
  BY <1>2, <1>3 DEF Job
<1>5. jobs' = [jobs EXCEPT ![k] = new] /\ held' = [held EXCEPT ![w] = handle]
      /\ UNCHANGED <<queue, terminal, heads, history, retired, drain, ledger>>
  BY <1>1 DEF ClaimNext
<1> HIDE DEF k, g, own
<1>6. new \in Job /\ new = [own EXCEPT !.checks = new.checks]
  BY <1>3, <1>4, StampCheckType
<1> HIDE DEF new
<1>7. new.ids = j.ids
  BY <1>4, <1>6 DEF Job
<1>8. handle \in Handle
  BY <1>2, <1>3 DEF Handle, Phases
<1> HIDE DEF handle
<1>9. jobs' \in [Ids -> Job \cup {None}] /\ Listed' /\ OwnId'
  BY <1>2, <1>5, <1>6, <1>7, UpdateType
<1>10. held' \in [Workers -> Handle \cup {None}]
  BY <1>5, <1>8 DEF Typed, TypeOK
<1>11. QED
  BY <1>5, <1>9, <1>10 DEF Typed, TypeOK

\* The history restores a result of the head or none.
LEMMA RestoredOutcomeType ==
  ASSUME NEW pr, NEW h
  PROVE  RestoredOutcome(pr, h) \in HeadOutcomes \cup {None}
  BY DEF RestoredOutcome, Remembered

\* Confirming a head yields a budget of that head.
LEMMA NextBudgetType ==
  ASSUME NEW b \in Budget \cup {None}, NEW j \in Job, NEW h \in Heads
  PROVE  NextBudget(b, j, h) \in Budget /\ NextBudget(b, j, h).head = h
<1> DEFINE o == RestoredOutcome(j.pr, h)
<1>1. o \in HeadOutcomes \cup {None}
  BY RestoredOutcomeType
<1>2. MaxPaid \in Nat /\ j.paid \in Nat
  BY ConstantsAssumption DEF ConstantsAssumption, Job
<1> HIDE DEF o
<1>3. CASE b = None
  BY <1>2, <1>3 DEF NextBudget, Budget
<1>4. CASE b # None /\ b.head = h
  BY <1>4 DEF NextBudget
<1>5. CASE b # None /\ b.head # h
  <2>1. b.epoch + 1 \in Nat
    BY <1>5 DEF Budget
  <2>2. NextBudget(b, j, h) =
          [head |-> h, paid |-> IF o = "deadline" THEN MaxPaid ELSE 0,
           refunds |-> 0, epoch |-> b.epoch + 1, outcome |-> o]
    BY <1>5 DEF NextBudget, o
  <2>3. QED
    BY <1>1, <1>2, <2>1, <2>2 DEF Budget
<1>6. QED
  BY <1>3, <1>4, <1>5

\* A displaced result takes one of the record's history reservations.
LEMMA SpentType ==
  ASSUME NEW j \in Job, NEW b, NEW h, Reserved(j, b, h)
  PROVE  Spent(j, b, h) \in Job
         /\ Spent(j, b, h) = [j EXCEPT !.resv = Spent(j, b, h).resv]
<1>1. CASE IsIncremental(j) /\ Displaces(b, h)
  <2>1. j.resv - 1 \in Nat
    BY <1>1 DEF Reserved, Job
  <2>2. Spent(j, b, h) = [j EXCEPT !.resv = j.resv - 1]
    BY <1>1 DEF Spent
  <2>3. QED
    BY <2>1, <2>2 DEF Job
<1>2. CASE ~(IsIncremental(j) /\ Displaces(b, h))
  BY <1>2 DEF Spent, Job
<1>3. QED
  BY <1>1, <1>2

\* A reconciled record keeps its shape; only its head, its checks and its
\* status reservation change.
LEMMA ReconciledType ==
  ASSUME NEW j \in Job, NEW h \in Heads, NEW done, NEW g \in Nat
  PROVE  LET v == Reconciled(j, h, done, g) IN
         /\ v \in Job
         /\ v.ids = j.ids /\ v.pr = j.pr /\ v.mode = j.mode
         /\ v.owner = j.owner /\ v.live = j.live /\ v.gen = j.gen
         /\ v.paid = j.paid /\ v.refunds = j.refunds
<1> DEFINE kept == [j EXCEPT !.head = h, !.checks = Kept(j, h)]
           v == Reconciled(j, h, done, g)
<1>1. kept \in Job
  BY KeptType DEF Job
<1>2. kept.checks \in [Heads -> Check \cup {None}] /\ kept.id = j.id /\ j.id \in Ids
  BY <1>1 DEF Job
<1> HIDE DEF kept
<1>3. CASE v = kept
  BY <1>1, <1>3 DEF kept, Job
<1>4. CASE v = StampCheck(kept, h, g)
  <2>1. v \in Job /\ v = [kept EXCEPT !.checks = v.checks]
    BY <1>1, <1>4, StampCheckType
  <2>2. QED
    BY <1>1, <2>1 DEF kept, Job
<1>5. CASE v = [kept EXCEPT !.spare = FALSE, !.checks[h] = NewCheck(j.id, h, g)]
  <2>1. NewCheck(j.id, h, g) \in Check
    BY <1>2, NewCheckType
  <2> DEFINE c == NewCheck(j.id, h, g)
  <2> HIDE DEF c
  <2>2. [kept.checks EXCEPT ![h] = c] \in [Heads -> Check \cup {None}]
    BY <1>2, <2>1 DEF c
  <2>3. v = [kept EXCEPT !.spare = FALSE,
                         !.checks = [kept.checks EXCEPT ![h] = c]]
    BY <1>1, <1>5 DEF c, Job
  <2>4. QED
    BY <1>1, <2>2, <2>3, ZenonT(60) DEF kept, Job
<1>6. QED
  BY <1>3, <1>4, <1>5 DEF Reconciled, kept

LEMMA SpentReconciledType ==
  ASSUME NEW j \in Job, NEW b, NEW h \in Heads, NEW done, NEW g \in Nat,
         Reserved(j, b, h)
  PROVE  LET v == Reconciled(Spent(j, b, h), h, done, g) IN
         /\ v \in Job /\ v.ids = j.ids /\ v.pr = j.pr /\ v.mode = j.mode
         /\ v.owner = j.owner /\ v.live = j.live /\ v.gen = j.gen
         /\ v.paid = j.paid /\ v.refunds = j.refunds
<1> DEFINE s == Spent(j, b, h)
           v == Reconciled(s, h, done, g)
<1>1. s \in Job /\ s = [j EXCEPT !.resv = s.resv]
  BY SpentType
<1> HIDE DEF s
<1>2. /\ v \in Job
      /\ v.ids = s.ids /\ v.pr = s.pr /\ v.mode = s.mode
      /\ v.owner = s.owner /\ v.live = s.live /\ v.gen = s.gen
      /\ v.paid = s.paid /\ v.refunds = s.refunds
  BY <1>1, ReconciledType
<1> HIDE DEF v
<1>3. /\ s.ids = j.ids /\ s.pr = j.pr /\ s.mode = j.mode
      /\ s.owner = j.owner /\ s.live = j.live /\ s.gen = j.gen
      /\ s.paid = j.paid /\ s.refunds = j.refunds
  BY <1>1 DEF Job
<1>4. QED
  BY <1>2, <1>3 DEF v, s

LEMMA ReconcileType ==
  ASSUME Typed, NEW w \in Workers, NEW h \in Heads, Reconcile(w, h)
  PROVE  Typed'
<1> DEFINE k == held[w].key
           j == jobs[k]
           old == heads[j.pr]
           new == NextBudget(old, j, h)
           done == IsIncremental(j) /\ (new.outcome # None \/ Remembered(j.pr, h) # {})
           spent == Spent(j, old, h)
           v == Reconciled(spent, h, done, held[w].gen)
<1>1. held[w] \in Handle /\ k \in Ids /\ j \in Job /\ j # None
  BY OwnedType DEF Reconcile, OwnsLive
<1>2. j.pr \in PRs /\ old \in Budget \cup {None} /\ held[w].gen \in Nat
  BY <1>1 DEF Job, Handle, Typed, TypeOK
<1>3. new \in Budget
  BY <1>1, <1>2, NextBudgetType
<1>4. heads' \in [PRs -> Budget \cup {None}]
  <2>1. heads' = IF IsIncremental(j) THEN [heads EXCEPT ![j.pr] = new] ELSE heads
    BY DEF Reconcile
  <2>2. QED
    BY <2>1, <1>3 DEF Typed, TypeOK
<1>5. history' \in [PRs -> [Heads -> [HeadOutcomes -> Nat]]]
  <2>1. CASE IsIncremental(j) /\ Displaces(old, h)
    <3>1. history' = [history EXCEPT ![j.pr][old.head][old.outcome] = @ + 1]
      BY <2>1 DEF Reconcile
    <3>2. old.head \in Heads /\ old.outcome \in HeadOutcomes
      BY <2>1, <1>2 DEF Displaces, Budget
    <3>3. history \in [PRs -> [Heads -> [HeadOutcomes -> Nat]]]
      BY DEF Typed, TypeOK
    <3>4. history[j.pr][old.head][old.outcome] \in Nat
      <4> HIDE DEF j, old, new, done, spent, v
      <4>1. QED
        BY <3>2, <3>3, <1>2
    <3>5. history[j.pr][old.head][old.outcome] + 1 \in Nat
      <4>1. \A n \in Nat : n + 1 \in Nat
        OBVIOUS
      <4> HIDE DEF j, old
      <4>2. QED
        BY <3>4, <4>1
    <3>6. QED
      <4> HIDE DEF j, old, new, done, spent, v
      <4>1. QED
        BY <3>1, <3>2, <3>3, <3>5, <1>2
  <2>2. CASE ~(IsIncremental(j) /\ Displaces(old, h))
    BY <2>2 DEF Reconcile, Typed, TypeOK
  <2>3. QED
    BY <2>1, <2>2
<1>6. retired' \in Seq(Retired)
  <2>1. Detached(j, h, NoHead) \in SUBSET CheckHeads(j)
    BY DEF Detached
  <2>2. retired' = retired \o RetiredEntries(j, Detached(j, h, NoHead))
    BY DEF Reconcile
  <2>3. QED
    BY <2>1, <2>2, <1>1, RetireType DEF Typed
<1>7. v \in Job /\ v.ids = j.ids
  <2>1. Reserved(j, old, h)
    BY DEF Reconcile
  <2>2. QED
    BY <2>1, <1>1, <1>2, SpentReconciledType, SMTT(30)
<1>8. jobs' = [jobs EXCEPT ![k] = v]
      /\ UNCHANGED <<queue, terminal, drain, ledger>>
  BY DEF Reconcile
<1>9. held' \in [Workers -> Handle \cup {None}]
  <2>1. PICK p \in Phases : held' = [held EXCEPT ![w] = [held[w] EXCEPT !.phase = p]]
    BY DEF Reconcile, Become, Phases
  <2>2. QED
    BY <2>1, <1>1, BecomeType DEF Typed, TypeOK
<1> HIDE DEF v
<1>10. jobs' \in [Ids -> Job \cup {None}] /\ Listed' /\ OwnId'
  BY <1>1, <1>7, <1>8, UpdateType
<1>11. QED
  BY <1>4, <1>5, <1>6, <1>8, <1>9, <1>10 DEF Typed, TypeOK

\* The ledger keeps its shape whatever entry is rewritten.
LEMMA LedgerType ==
  ASSUME TypeOK, NEW pr \in PRs, NEW e, NEW h \in Heads,
         \/ ledger' = [ledger EXCEPT ![pr][e] =
              [head |-> h, starts |-> @.starts + 1, refunds |-> @.refunds]]
         \/ ledger' = [ledger EXCEPT ![pr][e].refunds = @ + 1]
  PROVE  ledger' \in [PRs -> [0 .. MaxEpoch ->
                       [head: Heads \cup {NoHead}, starts: Nat, refunds: Nat]]]
<1> DEFINE entry == [head: Heads \cup {NoHead}, starts: Nat, refunds: Nat]
           rows == [0 .. MaxEpoch -> entry]
           row == ledger[pr]
           r1 == [head |-> h, starts |-> row[e].starts + 1,
                  refunds |-> row[e].refunds]
           r2 == [row[e] EXCEPT !.refunds = @ + 1]
<1>1. ledger \in [PRs -> rows] /\ row \in rows
  BY DEF TypeOK
<1>2. \/ ledger' = [ledger EXCEPT ![pr] = [row EXCEPT ![e] = r1]]
      \/ ledger' = [ledger EXCEPT ![pr] = [row EXCEPT ![e] = r2]]
  OBVIOUS
<1>3. e \in 0 .. MaxEpoch => r1 \in entry /\ r2 \in entry
  <2>1. e \in 0 .. MaxEpoch => row[e] \in entry
    BY <1>1
  <2>2. \A x \in entry : /\ x.starts + 1 \in Nat /\ x.refunds + 1 \in Nat
                         /\ x.refunds \in Nat
    OBVIOUS
  <2>3. QED
    BY <2>1, <2>2
<1> HIDE DEF entry, row, r1, r2
<1>4. [row EXCEPT ![e] = r1] \in rows /\ [row EXCEPT ![e] = r2] \in rows
  BY <1>1, <1>3
<1> HIDE DEF rows
<1>5. ledger' \in [PRs -> rows]
  BY <1>1, <1>2, <1>4
<1>6. QED
  BY <1>5 DEF rows, entry

\* Charging or refunding a record keeps its shape.
LEMMA ChargedType ==
  ASSUME NEW j \in Job, NEW p \in Nat, NEW r \in Nat
  PROVE  /\ [j EXCEPT !.paid = p] \in Job
         /\ [j EXCEPT !.paid = p].ids = j.ids
         /\ [j EXCEPT !.paid = p, !.refunds = r] \in Job
         /\ [j EXCEPT !.paid = p, !.refunds = r].ids = j.ids
  BY DEF Job

LEMMA BeginPaidType ==
  ASSUME Typed, NEW w \in Workers, BeginPaid(w)
  PROVE  Typed'
<1> DEFINE k == held[w].key
           j == jobs[k]
           b == heads[j.pr]
           epoch == IF IsIncremental(j) THEN b.epoch ELSE 0
           charge == [head |-> j.head, epoch |-> epoch]
<1>1. held[w] \in Handle /\ k \in Ids /\ j \in Job /\ j # None /\ j.pr \in PRs
  BY OwnedType DEF BeginPaid, OwnsLive, Job
<1>2. IsIncremental(j) => b \in Budget
  BY <1>1 DEF BeginPaid, Typed, TypeOK
<1>3. charge \in Charge
  <2>1. epoch \in Nat /\ j.head \in Heads \cup {NoHead}
    BY <1>1, <1>2 DEF Budget, Job
  <2> HIDE DEF epoch
  <2>2. QED
    BY <2>1 DEF Charge
<1>4. held' \in [Workers -> Handle \cup {None}]
  <2>1. held' = [held EXCEPT ![w] = [held[w] EXCEPT !.phase = "paid", !.charge = charge]]
    BY DEF BeginPaid, Typed, TypeOK
  <2> HIDE DEF charge
  <2>2. QED
    BY <2>1, <1>1, <1>3, BecomeType DEF Typed, TypeOK, Phases
<1>5. CASE IsIncremental(j)
  <2>1. /\ heads' = [heads EXCEPT ![j.pr] = [b EXCEPT !.paid = @ + 1]]
        /\ ledger' = [ledger EXCEPT ![j.pr][epoch] =
             [head |-> b.head, starts |-> @.starts + 1, refunds |-> @.refunds]]
        /\ UNCHANGED <<jobs, queue, terminal, history, retired, drain>>
    BY <1>1, <1>5 DEF BeginPaid, Typed, TypeOK
  <2>2. b.head \in Heads /\ b.paid + 1 \in Nat
    BY <1>2, <1>5 DEF Budget
  <2>3. [b EXCEPT !.paid = @ + 1] \in Budget
    BY <1>2, <1>5, <2>2 DEF Budget
  <2>4. heads' \in [PRs -> Budget \cup {None}]
    BY <2>1, <2>3 DEF Typed, TypeOK
  <2> HIDE DEF epoch, b, j, k
  <2>5. ledger' \in [PRs -> [0 .. MaxEpoch ->
                       [head: Heads \cup {NoHead}, starts: Nat, refunds: Nat]]]
    BY <1>1, <2>1, <2>2, LedgerType DEF Typed
  <2>6. QED
    BY <1>4, <2>1, <2>4, <2>5 DEF Typed, TypeOK, Listed, OwnId, Unfinished
<1>6. CASE ~IsIncremental(j)
  <2>1. /\ jobs' = [jobs EXCEPT ![k] = [j EXCEPT !.paid = j.paid + 1]]
        /\ UNCHANGED <<queue, terminal, heads, history, retired, drain, ledger>>
    BY <1>6 DEF BeginPaid
  <2>2. j.paid + 1 \in Nat
    BY <1>1 DEF Job
  <2>3. /\ [j EXCEPT !.paid = j.paid + 1] \in Job
        /\ [j EXCEPT !.paid = j.paid + 1].ids = j.ids
    BY <1>1, <2>2, ChargedType
  <2>4. jobs' \in [Ids -> Job \cup {None}] /\ Listed' /\ OwnId'
    BY <1>1, <2>1, <2>3, UpdateType
  <2>5. QED
    BY <1>4, <2>1, <2>4 DEF Typed, TypeOK
<1>7. QED
  BY <1>5, <1>6

LEMMA RefundPaidType ==
  ASSUME Typed, NEW w \in Workers, RefundPaid(w)
  PROVE  Typed'
<1> DEFINE h == held[w]
           k == h.key
           j == jobs[k]
           b == heads[j.pr]
<1>1. h \in Handle /\ k \in Ids /\ h.charge \in Charge
  BY DEF RefundPaid, Typed, TypeOK, Handle
<1>2. held' \in [Workers -> Handle \cup {None}]
  <2>1. held' = [held EXCEPT ![w] = [h EXCEPT !.phase = "fenced", !.charge = None]]
    BY DEF RefundPaid, Typed, TypeOK
  <2>2. QED
    BY <2>1, <1>1, BecomeType DEF Typed, TypeOK, Phases
<1>3. CASE Refundable(h)
  <2>1. j \in Job /\ j # None /\ j.pr \in PRs
    BY <1>1, <1>3 DEF Refundable, Typed, TypeOK, Job
  <2>2. CASE IsIncremental(j)
    <3>1. b \in Budget /\ b.paid > 0 /\ b.epoch = h.charge.epoch
      BY <2>1, <2>2, <1>3 DEF Refundable, Owed, Typed, TypeOK
    <3>2. /\ heads' = [heads EXCEPT ![j.pr] =
                         [b EXCEPT !.paid = b.paid - 1, !.refunds = b.refunds + 1]]
          /\ ledger' = [ledger EXCEPT ![j.pr][h.charge.epoch].refunds = @ + 1]
          /\ UNCHANGED <<jobs, queue, terminal, history, retired, drain>>
      BY <2>1, <2>2, <1>3 DEF RefundPaid, Typed, TypeOK
    <3>3. b.paid - 1 \in Nat /\ b.refunds + 1 \in Nat /\ b.head \in Heads
      BY <3>1 DEF Budget
    <3>4. [b EXCEPT !.paid = b.paid - 1, !.refunds = b.refunds + 1] \in Budget
      BY <3>1, <3>3 DEF Budget
    <3>5. heads' \in [PRs -> Budget \cup {None}]
      BY <3>2, <3>4 DEF Typed, TypeOK
    <3> DEFINE e == h.charge.epoch
               pr == j.pr
    <3>6. ledger' = [ledger EXCEPT ![pr][e].refunds = @ + 1] /\ pr \in PRs
      BY <3>2, <2>1
    <3> HIDE DEF e, pr
    <3>7. ledger' \in [PRs -> [0 .. MaxEpoch ->
                         [head: Heads \cup {NoHead}, starts: Nat, refunds: Nat]]]
      BY <3>3, <3>6, LedgerType DEF Typed
    <3>8. QED
      BY <1>2, <3>2, <3>5, <3>7 DEF Typed, TypeOK, Listed, OwnId, Unfinished
  <2>3. CASE ~IsIncremental(j)
    <3>1. /\ jobs' = [jobs EXCEPT ![k] =
                        [j EXCEPT !.paid = j.paid - 1, !.refunds = j.refunds + 1]]
          /\ UNCHANGED <<queue, terminal, heads, history, retired, drain, ledger>>
      BY <2>1, <2>3, <1>1, <1>3 DEF RefundPaid, Typed, TypeOK
    <3>2. j.paid - 1 \in Nat /\ j.refunds + 1 \in Nat
      BY <2>1, <2>3, <1>3 DEF Refundable, Owed, Job
    <3>3. /\ [j EXCEPT !.paid = j.paid - 1, !.refunds = j.refunds + 1] \in Job
          /\ [j EXCEPT !.paid = j.paid - 1, !.refunds = j.refunds + 1].ids = j.ids
      BY <2>1, <3>2, ChargedType
    <3>4. jobs' \in [Ids -> Job \cup {None}] /\ Listed' /\ OwnId'
      BY <1>1, <2>1, <3>1, <3>3, UpdateType
    <3>5. QED
      BY <1>2, <3>1, <3>4 DEF Typed, TypeOK
  <2>4. QED
    BY <2>2, <2>3
<1>4. CASE ~Refundable(h)
  <2>1. UNCHANGED <<jobs, queue, terminal, heads, history, retired, drain, ledger>>
    BY <1>4 DEF RefundPaid
  <2>2. QED
    BY <2>1, <1>2 DEF Typed, TypeOK, Listed, OwnId, Unfinished
<1>5. QED
  BY <1>3, <1>4

LEMMA ConcludeType ==
  ASSUME Typed, NEW w \in Workers, NEW v \in Verdicts, NEW closed \in BOOLEAN,
         Conclude(w, v, closed)
  PROVE  Typed'
<1>1. jobs' \in [Ids -> Job \cup {None}] /\ Listed' /\ OwnId'
  <2>1. CASE closed
    <3>1. /\ OwnsLive(w) /\ OwnCheck(w) /\ UNCHANGED queue
          /\ jobs' = SetStage(w, "completed")
      BY <2>1 DEF Conclude
    <3>2. QED
      BY <3>1, SetStageType DEF Stages
  <2>2. CASE ~closed
    BY <2>2 DEF Conclude, Typed, TypeOK, Listed, OwnId, Unfinished
  <2>3. QED
    BY <2>1, <2>2
<1>2. held' \in [Workers -> Handle \cup {None}]
  <2>1. held[w] \in Handle
    BY OwnedType DEF Conclude, OwnsLive
  <2>2. [held[w] EXCEPT !.phase = "concluding", !.verdict = v, !.charge = None]
          \in Handle
    BY <2>1 DEF Handle, Phases
  <2>3. held' = [held EXCEPT ![w] =
          [held[w] EXCEPT !.phase = "concluding", !.verdict = v, !.charge = None]]
    BY DEF Conclude, Typed, TypeOK
  <2>4. QED
    BY <2>2, <2>3 DEF Typed, TypeOK
<1>3. QED
  BY <1>1, <1>2 DEF Conclude, Typed, TypeOK

\* The head budgets keep their shape when a result is stored.
LEMMA MarkHeadType ==
  ASSUME TypeOK, NEW j \in Job, NEW o
  PROVE  MarkHead(j, o) \in [PRs -> Budget \cup {None}]
<1>1. CASE IsIncremental(j) /\ heads[j.pr] # None /\ ExistingTerminal(j) = None
             /\ o \in HeadOutcomes
  <2>1. heads[j.pr] \in Budget
    BY <1>1 DEF TypeOK, Job
  <2>2. [heads[j.pr] EXCEPT !.outcome = o] \in Budget
    BY <1>1, <2>1 DEF Budget
  <2>3. MarkHead(j, o) = [heads EXCEPT ![j.pr] = [heads[j.pr] EXCEPT !.outcome = o]]
    BY <1>1 DEF MarkHead
  <2>4. QED
    BY <2>2, <2>3 DEF TypeOK
<1>2. QED
  BY <1>1 DEF MarkHead, TypeOK

\* Ending a record takes it, and only it, out of the claim order.
LEMMA EndType ==
  ASSUME Typed, NEW k \in Ids, jobs[k] # None,
         jobs' = [jobs EXCEPT ![k] = None],
         queue' = RemoveAt(queue, CHOOSE i \in DOMAIN queue : queue[i] = k)
  PROVE  /\ jobs' \in [Ids -> Job \cup {None}] /\ queue' \in Seq(Ids)
         /\ Listed' /\ OwnId'
<1> DEFINE at == CHOOSE i \in DOMAIN queue : queue[i] = k
<1>1. jobs \in [Ids -> Job \cup {None}] /\ queue \in Seq(Ids)
  BY DEF Typed, TypeOK
<1>2. at \in DOMAIN queue /\ queue[at] = k
  BY DEF Typed, Listed, Unfinished
<1>3. /\ \A i \in DOMAIN queue : queue[i] \in Ids /\ jobs[queue[i]] # None
      /\ \A i, e \in DOMAIN queue : queue[i] = queue[e] => i = e
      /\ \A x \in Ids : jobs[x] # None => \E i \in DOMAIN queue : queue[i] = x
  BY <1>1 DEF Typed, Listed, Unfinished
<1> HIDE DEF at
<1>4. queue' = RemoveAt(queue, at)
  BY DEF at
<1>5. queue' \in Seq(Ids)
  BY <1>1, <1>2, <1>4, RemoveAtType
<1>6. /\ \A d, e \in DOMAIN queue' : queue'[d] = queue'[e] => d = e
      /\ \A e \in DOMAIN queue' :
           queue'[e] # k /\ \E f \in DOMAIN queue : queue'[e] = queue[f]
      /\ \A e \in DOMAIN queue : e # at => \E f \in DOMAIN queue' : queue'[f] = queue[e]
  <2> DEFINE t == RemoveAt(queue, at)
  <2>1. queue \in Seq(Ids) /\ at \in DOMAIN queue
    BY <1>1, <1>2
  <2>2. \A i, e \in DOMAIN queue : queue[i] = queue[e] => i = e
    BY <1>3
  <2>3. /\ \A d, e \in DOMAIN t : t[d] = t[e] => d = e
        /\ \A e \in DOMAIN t :
             t[e] # queue[at] /\ \E f \in DOMAIN queue : t[e] = queue[f]
        /\ \A e \in DOMAIN queue : e # at => \E f \in DOMAIN t : t[f] = queue[e]
    BY <2>1, <2>2, RemoveAtDistinct
  <2>4. queue' = t /\ queue[at] = k
    BY <1>2, <1>4
  <2> HIDE DEF t
  <2>5. \A d, e \in DOMAIN queue' : queue'[d] = queue'[e] => d = e
    BY <2>3, <2>4
  <2>6. \A e \in DOMAIN queue' :
          queue'[e] # k /\ \E f \in DOMAIN queue : queue'[e] = queue[f]
    <3>1. SUFFICES ASSUME NEW e \in DOMAIN t
                   PROVE  t[e] # k /\ \E f \in DOMAIN queue : t[e] = queue[f]
      BY <2>4, ZenonT(30)
    <3>2. t[e] # queue[at] /\ \E f \in DOMAIN queue : t[e] = queue[f]
      BY <2>3
    <3>3. QED
      BY <2>4, <3>2
  <2>7. \A e \in DOMAIN queue : e # at => \E f \in DOMAIN queue' : queue'[f] = queue[e]
    BY <2>3, <2>4
  <2>8. QED
    BY <2>5, <2>6, <2>7
<1>7. jobs' \in [Ids -> Job \cup {None}]
      /\ jobs'[k] = None /\ \A x \in Ids : x # k => jobs'[x] = jobs[x]
  BY <1>1
<1>8. OwnId'
  BY <1>7 DEF Typed, OwnId, Unfinished
<1>9. \A i \in DOMAIN queue' : jobs'[queue'[i]] # None
  BY <1>3, <1>6, <1>7
<1>10. ASSUME NEW x \in Ids, jobs'[x] # None
       PROVE  \E f \in DOMAIN queue' : queue'[f] = x
  <2>1. x # k /\ jobs[x] # None
    BY <1>7, <1>10
  <2>2. PICK e \in DOMAIN queue : queue[e] = x
    BY <2>1, <1>3
  <2>3. QED
    BY <2>1, <2>2, <1>2, <1>6
<1>11. Listed'
  BY <1>6, <1>9, <1>10 DEF Listed, Unfinished
<1>12. QED
  BY <1>5, <1>7, <1>8, <1>11

\* Deliveries become tombstones of the outcome.
LEMMA TombstonesType ==
  ASSUME TypeOK, NEW j \in Job, NEW o \in Outcomes
  PROVE  Tombstones(j, o) \in [Ids -> Outcomes \cup {None}]
  BY DEF Tombstones, TypeOK

LEMMA FinishType ==
  ASSUME Typed, NEW w \in Workers, Finish(w)
  PROVE  Typed'
<1> DEFINE k == held[w].key
           j == jobs[k]
           o == held[w].verdict
           outcome == IF ExistingTerminal(j) # None THEN ExistingTerminal(j) ELSE o
<1>1. k \in Ids /\ j \in Job /\ j # None
  BY OwnedType DEF Finish, Concluded, OwnsLive
<1>2. outcome \in Outcomes
  <2>1. o \in Outcomes
    BY DEF Finish, Concluded
  <2>2. ExistingTerminal(j) # None => ExistingTerminal(j) \in Outcomes
    BY <1>1 DEF ExistingTerminal, Typed, TypeOK, Job, Budget, HeadOutcomes
  <2>3. QED
    BY <2>1, <2>2
<1>3. /\ jobs' = [jobs EXCEPT ![k] = None]
      /\ queue' = RemoveAt(queue, CHOOSE i \in DOMAIN queue : queue[i] = k)
      /\ terminal' = Tombstones(j, outcome)
      /\ heads' = MarkHead(j, o)
      /\ retired' = retired \o RetiredEntries(j, RemovedChecks(j, outcome))
      /\ held' = [held EXCEPT ![w] = None]
      /\ UNCHANGED <<history, drain, ledger>>
  BY DEF Finish
<1> HIDE DEF k, j, o, outcome
<1>4. /\ jobs' \in [Ids -> Job \cup {None}] /\ queue' \in Seq(Ids)
      /\ Listed' /\ OwnId'
  BY <1>1, <1>3, EndType DEF j
<1>5. terminal' \in [Ids -> Outcomes \cup {None}]
  BY <1>1, <1>2, <1>3, TombstonesType DEF Typed
<1>6. heads' \in [PRs -> Budget \cup {None}]
  BY <1>1, <1>3, MarkHeadType DEF Typed
<1>7. retired' \in Seq(Retired)
  <2>1. RemovedChecks(j, outcome) \in SUBSET CheckHeads(j)
    BY DEF RemovedChecks
  <2>2. QED
    BY <1>1, <1>3, <2>1, RetireType DEF Typed
<1>8. held' \in [Workers -> Handle \cup {None}]
  BY <1>3 DEF Typed, TypeOK
<1>9. QED
  BY <1>3, <1>4, <1>5, <1>6, <1>7, <1>8 DEF Typed, TypeOK

\* The record goes back to the queue: released by its owner with its head,
\* or with head h and its other checks detached, and a back-off or none.
LEMMA ReleasedType ==
  ASSUME NEW j \in Job, NEW h \in Heads \cup {NoHead}, NEW ready \in BOOLEAN
  PROVE  /\ Released(j, h) \in Job /\ Released(j, h).ids = j.ids
         /\ [Released(j, h) EXCEPT !.ready = ready] \in Job
         /\ [Released(j, h) EXCEPT !.ready = ready].ids = j.ids
         /\ [j EXCEPT !.owner = None, !.live = FALSE, !.ready = ready] \in Job
         /\ [j EXCEPT !.owner = None, !.live = FALSE, !.ready = ready].ids = j.ids
<1>1. Kept(j, h) \in [Heads -> Check \cup {None}]
  BY KeptType
<1>2. Released(j, h) \in Job /\ Released(j, h).ids = j.ids
  BY <1>1 DEF Released, Job
<1>3. /\ [Released(j, h) EXCEPT !.ready = ready] \in Job
      /\ [Released(j, h) EXCEPT !.ready = ready].ids = j.ids
  BY <1>2 DEF Job
<1>4. /\ [j EXCEPT !.owner = None, !.live = FALSE, !.ready = ready] \in Job
      /\ [j EXCEPT !.owner = None, !.live = FALSE, !.ready = ready].ids = j.ids
  BY DEF Job
<1>5. QED
  BY <1>2, <1>3, <1>4

LEMMA FinishYieldType ==
  ASSUME Typed, NEW w \in Workers, FinishYield(w)
  PROVE  Typed'
<1> DEFINE k == held[w].key
           j == jobs[k]
           o == held[w].verdict
           preserve == IF o = "published" THEN j.head ELSE NoHead
           v == Released(j, j.hint)
<1>1. k \in Ids /\ j \in Job /\ j # None /\ j.hint \in Heads \cup {NoHead}
  BY OwnedType DEF FinishYield, Concluded, OwnsLive, Job
<1>2. /\ jobs' = [jobs EXCEPT ![k] = v]
      /\ heads' = MarkHead(j, o)
      /\ retired' = retired \o RetiredEntries(j, Detached(j, j.hint, preserve))
      /\ held' = [held EXCEPT ![w] = None]
      /\ UNCHANGED <<queue, terminal, history, drain, ledger>>
  BY DEF FinishYield
<1>3. v \in Job /\ v.ids = j.ids
  BY <1>1, ReleasedType
<1> HIDE DEF v, j, k, o, preserve
<1>4. jobs' \in [Ids -> Job \cup {None}] /\ Listed' /\ OwnId'
  BY <1>1, <1>2, <1>3, UpdateType DEF j
<1>5. heads' \in [PRs -> Budget \cup {None}]
  BY <1>1, <1>2, MarkHeadType DEF Typed
<1>6. retired' \in Seq(Retired)
  <2>1. Detached(j, j.hint, preserve) \in SUBSET CheckHeads(j)
    BY DEF Detached
  <2>2. QED
    BY <1>1, <1>2, <2>1, RetireType DEF Typed
<1>7. held' \in [Workers -> Handle \cup {None}]
  BY <1>2 DEF Typed, TypeOK
<1>8. QED
  BY <1>2, <1>4, <1>5, <1>6, <1>7 DEF Typed, TypeOK

LEMMA DeferYieldType ==
  ASSUME Typed, NEW w \in Workers, DeferYield(w)
  PROVE  Typed'
<1> DEFINE k == held[w].key
           j == jobs[k]
           v == Released(j, j.hint)
<1>1. k \in Ids /\ j \in Job /\ j # None /\ j.hint \in Heads \cup {NoHead}
  BY OwnedType DEF DeferYield, Concluded, OwnsLive, Job
<1>2. /\ jobs' = [jobs EXCEPT ![k] = v]
      /\ retired' = retired \o RetiredEntries(j, Detached(j, j.hint, NoHead))
      /\ held' = [held EXCEPT ![w] = None]
      /\ UNCHANGED <<queue, terminal, heads, history, drain, ledger>>
  BY DEF DeferYield
<1>3. v \in Job /\ v.ids = j.ids
  BY <1>1, ReleasedType
<1> HIDE DEF v, j, k
<1>4. jobs' \in [Ids -> Job \cup {None}] /\ Listed' /\ OwnId'
  BY <1>1, <1>2, <1>3, UpdateType DEF j
<1>5. retired' \in Seq(Retired)
  <2>1. Detached(j, j.hint, NoHead) \in SUBSET CheckHeads(j)
    BY DEF Detached
  <2>2. QED
    BY <1>1, <1>2, <2>1, RetireType DEF Typed
<1>6. held' \in [Workers -> Handle \cup {None}]
  BY <1>2 DEF Typed, TypeOK
<1>7. QED
  BY <1>2, <1>4, <1>5, <1>6 DEF Typed, TypeOK

LEMMA DeferType ==
  ASSUME Typed, NEW w \in Workers, Defer(w)
  PROVE  Typed'
<1> DEFINE k == held[w].key
           j == jobs[k]
           ready == held[w].verdict # "defer_later"
           v == IF j.yield THEN [Released(j, j.hint) EXCEPT !.ready = ready]
                ELSE [j EXCEPT !.owner = None, !.live = FALSE, !.ready = ready]
<1>1. k \in Ids /\ j \in Job /\ j # None /\ j.hint \in Heads \cup {NoHead}
  BY OwnedType DEF Defer, Concluded, OwnsLive, Job
<1>2. /\ jobs' = [jobs EXCEPT ![k] = v]
      /\ retired' = IF j.yield
                    THEN retired \o RetiredEntries(j, Detached(j, j.hint, NoHead))
                    ELSE retired
      /\ held' = [held EXCEPT ![w] = None]
      /\ UNCHANGED <<queue, terminal, heads, history, drain, ledger>>
  BY DEF Defer
<1>3. v \in Job /\ v.ids = j.ids
  <2>1. ready \in BOOLEAN
    OBVIOUS
  <2> HIDE DEF ready
  <2>2. QED
    BY <1>1, <2>1, ReleasedType
<1> HIDE DEF v, j, k
<1>4. jobs' \in [Ids -> Job \cup {None}] /\ Listed' /\ OwnId'
  BY <1>1, <1>2, <1>3, UpdateType DEF j
<1>5. retired' \in Seq(Retired)
  <2>1. Detached(j, j.hint, NoHead) \in SUBSET CheckHeads(j)
    BY DEF Detached
  <2>2. QED
    BY <1>1, <1>2, <2>1, RetireType DEF Typed, TypeOK
<1>6. held' \in [Workers -> Handle \cup {None}]
  BY <1>2 DEF Typed, TypeOK
<1>7. QED
  BY <1>2, <1>4, <1>5, <1>6 DEF Typed, TypeOK

\* Replacing an entry of the retired outbox keeps its shape.
LEMMA RetiredUpdateType ==
  ASSUME TypeOK, NEW i \in DOMAIN retired, NEW c \in Check,
         retired' = [retired EXCEPT ![i] = [retired[i] EXCEPT !.check = c]]
  PROVE  retired' \in Seq(Retired)
<1>1. retired \in Seq(Retired)
  BY DEF TypeOK
<1>2. retired[i] \in Retired
  BY <1>1
<1>3. [retired[i] EXCEPT !.check = c] \in Retired
  BY <1>2 DEF Retired
<1> DEFINE v == [retired[i] EXCEPT !.check = c]
<1> HIDE DEF v
<1>4. retired' = [retired EXCEPT ![i] = v] /\ v \in Retired
  BY <1>3 DEF v
<1>5. QED
  BY <1>1, <1>4

\* An update of one check of record k.
LEMMA JobCheckType ==
  ASSUME Typed, NEW k \in Ids, jobs[k] # None, NEW h \in Heads, NEW c \in Check,
         jobs' = [jobs EXCEPT ![k] =
           [jobs[k] EXCEPT !.checks = [jobs[k].checks EXCEPT ![h] = c]]],
         UNCHANGED queue
  PROVE  jobs' \in [Ids -> Job \cup {None}] /\ Listed' /\ OwnId'
<1> DEFINE v == [jobs[k] EXCEPT !.checks = [jobs[k].checks EXCEPT ![h] = c]]
<1>1. jobs[k] \in Job
  BY DEF Typed, TypeOK
<1>2. v \in Job /\ v.ids = jobs[k].ids
  BY <1>1, CheckUpdateType
<1> HIDE DEF v
<1>3. jobs' = [jobs EXCEPT ![k] = v]
  BY DEF v
<1>4. QED
  BY <1>2, <1>3, UpdateType

\* What writers may change in a check keeps its shape.
LEMMA CheckFieldsType ==
  ASSUME NEW c \in Check, NEW l \in BOOLEAN
  PROVE  /\ c.wgen + 1 \in Nat
         /\ [c EXCEPT !.wgen = c.wgen + 1, !.wlive = TRUE] \in Check
         /\ [c EXCEPT !.attempted = TRUE] \in Check
         /\ [c EXCEPT !.published = TRUE] \in Check
         /\ [c EXCEPT !.published = TRUE, !.wlive = FALSE] \in Check
         /\ [c EXCEPT !.wlive = l] \in Check
<1>1. c.wgen + 1 \in Nat
  BY DEF Check
<1>2. QED
  BY <1>1 DEF Check

\* A metadata claim moves one record's metadata generation.
LEMMA ClaimMetadataType ==
  ASSUME Typed, NEW d \in Drainers, ClaimMetadata(d)
  PROVE  Typed'
<1>1. PICK k \in Unfinished :
        /\ jobs' = [jobs EXCEPT ![k].mgen = @ + 1, ![k].mlive = TRUE]
        /\ drain' = [drain EXCEPT ![d] =
             [kind |-> "metadata", key |-> k, id |-> jobs[k].id,
              mgen |-> jobs[k].mgen + 1]]
  BY DEF ClaimMetadata
<1>2. k \in Ids /\ jobs[k] # None /\ jobs[k] \in Job
  BY DEF Unfinished, Typed, TypeOK
<1>3. jobs[k].mgen + 1 \in Nat /\ jobs[k].id \in Ids
  BY <1>2 DEF Job
<1> DEFINE v == [jobs[k] EXCEPT !.mgen = jobs[k].mgen + 1, !.mlive = TRUE]
           c == [kind |-> "metadata", key |-> k, id |-> jobs[k].id,
                 mgen |-> jobs[k].mgen + 1]
<1>4. jobs' = [jobs EXCEPT ![k] = v]
  BY <1>1, <1>2 DEF Typed, TypeOK
<1>5. v \in Job /\ v.ids = jobs[k].ids
  BY <1>2, <1>3 DEF Job
<1>6. c \in MetaClaim
  BY <1>2, <1>3 DEF MetaClaim
<1>7. drain' = [drain EXCEPT ![d] = c] /\ UNCHANGED
        <<queue, terminal, heads, history, retired, held, ledger>>
  BY <1>1 DEF ClaimMetadata
<1> HIDE DEF v, c
<1>8. jobs' \in [Ids -> Job \cup {None}] /\ Listed' /\ OwnId'
  BY <1>2, <1>4, <1>5, <1>7, UpdateType
<1>9. drain' \in [Drainers -> CheckClaim \cup MetaClaim \cup {None}]
  BY <1>6, <1>7 DEF Typed, TypeOK
<1>10. QED
  BY <1>7, <1>8, <1>9 DEF Typed, TypeOK

\* The key of a metadata claim is a key of the document.
LEMMA MetaClaimType ==
  ASSUME Typed, NEW d \in Drainers, drain[d] # None, drain[d].kind = "metadata"
  PROVE  drain[d] \in MetaClaim /\ drain[d].key \in Ids
  BY DEF Typed, TypeOK, CheckClaim, MetaClaim

\* A check claim names a head.
LEMMA CheckClaimType ==
  ASSUME Typed, NEW d \in Drainers, drain[d] # None, drain[d].kind # "metadata"
  PROVE  drain[d] \in CheckClaim /\ drain[d].head \in Heads
  BY DEF Typed, TypeOK, CheckClaim, MetaClaim

LEMMA ResolveType ==
  ASSUME Typed, NEW d \in Drainers,
         ResolveClosed(d) \/ \E h \in Heads : ResolveOpen(d, h)
  PROVE  Typed'
<1> DEFINE k == drain[d].key
           j == jobs[k]
<1>1. k \in Ids /\ j # None /\ j \in Job
  BY MetaClaimType
     DEF ResolveClosed, ResolveOpen, MetadataCurrent, Typed, TypeOK
<1>2. drain' = [drain EXCEPT ![d] = None]
  BY DEF ResolveClosed, ResolveOpen
<1>3. drain' \in [Drainers -> CheckClaim \cup MetaClaim \cup {None}]
  BY <1>2 DEF Typed, TypeOK
<1>4. CASE ResolveClosed(d)
  <2>1. /\ jobs' = [jobs EXCEPT ![k] = None]
        /\ queue' = RemoveAt(queue, CHOOSE i \in DOMAIN queue : queue[i] = k)
        /\ terminal' = Tombstones(j, "declined")
        /\ UNCHANGED <<heads, history, retired, held, ledger>>
    BY <1>4 DEF ResolveClosed
  <2> HIDE DEF j, k
  <2>2. /\ jobs' \in [Ids -> Job \cup {None}] /\ queue' \in Seq(Ids)
        /\ Listed' /\ OwnId'
    BY <1>1, <2>1, EndType DEF j
  <2>3. terminal' \in [Ids -> Outcomes \cup {None}]
    BY <1>1, <2>1, TombstonesType DEF Typed, Outcomes
  <2>4. QED
    BY <1>3, <2>1, <2>2, <2>3 DEF Typed, TypeOK
<1>5. ASSUME NEW h \in Heads, ResolveOpen(d, h)
      PROVE  Typed'
  <2> DEFINE c == IF HasCheck(j, h) THEN j.checks[h] ELSE NewCheck(j.id, h, None)
             v == [j EXCEPT !.head = h, !.hint = h, !.meta = FALSE,
                            !.mlive = FALSE, !.checks = [j.checks EXCEPT ![h] = c]]
  <2>1. c \in Check
    <3>1. j.id \in Ids /\ j.checks[h] \in Check \cup {None}
      BY <1>1 DEF Job
    <3>2. QED
      BY <3>1, NewCheckType DEF HasCheck
  <2>2. jobs' = [jobs EXCEPT ![k] = v]
        /\ UNCHANGED <<queue, terminal, heads, history, retired, held, ledger>>
    BY <1>5, <1>1 DEF ResolveOpen, Job
  <2> HIDE DEF c
  <2>3. [j.checks EXCEPT ![h] = c] \in [Heads -> Check \cup {None}]
    BY <1>1, <2>1 DEF Job
  <2>4. v \in Job /\ v.ids = j.ids
    BY <1>1, <2>3 DEF Job
  <2> HIDE DEF v, k
  <2>5. jobs' \in [Ids -> Job \cup {None}] /\ Listed' /\ OwnId'
    BY <1>1, <2>2, <2>4, UpdateType
  <2>6. QED
    BY <1>3, <2>2, <2>5 DEF Typed, TypeOK
<1>6. QED
  BY <1>4, <1>5

LEMMA ClaimCheckType ==
  ASSUME Typed, NEW d \in Drainers, ClaimCheck(d)
  PROVE  Typed'
<1>1. PICK k \in Unfinished :
        LET j == jobs[k]
            c == j.checks[j.head]
        IN /\ Drainable(j)
           /\ jobs' = [jobs EXCEPT ![k].checks[j.head] =
                         [@ EXCEPT !.wgen = c.wgen + 1, !.wlive = TRUE]]
           /\ drain' = [drain EXCEPT ![d] =
                [kind |-> "active", ext |-> c.ext, head |-> j.head,
                 wgen |-> c.wgen + 1, known |-> FALSE]]
  BY DEF ClaimCheck
<1> DEFINE j == jobs[k]
           h == j.head
           c == j.checks[h]
           v == [c EXCEPT !.wgen = c.wgen + 1, !.wlive = TRUE]
           claim == [kind |-> "active", ext |-> c.ext, head |-> h,
                     wgen |-> c.wgen + 1, known |-> FALSE]
<1>2. k \in Ids /\ j # None /\ j \in Job
  BY DEF Unfinished, Typed, TypeOK
<1>3. h \in Heads /\ c \in Check
  BY <1>1, <1>2 DEF Drainable, HasCheck, Job
<1>4. v \in Check /\ c.wgen + 1 \in Nat
  BY <1>3, CheckFieldsType
<1>5. jobs' = [jobs EXCEPT ![k] =
        [jobs[k] EXCEPT !.checks = [jobs[k].checks EXCEPT ![h] = v]]]
  BY <1>1
<1>6. claim \in CheckClaim
  BY <1>3, <1>4 DEF CheckClaim, Check
<1>7. drain' = [drain EXCEPT ![d] = claim]
      /\ UNCHANGED <<queue, terminal, heads, history, retired, held, ledger>>
  BY <1>1 DEF ClaimCheck
<1> HIDE DEF v, h, claim
<1>8. jobs' \in [Ids -> Job \cup {None}] /\ Listed' /\ OwnId'
  BY <1>2, <1>3, <1>4, <1>5, <1>7, JobCheckType
<1>9. drain' \in [Drainers -> CheckClaim \cup MetaClaim \cup {None}]
  BY <1>6, <1>7 DEF Typed, TypeOK
<1>10. QED
  BY <1>7, <1>8, <1>9 DEF Typed, TypeOK

\* Entries of the retired outbox hold checks.
LEMMA RetiredEntryType ==
  ASSUME TypeOK, NEW i \in DOMAIN retired
  PROVE  retired[i] \in Retired /\ retired[i].check \in Check
<1>1. retired[i] \in Retired
  BY DEF TypeOK
<1>2. QED
  BY <1>1 DEF Retired

LEMMA ClaimRetiredType ==
  ASSUME Typed, NEW d \in Drainers, ClaimRetired(d)
  PROVE  Typed'
<1>1. PICK i \in DOMAIN retired :
        LET c == retired[i].check
        IN /\ retired' = [retired EXCEPT ![i].check.wgen = @ + 1,
                                         ![i].check.wlive = TRUE]
           /\ drain' = [drain EXCEPT ![d] =
                [kind |-> "retired", ext |-> c.ext, head |-> retired[i].head,
                 wgen |-> c.wgen + 1, known |-> c.published]]
  BY DEF ClaimRetired
<1> DEFINE c == retired[i].check
           v == [c EXCEPT !.wgen = c.wgen + 1, !.wlive = TRUE]
           claim == [kind |-> "retired", ext |-> c.ext, head |-> retired[i].head,
                     wgen |-> c.wgen + 1, known |-> c.published]
<1>2. retired[i] \in Retired /\ c \in Check /\ retired \in Seq(Retired)
  BY RetiredEntryType DEF Typed, TypeOK
<1>3. v \in Check /\ c.wgen + 1 \in Nat
  BY <1>2, CheckFieldsType
<1>4. retired' = [retired EXCEPT ![i] = [retired[i] EXCEPT !.check = v]]
  BY <1>1, <1>2 DEF Retired, Check
<1>5. claim \in CheckClaim
  BY <1>2, <1>3 DEF CheckClaim, Check, Retired
<1>6. drain' = [drain EXCEPT ![d] = claim]
      /\ UNCHANGED <<jobs, queue, terminal, heads, history, held, ledger>>
  BY <1>1 DEF ClaimRetired
<1> HIDE DEF v, claim
<1>7. retired' \in Seq(Retired)
  BY <1>3, <1>4, RetiredUpdateType DEF Typed
<1>8. drain' \in [Drainers -> CheckClaim \cup MetaClaim \cup {None}]
  BY <1>5, <1>6 DEF Typed, TypeOK
<1>9. QED
  BY <1>6, <1>7, <1>8 DEF Typed, TypeOK, Listed, OwnId, Unfinished

\* What a drainer reports about the check it posts.
LEMMA ActiveCheckType ==
  ASSUME Typed, NEW d \in Drainers, DrainsActive(d), NEW k \in Ids,
         ActiveCurrent(drain[d], k)
  PROVE  /\ jobs[k] # None /\ jobs[k] \in Job /\ drain[d].head \in Heads
         /\ jobs[k].checks[drain[d].head] \in Check
<1>1. drain[d].head \in Heads
  BY CheckClaimType DEF DrainsActive
<1>2. jobs[k] # None /\ jobs[k] \in Job /\ HasCheck(jobs[k], drain[d].head)
  BY DEF ActiveCurrent, Typed, TypeOK
<1>3. QED
  BY <1>1, <1>2 DEF HasCheck, Job

LEMMA ReportActiveType ==
  ASSUME Typed, NEW d \in Drainers, MarkPostAttempted(d) \/ RecordCheckId(d)
  PROVE  Typed'
<1> DEFINE h == drain[d].head
<1>1. PICK k \in Ids :
        /\ DrainsActive(d) /\ ActiveCurrent(drain[d], k)
        /\ \/ jobs' = [jobs EXCEPT ![k].checks[h].attempted = TRUE]
           \/ jobs' = [jobs EXCEPT ![k].checks[h] =
                         [@ EXCEPT !.published = TRUE, !.wlive = FALSE]]
  BY DEF MarkPostAttempted, RecordCheckId
<1> DEFINE c == jobs[k].checks[h]
           c1 == [c EXCEPT !.attempted = TRUE]
           c2 == [c EXCEPT !.published = TRUE, !.wlive = FALSE]
<1>2. jobs[k] # None /\ jobs[k] \in Job /\ h \in Heads /\ c \in Check
  BY <1>1, ActiveCheckType
<1>3. c1 \in Check /\ c2 \in Check
  BY <1>2, CheckFieldsType
<1>4. \/ jobs' = [jobs EXCEPT ![k] =
           [jobs[k] EXCEPT !.checks = [jobs[k].checks EXCEPT ![h] = c1]]]
      \/ jobs' = [jobs EXCEPT ![k] =
           [jobs[k] EXCEPT !.checks = [jobs[k].checks EXCEPT ![h] = c2]]]
  BY <1>1
<1>5. /\ UNCHANGED <<queue, terminal, heads, history, retired, held, ledger>>
      /\ drain' = drain \/ drain' = [drain EXCEPT ![d] = None]
  BY DEF MarkPostAttempted, RecordCheckId
<1> HIDE DEF c1, c2, h
<1>6. jobs' \in [Ids -> Job \cup {None}] /\ Listed' /\ OwnId'
  BY <1>2, <1>3, <1>4, <1>5, JobCheckType
<1>7. drain' \in [Drainers -> CheckClaim \cup MetaClaim \cup {None}]
  BY <1>5 DEF Typed, TypeOK
<1>8. QED
  BY <1>5, <1>6, <1>7 DEF Typed, TypeOK

LEMMA RecordRetiredIdType ==
  ASSUME Typed, NEW d \in Drainers, RecordRetiredId(d)
  PROVE  Typed'
<1>1. PICK i \in DOMAIN retired :
        retired' = [retired EXCEPT ![i].check.published = TRUE]
  BY DEF RecordRetiredId
<1> DEFINE v == [retired[i].check EXCEPT !.published = TRUE]
<1>2. retired[i] \in Retired /\ retired[i].check \in Check
      /\ retired \in Seq(Retired)
  BY RetiredEntryType DEF Typed, TypeOK
<1>3. v \in Check
  BY <1>2, CheckFieldsType
<1>4. retired' = [retired EXCEPT ![i] = [retired[i] EXCEPT !.check = v]]
  BY <1>1
<1>5. retired' \in Seq(Retired)
  BY <1>3, <1>4, RetiredUpdateType DEF Typed
<1>6. drain' = [drain EXCEPT ![d].known = TRUE]
      /\ UNCHANGED <<jobs, queue, terminal, heads, history, held, ledger>>
  BY DEF RecordRetiredId
<1>7. drain[d] \in CheckClaim
  BY CheckClaimType DEF RecordRetiredId, DrainsRetired
<1>8. [drain[d] EXCEPT !.known = TRUE] \in CheckClaim
  BY <1>7 DEF CheckClaim
<1>9. drain' \in [Drainers -> CheckClaim \cup MetaClaim \cup {None}]
  BY <1>6, <1>8 DEF Typed, TypeOK
<1>10. QED
  BY <1>5, <1>6, <1>9 DEF Typed, TypeOK, Listed, OwnId, Unfinished

LEMMA CompleteRetiredType ==
  ASSUME Typed, NEW d \in Drainers, CompleteRetired(d)
  PROVE  Typed'
<1>1. PICK i \in DOMAIN retired : retired' = RemoveAt(retired, i)
  BY DEF CompleteRetired
<1>2. retired' \in Seq(Retired)
  BY <1>1, RemoveAtType DEF Typed, TypeOK
<1>3. drain' = [drain EXCEPT ![d] = None]
      /\ UNCHANGED <<jobs, queue, terminal, heads, history, held, ledger>>
  BY DEF CompleteRetired
<1>4. drain' \in [Drainers -> CheckClaim \cup MetaClaim \cup {None}]
  BY <1>3 DEF Typed, TypeOK
<1>5. QED
  BY <1>2, <1>3, <1>4 DEF Typed, TypeOK, Listed, OwnId, Unfinished

LEMMA AbandonType ==
  ASSUME Typed, NEW d \in Drainers, Abandon(d)
  PROVE  Typed'
<1>1. drain' \in [Drainers -> CheckClaim \cup MetaClaim \cup {None}]
  BY DEF Abandon, Typed, TypeOK
<1>2. QED
  BY <1>1 DEF Abandon, sched, Typed, TypeOK, Listed, OwnId, Unfinished

LEMMA DrainerStepType ==
  ASSUME Typed, NEW d \in Drainers, DrainerStep(d)
  PROVE  Typed'
  BY ClaimMetadataType, ResolveType, ClaimCheckType, ClaimRetiredType,
     ReportActiveType, RecordRetiredIdType, CompleteRetiredType, AbandonType
     DEF DrainerStep

\* A lease, a back-off or a claim of record k ends.
LEMMA LapseType ==
  ASSUME Typed, NEW k \in Ids,
         \/ LeaseLapses(k) \/ BackoffEnds(k) \/ MetadataClaimLapses(k)
         \/ \E h \in Heads : CheckClaimLapses(k, h)
  PROVE  Typed'
<1>1. jobs[k] # None /\ jobs[k] \in Job
      /\ UNCHANGED <<queue, terminal, heads, history, retired, held, drain, ledger>>
  BY DEF LeaseLapses, BackoffEnds, MetadataClaimLapses, CheckClaimLapses,
         Typed, TypeOK
<1>2. CASE LeaseLapses(k) \/ BackoffEnds(k) \/ MetadataClaimLapses(k)
  <2> DEFINE j == jobs[k]
             v1 == [j EXCEPT !.live = FALSE]
             v2 == [j EXCEPT !.ready = TRUE]
             v3 == [j EXCEPT !.mlive = FALSE]
  <2>1. PICK v \in {v1, v2, v3} : jobs' = [jobs EXCEPT ![k] = v]
    BY <1>2 DEF LeaseLapses, BackoffEnds, MetadataClaimLapses
  <2>2. v1 \in Job /\ v2 \in Job /\ v3 \in Job
    BY <1>1 DEF Job
  <2>3. v1.ids = j.ids /\ v2.ids = j.ids /\ v3.ids = j.ids
    BY <1>1 DEF Job
  <2>4. v \in Job /\ j.ids \subseteq v.ids
    BY <2>2, <2>3
  <2>5. QED
    BY <1>1, <2>1, <2>4, UpdateType DEF Typed, TypeOK
<1>3. ASSUME NEW h \in Heads, CheckClaimLapses(k, h)
      PROVE  Typed'
  <2> DEFINE c == [jobs[k].checks[h] EXCEPT !.wlive = FALSE]
  <2>1. jobs[k].checks[h] \in Check
    BY <1>1, <1>3 DEF CheckClaimLapses, HasCheck, Job
  <2>2. c \in Check
    BY <2>1, CheckFieldsType
  <2>3. jobs' = [jobs EXCEPT ![k] =
          [jobs[k] EXCEPT !.checks = [jobs[k].checks EXCEPT ![h] = c]]]
    BY <1>3 DEF CheckClaimLapses
  <2> HIDE DEF c
  <2>4. jobs' \in [Ids -> Job \cup {None}] /\ Listed' /\ OwnId'
    BY <1>1, <2>2, <2>3, JobCheckType
  <2>5. QED
    BY <1>1, <2>4 DEF Typed, TypeOK
<1>4. QED
  BY <1>2, <1>3

LEMMA TimePassesType ==
  ASSUME Typed, TimePasses
  PROVE  Typed'
<1>1. ASSUME NEW id \in Ids, TombstoneExpires(id)
      PROVE  Typed'
  <2>1. terminal' \in [Ids -> Outcomes \cup {None}]
    BY <1>1 DEF TombstoneExpires, Typed, TypeOK
  <2>2. QED
    BY <1>1, <2>1 DEF TombstoneExpires, Typed, TypeOK, Listed, OwnId, Unfinished
<1>2. ASSUME NEW i \in DOMAIN retired, RetiredClaimLapses(i)
      PROVE  Typed'
  <2> DEFINE c == [retired[i].check EXCEPT !.wlive = FALSE]
  <2>1. c \in Check
    BY RetiredEntryType, CheckFieldsType DEF Typed
  <2>2. retired' = [retired EXCEPT ![i] = [retired[i] EXCEPT !.check = c]]
        /\ UNCHANGED <<jobs, queue, terminal, heads, history, held, drain, ledger>>
    BY <1>2 DEF RetiredClaimLapses
  <2>3. retired' \in Seq(Retired)
    BY <2>1, <2>2, RetiredUpdateType DEF Typed
  <2>4. QED
    BY <2>2, <2>3 DEF Typed, TypeOK, Listed, OwnId, Unfinished
<1>3. ASSUME NEW pr \in PRs, NEW h \in Heads, NEW o \in HeadOutcomes,
             HistoryExpires(pr, h, o)
      PROVE  Typed'
  <2>1. history[pr][h][o] - 1 \in Nat
    BY <1>3 DEF HistoryExpires, Typed, TypeOK
  <2>2. history' = [history EXCEPT ![pr][h][o] = history[pr][h][o] - 1]
        /\ UNCHANGED <<jobs, queue, terminal, heads, retired, held, drain, ledger>>
    BY <1>3 DEF HistoryExpires
  <2>3. history' \in [PRs -> [Heads -> [HeadOutcomes -> Nat]]]
    BY <2>1, <2>2 DEF Typed, TypeOK
  <2>4. QED
    BY <2>2, <2>3 DEF Typed, TypeOK, Listed, OwnId, Unfinished
<1>4. QED
  BY <1>1, <1>2, <1>3, LapseType DEF TimePasses

LEMMA WorkerStepType ==
  ASSUME Typed, NEW w \in Workers, WorkerStep(w)
  PROVE  Typed'
  BY ClaimNextType, RenewType, StartCheckType, HandleStepsType, ReconcileType,
     BeginPaidType, RefundPaidType, ConcludeType, FinishType, FinishYieldType,
     DeferYieldType, DeferType DEF WorkerStep

LEMMA TypedInit == Init => Typed
<1> SUFFICES ASSUME Init PROVE Typed
  OBVIOUS
<1>1. 0 \in 0 .. MaxEpoch /\ MaxEpoch \in Nat
  BY ConstantsAssumption DEF ConstantsAssumption
<1>2. jobs \in [Ids -> Job \cup {None}] /\ queue \in Seq(Ids)
      /\ terminal \in [Ids -> Outcomes \cup {None}]
      /\ heads \in [PRs -> Budget \cup {None}] /\ retired \in Seq(Retired)
  BY DEF Init
<1>3. history \in [PRs -> [Heads -> [HeadOutcomes -> Nat]]]
  BY DEF Init
<1>4. held \in [Workers -> Handle \cup {None}]
      /\ drain \in [Drainers -> CheckClaim \cup MetaClaim \cup {None}]
  BY DEF Init
<1>5. ledger \in [PRs -> [0 .. MaxEpoch ->
                   [head: Heads \cup {NoHead}, starts: Nat, refunds: Nat]]]
  BY DEF Init
<1>6. Unfinished = {} /\ DOMAIN queue = {}
  BY DEF Init, Unfinished
<1>7. QED
  BY <1>2, <1>3, <1>4, <1>5, <1>6 DEF Typed, TypeOK, Listed, OwnId

LEMMA TypedStep == Typed /\ [Next]_vars => Typed'
<1> SUFFICES ASSUME Typed, [Next]_vars PROVE Typed'
  OBVIOUS
<1>1. CASE Admit
  BY <1>1, AdmitNewType, AdmitCoalescedType, AdmitManualType DEF Admit
<1>2. CASE \E w \in Workers : WorkerStep(w)
  BY <1>2, WorkerStepType
<1>3. CASE \E d \in Drainers : DrainerStep(d)
  BY <1>3, DrainerStepType
<1>4. CASE TimePasses
  BY <1>4, TimePassesType
<1>5. CASE UNCHANGED vars
  BY <1>5 DEF vars, Typed, TypeOK, Listed, OwnId, Unfinished
<1>6. QED
  BY <1>1, <1>2, <1>3, <1>4, <1>5 DEF Next

\* Every reachable state is typed; the claim order lists every unfinished
\* record exactly once, and a record keeps the delivery that created it.
LEMMA AlwaysTyped == Spec => []Typed
  BY TypedInit, TypedStep, PTL DEF Spec

\* No operation ever leaves the shape of the document or of a process.
THEOREM TypeCorrect == Spec => []TypeOK
<1>1. Typed => TypeOK
  BY DEF Typed
<1>2. QED
  BY <1>1, AlwaysTyped, PTL

==============================================================================

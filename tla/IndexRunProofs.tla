--------------------------- MODULE IndexRunProofs ---------------------------
(***************************************************************************)
(* Proofs about IndexRun: its types, that a run which outlived its claim    *)
(* leaves the newer one alone and, where runs do not outlive their claims,  *)
(* that no row is ever without a name in the manifest, that an index which  *)
(* is fresh for a commit holds that commit and nothing else, that the code  *)
(* graph is then the one of the commit, and that the chunk count on record  *)
(* is the number of counted rows.                                           *)
(***************************************************************************)
EXTENDS IndexRun, FiniteSetTheorems, TLAPS

-----------------------------------------------------------------------------
(* What a worker carries.                                                  *)

Groups == UNION {[g -> Entry \cup {None}] : g \in SUBSET Paths}
Jobs ==
  [phase : Phases \ {"idle"}, job : {"index", "reset"}, want : Target \cup {None},
   sub : {"fetched", "missing", "denied"}, fence : Nat, before : Nat, up : Nat,
   del : Nat, recount : BOOLEAN, rebuild : BOOLEAN, budget : BOOLEAN,
   failed : BOOLEAN, todo : SUBSET Paths, removed : SUBSET Paths,
   swept : SUBSET Paths, changed : SUBSET Paths, known : Groups,
   files : SUBSET Paths, left : SUBSET Id]
Records ==
  [state : {"absent", "indexing", "ready", "failed"},
   revision : Target \cup {None}, message : BOOLEAN, uncertain : BOOLEAN,
   chunks : Nat, fence : Nat]

\* The phases of a run that read its checkout.
Grouping ==
  {"begin", "revoke", "revoke sweep", "group", "intent", "relocate", "embed",
   "orphans", "confirm", "stale", "finalize"}
\* Those that work on a group of files.
Planning ==
  {"intent", "relocate", "embed", "orphans", "confirm", "stale", "finalize"}
Wants(r) ==
  /\ r.job = "index" => r.want \in Target
  /\ r.phase \in Grouping => r.job = "index"
  /\ r.phase \in Planning => r.files \subseteq DOMAIN r.known
Fit(r) == r = Idle \/ (r \in Jobs /\ Wants(r))

Typed ==
  /\ TypeOK
  /\ claims \in Nat /\ record \in Records
  /\ DOMAIN worker = Workers /\ worker = [w \in Workers |-> worker[w]]
  /\ \A w \in Workers : Fit(worker[w]) /\ worker[w].fence \in 0..claims

LEMMA TreeIds ==
  ASSUME NEW r \in Jobs, r.want \in Target, NEW p \in Paths
  PROVE  Ids(p, Tree[r.want.rev][p]) \in SUBSET Id
<1>1. r.want.rev \in Revisions
  BY DEF Target
<1>2. Tree[r.want.rev][p] \in SUBSET (At \X Hashes)
  BY <1>1, IndexAssumption
<1>3. QED
  BY <1>2 DEF Ids, Id

\* A set of row ids is finite: so many paths, lines and texts.
LEMMA IdsAreFinite ==
  ASSUME NEW S \in SUBSET Id
  PROVE  IsFiniteSet(S) /\ Cardinality(S) \in Nat
<1> DEFINE Pairs == (Paths \X At) \X Hashes
           f == [x \in Pairs |-> <<x[1][1], x[1][2], x[2]>>]
<1>1. IsFiniteSet(Pairs)
  BY IndexAssumption, FS_Product
<1>2. f \in Surjection(Pairs, Id)
  <2>1. f \in [Pairs -> Id]
    BY DEF Id
  <2>2. ASSUME NEW i \in Id
        PROVE  \E x \in Pairs : f[x] = i
    <3>1. PICK p \in Paths, a \in At, h \in Hashes : i = <<p, a, h>>
      BY <2>2 DEF Id
    <3>2. <<<<p, a>>, h>> \in Pairs /\ f[<<<<p, a>>, h>>] = i
      BY <3>1
    <3>3. QED
      BY <3>2
  <2>3. QED
    BY <2>1, <2>2 DEF Surjection
<1>3. IsFiniteSet(Id)
  BY <1>1, <1>2, FS_Surjection
<1>4. QED
  BY <1>3, FS_Subset, FS_CardinalityType

\* A run that only goes on to another phase.
LEMMA FitGoes ==
  ASSUME NEW r \in Jobs, Wants(r), NEW phase \in Phases \ {"idle"},
         phase \in Grouping => r.job = "index",
         phase \in Planning => r.files \subseteq DOMAIN r.known
  PROVE  /\ Fit([r EXCEPT !.phase = phase])
         /\ [r EXCEPT !.phase = phase].fence = r.fence
  BY DEF Jobs, Wants, Fit

LEMMA FitFails ==
  ASSUME NEW r \in Jobs, Wants(r)
  PROVE  /\ Fit([r EXCEPT !.phase = "settle", !.failed = TRUE])
         /\ [r EXCEPT !.phase = "settle", !.failed = TRUE].fence = r.fence
  BY DEF Jobs, Wants, Fit, Grouping, Planning, Phases

LEMMA FitFenced ==
  ASSUME NEW r \in Jobs, Wants(r), NEW fence \in Nat
  PROVE  /\ Fit([r EXCEPT !.phase = "mark", !.fence = fence])
         /\ [r EXCEPT !.phase = "mark", !.fence = fence].fence = fence
  BY DEF Jobs, Wants, Fit, Grouping, Planning, Phases

LEMMA RecordMarked ==
  ASSUME NEW r \in Records, NEW fence \in Nat
  PROVE  /\ [r EXCEPT !.state = "indexing", !.fence = fence] \in Records
         /\ [r EXCEPT !.state = "indexing", !.fence = fence].fence = fence
  BY DEF Records

LEMMA FitPhase ==
  ASSUME NEW r, Fit(r)
  PROVE  r.phase \in Phases
<1>1. CASE r = Idle
  BY <1>1 DEF Idle, Phases
<1>2. CASE r \in Jobs
  BY <1>2 DEF Jobs
<1>3. QED
  BY <1>1, <1>2 DEF Fit

LEMMA FitIdle == Fit(Idle) /\ Idle.fence = 0
  BY DEF Fit, Idle

LEMMA FitStart ==
  ASSUME NEW job \in {"index", "reset"}, NEW want \in Target \cup {None},
         job = "index" => want \in Target, NEW sub \in {"fetched", "missing", "denied"}
  PROVE  Fit(Start(job, want, sub)) /\ Start(job, want, sub).fence = 0
<1>1. <<>> \in Groups
  BY DEF Groups
<1>2. Start(job, want, sub) \in Jobs
  BY <1>1 DEF Start, Jobs, Phases
<1>3. Wants(Start(job, want, sub))
  BY DEF Wants, Start, Grouping, Planning
<1>4. QED
  BY <1>2, <1>3 DEF Fit, Start

\* One worker moves, the others stay.
LEMMA FitSet ==
  ASSUME Typed, NEW w \in Workers, NEW r, Set(w, r), Fit(r), r.fence \in 0..claims',
         claims' \in Nat, claims <= claims'
  PROVE  /\ worker' = [v \in Workers |-> worker'[v]] /\ DOMAIN worker' = Workers
         /\ \A v \in Workers : Fit(worker'[v]) /\ worker'[v].fence \in 0..claims'
         /\ \A v \in Workers : worker'[v].phase \in Phases
<1>1. worker' = [v \in Workers |-> IF v = w THEN r ELSE worker[v]]
  BY DEF Set, Typed
<1>2. ASSUME NEW v \in Workers
      PROVE  Fit(worker'[v]) /\ worker'[v].fence \in 0..claims'
  <2>1. CASE v = w
    BY <1>1, <2>1
  <2>2. CASE v # w
    <3>1. worker'[v] = worker[v]
      BY <1>1, <2>2
    <3>2. QED
      BY <3>1 DEF Typed
  <2>3. QED
    BY <2>1, <2>2
<1>3. ASSUME NEW v \in Workers
      PROVE  worker'[v].phase \in Phases
  BY <1>2, FitPhase
<1>4. QED
  BY <1>1, <1>2, <1>3

-----------------------------------------------------------------------------
(* Each action keeps the types.                                            *)

\* What an action owes once its worker's next value fits.
LEMMA TypedAgain ==
  ASSUME Typed, NEW w \in Workers, NEW r, Set(w, r), Fit(r), r.fence \in 0..claims',
         claims' \in Nat, claims <= claims',
         rows' \in SUBSET Id, torn' \in SUBSET Id,
         manifest' \in [Paths -> Entry \cup {None}],
         record' \in Records, record'.fence \in 0..claims', claim' \in 0..claims'
  PROVE  Typed'
<1>1. /\ worker' = [v \in Workers |-> worker'[v]] /\ DOMAIN worker' = Workers
      /\ \A v \in Workers : Fit(worker'[v]) /\ worker'[v].fence \in 0..claims'
      /\ \A v \in Workers : worker'[v].phase \in Phases
  BY FitSet
<1>2. /\ record'.state \in {"absent", "indexing", "ready", "failed"}
      /\ record'.revision \in Target \cup {None} /\ record'.chunks \in Nat
  BY DEF Records
<1>3. QED
  BY <1>1, <1>2 DEF Typed, TypeOK

\* As most actions do it: the fences stay where they are.
LEMMA TypedOn ==
  ASSUME Typed, NEW w \in Workers, NEW r, Set(w, r), Fit(r),
         r.fence \in {0, worker[w].fence}, claims' = claims,
         rows' \in SUBSET Id, torn' \in SUBSET Id,
         manifest' \in [Paths -> Entry \cup {None}],
         record' \in Records, record'.fence = record.fence, claim' \in {0, claim}
  PROVE  Typed'
<1>1. claims \in Nat /\ worker[w].fence \in 0..claims /\ record.fence \in 0..claims
      /\ claim \in 0..claims
  BY DEF Typed, TypeOK
<1>2. r.fence \in 0..claims' /\ claims' \in Nat /\ claims <= claims'
      /\ record'.fence \in 0..claims' /\ claim' \in 0..claims'
  BY <1>1
<1>3. QED
  BY <1>2, TypedAgain

\* The worker that moves is at work.
LEMMA Busy ==
  ASSUME Typed, NEW w \in Workers, worker[w].phase # "idle"
  PROVE  /\ worker[w] \in Jobs /\ Wants(worker[w]) /\ worker[w].fence \in 0..claims
         /\ worker[w].phase \in Grouping => worker[w].want \in Target
  BY DEF Typed, Fit, Idle, Wants

LEMMA Kept ==
  ASSUME Typed
  PROVE  /\ claims \in Nat /\ rows \in SUBSET Id /\ torn \in SUBSET Id
         /\ manifest \in [Paths -> Entry \cup {None}]
         /\ record \in Records /\ record.fence \in 0..claims /\ claim \in 0..claims
  BY DEF Typed, TypeOK

LEMMA TypedStart ==
  ASSUME Typed, NEW w \in Workers, Request(w) \/ Reset(w)
  PROVE  Typed'
<1>1. PICK r : Set(w, r) /\ Fit(r) /\ r.fence = 0
  <2>1. CASE Request(w)
    <3>1. PICK t \in Target, sub \in {"fetched", "missing", "denied"} :
             Set(w, Start("index", t, sub))
      BY <2>1 DEF Request
    <3>2. QED
      BY <3>1, FitStart
  <2>2. CASE Reset(w)
    BY <2>2, FitStart DEF Reset
  <2>3. QED
    BY <2>1, <2>2
<1>2. UNCHANGED <<rows, manifest, record, claim, claims, torn>>
  BY DEF Request, Reset, stores
<1>3. QED
  BY <1>1, <1>2, Kept, TypedAgain

LEMMA TypedClaim ==
  ASSUME Typed, NEW w \in Workers, Claim(w) \/ Requeue(w) \/ MarkIndexing(w)
  PROVE  Typed'
<1>0. /\ claims \in Nat /\ rows \in SUBSET Id /\ torn \in SUBSET Id
      /\ manifest \in [Paths -> Entry \cup {None}]
      /\ record \in Records /\ record.fence \in 0..claims /\ claim \in 0..claims
  BY Kept
<1>1. CASE Claim(w)
  <2>1. worker[w] \in Jobs /\ Wants(worker[w])
    BY <1>1, Busy DEF Claim, At_
  <2> DEFINE r == [worker[w] EXCEPT !.phase = "mark", !.fence = claims + 1]
  <2>2. Fit(r) /\ r.fence = claims + 1
    <3>1. claims + 1 \in Nat
      BY <1>0
    <3>2. QED
      BY <2>1, <3>1, FitFenced
  <2>3. claims' = claims + 1 /\ claim' = claims + 1 /\ UNCHANGED <<rows, manifest, record, torn>>
    BY <1>1 DEF Claim
  <2>4. Set(w, r) \/ Set(w, Idle)
    BY <1>1 DEF Claim, Stops
  <2> HIDE DEF r
  <2>5. QED
    BY <1>0, <2>2, <2>3, <2>4, FitIdle, TypedAgain
<1>2. CASE Requeue(w)
  BY <1>0, <1>2, FitIdle, TypedAgain DEF Requeue, Stops, stores
<1>3. CASE MarkIndexing(w)
  <2>1. worker[w] \in Jobs /\ Wants(worker[w]) /\ worker[w].fence \in 0..claims
    BY <1>3, Busy DEF MarkIndexing, At_
  <2> DEFINE phase == IF worker[w].job = "reset" THEN "wipe" ELSE "begin"
             r == [worker[w] EXCEPT !.phase = phase]
             marked == [record EXCEPT !.state = "indexing", !.fence = worker[w].fence]
  <2>2. Fit(r) /\ r.fence = worker[w].fence
    <3>1. /\ phase \in Phases \ {"idle"} /\ phase \notin Planning
          /\ phase \in Grouping => worker[w].job = "index"
      BY <2>1 DEF Phases, Grouping, Planning, Jobs
    <3>2. QED
      BY <3>1, <2>1, FitGoes
  <2>3. marked \in Records /\ marked.fence = worker[w].fence
    <3>1. worker[w].fence \in Nat
      BY <1>0, <2>1
    <3>2. QED
      BY <1>0, <3>1, RecordMarked
  <2>4. /\ Set(w, r) \/ Set(w, Idle)
        /\ record' \in {record, marked}
        /\ UNCHANGED <<rows, manifest, claim, claims, torn>>
    BY <1>3 DEF MarkIndexing, Go, Stops
  <2> HIDE DEF r, marked
  <2>5. QED
    BY <1>0, <2>1, <2>2, <2>3, <2>4, FitIdle, TypedAgain
<1>4. QED
  BY <1>1, <1>2, <1>3

\* What a worker's fields become, by field.
LEMMA FitFiles ==
  ASSUME NEW r \in Jobs, Wants(r), r.job = "index", NEW phase \in Phases \ {"idle"},
         NEW files \in SUBSET Paths, phase \in Planning => files \subseteq DOMAIN r.known
  PROVE  /\ Fit([r EXCEPT !.files = files, !.phase = phase])
         /\ [r EXCEPT !.files = files, !.phase = phase].fence = r.fence
         /\ Fit([r EXCEPT !.phase = phase, !.files = files])
         /\ [r EXCEPT !.phase = phase, !.files = files].fence = r.fence
  BY DEF Fit, Jobs, Wants

LEMMA FitLeft ==
  ASSUME NEW r \in Jobs, Wants(r), r.job = "index", NEW phase \in Phases \ {"idle"},
         NEW left \in SUBSET Id, phase \in Planning => r.files \subseteq DOMAIN r.known
  PROVE  /\ Fit([r EXCEPT !.left = left, !.phase = phase])
         /\ [r EXCEPT !.left = left, !.phase = phase].fence = r.fence
  BY DEF Fit, Jobs, Wants

LEMMA FitCounts ==
  ASSUME NEW r \in Jobs, Wants(r), r.job = "index", NEW phase \in Phases \ {"idle"},
         NEW files \in SUBSET Paths, NEW n \in Nat, files \subseteq DOMAIN r.known
  PROVE  /\ Fit([r EXCEPT !.files = files, !.phase = phase, !.up = n])
         /\ Fit([r EXCEPT !.phase = "settle", !.failed = TRUE, !.up = n])
         /\ Fit([r EXCEPT !.phase = "settle", !.failed = TRUE, !.recount = TRUE])
<1>1. Fit([r EXCEPT !.files = files, !.phase = phase, !.up = n])
  BY DEF Fit, Jobs, Wants
<1>2. Fit([r EXCEPT !.phase = "settle", !.failed = TRUE, !.up = n])
  BY DEF Fit, Jobs, Wants, Phases, Planning
<1>3. Fit([r EXCEPT !.phase = "settle", !.failed = TRUE, !.recount = TRUE])
  BY DEF Fit, Jobs, Wants, Phases, Planning
<1>4. QED
  BY <1>1, <1>2, <1>3

LEMMA FitEnds ==
  ASSUME NEW r \in Jobs, Wants(r), NEW swept \in SUBSET Paths,
         NEW phase \in {"settle", "remove", "unname"}
  PROVE  /\ Fit([r EXCEPT !.swept = swept, !.known = <<>>, !.left = {}, !.phase = phase])
         /\ [r EXCEPT !.swept = swept, !.known = <<>>, !.left = {}, !.phase = phase].fence
              = r.fence
         /\ Fit([r EXCEPT !.phase = phase, !.swept = swept])
         /\ [r EXCEPT !.phase = phase, !.swept = swept].fence = r.fence
<1> DEFINE none == <<>>
<1>1. none \in Groups
  BY DEF Groups
<1> HIDE DEF none
<1>2. /\ phase \in Phases /\ phase # "idle" /\ phase \notin Grouping /\ phase \notin Planning
  BY DEF Phases, Grouping, Planning
<1>3. LET s == [r EXCEPT !.swept = swept, !.known = none, !.left = {}, !.phase = phase]
      IN Fit(s) /\ s.fence = r.fence
  BY <1>1, <1>2 DEF Fit, Jobs, Wants
<1>4. LET s == [r EXCEPT !.phase = phase, !.swept = swept]
      IN Fit(s) /\ s.fence = r.fence
  BY <1>2 DEF Fit, Jobs, Wants
<1>5. QED
  BY <1>3, <1>4 DEF none

LEMMA FitLeaves ==
  ASSUME NEW r \in Jobs, Wants(r), NEW failed \in BOOLEAN
  PROVE  LET s == [r EXCEPT !.phase = "drop", !.failed = failed]
         IN Fit(s) /\ s.fence = r.fence
  BY DEF Fit, Jobs, Wants, Phases, Grouping, Planning

LEMMA FitBroke ==
  ASSUME NEW r \in Jobs, Wants(r), r.job = "index", r.phase \in Planning
  PROVE  LET s == [r EXCEPT !.budget = TRUE, !.phase = "orphans"]
         IN Fit(s) /\ s.fence = r.fence
  BY DEF Fit, Jobs, Wants, Phases

\* What a plan takes from the manifest it read and from the commit.
LEMMA PlanIds ==
  ASSUME NEW w \in Workers, worker[w] \in Jobs, NEW p \in Group(w)
  PROVE  /\ p \in Paths /\ worker[w].known[p] \in Entry \cup {None}
         /\ Prev(w, p) \in SUBSET Id /\ Stale(w, p) \in SUBSET Id
         /\ Orphans(w, p) \in SUBSET Id
         /\ worker[w].want \in Target => New(w, p) \in SUBSET Id
<1>1. PICK g \in SUBSET Paths : worker[w].known \in [g -> Entry \cup {None}]
  BY DEF Jobs, Groups
<1>2. p \in Paths /\ worker[w].known[p] \in Entry \cup {None}
  BY <1>1 DEF Group
<1>3. Prev(w, p) \in SUBSET Id
  BY <1>2 DEF Prev, Counted, Entry
<1>4. Stale(w, p) \in SUBSET Id
  BY <1>3 DEF Stale
<1>5. Orphans(w, p) \in SUBSET Id
  BY <1>2 DEF Orphans, Entry
<1>6. worker[w].want \in Target => New(w, p) \in SUBSET Id
  BY <1>2, TreeIds DEF New
<1>7. QED
  BY <1>2, <1>3, <1>4, <1>5, <1>6

LEMMA PlanEntries ==
  ASSUME NEW w \in Workers, worker[w] \in Jobs, worker[w].want \in Target, NEW p \in Group(w)
  PROVE  Intent(w, p) \in Entry /\ Confirmation(w, p) \in Entry /\ Finalized(w, p) \in Entry
  BY PlanIds DEF Intent, Confirmation, Finalized, Confirmed, Entry

LEMMA TypedBegin ==
  ASSUME Typed, NEW w \in Workers, Begin(w) \/ EndGroups(w) \/ BudgetStop(w)
  PROVE  Typed'
<1>1. /\ worker[w] \in Jobs /\ Wants(worker[w])
      /\ worker[w].job = "index"
  BY Busy DEF Begin, EndGroups, BudgetStop, At_, Wants, Grouping
<1>2. UNCHANGED <<rows, manifest, record, claim, claims, torn>>
  BY DEF Begin, EndGroups, BudgetStop, stores
<1>3. PICK r : Set(w, r) /\ Fit(r) /\ r.fence = worker[w].fence
  <2>1. CASE Begin(w)
    <3> DEFINE t == worker[w].want
               sub == worker[w].sub
               unseen == {p \in Paths : manifest[p] # None} \ Selected(t, sub)
               removed == IF sub = "missing" THEN unseen \ SubPaths ELSE unseen
               revoked == IF sub = "denied" THEN removed \cap SubPaths ELSE {}
               phase == IF revoked # {} THEN "revoke" ELSE "group"
               rebuild == record.revision = None \/ record.message
               recount == record.revision = None \/ record.uncertain
               r == [worker[w] EXCEPT
                       !.phase = phase, !.before = record.chunks,
                       !.rebuild = rebuild, !.recount = recount,
                       !.todo = Selected(t, sub), !.removed = removed, !.swept = revoked]
    <3>1. Set(w, r) \/ Fails(w)
      BY <2>1 DEF Begin
    <3>2. /\ removed \in SUBSET Paths /\ revoked \in SUBSET Paths
          /\ phase \in {"revoke", "group"}
      OBVIOUS
    <3>3. Selected(t, sub) \in SUBSET Paths
      <4>1. t.rev \in Revisions
        BY <1>1 DEF Target, Wants
      <4>2. QED
        BY <4>1, IndexAssumption DEF Selected
    <3>4. record.chunks \in Nat /\ record.message \in BOOLEAN /\ record.uncertain \in BOOLEAN
      BY Kept DEF Records
    <3>5. rebuild \in BOOLEAN /\ recount \in BOOLEAN
      BY <3>4
    <3>6. Fit(r) /\ r.fence = worker[w].fence
      <4> HIDE DEF phase, rebuild, recount, removed, revoked, t, sub
      <4> DEFINE todo == Selected(t, sub)
                 n == record.chunks
      <4>1. todo \in SUBSET Paths /\ n \in Nat
        BY <3>3, <3>4
      <4> HIDE DEF todo, n
      <4>2. Fit([worker[w] EXCEPT
                   !.phase = phase, !.before = n, !.rebuild = rebuild, !.recount = recount,
                   !.todo = todo, !.removed = removed, !.swept = revoked])
        BY <1>1, <3>2, <3>5, <4>1 DEF Fit, Jobs, Wants, Phases, Planning
      <4>3. r.fence = worker[w].fence
        BY <1>1 DEF Jobs
      <4>4. QED
        BY <4>2, <4>3 DEF todo, n
    <3> HIDE DEF r
    <3>7. QED
      BY <1>1, <3>1, <3>6, FitFails DEF Fails
  <2>2. CASE EndGroups(w)
    <3>1. worker[w].removed \in SUBSET Paths
      BY <1>1 DEF Jobs
    <3> DEFINE phase == IF worker[w].removed = {} THEN "settle" ELSE "remove"
               r == [worker[w] EXCEPT !.swept = worker[w].removed, !.known = <<>>,
                                      !.left = {}, !.phase = phase]
    <3>2. Fit(r) /\ r.fence = worker[w].fence
      <4>1. phase \in {"settle", "remove", "unname"}
        OBVIOUS
      <4> HIDE DEF phase
      <4>2. QED
        BY <1>1, <3>1, <4>1, FitEnds, ZenonT(60)
    <3>3. Set(w, r)
      BY <2>2 DEF EndGroups
    <3> HIDE DEF r
    <3>4. QED
      BY <3>2, <3>3
  <2>3. CASE BudgetStop(w)
    BY <1>1, <2>3, FitBroke DEF BudgetStop, At_, Planning
  <2>4. QED
    BY <2>1, <2>2, <2>3
<1>4. QED
  BY <1>2, <1>3, Kept, TypedOn

\* Deleting counted rows.
LEMMA TypedDelete ==
  ASSUME Typed, NEW w \in Workers, worker[w].phase # "idle",
         NEW ids \in SUBSET Id, NEW phase \in Phases \ {"idle"},
         phase \in Grouping => worker[w].job = "index",
         phase \in Planning => worker[w].files \subseteq DOMAIN worker[w].known,
         DeleteCounted(w, ids, phase),
         UNCHANGED <<manifest, record, claim, claims>>
  PROVE  Typed'
<1>1. worker[w] \in Jobs /\ Wants(worker[w])
  BY Busy
<1>2. rows' \in SUBSET Id /\ torn' \in SUBSET Id
  BY Kept DEF DeleteCounted
<1>3. PICK r : Set(w, r) /\ Fit(r) /\ r.fence = worker[w].fence
  <2> DEFINE n == worker[w].del + Cardinality(ids \cap rows)
  <2>1. n \in Nat
    <3>1. worker[w].del \in Nat
      BY <1>1 DEF Jobs
    <3>2. Cardinality(ids \cap rows) \in Nat
      BY IdsAreFinite
    <3>3. QED
      BY <3>1, <3>2
  <2>2. Set(w, [worker[w] EXCEPT !.phase = phase, !.del = n]) \/ Fails(w)
    BY DEF DeleteCounted
  <2> DEFINE r == [worker[w] EXCEPT !.phase = phase, !.del = n]
  <2>3. Fit(r) /\ r.fence = worker[w].fence
    <3> HIDE DEF n
    <3>1. QED
      BY <1>1, <2>1 DEF Fit, Jobs, Wants
  <2> HIDE DEF r
  <2>4. QED
    BY <1>1, <2>2, <2>3, FitFails DEF Fails, r
<1>4. QED
  BY <1>2, <1>3, Kept, TypedOn

LEMMA CountedIds ==
  ASSUME NEW e \in Entry \cup {None}
  PROVE  Counted(e) \in SUBSET Id
  BY DEF Counted, Entry

LEMMA TypedRemove ==
  ASSUME Typed, NEW w \in Workers,
         RemoveCounted(w) \/ SweepPaths(w) \/ Forget(w) \/ DeleteStale(w)
  PROVE  Typed'
<1>1. /\ worker[w] \in Jobs /\ Wants(worker[w]) /\ worker[w].phase # "idle"
      /\ worker[w].phase \in Grouping => worker[w].want \in Target
      /\ worker[w].fence = worker[w].fence
  BY Busy DEF RemoveCounted, SweepPaths, Forget, DeleteStale, At_
<1>2. CASE RemoveCounted(w)
  <2> DEFINE ids == UNION {Counted(manifest[p]) : p \in worker[w].swept}
  <2>1. ids \in SUBSET Id
    <3>1. worker[w].swept \in SUBSET Paths
      BY <1>1 DEF Jobs
    <3>2. \A p \in worker[w].swept : Counted(manifest[p]) \in SUBSET Id
      BY <3>1, Kept, CountedIds
    <3>3. QED
      BY <3>2
  <2>2. PICK phase \in {"revoke sweep", "remove sweep"} :
           /\ DeleteCounted(w, ids, phase)
           /\ phase = "revoke sweep" => worker[w].phase = "revoke"
    BY <1>2 DEF RemoveCounted, At_
  <2>3. /\ phase \in Phases \ {"idle"} /\ phase \notin Planning
        /\ phase \in Grouping => worker[w].job = "index"
    BY <1>1, <2>2 DEF Phases, Grouping, Planning, Wants
  <2> HIDE DEF ids
  <2>4. QED
    BY <1>1, <1>2, <2>1, <2>2, <2>3, TypedDelete DEF RemoveCounted
<1>3. CASE SweepPaths(w)
  <2> DEFINE next == IF At_(w, "revoke sweep") THEN "group" ELSE "forget"
  <2>1. /\ next \in Phases \ {"idle"} /\ next \notin Planning
        /\ next \in Grouping => worker[w].job = "index"
    BY <1>1 DEF Phases, Grouping, Planning, Wants, At_
  <2>2. Go(w, next) \/ Fails(w)
    BY <1>3 DEF SweepPaths
  <2>3. rows' \in SUBSET Id /\ UNCHANGED <<manifest, record, claim, claims, torn>>
    BY <1>3, Kept DEF SweepPaths
  <2> HIDE DEF next
  <2>4. PICK r : Set(w, r) /\ Fit(r) /\ r.fence = worker[w].fence
    BY <1>1, <2>1, <2>2, FitGoes, FitFails DEF Go, Fails
  <2>5. QED
    BY <2>3, <2>4, Kept, TypedOn
<1>4. CASE Forget(w)
  <2>1. Go(w, "settle") \/ Fails(w)
    BY <1>4 DEF Forget
  <2>2. /\ manifest' \in [Paths -> Entry \cup {None}] /\ torn' \in SUBSET Id
        /\ UNCHANGED <<rows, record, claim, claims>>
    BY <1>4, Kept DEF Forget, Without, Untorn
  <2>3. PICK r : Set(w, r) /\ Fit(r) /\ r.fence = worker[w].fence
    BY <1>1, <2>1, FitGoes, FitFails DEF Go, Fails, Phases, Grouping, Planning
  <2>4. QED
    BY <2>2, <2>3, Kept, TypedOn
<1>5. CASE DeleteStale(w)
  <2> DEFINE ids == UNION {Stale(w, p) : p \in Finished(w)}
  <2>1. ids \in SUBSET Id
    <3>1. Finished(w) \subseteq Group(w)
      BY DEF Finished
    <3>2. QED
      BY <1>1, <3>1, PlanIds
  <2>2. DeleteCounted(w, ids, "finalize") /\ worker[w].phase = "stale"
    BY <1>5 DEF DeleteStale, At_
  <2>3. /\ "finalize" \in Phases \ {"idle"} /\ worker[w].job = "index"
        /\ worker[w].files \subseteq DOMAIN worker[w].known
    BY <1>1, <2>2 DEF Phases, Grouping, Planning, Wants
  <2> HIDE DEF ids
  <2>4. QED
    BY <1>1, <1>5, <2>1, <2>2, <2>3, TypedDelete DEF DeleteStale
<1>6. QED
  BY <1>2, <1>3, <1>4, <1>5

\* One group of files.
LEMMA TypedGroup ==
  ASSUME Typed, NEW w \in Workers, NextGroup(w)
  PROVE  Typed'
<1>1. worker[w] \in Jobs /\ Wants(worker[w]) /\ worker[w].job = "index"
  BY Busy DEF NextGroup, At_, Wants, Grouping
<1>2. UNCHANGED <<rows, manifest, record, claim, claims, torn>>
  BY DEF NextGroup, stores
<1>3. PICK r : Set(w, r) /\ Fit(r) /\ r.fence = worker[w].fence
  <2>1. CASE Fails(w)
    BY <1>1, <2>1, FitFails DEF Fails
  <2>2. CASE ~Fails(w)
    <3>1. PICK g \in SUBSET worker[w].todo :
             LET work == {p \in g : Tree[worker[w].want.rev][p] # {}}
                 known == [p \in work |-> manifest[p]]
                 moved == {p \in work : Counted(known[p])
                             # Ids(p, Tree[worker[w].want.rev][p])}
             IN /\ g # {} /\ Cardinality(g) <= GroupSize
                /\ Cardinality(g) < GroupSize => g = worker[w].todo
                /\ Set(w, [worker[w] EXCEPT
                     !.phase = IF work = {} THEN "group" ELSE "intent",
                     !.todo = @ \ g, !.known = known, !.files = work,
                     !.changed = @ \cup moved])
      BY <2>2 DEF NextGroup
    <3> DEFINE work == {p \in g : Tree[worker[w].want.rev][p] # {}}
               known == [p \in work |-> manifest[p]]
               moved == {p \in work : Counted(known[p])
                           # Ids(p, Tree[worker[w].want.rev][p])}
               phase == IF work = {} THEN "group" ELSE "intent"
               todo == worker[w].todo \ g
               changed == worker[w].changed \cup moved
    <3>2. worker[w].todo \in SUBSET Paths /\ worker[w].changed \in SUBSET Paths
      BY <1>1 DEF Jobs
    <3>3. work \in SUBSET Paths /\ todo \in SUBSET Paths /\ changed \in SUBSET Paths
      BY <3>2
    <3>4. known \in Groups
      <4>1. known \in [work -> Entry \cup {None}]
        BY <3>3, Kept
      <4>2. QED
        BY <3>3, <4>1 DEF Groups
    <3>5. phase \in {"group", "intent"}
      OBVIOUS
    <3> DEFINE r == [worker[w] EXCEPT !.phase = phase, !.todo = todo, !.known = known,
                                      !.files = work, !.changed = changed]
    <3>6. Set(w, r)
      BY <3>1
    <3>6a. work = DOMAIN known
      OBVIOUS
    <3>7. Fit(r) /\ r.fence = worker[w].fence
      <4> HIDE DEF work, known, moved, phase, todo, changed
      <4>1. QED
        BY <1>1, <3>3, <3>4, <3>5, <3>6a DEF Fit, Jobs, Wants, Phases
    <3> HIDE DEF r
    <3>8. QED
      BY <3>6, <3>7
  <2>3. QED
    BY <2>1, <2>2
<1>4. QED
  BY <1>2, <1>3, Kept, TypedOn

\* Writing the rows of the manifest, one at a time.
LEMMA TypedRecord ==
  ASSUME Typed, NEW w \in Workers, worker[w].phase \in Grouping,
         worker[w].files \subseteq Group(w),
         NEW p \in Paths, NEW entry \in Entry, NEW phase \in Phases \ {"idle"},
         Record(w, p, entry, phase) \/ (RecordFails(p, entry) /\ Fails(w)),
         UNCHANGED <<rows, record, claim, claims>>, torn' \in SUBSET Id
  PROVE  Typed'
<1>1. worker[w] \in Jobs /\ Wants(worker[w]) /\ worker[w].job = "index"
  BY Busy DEF Wants, Grouping
<1>2. manifest' \in [Paths -> Entry \cup {None}]
  BY Kept DEF Record, RecordFails
<1>3. PICK r : Set(w, r) /\ Fit(r) /\ r.fence = worker[w].fence
  <2>1. CASE Fails(w)
    BY <1>1, <2>1, FitFails DEF Fails
  <2>2. CASE Record(w, p, entry, phase)
    <3> DEFINE rest == worker[w].files \ {p}
               next == IF rest = {} THEN phase ELSE worker[w].phase
    <3>1. /\ rest \in SUBSET Paths /\ next \in Phases \ {"idle"}
          /\ rest \subseteq DOMAIN worker[w].known
      BY <1>1 DEF Jobs, Group
    <3> DEFINE r == [worker[w] EXCEPT !.files = rest, !.phase = next]
    <3>2. Set(w, r)
      BY <2>2 DEF Record
    <3>3. Fit(r) /\ r.fence = worker[w].fence
      <4> HIDE DEF rest, next
      <4>1. QED
        BY <1>1, <3>1, FitFiles
    <3> HIDE DEF r
    <3>4. QED
      BY <3>2, <3>3
  <2>3. QED
    BY <2>1, <2>2
<1>4. QED
  BY <1>2, <1>3, Kept, TypedOn

LEMMA GroupFiles ==
  ASSUME NEW w \in Workers, worker[w] \in Jobs
  PROVE  /\ worker[w].files \in SUBSET Paths
         /\ Finished(w) \subseteq Group(w) /\ Group(w) \subseteq Paths
  BY PlanIds DEF Finished, Jobs

LEMMA TypedFiles ==
  ASSUME Typed, NEW w \in Workers, RecordIntent(w) \/ Finalize(w)
  PROVE  Typed'
<1>1. /\ worker[w] \in Jobs /\ worker[w].phase \in Grouping
      /\ worker[w].want \in Target /\ worker[w].files \subseteq Group(w)
  BY Busy DEF RecordIntent, Finalize, At_, Grouping, Planning, Wants, Group
<1>2. UNCHANGED <<rows, record, claim, claims>>
  BY DEF RecordIntent, Finalize
<1>3. "relocate" \in Phases \ {"idle"} /\ "group" \in Phases \ {"idle"}
  BY DEF Phases
<1>4. CASE RecordIntent(w)
  <2>1. PICK p \in worker[w].files :
           \/ Record(w, p, Intent(w, p), "relocate")
           \/ RecordFails(p, Intent(w, p)) /\ Fails(w)
    BY <1>4 DEF RecordIntent
  <2>2. p \in Paths /\ torn' \in SUBSET Id
    BY <1>1, <1>4, GroupFiles, Kept DEF RecordIntent
  <2>3. Intent(w, p) \in Entry
    BY <1>1, <2>2, PlanEntries
  <2>4. QED
    BY <1>1, <1>2, <1>3, <2>1, <2>2, <2>3, TypedRecord
<1>5. CASE Finalize(w)
  <2>1. PICK p \in worker[w].files :
           /\ \/ Record(w, p, Finalized(w, p), "group")
              \/ RecordFails(p, Finalized(w, p)) /\ Fails(w)
           /\ torn' = torn \ (Stale(w, p) \ Named(manifest'[p]))
    BY <1>5 DEF Finalize
  <2>2. p \in Paths /\ torn' \in SUBSET Id
    BY <1>1, <2>1, GroupFiles, Kept
  <2>3. Finalized(w, p) \in Entry
    BY <1>1, <2>2, PlanEntries
  <2>4. QED
    BY <1>1, <1>2, <1>3, <2>1, <2>2, <2>3, TypedRecord
<1>6. QED
  BY <1>4, <1>5

\* Rows come and go.
LEMMA TypedRows ==
  ASSUME Typed, NEW w \in Workers, Relocate(w) \/ EmbedBatch(w) \/ DeleteOrphans(w)
  PROVE  Typed'
<1>1. /\ worker[w] \in Jobs /\ Wants(worker[w]) /\ worker[w].job = "index"
      /\ worker[w].want \in Target /\ worker[w].files \subseteq DOMAIN worker[w].known
  BY Busy DEF Relocate, EmbedBatch, DeleteOrphans, At_, Grouping, Planning, Wants
<1>2. UNCHANGED <<manifest, record, claim, claims, torn>>
  BY DEF Relocate, EmbedBatch, DeleteOrphans
<1>3. /\ "orphans" \in Phases \ {"idle"} /\ "embed" \in Phases \ {"idle"}
      /\ "confirm" \in Phases \ {"idle"} /\ "group" \in Phases \ {"idle"}
  BY DEF Phases
<1>4. worker[w].phase \in Phases \ {"idle"} /\ worker[w].left \in SUBSET Id
  BY <1>1 DEF Jobs
<1>5. \A p \in Group(w) : New(w, p) \in SUBSET Id
  BY <1>1, PlanIds
<1>6. CASE Relocate(w)
  <2> DEFINE found == Copied(Moves(w))
             left == UNION {ToEmbed(w, p) : p \in Group(w)}
             phase == IF left = {} THEN "orphans" ELSE "embed"
             r == [worker[w] EXCEPT !.left = left, !.phase = phase]
  <2>1. found \in SUBSET Id /\ left \in SUBSET Id
    BY <1>5 DEF Copied, Moves, ToRelocate, ToEmbed
  <2>2. rows' \in SUBSET Id
    BY <1>6, <2>1, Kept DEF Relocate
  <2>3. Set(w, r) \/ Fails(w)
    BY <1>6 DEF Relocate
  <2>4. Fit(r) /\ r.fence = worker[w].fence
    <3> HIDE DEF left
    <3>1. phase \in Phases \ {"idle"}
      BY <1>3
    <3> HIDE DEF phase
    <3>2. QED
      BY <1>1, <2>1, <3>1, FitLeft
  <2> HIDE DEF r
  <2>5. PICK s : Set(w, s) /\ Fit(s) /\ s.fence = worker[w].fence
    BY <1>1, <2>3, <2>4, FitFails DEF Fails
  <2>6. QED
    BY <1>2, <2>2, <2>5, Kept, TypedOn
<1>7. CASE EmbedBatch(w)
  <2>1. PICK batch \in SUBSET worker[w].left :
           \/ /\ rows' = rows \cup batch
              /\ Set(w, [worker[w] EXCEPT !.left = worker[w].left \ batch,
                          !.phase = IF worker[w].left = batch THEN "orphans" ELSE @])
           \/ /\ Fails(w)
              /\ \E some \in SUBSET batch : rows' = rows \cup some
    BY <1>7 DEF EmbedBatch
  <2> DEFINE left == worker[w].left \ batch
             phase == IF worker[w].left = batch THEN "orphans" ELSE worker[w].phase
             r == [worker[w] EXCEPT !.left = left, !.phase = phase]
  <2>2. rows' \in SUBSET Id /\ left \in SUBSET Id
    BY <1>4, <2>1, Kept
  <2>3. Set(w, r) \/ Fails(w)
    BY <2>1
  <2>4. Fit(r) /\ r.fence = worker[w].fence
    <3>1. phase \in Phases \ {"idle"}
      BY <1>3, <1>4
    <3> HIDE DEF left, phase
    <3>2. QED
      BY <1>1, <2>2, <3>1, FitLeft
  <2> HIDE DEF r
  <2>5. PICK s : Set(w, s) /\ Fit(s) /\ s.fence = worker[w].fence
    BY <1>1, <2>3, <2>4, FitFails DEF Fails
  <2>6. QED
    BY <1>2, <2>2, <2>5, Kept, TypedOn
<1>8. CASE DeleteOrphans(w)
  <2> DEFINE done == Finished(w)
             phase == IF done = {} THEN "group" ELSE "confirm"
             r == [worker[w] EXCEPT !.files = done, !.phase = phase]
  <2>1. rows' \in SUBSET Id
    BY <1>8, Kept DEF DeleteOrphans
  <2>2. done \in SUBSET Paths /\ done \subseteq DOMAIN worker[w].known
    BY <1>1, GroupFiles DEF Group
  <2>3. Set(w, r) \/ Fails(w)
    BY <1>8 DEF DeleteOrphans
  <2>4. Fit(r) /\ r.fence = worker[w].fence
    <3> HIDE DEF done
    <3>1. phase \in Phases \ {"idle"}
      BY <1>3
    <3> HIDE DEF phase
    <3>2. QED
      BY <1>1, <2>2, <3>1, FitFiles
  <2> HIDE DEF r
  <2>5. PICK s : Set(w, s) /\ Fit(s) /\ s.fence = worker[w].fence
    BY <1>1, <2>3, <2>4, FitFails DEF Fails
  <2>6. QED
    BY <1>2, <2>1, <2>5, Kept, TypedOn
<1>9. QED
  BY <1>6, <1>7, <1>8

LEMMA TypedConfirm ==
  ASSUME Typed, NEW w \in Workers, Confirm(w)
  PROVE  Typed'
<1>1. /\ worker[w] \in Jobs /\ Wants(worker[w]) /\ worker[w].job = "index"
      /\ worker[w].want \in Target /\ worker[w].files \subseteq DOMAIN worker[w].known
  BY Busy DEF Confirm, At_, Grouping, Planning, Wants
<1>2. UNCHANGED <<rows, record, claim, claims, torn>>
  BY DEF Confirm
<1>3. worker[w].up \in Nat /\ worker[w].phase \in Phases \ {"idle"}
  BY <1>1 DEF Jobs
<1>4. ASSUME NEW ps \in SUBSET Group(w)
      PROVE  worker[w].up + Added(w, ps) \in Nat
  <2>1. (UNION {New(w, p) : p \in ps}) \ (UNION {Prev(w, p) : p \in ps}) \in SUBSET Id
    BY <1>1, PlanIds
  <2>2. Added(w, ps) \in Nat
    BY <2>1, IdsAreFinite DEF Added
  <2>3. QED
    BY <1>3, <2>2
<1>5. Finished(w) \in SUBSET Group(w) /\ Group(w) \subseteq Paths /\ Group(w) = DOMAIN worker[w].known
  BY <1>1, GroupFiles DEF Group
<1>6. PICK p \in worker[w].files :
        \/ /\ manifest' = [manifest EXCEPT ![p] = Confirmation(w, p)]
           /\ LET rest == worker[w].files \ {p}
              IN Set(w, [worker[w] EXCEPT
                   !.files = IF rest = {} THEN Finished(w) ELSE rest,
                   !.phase = IF rest = {} THEN "stale" ELSE @,
                   !.up = IF rest = {} THEN @ + Added(w, Finished(w)) ELSE @])
        \/ /\ RecordFails(p, Confirmation(w, p))
           /\ LET landed == {q \in Finished(w) : manifest'[q] # None /\ manifest'[q].chunks = New(w, q)}
              IN Set(w, [worker[w] EXCEPT !.phase = "settle", !.failed = TRUE,
                   !.up = @ + Added(w, landed)])
        \/ /\ manifest' \in {manifest, [manifest EXCEPT ![p] = Confirmation(w, p)]}
           /\ Set(w, [worker[w] EXCEPT !.phase = "settle", !.failed = TRUE,
                !.recount = TRUE])
  BY DEF Confirm
<1>7. manifest' \in [Paths -> Entry \cup {None}]
  <2>1. p \in Group(w) /\ p \in Paths
    BY <1>1, <1>5
  <2>2. Confirmation(w, p) \in Entry
    BY <1>1, <2>1, PlanEntries
  <2>3. QED
    BY <1>6, <2>1, <2>2, Kept DEF RecordFails
<1> DEFINE rest == worker[w].files \ {p}
           files == IF rest = {} THEN Finished(w) ELSE rest
           phase == IF rest = {} THEN "stale" ELSE worker[w].phase
           n == IF rest = {} THEN worker[w].up + Added(w, Finished(w)) ELSE worker[w].up
           landed == {q \in Finished(w) : manifest'[q] # None /\ manifest'[q].chunks = New(w, q)}
           m == worker[w].up + Added(w, landed)
           r1 == [worker[w] EXCEPT !.files = files, !.phase = phase, !.up = n]
           r2 == [worker[w] EXCEPT !.phase = "settle", !.failed = TRUE, !.up = m]
           r3 == [worker[w] EXCEPT !.phase = "settle", !.failed = TRUE, !.recount = TRUE]
<1>8. Set(w, r1) \/ Set(w, r2) \/ Set(w, r3)
  BY <1>6
<1>9. /\ files \in SUBSET Paths /\ files \subseteq DOMAIN worker[w].known
      /\ phase \in Phases \ {"idle"} /\ n \in Nat /\ m \in Nat
  <2>1. files \in SUBSET Paths /\ files \subseteq DOMAIN worker[w].known
    BY <1>1, <1>5
  <2>2. phase \in Phases \ {"idle"}
    BY <1>3 DEF Phases
  <2>3. n \in Nat
    BY <1>3, <1>4, <1>5
  <2>4. landed \in SUBSET Group(w)
    BY <1>5
  <2>5. m \in Nat
    BY <1>4, <2>4
  <2>6. QED
    BY <2>1, <2>2, <2>3, <2>5
<1>10. /\ Fit(r1) /\ r1.fence = worker[w].fence
       /\ Fit(r2) /\ r2.fence = worker[w].fence
       /\ Fit(r3) /\ r3.fence = worker[w].fence
  <2> HIDE DEF rest, files, phase, n, landed, m
  <2>1. Fit(r1) /\ r1.fence = worker[w].fence
    BY <1>1, <1>9, FitCounts DEF Jobs
  <2>2. Fit(r2) /\ r2.fence = worker[w].fence
    BY <1>1, <1>9, FitCounts DEF Jobs
  <2>3. Fit(r3) /\ r3.fence = worker[w].fence
    BY <1>1, <1>9, FitCounts DEF Jobs
  <2>4. QED
    BY <2>1, <2>2, <2>3
<1> HIDE DEF r1, r2, r3
<1>11. QED
  BY <1>2, <1>7, <1>8, <1>10, Kept, TypedOn

LEMMA TypedReset ==
  ASSUME Typed, NEW w \in Workers, Wipe(w) \/ Unname(w)
  PROVE  Typed'
<1>1. worker[w] \in Jobs /\ Wants(worker[w])
  BY Busy DEF Wipe, Unname, At_
<1>2. /\ rows' \in SUBSET Id /\ manifest' \in [Paths -> Entry \cup {None}]
      /\ UNCHANGED <<record, claim, claims>>
  BY Kept DEF Wipe, Unname, Without
<1>3. torn' \in SUBSET Id
  <2>1. UNION {Counted(manifest[p]) : p \in {p \in Paths : manifest[p] # None}} \in SUBSET Id
    BY Kept, CountedIds
  <2>2. QED
    BY <2>1, Kept DEF Wipe, Unname, Untorn
<1>4. PICK r : Set(w, r) /\ Fit(r) /\ r.fence \in {0, worker[w].fence}
  <2> DEFINE known == {p \in Paths : manifest[p] # None}
             r == [worker[w] EXCEPT !.phase = "unname", !.swept = known]
  <2>1. Set(w, r) \/ Set(w, Idle) \/ Go(w, "settle")
    BY DEF Wipe, Unname, Stops
  <2>2. Fit(r) /\ r.fence = worker[w].fence
    <3> HIDE DEF known
    <3>1. known \in SUBSET Paths
      BY DEF known
    <3>2. QED
      BY <1>1, <3>1, FitEnds
  <2>3. /\ "settle" \in Phases \ {"idle"} /\ "settle" \notin Grouping
        /\ "settle" \notin Planning
    BY DEF Phases, Grouping, Planning
  <2>4. Go(w, "settle") => \E s : Set(w, s) /\ Fit(s) /\ s.fence = worker[w].fence
    BY <1>1, <2>3, FitGoes DEF Go
  <2> HIDE DEF r
  <2>5. QED
    BY <2>1, <2>2, <2>4, FitIdle
<1>5. QED
  BY <1>2, <1>3, <1>4, Kept, TypedOn

\* A run leaves a record behind; both kinds say how many chunks there are.
LEMMA ReadyRecord ==
  ASSUME NEW r \in Records, NEW revision \in Target \cup {None}, NEW n \in Nat
  PROVE  LET s == [r EXCEPT !.state = "ready", !.revision = revision, !.chunks = n,
                            !.message = FALSE, !.uncertain = FALSE]
         IN s \in Records /\ s.fence = r.fence
  BY DEF Records

LEMMA ChunksNat ==
  ASSUME Typed, NEW w \in Workers, worker[w] \in Jobs
  PROVE  Chunks(w) \in Nat /\ Recounted \in Nat
<1>1. Chunks(w) \in Nat
  <2>1. worker[w].before \in Nat /\ worker[w].up \in Nat /\ worker[w].del \in Nat
    BY DEF Jobs
  <2>2. QED
    BY <2>1 DEF Chunks, Less
<1>2. Recounted \in Nat
  <2>1. UNION {Counted(manifest[p]) : p \in Paths} \in SUBSET Id
    BY Kept, CountedIds
  <2>2. QED
    BY <2>1, IdsAreFinite DEF Recounted
<1>3. QED
  BY <1>1, <1>2

LEMMA DoneRecord ==
  ASSUME Typed, NEW revision \in Target \cup {None}, NEW n \in Nat
  PROVE  Done(revision, n) \in Records /\ Done(revision, n).fence = record.fence
<1>1. record \in Records
  BY Kept
<1>2. QED
  BY <1>1, ReadyRecord DEF Done

LEMMA GaveUpRecord ==
  ASSUME Typed, NEW w \in Workers, worker[w] \in Jobs,
         NEW uncertain \in BOOLEAN, NEW counts \in BOOLEAN
  PROVE  /\ GaveUp(w, uncertain, counts) \in Records
         /\ GaveUp(w, uncertain, counts).fence = record.fence
<1> DEFINE n == IF counts THEN Chunks(w) ELSE record.chunks
<1>1. n \in Nat /\ record \in Records
  BY ChunksNat, Kept DEF Records
<1>2. GaveUp(w, uncertain, counts) =
        [record EXCEPT !.state = "failed", !.message = TRUE, !.uncertain = uncertain,
                       !.chunks = n]
  BY DEF GaveUp
<1> HIDE DEF n
<1>3. LET s == [record EXCEPT !.state = "failed", !.message = TRUE,
                              !.uncertain = uncertain, !.chunks = n]
      IN s \in Records /\ s.fence = record.fence
  BY <1>1 DEF Records
<1>4. QED
  BY <1>2, <1>3, Zenon

LEMMA SettlementRecords ==
  ASSUME Typed, NEW w \in Workers, worker[w] \in Jobs, Wants(worker[w]),
         NEW s \in Settlements(w)
  PROVE  /\ s[1] \in Records /\ s[1].fence = record.fence
         /\ s[2] \in BOOLEAN
<1>1. CASE worker[w].job = "reset"
  <2>1. s = <<Done(None, 0), TRUE>>
    BY <1>1 DEF Settlements
  <2>2. QED
    BY <2>1, DoneRecord
<1>2. CASE worker[w].job # "reset" /\ worker[w].failed
  <2> DEFINE counts == worker[w].up # 0 \/ worker[w].del # 0
  <2>1. s = <<GaveUp(w, worker[w].recount, counts), FALSE>>
    BY <1>2 DEF Settlements
  <2>2. worker[w].recount \in BOOLEAN /\ counts \in BOOLEAN
    BY DEF Jobs
  <2> HIDE DEF counts
  <2>3. QED
    BY <2>1, <2>2, GaveUpRecord
<1>3. CASE worker[w].job # "reset" /\ ~worker[w].failed
  <2> DEFINE revision == IF Whole(w) THEN worker[w].want ELSE None
             n == IF worker[w].recount THEN Recounted ELSE Chunks(w)
  <2>1. s = <<Done(revision, n), TRUE>>
    BY <1>3 DEF Settlements
  <2>2. revision \in Target \cup {None} /\ n \in Nat
    BY ChunksNat DEF Jobs
  <2> HIDE DEF revision, n
  <2>3. QED
    BY <2>1, <2>2, DoneRecord
<1>4. QED
  BY <1>1, <1>2, <1>3

LEMMA TypedSettle ==
  ASSUME Typed, NEW w \in Workers, Settle(w) \/ RecountFails(w)
  PROVE  Typed'
<1>1. worker[w] \in Jobs /\ Wants(worker[w])
  BY Busy DEF Settle, RecountFails, At_
<1>2. UNCHANGED <<rows, manifest, claim, claims, torn>>
  BY DEF Settle, RecountFails
<1> DEFINE Dropping(failed) == [worker[w] EXCEPT !.phase = "drop", !.failed = failed]
<1>3. /\ Stops(w) \/ \E failed \in BOOLEAN : Set(w, Dropping(failed))
      /\ record' \in Records /\ record'.fence = record.fence
  <2>1. CASE record' = record /\ Stops(w)
    BY <2>1, Kept
  <2>2. CASE Settle(w) /\ ~(record' = record /\ Stops(w))
    <3>1. PICK s \in Settlements(w) :
             \/ /\ record' = s[1]
                /\ Set(w, [worker[w] EXCEPT !.phase = "drop", !.failed = ~s[2]])
             \/ record' \in {record, s[1]} /\ Stops(w)
      BY <2>2 DEF Settle
    <3>2. s[1] \in Records /\ s[1].fence = record.fence /\ (~s[2]) \in BOOLEAN
      BY <1>1, SettlementRecords
    <3>3. record' \in Records /\ record'.fence = record.fence
      BY <3>1, <3>2, Kept
    <3>4. QED
      BY <3>1, <3>2, <3>3
  <2>3. CASE RecountFails(w) /\ ~(record' = record /\ Stops(w))
    <3>1. /\ record' = GaveUp(w, TRUE, FALSE)
          /\ Set(w, [worker[w] EXCEPT !.phase = "drop", !.failed = TRUE])
      BY <2>3 DEF RecountFails
    <3>2. GaveUp(w, TRUE, FALSE) \in Records /\ GaveUp(w, TRUE, FALSE).fence = record.fence
      BY <1>1, GaveUpRecord
    <3>3. QED
      BY <3>1, <3>2
  <2>4. QED
    BY <2>1, <2>2, <2>3
<1>4. \A failed \in BOOLEAN :
        Fit(Dropping(failed)) /\ Dropping(failed).fence = worker[w].fence
  BY <1>1, FitLeaves
<1> HIDE DEF Dropping
<1>5. PICK r : Set(w, r) /\ Fit(r) /\ r.fence \in {0, worker[w].fence}
  BY <1>3, <1>4, FitIdle DEF Stops
<1>6. QED
  BY <1>2, <1>3, <1>5, Kept, TypedOn

LEMMA TypedLeave ==
  ASSUME Typed, NEW w \in Workers, DropClaim(w) \/ SyncGraph(w) \/ Crash(w)
  PROVE  Typed'
<1>1. worker[w] \in Jobs /\ Wants(worker[w])
  BY Busy DEF DropClaim, SyncGraph, Crash, At_
<1>2. /\ UNCHANGED <<rows, manifest, record, claims, torn>> /\ claim' \in {0, claim}
      /\ Stops(w) \/ Go(w, "graph")
  BY DEF DropClaim, SyncGraph, Crash, stores, Freed
<1>3. /\ "graph" \in Phases \ {"idle"} /\ "graph" \notin Grouping
      /\ "graph" \notin Planning
  BY DEF Phases, Grouping, Planning
<1>4. PICK r : Set(w, r) /\ Fit(r) /\ r.fence \in {0, worker[w].fence}
  BY <1>1, <1>2, <1>3, FitGoes, FitIdle DEF Stops, Go
<1>5. QED
  BY <1>2, <1>4, Kept, TypedOn

LEMMA TypedStep == Typed /\ [Next]_vars => Typed'
<1> SUFFICES ASSUME Typed, [Next]_vars PROVE Typed'
  OBVIOUS
<1>1. CASE UNCHANGED vars
  BY <1>1 DEF Typed, TypeOK, vars
<1>2. CASE ClaimExpires
  BY <1>2 DEF ClaimExpires, Typed, TypeOK
<1>3. CASE \E w \in Workers : Request(w) \/ Reset(w) \/ Run(w) \/ Crash(w)
  BY <1>3, TypedStart, TypedClaim, TypedBegin, TypedRemove, TypedGroup, TypedFiles,
     TypedRows, TypedConfirm, TypedReset, TypedSettle, TypedLeave DEF Run
<1>4. QED
  BY <1>1, <1>2, <1>3 DEF Next

LEMMA TypedInit == Init => Typed
<1> SUFFICES ASSUME Init PROVE Typed
  OBVIOUS
<1>1. record \in Records
  BY DEF Init, Records
<1>2. \A w \in Workers : worker[w] = Idle
  BY DEF Init
<1>3. \A w \in Workers : Fit(worker[w]) /\ worker[w].fence = 0 /\ worker[w].phase \in Phases
  BY <1>2, FitIdle, FitPhase
<1>4. QED
  BY <1>1, <1>3 DEF Init, Typed, TypeOK

\* The stores and the fences keep their types; a count never goes below zero,
\* because the code subtracts with saturation (indexer/run.rs).
THEOREM TypeCorrect == Spec => []TypeOK
<1>1. Typed => TypeOK
  BY DEF Typed
<1>2. QED
  BY <1>1, TypedInit, TypedStep, PTL DEF Spec

-----------------------------------------------------------------------------
(* A run that outlived its claim                                           *)

\* Between the two writes of its claim and the release of it.
Inner == Phases \ {"idle", "claim", "mark", "graph"}

\* What a step inside a run does to its worker: on with the same fence, or over.
Steps(w) ==
  /\ \A v \in Workers : v # w => worker'[v] = worker[v]
  /\ \/ worker'[w] = Idle
     \/ worker'[w].phase \in Inner /\ worker'[w].fence = worker[w].fence

LEMMA SetSteps ==
  ASSUME Typed, NEW w \in Workers, NEW r, Set(w, r),
         r = Idle \/ (r.phase \in Inner /\ r.fence = worker[w].fence)
  PROVE  Steps(w)
  BY DEF Typed, Set, Steps

InnerRun(w) ==
  \/ Begin(w) \/ RemoveCounted(w) \/ SweepPaths(w) \/ Forget(w)
  \/ NextGroup(w) \/ RecordIntent(w) \/ Relocate(w) \/ EmbedBatch(w)
  \/ BudgetStop(w) \/ DeleteOrphans(w) \/ Confirm(w) \/ DeleteStale(w)
  \/ Finalize(w) \/ EndGroups(w) \/ Wipe(w) \/ Unname(w)

LEMMA InnerFails ==
  ASSUME Typed, NEW w \in Workers, worker[w] \in Jobs, Fails(w) \/ Stops(w)
  PROVE  Steps(w)
<1> DEFINE r == [worker[w] EXCEPT !.phase = "settle", !.failed = TRUE]
<1>1. r.phase \in Inner /\ r.fence = worker[w].fence
  BY DEF Jobs, Inner, Phases
<1>2. Set(w, r) \/ Set(w, Idle)
  BY DEF Fails, Stops
<1> HIDE DEF r
<1>3. QED
  BY <1>1, <1>2, SetSteps

LEMMA InnerGoes ==
  ASSUME Typed, NEW w \in Workers, worker[w] \in Jobs, NEW phase \in Inner, Go(w, phase)
  PROVE  Steps(w)
<1> DEFINE r == [worker[w] EXCEPT !.phase = phase]
<1>1. r.phase \in Inner /\ r.fence = worker[w].fence
  BY DEF Jobs
<1>2. Set(w, r)
  BY DEF Go
<1> HIDE DEF r
<1>3. QED
  BY <1>1, <1>2, SetSteps

LEMMA InnerDeletes ==
  ASSUME Typed, NEW w \in Workers, worker[w] \in Jobs, NEW ids, NEW phase \in Inner,
         DeleteCounted(w, ids, phase)
  PROVE  Steps(w)
<1> DEFINE n == worker[w].del + Cardinality(ids \cap rows)
           r == [worker[w] EXCEPT !.phase = phase, !.del = n]
<1>1. r.phase \in Inner /\ r.fence = worker[w].fence
  <2> HIDE DEF n
  <2>1. QED
    BY DEF Jobs
<1>2. Set(w, r) \/ Fails(w)
  BY DEF DeleteCounted
<1> HIDE DEF r
<1>3. QED
  BY <1>1, <1>2, InnerFails, SetSteps

LEMMA InnerRecords ==
  ASSUME Typed, NEW w \in Workers, worker[w] \in Jobs, worker[w].phase \in Inner,
         NEW p, NEW entry, NEW phase \in Inner, Record(w, p, entry, phase)
  PROVE  Steps(w)
<1> DEFINE rest == worker[w].files \ {p}
           next == IF rest = {} THEN phase ELSE worker[w].phase
           r == [worker[w] EXCEPT !.files = rest, !.phase = next]
<1>1. r.phase \in Inner /\ r.fence = worker[w].fence
  <2>1. next \in Inner
    OBVIOUS
  <2> HIDE DEF next, rest
  <2>2. QED
    BY <2>1 DEF Jobs
<1>2. Set(w, r)
  BY DEF Record
<1> HIDE DEF r
<1>3. QED
  BY <1>1, <1>2, SetSteps

LEMMA InnerSteps ==
  ASSUME Typed, NEW w \in Workers, InnerRun(w)
  PROVE  /\ worker[w] \in Jobs /\ worker[w].phase \in Inner /\ Steps(w)
         /\ UNCHANGED <<record, claim, claims>>
<1>1. worker[w].phase \in Inner
  BY DEF InnerRun, Inner, Phases, At_, Begin, RemoveCounted, SweepPaths, Forget, NextGroup,
     RecordIntent, Relocate, EmbedBatch, BudgetStop, DeleteOrphans, Confirm, DeleteStale,
     Finalize, EndGroups, Wipe, Unname
<1>2. worker[w] \in Jobs
  BY <1>1, Busy DEF Inner
<1>3. UNCHANGED <<record, claim, claims>>
  BY DEF InnerRun, stores, Begin, RemoveCounted, SweepPaths, Forget, NextGroup,
     RecordIntent, Relocate, EmbedBatch, BudgetStop, DeleteOrphans, Confirm, DeleteStale,
     Finalize, EndGroups, Wipe, Unname
<1>4. /\ "group" \in Inner /\ "forget" \in Inner /\ "settle" \in Inner
      /\ "revoke sweep" \in Inner /\ "remove sweep" \in Inner /\ "relocate" \in Inner
      /\ "finalize" \in Inner /\ "unname" \in Inner /\ "revoke" \in Inner
      /\ "remove" \in Inner /\ "orphans" \in Inner /\ "embed" \in Inner
      /\ "confirm" \in Inner /\ "stale" \in Inner /\ "intent" \in Inner
  BY DEF Inner, Phases
<1>5. CASE Fails(w) \/ Stops(w)
  BY <1>1, <1>2, <1>3, <1>5, InnerFails
<1>6. CASE RemoveCounted(w) \/ DeleteStale(w)
  BY <1>1, <1>2, <1>3, <1>4, <1>6, InnerDeletes DEF RemoveCounted, DeleteStale
<1>7. CASE (SweepPaths(w) \/ Forget(w) \/ Unname(w)) /\ ~Fails(w) /\ ~Stops(w)
  BY <1>1, <1>2, <1>3, <1>4, <1>7, InnerGoes DEF SweepPaths, Forget, Unname
<1>8. CASE (RecordIntent(w) \/ Finalize(w)) /\ ~Fails(w)
  BY <1>1, <1>2, <1>3, <1>4, <1>8, InnerRecords DEF RecordIntent, Finalize
<1>9. CASE Begin(w) /\ ~Fails(w)
  <2> DEFINE t == worker[w].want
             sub == worker[w].sub
             unseen == {p \in Paths : manifest[p] # None} \ Selected(t, sub)
             removed == IF sub = "missing" THEN unseen \ SubPaths ELSE unseen
             revoked == IF sub = "denied" THEN removed \cap SubPaths ELSE {}
             phase == IF revoked # {} THEN "revoke" ELSE "group"
             rebuild == record.revision = None \/ record.message
             recount == record.revision = None \/ record.uncertain
             todo == Selected(t, sub)
             r == [worker[w] EXCEPT
                     !.phase = phase, !.before = record.chunks, !.rebuild = rebuild,
                     !.recount = recount, !.todo = todo, !.removed = removed,
                     !.swept = revoked]
  <2>1. Set(w, r)
    BY <1>9 DEF Begin
  <2>2. phase \in Inner
    BY <1>4
  <2>3. r.phase \in Inner /\ r.fence = worker[w].fence
    <3> HIDE DEF phase, rebuild, recount, todo, removed, revoked
    <3>1. QED
      BY <1>2, <2>2 DEF Jobs
  <2> HIDE DEF r
  <2>4. QED
    BY <1>1, <1>2, <1>3, <2>1, <2>3, SetSteps
<1>10. CASE NextGroup(w) /\ ~Fails(w)
  <2>0. PICK phase \in {"group", "intent"} : \E todo, known, files, changed :
           Set(w, [worker[w] EXCEPT
                     !.phase = phase, !.todo = todo, !.known = known, !.files = files,
                     !.changed = changed])
    BY <1>10, Zenon DEF NextGroup
  <2>1. PICK todo, known, files, changed :
           Set(w, [worker[w] EXCEPT
                     !.phase = phase, !.todo = todo, !.known = known, !.files = files,
                     !.changed = changed])
    BY <2>0
  <2> DEFINE r == [worker[w] EXCEPT
                     !.phase = phase, !.todo = todo, !.known = known, !.files = files,
                     !.changed = changed]
  <2>2. r.phase \in Inner /\ r.fence = worker[w].fence
    BY <1>2, <1>4 DEF Jobs
  <2>3. Set(w, r)
    BY <2>1
  <2> HIDE DEF r
  <2>4. QED
    BY <1>1, <1>2, <1>3, <2>2, <2>3, SetSteps
<1>11. CASE (Relocate(w) \/ EmbedBatch(w)) /\ ~Fails(w)
  <2>0. PICK phase \in {"orphans", "embed", worker[w].phase} : \E left :
           Set(w, [worker[w] EXCEPT !.left = left, !.phase = phase])
    BY <1>11, Zenon DEF Relocate, EmbedBatch
  <2>1. PICK left : Set(w, [worker[w] EXCEPT !.left = left, !.phase = phase])
    BY <2>0
  <2> DEFINE r == [worker[w] EXCEPT !.left = left, !.phase = phase]
  <2>2. r.phase \in Inner /\ r.fence = worker[w].fence
    BY <1>1, <1>2, <1>4 DEF Jobs
  <2>3. Set(w, r)
    BY <2>1
  <2> HIDE DEF r
  <2>4. QED
    BY <1>1, <1>2, <1>3, <2>2, <2>3, SetSteps
<1>12. CASE (BudgetStop(w) \/ DeleteOrphans(w)) /\ ~Fails(w)
  <2> DEFINE phase == IF Finished(w) = {} THEN "group" ELSE "confirm"
             r1 == [worker[w] EXCEPT !.budget = TRUE, !.phase = "orphans"]
             r2 == [worker[w] EXCEPT !.files = Finished(w), !.phase = phase]
  <2>1. phase \in Inner
    BY <1>4
  <2>2. r1.phase \in Inner /\ r1.fence = worker[w].fence
    BY <1>2, <1>4 DEF Jobs
  <2>3. r2.phase \in Inner /\ r2.fence = worker[w].fence
    <3> HIDE DEF phase
    <3>1. QED
      BY <1>2, <2>1 DEF Jobs
  <2>4. Set(w, r1) \/ Set(w, r2)
    BY <1>12 DEF BudgetStop, DeleteOrphans
  <2> HIDE DEF r1, r2
  <2>5. QED
    BY <1>1, <1>2, <1>3, <2>2, <2>3, <2>4, SetSteps
<1>13. CASE Confirm(w)
  <2>1. \/ \E phase \in {"stale", worker[w].phase} : \E files, n :
              Set(w, [worker[w] EXCEPT !.files = files, !.phase = phase, !.up = n])
        \/ \E n : Set(w, [worker[w] EXCEPT !.phase = "settle", !.failed = TRUE, !.up = n])
        \/ Set(w, [worker[w] EXCEPT !.phase = "settle", !.failed = TRUE, !.recount = TRUE])
    BY <1>13, Zenon DEF Confirm
  <2> DEFINE r1(phase, files, n) ==
               [worker[w] EXCEPT !.files = files, !.phase = phase, !.up = n]
             r2(n) == [worker[w] EXCEPT !.phase = "settle", !.failed = TRUE, !.up = n]
             r3 == [worker[w] EXCEPT !.phase = "settle", !.failed = TRUE, !.recount = TRUE]
  <2>2. \A phase \in {"stale", worker[w].phase} : \A files, n :
           r1(phase, files, n).phase \in Inner /\ r1(phase, files, n).fence = worker[w].fence
    BY <1>1, <1>2, <1>4 DEF Jobs
  <2>3. \A n : r2(n).phase \in Inner /\ r2(n).fence = worker[w].fence
    BY <1>2, <1>4 DEF Jobs
  <2>4. r3.phase \in Inner /\ r3.fence = worker[w].fence
    BY <1>2, <1>4 DEF Jobs
  <2>5. \/ \E phase \in {"stale", worker[w].phase} : \E files, n : Set(w, r1(phase, files, n))
        \/ \E n : Set(w, r2(n))
        \/ Set(w, r3)
    BY <2>1
  <2> HIDE DEF r1, r2, r3
  <2>6. QED
    BY <1>1, <1>2, <1>3, <2>2, <2>3, <2>4, <2>5, SetSteps
<1>14. CASE (EndGroups(w) \/ Wipe(w)) /\ ~Stops(w)
  <2> DEFINE none == <<>>
             known == {p \in Paths : manifest[p] # None}
             phase == IF worker[w].removed = {} THEN "settle" ELSE "remove"
             r1 == [worker[w] EXCEPT !.swept = worker[w].removed, !.known = none,
                                     !.left = {}, !.phase = phase]
             r2 == [worker[w] EXCEPT !.phase = "unname", !.swept = known]
  <2>1. phase \in Inner
    BY <1>4
  <2>2. r1.phase \in Inner /\ r1.fence = worker[w].fence
    <3> HIDE DEF phase, none
    <3>1. QED
      BY <1>2, <2>1 DEF Jobs
  <2>3. r2.phase \in Inner /\ r2.fence = worker[w].fence
    <3> HIDE DEF known
    <3>1. QED
      BY <1>2, <1>4 DEF Jobs
  <2>4. Set(w, r1) \/ Set(w, r2)
    BY <1>14 DEF EndGroups, Wipe
  <2> HIDE DEF r1, r2
  <2>5. QED
    BY <1>1, <1>2, <1>3, <2>2, <2>3, <2>4, SetSteps
<1>15. QED
  BY <1>5, <1>6, <1>7, <1>8, <1>9, <1>10, <1>11, <1>12, <1>13, <1>14 DEF InnerRun

\* Fences tell runs apart, and the run that holds the claim has its fence on the
\* record from the moment it marked it: nobody is about to mark it again.
Held ==
  /\ \A w \in Workers : worker[w].phase \in {"idle", "claim"} <=> worker[w].fence = 0
  /\ \A w, v \in Workers :
       w # v /\ worker[w].fence # 0 => worker[w].fence # worker[v].fence
  /\ \A w \in Workers : worker[w].phase = "mark" => claim = worker[w].fence
  /\ \A w \in Workers : Working(w) => record.fence = worker[w].fence

\* A step that takes no claim.
LEMMA HeldAfter ==
  ASSUME Typed, Held, NEW w \in Workers,
         \A v \in Workers : v # w => worker'[v] = worker[v],
         \/ worker'[w].phase \in {"idle", "claim"} /\ worker'[w].fence = 0
         \/ /\ worker[w].phase \notin {"idle", "claim"} /\ worker'[w].fence = worker[w].fence
            /\ worker'[w].phase \notin {"idle", "claim", "mark"}
            /\ worker[w].phase = "graph" => worker'[w].phase = "graph"
            /\ worker[w].phase = "mark" => record'.fence = worker[w].fence,
         claim' \in {claim, Freed(w)},
         record'.fence = record.fence
           \/ (worker[w].phase = "mark" /\ record'.fence = worker[w].fence)
  PROVE  Held'
<1>1. \A v \in Workers : worker'[v].phase \in {"idle", "claim"} <=> worker'[v].fence = 0
  BY DEF Held
<1>2. \A u, v \in Workers :
        u # v /\ worker'[u].fence # 0 => worker'[u].fence # worker'[v].fence
  BY DEF Held
<1>3. \A v \in Workers : worker'[v].phase = "mark" => claim' = worker'[v].fence
  <2> SUFFICES ASSUME NEW v \in Workers, worker'[v].phase = "mark"
               PROVE  claim' = worker'[v].fence
    OBVIOUS
  <2>1. v # w /\ worker'[v] = worker[v] /\ claim = worker[v].fence /\ worker[v].fence # 0
    BY DEF Held
  <2>2. claim # worker[w].fence
    BY <2>1 DEF Held
  <2>3. QED
    BY <2>1, <2>2 DEF Freed
<1>4. ASSUME NEW v \in Workers, Working(v)'
      PROVE  record'.fence = worker'[v].fence
  <2>1. worker'[v].phase \notin {"idle", "claim", "mark", "graph"}
        /\ worker'[v].fence = claim' /\ claim' # 0
    BY <1>1, <1>4 DEF Working
  <2>2. claim' = claim
    BY <2>1 DEF Freed
  <2>3. CASE v = w /\ worker[w].phase = "mark"
    BY <2>1, <2>3
  <2>4. CASE v = w /\ worker[w].phase # "mark"
    BY <2>1, <2>2, <2>4 DEF Held, Working
  <2>5. CASE v # w
    <3>1. Working(v) /\ record.fence = worker[v].fence /\ worker'[v] = worker[v]
      BY <2>1, <2>2, <2>5 DEF Held, Working
    <3>2. worker[w].phase # "mark"
      BY <2>1, <2>2, <2>5, <3>1 DEF Held
    <3>3. QED
      BY <3>1, <3>2
  <2>6. QED
    BY <2>3, <2>4, <2>5
<1>5. QED
  BY <1>1, <1>2, <1>3, <1>4 DEF Held

\* What the other steps of a run do.
LEMMA StartSteps ==
  ASSUME Typed, NEW w \in Workers, Request(w) \/ Reset(w)
  PROVE  /\ \A v \in Workers : v # w => worker'[v] = worker[v]
         /\ worker'[w].phase = "claim" /\ worker'[w].fence = 0
         /\ UNCHANGED <<record, claim>>
<1>1. PICK r : Set(w, r) /\ r.phase = "claim" /\ r.fence = 0
  <2>1. CASE Request(w)
    <3>1. PICK t \in Target, sub \in {"fetched", "missing", "denied"} :
             Set(w, Start("index", t, sub))
      BY <2>1 DEF Request
    <3>2. /\ Start("index", t, sub).phase = "claim"
          /\ Start("index", t, sub).fence = 0
      BY DEF Start
    <3>3. QED
      BY <3>1, <3>2
  <2>2. CASE Reset(w)
    <3>1. /\ Start("reset", None, "fetched").phase = "claim"
          /\ Start("reset", None, "fetched").fence = 0
      BY DEF Start
    <3>2. QED
      BY <2>2, <3>1 DEF Reset
  <2>3. QED
    BY <2>1, <2>2
<1>2. UNCHANGED <<record, claim>>
  BY DEF Request, Reset, stores
<1>3. QED
  BY <1>1, <1>2 DEF Typed, Set

LEMMA StopSteps ==
  ASSUME Typed, NEW w \in Workers, Requeue(w) \/ SyncGraph(w) \/ Crash(w)
  PROVE  /\ \A v \in Workers : v # w => worker'[v] = worker[v]
         /\ worker'[w] = Idle /\ UNCHANGED <<record, claim>>
  BY DEF Typed, Set, Stops, Requeue, SyncGraph, Crash, stores

LEMMA ClaimSteps ==
  ASSUME Typed, NEW w \in Workers, Claim(w)
  PROVE  /\ \A v \in Workers : v # w => worker'[v] = worker[v]
         /\ claim = 0 /\ claim' = claims + 1
         /\ \/ worker'[w] = Idle
            \/ worker'[w].phase = "mark" /\ worker'[w].fence = claims + 1
         /\ UNCHANGED record
<1> DEFINE r == [worker[w] EXCEPT !.phase = "mark", !.fence = claims + 1]
<1>1. worker[w] \in Jobs
  BY Busy DEF Claim, At_
<1>2. r.phase = "mark" /\ r.fence = claims + 1
  <2> DEFINE n == claims + 1
  <2> HIDE DEF n
  <2>1. /\ [worker[w] EXCEPT !.phase = "mark", !.fence = n].phase = "mark"
        /\ [worker[w] EXCEPT !.phase = "mark", !.fence = n].fence = n
    BY <1>1 DEF Jobs
  <2>2. QED
    BY <2>1 DEF n
<1>3. Set(w, r) \/ Set(w, Idle)
  BY DEF Claim, Stops
<1>4. claim = 0 /\ claim' = claims + 1 /\ UNCHANGED record
  BY DEF Claim
<1> HIDE DEF r
<1>5. /\ \A v \in Workers : v # w => worker'[v] = worker[v]
      /\ worker'[w] = Idle
          \/ (worker'[w].phase = "mark" /\ worker'[w].fence = claims + 1)
  BY <1>2, <1>3 DEF Typed, Set
<1>6. QED
  BY <1>4, <1>5

LEMMA MarkSteps ==
  ASSUME Typed, NEW w \in Workers, MarkIndexing(w)
  PROVE  /\ \A v \in Workers : v # w => worker'[v] = worker[v]
         /\ worker[w].phase = "mark" /\ UNCHANGED claim
         /\ \/ /\ worker'[w] = Idle
               /\ record'.fence = record.fence \/ record'.fence = worker[w].fence
            \/ /\ worker'[w].phase \in Inner /\ worker'[w].fence = worker[w].fence
               /\ record'.fence = worker[w].fence
<1> DEFINE phase == IF worker[w].job = "reset" THEN "wipe" ELSE "begin"
           r == [worker[w] EXCEPT !.phase = phase]
           marked == [record EXCEPT !.state = "indexing", !.fence = worker[w].fence]
<1>1. worker[w] \in Jobs
  BY Busy DEF MarkIndexing, At_
<1>2. r.phase \in Inner /\ r.fence = worker[w].fence
  <2>1. phase \in Inner
    BY DEF Inner, Phases
  <2> HIDE DEF phase
  <2>2. QED
    BY <1>1, <2>1 DEF Jobs
<1>3. marked.fence = worker[w].fence
  BY Kept DEF Records
<1>4. \/ Set(w, r) /\ record' = marked
      \/ Set(w, Idle) /\ record' \in {record, marked}
  BY DEF MarkIndexing, Go, Stops
<1>5. worker[w].phase = "mark" /\ UNCHANGED claim
  BY DEF MarkIndexing, At_
<1> HIDE DEF r, marked
<1>6. QED
  BY <1>2, <1>3, <1>4, <1>5 DEF Typed, Set

LEMMA SettleSteps ==
  ASSUME Typed, NEW w \in Workers, Settle(w) \/ RecountFails(w)
  PROVE  /\ \A v \in Workers : v # w => worker'[v] = worker[v]
         /\ worker[w].phase = "settle" /\ UNCHANGED claim
         /\ worker'[w] = Idle
              \/ (worker'[w].phase = "drop" /\ worker'[w].fence = worker[w].fence)
         /\ record' = record \/ record.fence = worker[w].fence
         /\ record'.fence = record.fence
<1> DEFINE r(failed) == [worker[w] EXCEPT !.phase = "drop", !.failed = failed]
<1>1. worker[w] \in Jobs /\ Wants(worker[w])
  BY Busy DEF Settle, RecountFails, At_
<1>2. \A failed : r(failed).phase = "drop" /\ r(failed).fence = worker[w].fence
  BY <1>1 DEF Jobs
<1>3. Stops(w) \/ \E failed : Set(w, r(failed))
  BY DEF Settle, RecountFails
<1>4. /\ worker[w].phase = "settle" /\ UNCHANGED claim
      /\ record' = record \/ record.fence = worker[w].fence
  BY DEF Settle, RecountFails, At_
<1>5. record'.fence = record.fence
  <2>1. \A s \in Settlements(w) : s[1].fence = record.fence
    BY <1>1, SettlementRecords
  <2>2. GaveUp(w, TRUE, FALSE).fence = record.fence
    BY <1>1, GaveUpRecord
  <2>3. QED
    BY <2>1, <2>2 DEF Settle, RecountFails
<1> HIDE DEF r
<1>6. QED
  BY <1>2, <1>3, <1>4, <1>5 DEF Typed, Set, Stops

LEMMA DropSteps ==
  ASSUME Typed, NEW w \in Workers, DropClaim(w)
  PROVE  /\ \A v \in Workers : v # w => worker'[v] = worker[v]
         /\ worker[w].phase = "drop" /\ claim' \in {claim, Freed(w)} /\ UNCHANGED record
         /\ worker'[w] = Idle
              \/ (worker'[w].phase = "graph" /\ worker'[w].fence = worker[w].fence)
<1> DEFINE r == [worker[w] EXCEPT !.phase = "graph"]
<1>1. worker[w] \in Jobs
  BY Busy DEF DropClaim, At_
<1>2. r.phase = "graph" /\ r.fence = worker[w].fence
  BY <1>1 DEF Jobs
<1>3. Set(w, r) \/ Set(w, Idle)
  BY DEF DropClaim, Go, Stops
<1>4. worker[w].phase = "drop" /\ claim' \in {claim, Freed(w)} /\ UNCHANGED record
  BY DEF DropClaim, At_
<1> HIDE DEF r
<1>5. QED
  BY <1>2, <1>3, <1>4 DEF Typed, Set

LEMMA RunCases ==
  ASSUME Next
  PROVE  \/ ClaimExpires
         \/ \E w \in Workers :
              \/ Request(w) \/ Reset(w)
              \/ Requeue(w) \/ SyncGraph(w) \/ Crash(w)
              \/ Claim(w) \/ MarkIndexing(w) \/ InnerRun(w)
              \/ Settle(w) \/ RecountFails(w) \/ DropClaim(w)
  BY DEF Next, Run, InnerRun

LEMMA HeldStep == Typed /\ Held /\ [Next]_vars => Held'
<1> SUFFICES ASSUME Typed, Held, [Next]_vars PROVE Held'
  OBVIOUS
<1>1. CASE UNCHANGED vars
  BY <1>1 DEF Held, Working, vars
<1>2. CASE ClaimExpires
  <2>1. UNCHANGED <<worker, record>> /\ claim # 0 /\ claim' = 0
        /\ \A w \in Workers : worker[w].fence = claim => worker[w].phase # "mark"
    BY <1>2 DEF ClaimExpires, At_
  <2>2. \A w \in Workers : ~Working(w)'
    BY <2>1 DEF Held, Working
  <2>3. \A w \in Workers : worker'[w].phase # "mark"
    BY <2>1 DEF Held
  <2>4. QED
    BY <2>1, <2>2, <2>3 DEF Held
<1>3. ASSUME NEW w \in Workers, Request(w) \/ Reset(w)
      PROVE  Held'
  BY <1>3, StartSteps, HeldAfter
<1>4. ASSUME NEW w \in Workers, Requeue(w) \/ SyncGraph(w) \/ Crash(w)
      PROVE  Held'
  BY <1>4, StopSteps, HeldAfter DEF Idle
<1>5. ASSUME NEW w \in Workers, Claim(w)
      PROVE  Held'
  <2>1. /\ \A v \in Workers : v # w => worker'[v] = worker[v]
        /\ claim = 0 /\ claim' = claims + 1
        /\ \/ worker'[w].phase = "idle" /\ worker'[w].fence = 0
           \/ worker'[w].phase = "mark" /\ worker'[w].fence = claims + 1
        /\ UNCHANGED record
    BY <1>5, ClaimSteps DEF Idle
  <2>2. claims + 1 # 0 /\ \A v \in Workers : worker[v].fence # claims + 1
    BY DEF Typed
  <2>3. \A v \in Workers : worker[v].phase # "mark"
    BY <2>1 DEF Held
  <2> DEFINE n == claims + 1
  <2>4. n # 0 /\ (\A v \in Workers : worker[v].fence # n) /\ claim' = n
    BY <2>1, <2>2
  <2>5. \/ worker'[w].phase = "idle" /\ worker'[w].fence = 0
        \/ worker'[w].phase = "mark" /\ worker'[w].fence = n
    BY <2>1
  <2> HIDE DEF n
  <2>6. \A v \in Workers : worker'[v].phase \in {"idle", "claim"} <=> worker'[v].fence = 0
    BY <2>1, <2>4, <2>5 DEF Held
  <2>7. \A u, v \in Workers :
          u # v /\ worker'[u].fence # 0 => worker'[u].fence # worker'[v].fence
    BY <2>1, <2>4, <2>5 DEF Held
  <2>8. \A v \in Workers : worker'[v].phase = "mark" => claim' = worker'[v].fence
    BY <2>1, <2>3, <2>4, <2>5
  <2>9. \A v \in Workers : ~Working(v)'
    BY <2>1, <2>4, <2>5 DEF Working
  <2>10. QED
    BY <2>6, <2>7, <2>8, <2>9 DEF Held
<1>6. ASSUME NEW w \in Workers, MarkIndexing(w)
      PROVE  Held'
  BY <1>6, MarkSteps, HeldAfter DEF Idle, Inner
<1>7. ASSUME NEW w \in Workers, InnerRun(w)
      PROVE  Held'
  BY <1>7, InnerSteps, HeldAfter DEF Idle, Inner, Steps
<1>8. ASSUME NEW w \in Workers, Settle(w) \/ RecountFails(w)
      PROVE  Held'
  BY <1>8, SettleSteps, HeldAfter DEF Idle
<1>9. ASSUME NEW w \in Workers, DropClaim(w)
      PROVE  Held'
  BY <1>9, DropSteps, HeldAfter DEF Idle
<1>10. CASE Next
  BY <1>2, <1>3, <1>4, <1>5, <1>6, <1>7, <1>8, <1>9, <1>10, RunCases
<1>11. QED
  BY <1>1, <1>10

LEMMA HeldInit == Init => Held
  BY DEF Init, Held, Idle, Working

\* A run that outlived its claim neither settles the record of a newer one nor
\* frees its claim: the record and the claim move only by the run whose fence
\* they carry (indexer/mongo.rs, the fenced updates).
THEOREM NewerIsUntouched == Spec => NewerClaimUntouched
<1> DEFINE Alone ==
      \A w \in Workers :
        Working(w) /\ worker'[w] = worker[w] /\ worker' # worker
          => record' = record /\ claim' = claim
<1>1. Typed /\ Held /\ [Next]_vars => [Alone]_vars
  <2> SUFFICES ASSUME Typed, Held, [Next]_vars,
                      NEW w \in Workers, Working(w), worker'[w] = worker[w],
                      worker' # worker
               PROVE  record' = record /\ claim' = claim
    OBVIOUS
  <2>1. Next
    BY DEF vars
  <2>2. ~ClaimExpires
    BY DEF ClaimExpires
  <2>3. PICK v \in Workers :
           \/ Request(v) \/ Reset(v)
           \/ Requeue(v) \/ SyncGraph(v) \/ Crash(v)
           \/ Claim(v) \/ MarkIndexing(v) \/ InnerRun(v)
           \/ Settle(v) \/ RecountFails(v) \/ DropClaim(v)
    BY <2>1, <2>2, RunCases
  <2>4. /\ worker[w].fence = claim /\ claim # 0
        /\ record.fence = claim
    BY DEF Held, Working
  <2>5. \A u \in Workers : u # w => worker[u].fence # claim
    BY <2>4 DEF Held
  <2>6. CASE Request(v) \/ Reset(v)
    BY <2>6, StartSteps
  <2>7. CASE Requeue(v) \/ SyncGraph(v) \/ Crash(v)
    BY <2>7, StopSteps
  <2>8. CASE Claim(v)
    BY <2>4, <2>8, ClaimSteps
  <2>9. CASE MarkIndexing(v)
    <3>1. worker[v].phase = "mark"
      BY <2>9, MarkSteps
    <3>2. v # w /\ claim = worker[v].fence
      BY <3>1 DEF Held, Working
    <3>3. QED
      BY <2>5, <3>2
  <2>10. CASE InnerRun(v)
    BY <2>10, InnerSteps
  <2>11. CASE Settle(v) \/ RecountFails(v)
    <3>1. v = w => worker'[w] # worker[w]
      BY <2>4, <2>11, SettleSteps DEF Idle
    <3>2. QED
      BY <2>4, <2>5, <2>11, <3>1, SettleSteps
  <2>12. CASE DropClaim(v)
    <3>1. v = w => worker'[w] # worker[w]
      BY <2>4, <2>12, DropSteps DEF Idle
    <3>2. QED
      BY <2>4, <2>5, <2>12, <3>1, DropSteps DEF Freed
  <2>13. QED
    BY <2>3, <2>6, <2>7, <2>8, <2>9, <2>10, <2>11, <2>12
<1>2. QED
  BY <1>1, TypedInit, TypedStep, HeldInit, HeldStep, PTL DEF Spec, NewerClaimUntouched

-----------------------------------------------------------------------------
(* No row without a name                                                   *)

\* Where runs do not outlive their claims, a run inside holds the claim, so
\* there is one at most.
Sole == \A w \in Workers : worker[w].phase \in Inner \cup {"mark"} => worker[w].fence = claim

LEMMA SoleStep ==
  ASSUME ~Outlives, Typed, Held, Sole, [Next]_vars
  PROVE  Sole'
<1>1. CASE UNCHANGED vars
  BY <1>1 DEF Sole, vars
<1>2. CASE ClaimExpires
  <2>1. /\ UNCHANGED worker
        /\ \A w \in Workers : worker[w].fence # claim
    BY <1>2 DEF ClaimExpires
  <2>2. QED
    BY <2>1 DEF Sole
<1>3. ASSUME NEW w \in Workers,
             \A v \in Workers : v # w => worker'[v] = worker[v],
             worker'[w].phase \in {"idle", "claim", "graph"}
               \/ (worker[w].phase \in Inner \cup {"mark"} /\ worker'[w].fence = worker[w].fence),
             claim' = claim
      PROVE  Sole'
  BY <1>3 DEF Sole, Inner
<1>4. ASSUME NEW w \in Workers, Request(w) \/ Reset(w)
      PROVE  Sole'
  BY <1>4, <1>3, StartSteps
<1>5. ASSUME NEW w \in Workers, Requeue(w) \/ SyncGraph(w) \/ Crash(w)
      PROVE  Sole'
  BY <1>5, <1>3, StopSteps DEF Idle
<1>6. ASSUME NEW w \in Workers, Claim(w)
      PROVE  Sole'
  <2>1. /\ \A v \in Workers : v # w => worker'[v] = worker[v]
        /\ claim = 0
        /\ \/ worker'[w].phase = "idle"
           \/ worker'[w].phase = "mark" /\ worker'[w].fence = claim'
    BY <1>6, ClaimSteps DEF Idle
  <2>2. \A v \in Workers : worker[v].phase \notin Inner \cup {"mark"}
    BY <2>1 DEF Sole, Held, Inner
  <2>3. QED
    BY <2>1, <2>2 DEF Sole, Inner
<1>7. ASSUME NEW w \in Workers, MarkIndexing(w)
      PROVE  Sole'
  BY <1>7, <1>3, MarkSteps DEF Idle
<1>8. ASSUME NEW w \in Workers, InnerRun(w)
      PROVE  Sole'
  BY <1>8, <1>3, InnerSteps DEF Idle, Steps
<1>9. ASSUME NEW w \in Workers, Settle(w) \/ RecountFails(w)
      PROVE  Sole'
  <2>1. "settle" \in Inner
    BY DEF Inner, Phases
  <2>2. QED
    BY <1>9, <2>1, <1>3, SettleSteps DEF Idle
<1>10. ASSUME NEW w \in Workers, DropClaim(w)
       PROVE  Sole'
  <2>1. /\ \A v \in Workers : v # w => worker'[v] = worker[v]
        /\ worker[w].phase = "drop" /\ claim' \in {claim, Freed(w)}
        /\ worker'[w].phase \in {"idle", "graph"}
    BY <1>10, DropSteps DEF Idle
  <2>2. worker[w].fence = claim /\ worker[w].fence # 0
    BY <2>1 DEF Sole, Held, Inner, Phases
  <2>3. \A v \in Workers : v # w => worker[v].phase \notin Inner \cup {"mark"}
    BY <2>2 DEF Sole, Held
  <2>4. QED
    BY <2>1, <2>3 DEF Sole, Inner
<1>11. CASE Next
  BY <1>2, <1>4, <1>5, <1>6, <1>7, <1>8, <1>9, <1>10, <1>11, RunCases
<1>12. QED
  BY <1>1, <1>11

\* What the manifest says of the files in hand, and what is left in the store,
\* phase by phase.
Planned(w) ==
  LET files == worker[w].files
      phase == worker[w].phase
  IN /\ phase = "intent" =>
          \A p \in Group(w) :
            manifest[p] = IF p \in files THEN worker[w].known[p] ELSE Intent(w, p)
     /\ phase \in {"relocate", "embed", "orphans"} =>
          \A p \in Group(w) : manifest[p] = Intent(w, p)
     /\ phase = "embed" => worker[w].left \subseteq UNION {ToEmbed(w, p) : p \in Group(w)}
     /\ phase = "confirm" =>
          /\ files \subseteq Finished(w)
          /\ \A p \in Finished(w) :
               /\ manifest[p] = IF p \in files THEN Intent(w, p) ELSE Confirmation(w, p)
               /\ \A i \in rows : i[1] = p => i \notin Orphans(w, p)
     /\ phase \in {"stale", "finalize"} =>
          /\ files \subseteq Finished(w)
          /\ \A p \in files : manifest[p] = Confirmation(w, p)
     /\ phase = "finalize" =>
          \A p \in files : \A i \in rows : i[1] = p => i \notin Stale(w, p)
     /\ phase \in {"forget", "unname"} => \A i \in rows : i[1] \notin worker[w].swept

Unplanned == {"idle", "claim", "mark", "begin", "revoke", "revoke sweep", "group",
              "remove", "remove sweep", "wipe", "settle", "drop", "graph"}
LEMMA NothingPlanned ==
  ASSUME NEW w \in Workers, worker[w].phase \in Unplanned
  PROVE  Planned(w)
  BY DEF Planned, Unplanned

\* The plan is the same while the worker keeps its commit and what it read.
LEMMA SamePlan ==
  ASSUME NEW w \in Workers, worker'[w].want = worker[w].want,
         worker'[w].known = worker[w].known
  PROVE  /\ Group(w)' = Group(w)
         /\ \A p \in Group(w) :
              /\ New(w, p)' = New(w, p) /\ Prev(w, p)' = Prev(w, p)
              /\ Stale(w, p)' = Stale(w, p) /\ Orphans(w, p)' = Orphans(w, p)
              /\ ToEmbed(w, p)' = ToEmbed(w, p)
              /\ Intent(w, p)' = Intent(w, p)
              /\ Confirmation(w, p)' = Confirmation(w, p)
         /\ worker'[w].left = worker[w].left => Finished(w)' = Finished(w)
<1>1. Group(w)' = Group(w)
  BY DEF Group
<1>2. \A p \in Group(w) : New(w, p)' = New(w, p) /\ Prev(w, p)' = Prev(w, p)
  BY DEF New, Prev
<1>3. \A p \in Group(w) : Stale(w, p)' = Stale(w, p)
  BY <1>2 DEF Stale
<1>4. \A p \in Group(w) : Orphans(w, p)' = Orphans(w, p)
  BY <1>2, <1>3 DEF Orphans
<1>5. \A p \in Group(w) : ToEmbed(w, p)' = ToEmbed(w, p)
  BY <1>2 DEF ToEmbed, ToRelocate, SameText
<1>6. \A p \in Group(w) : Intent(w, p)' = Intent(w, p) /\ Confirmation(w, p)' = Confirmation(w, p)
  BY <1>2, <1>3, <1>4 DEF Intent, Confirmation
<1>7. worker'[w].left = worker[w].left => Finished(w)' = Finished(w)
  BY <1>1, <1>5 DEF Finished
<1>8. QED
  BY <1>1, <1>2, <1>3, <1>4, <1>5, <1>6, <1>7

\* What each entry still names.
LEMMA Names ==
  ASSUME NEW w \in Workers, worker[w] \in Jobs, worker[w].want \in Target, NEW p \in Group(w)
  PROVE  /\ Named(worker[w].known[p]) \subseteq Named(Intent(w, p))
         /\ New(w, p) \subseteq Named(Intent(w, p))
         /\ Named(Intent(w, p)) \subseteq Named(Confirmation(w, p)) \cup Orphans(w, p)
         /\ Named(Confirmation(w, p)) \subseteq Named(Finalized(w, p)) \cup Stale(w, p)
         /\ \A i \in New(w, p) : i[1] = p
<1>1. /\ Intent(w, p) # None /\ Confirmation(w, p) # None /\ Finalized(w, p) # None
      /\ worker[w].known[p] \in Entry \cup {None}
  BY PlanEntries, PlanIds, IndexAssumption
<1>2. /\ Named(Intent(w, p)) = Prev(w, p) \cup New(w, p) \cup Stale(w, p) \cup Orphans(w, p)
      /\ Named(Confirmation(w, p)) = New(w, p) \cup Stale(w, p)
      /\ Named(Finalized(w, p)) = New(w, p)
  BY <1>1 DEF Named, Intent, Confirmation, Finalized, Confirmed
<1>3. Prev(w, p) \subseteq New(w, p) \cup Stale(w, p)
  BY DEF Stale
<1>4. Named(worker[w].known[p]) \subseteq
        Prev(w, p) \cup New(w, p) \cup Stale(w, p) \cup Orphans(w, p)
  BY <1>1 DEF Named, Prev, Counted, Orphans, Entry
<1>5. \A i \in New(w, p) : i[1] = p
  BY DEF New, Ids
<1>6. QED
  BY <1>2, <1>3, <1>4, <1>5

\* What keeps every row named, by what a step does to the stores.
LEMMA NamedShrinks ==
  ASSUME NothingOrphaned, rows' \subseteq rows, manifest' = manifest
  PROVE  NothingOrphaned'
  BY DEF NothingOrphaned

LEMMA NamedGrows ==
  ASSUME NothingOrphaned, NEW ids, rows' \subseteq rows \cup ids, manifest' = manifest,
         \A i \in ids : i \in Named(manifest[i[1]])
  PROVE  NothingOrphaned'
  BY DEF NothingOrphaned

LEMMA NamedAgain ==
  ASSUME Typed, NothingOrphaned, rows' = rows, NEW p \in Paths, NEW entry,
         manifest' \in {manifest, [manifest EXCEPT ![p] = entry]},
         \A i \in rows : i[1] = p /\ i \in Named(manifest[p]) => i \in Named(entry)
  PROVE  NothingOrphaned'
<1>1. CASE manifest' = manifest
  BY <1>1, NamedShrinks
<1>2. CASE manifest' = [manifest EXCEPT ![p] = entry]
  <2> SUFFICES ASSUME NEW i \in rows PROVE i \in Named(manifest'[i[1]])
    BY DEF NothingOrphaned, Named
  <2>1. i \in Named(manifest[i[1]])
    BY DEF NothingOrphaned
  <2>2. manifest'[p] = entry /\ \A q \in Paths : q # p => manifest'[q] = manifest[q]
    BY <1>2, Kept
  <2>3. i[1] \in Paths
    BY Kept DEF Id
  <2>4. QED
    BY <2>1, <2>2, <2>3
<1>3. QED
  BY <1>1, <1>2

LEMMA NamedWithout ==
  ASSUME Typed, NothingOrphaned, rows' = rows, NEW ps \in SUBSET Paths,
         \A i \in rows : i[1] \notin ps, manifest' = Without(ps)
  PROVE  NothingOrphaned'
<1> SUFFICES ASSUME NEW i \in rows PROVE i \in Named(manifest'[i[1]])
  BY DEF NothingOrphaned, Named
<1>1. i[1] \in Paths /\ i[1] \notin ps
  BY Kept DEF Id
<1>2. manifest'[i[1]] = manifest[i[1]]
  BY <1>1 DEF Without
<1>3. QED
  BY <1>2 DEF NothingOrphaned

\* A run that goes where nothing is planned.
LEMMA PlanOver ==
  ASSUME NEW w \in Workers, worker'[w].phase \in Unplanned
  PROVE  Planned(w)'
  BY DEF Planned, Unplanned

LEMMA PlanFails ==
  ASSUME Typed, NEW w \in Workers, worker[w] \in Jobs, Fails(w) \/ Stops(w)
  PROVE  Planned(w)'
<1> DEFINE r == [worker[w] EXCEPT !.phase = "settle", !.failed = TRUE]
<1>1. r.phase = "settle" /\ Idle.phase = "idle"
  BY DEF Jobs, Idle
<1>2. Set(w, r) \/ Set(w, Idle)
  BY DEF Fails, Stops
<1> HIDE DEF r
<1>3. worker'[w].phase \in Unplanned
  BY <1>1, <1>2 DEF Typed, Set, Unplanned
<1>4. QED
  BY <1>3, PlanOver

LEMMA PlanGoes ==
  ASSUME Typed, NEW w \in Workers, worker[w] \in Jobs, NEW phase \in Unplanned, Go(w, phase)
  PROVE  Planned(w)'
<1> DEFINE r == [worker[w] EXCEPT !.phase = phase]
<1>1. r.phase = phase
  BY DEF Jobs
<1>2. Set(w, r)
  BY DEF Go
<1> HIDE DEF r
<1>3. worker'[w].phase \in Unplanned
  BY <1>1, <1>2 DEF Typed, Set
<1>4. QED
  BY <1>3, PlanOver

\* What the steps of a run must keep.
Keeps(w) == NothingOrphaned' /\ Planned(w)'

LEMMA KeepsElsewhere ==
  ASSUME Typed, NothingOrphaned, NEW w \in Workers, Planned(w),
         Begin(w) \/ EndGroups(w) \/ BudgetStop(w)
  PROVE  Keeps(w)
<1>1. worker[w] \in Jobs
  BY Busy DEF Begin, EndGroups, BudgetStop, At_
<1>2. NothingOrphaned'
  BY NamedShrinks DEF Begin, EndGroups, BudgetStop, stores
<1>3. CASE Begin(w)
  <2> DEFINE t == worker[w].want
             sub == worker[w].sub
             unseen == {p \in Paths : manifest[p] # None} \ Selected(t, sub)
             removed == IF sub = "missing" THEN unseen \ SubPaths ELSE unseen
             revoked == IF sub = "denied" THEN removed \cap SubPaths ELSE {}
             phase == IF revoked # {} THEN "revoke" ELSE "group"
             rebuild == record.revision = None \/ record.message
             recount == record.revision = None \/ record.uncertain
             todo == Selected(t, sub)
             r == [worker[w] EXCEPT
                     !.phase = phase, !.before = record.chunks, !.rebuild = rebuild,
                     !.recount = recount, !.todo = todo, !.removed = removed,
                     !.swept = revoked]
  <2>1. Set(w, r) \/ Fails(w)
    BY <1>3 DEF Begin
  <2>2. phase \in Unplanned
    BY DEF Unplanned
  <2>3. r.phase \in Unplanned
    <3> HIDE DEF phase, rebuild, recount, todo, removed, revoked
    <3>1. QED
      BY <1>1, <2>2 DEF Jobs
  <2> HIDE DEF r
  <2>4. Set(w, r) => Planned(w)'
    BY <2>3, PlanOver DEF Typed, Set
  <2>5. QED
    BY <1>1, <1>2, <2>1, <2>4, PlanFails DEF Keeps
<1>4. CASE EndGroups(w)
  <2> DEFINE none == <<>>
             phase == IF worker[w].removed = {} THEN "settle" ELSE "remove"
             r == [worker[w] EXCEPT !.swept = worker[w].removed, !.known = none,
                                    !.left = {}, !.phase = phase]
  <2>1. Set(w, r)
    BY <1>4 DEF EndGroups
  <2>2. phase \in Unplanned
    BY DEF Unplanned
  <2>3. r.phase \in Unplanned
    <3> HIDE DEF phase, none
    <3>1. QED
      BY <1>1, <2>2 DEF Jobs
  <2> HIDE DEF r
  <2>4. QED
    BY <1>2, <2>1, <2>3, PlanOver DEF Typed, Set, Keeps
<1>5. CASE BudgetStop(w)
  <2> DEFINE r == [worker[w] EXCEPT !.budget = TRUE, !.phase = "orphans"]
  <2>1. Set(w, r) /\ worker[w].phase = "embed" /\ UNCHANGED manifest
    BY <1>5 DEF BudgetStop, At_, stores
  <2>2. r.phase = "orphans" /\ r.want = worker[w].want /\ r.known = worker[w].known
    BY <1>1 DEF Jobs
  <2> HIDE DEF r
  <2>3. worker'[w] = r
    BY <2>1 DEF Typed, Set
  <2>4. \A p \in Group(w) : manifest[p] = Intent(w, p)
    BY <2>1 DEF Planned
  <2>5. /\ Group(w)' = Group(w)
        /\ \A p \in Group(w) : Intent(w, p)' = Intent(w, p)
    BY <2>2, <2>3, SamePlan
  <2>6. Planned(w)'
    BY <2>1, <2>2, <2>3, <2>4, <2>5 DEF Planned
  <2>7. QED
    BY <1>2, <2>6 DEF Keeps
<1>6. QED
  BY <1>3, <1>4, <1>5

\* Removals: the rows of the paths are gone before their entries are.
LEMMA KeepsSweeps ==
  ASSUME Typed, NothingOrphaned, NEW w \in Workers, Planned(w),
         RemoveCounted(w) \/ SweepPaths(w) \/ Forget(w) \/ Wipe(w) \/ Unname(w)
  PROVE  Keeps(w)
<1>1. worker[w] \in Jobs /\ worker[w].swept \in SUBSET Paths
  <2>1. worker[w] \in Jobs
    BY Busy DEF RemoveCounted, SweepPaths, Forget, Wipe, Unname, At_
  <2>2. QED
    BY <2>1 DEF Jobs
<1>2. CASE RemoveCounted(w)
  <2> DEFINE ids == UNION {Counted(manifest[p]) : p \in worker[w].swept}
  <2>1. PICK phase \in {"revoke sweep", "remove sweep"} : DeleteCounted(w, ids, phase)
    BY <1>2 DEF RemoveCounted
  <2>2. NothingOrphaned'
    BY <1>2, <2>1, NamedShrinks DEF RemoveCounted, DeleteCounted
  <2> DEFINE n == worker[w].del + Cardinality(ids \cap rows)
             r == [worker[w] EXCEPT !.phase = phase, !.del = n]
  <2>3. Set(w, r) \/ Fails(w)
    BY <2>1 DEF DeleteCounted
  <2>4. r.phase = phase
    <3> HIDE DEF n
    <3>1. QED
      BY <1>1 DEF Jobs
  <2> HIDE DEF r
  <2>5. Set(w, r) => Planned(w)'
    BY <2>4, PlanOver DEF Typed, Set, Unplanned
  <2>6. QED
    BY <1>1, <2>2, <2>3, <2>5, PlanFails DEF Keeps
<1>3. CASE SweepPaths(w)
  <2> DEFINE kept == {i \in rows : i[1] \notin worker[w].swept}
             next == IF At_(w, "revoke sweep") THEN "group" ELSE "forget"
  <2>1. NothingOrphaned'
    BY <1>3, NamedShrinks DEF SweepPaths
  <2>2. (rows' = kept /\ Go(w, next)) \/ Fails(w)
    BY <1>3 DEF SweepPaths
  <2> DEFINE r == [worker[w] EXCEPT !.phase = next]
  <2>3. r.phase = next /\ r.swept = worker[w].swept /\ next \in {"group", "forget"}
    BY <1>1 DEF Jobs
  <2>4. Go(w, next) => worker'[w] = r
    BY DEF Go, Set, Typed
  <2> HIDE DEF r, next
  <2>5. rows' = kept /\ Go(w, next) => Planned(w)'
    BY <2>3, <2>4 DEF Planned
  <2>6. QED
    BY <1>1, <2>1, <2>2, <2>5, PlanFails DEF Keeps
<1>4. CASE Forget(w) \/ Unname(w)
  <2>1. /\ rows' = rows /\ worker[w].phase \in {"forget", "unname"}
        /\ \E ps \in SUBSET worker[w].swept : manifest' = Without(ps)
        /\ Go(w, "settle") \/ Fails(w) \/ Stops(w)
    BY <1>4 DEF Forget, Unname, At_
  <2>2. PICK ps \in SUBSET worker[w].swept : manifest' = Without(ps)
    BY <2>1
  <2>3. ps \in SUBSET Paths /\ \A i \in rows : i[1] \notin ps
    BY <1>1, <2>1, <2>2 DEF Planned
  <2>6. NothingOrphaned'
    BY <2>1, <2>2, <2>3, NamedWithout
  <2>4. Planned(w)'
    BY <1>1, <2>1, PlanGoes, PlanFails DEF Unplanned
  <2>5. QED
    BY <2>6, <2>4 DEF Keeps
<1>5. CASE Wipe(w)
  <2> DEFINE known == {p \in Paths : manifest[p] # None}
             kept == {i \in rows : i[1] \notin known}
             r == [worker[w] EXCEPT !.phase = "unname", !.swept = known]
  <2>1. /\ (rows' = kept /\ Set(w, r)) \/ Stops(w)
        /\ rows' \subseteq rows /\ manifest' = manifest
    BY <1>5 DEF Wipe
  <2>2. r.phase = "unname" /\ r.swept = known
    <3> HIDE DEF known
    <3>1. QED
      BY <1>1 DEF Jobs
  <2>3. Set(w, r) => worker'[w] = r
    BY DEF Set, Typed
  <2> HIDE DEF r
  <2>4. rows' = kept /\ Set(w, r) => Planned(w)'
    BY <2>2, <2>3 DEF Planned
  <2>5. QED
    BY <1>1, <2>1, <2>4, PlanFails, NamedShrinks DEF Keeps
<1>6. QED
  BY <1>2, <1>3, <1>4, <1>5

\* What a step of the group in hand leaves as it is.
LEMMA PlanHolds ==
  ASSUME Typed, NEW w \in Workers, worker[w] \in Jobs, worker[w].phase \in Planning
  PROVE  /\ worker[w].want \in Target /\ worker[w].files \subseteq Group(w)
         /\ \A p \in Group(w) : p \in Paths
         /\ Finished(w) \subseteq Group(w)
  BY Busy, GroupFiles DEF Planning, Grouping, Wants, Group

LEMMA KeepsGroup ==
  ASSUME Typed, NothingOrphaned, NEW w \in Workers, Planned(w), NextGroup(w)
  PROVE  Keeps(w)
<1>1. worker[w] \in Jobs
  BY Busy DEF NextGroup, At_
<1>2. NothingOrphaned' /\ UNCHANGED manifest
  BY NamedShrinks DEF NextGroup, stores
<1>3. CASE Fails(w)
  BY <1>1, <1>2, <1>3, PlanFails DEF Keeps
<1>4. CASE ~Fails(w)
  <2>0. PICK phase \in {"group", "intent"} : \E todo, files, changed :
           Set(w, [worker[w] EXCEPT
                     !.phase = phase, !.todo = todo, !.known = [p \in files |-> manifest[p]],
                     !.files = files, !.changed = changed])
    BY <1>4, Zenon DEF NextGroup
  <2>1. PICK todo, files, changed :
           Set(w, [worker[w] EXCEPT
                     !.phase = phase, !.todo = todo, !.known = [p \in files |-> manifest[p]],
                     !.files = files, !.changed = changed])
    BY <2>0
  <2> DEFINE known == [p \in files |-> manifest[p]]
             r == [worker[w] EXCEPT
                     !.phase = phase, !.todo = todo, !.known = known,
                     !.files = files, !.changed = changed]
  <2>2. Set(w, r)
    BY <2>1
  <2>3. r.phase = phase /\ r.known = known /\ r.files = files
    <3> HIDE DEF known
    <3>1. QED
      BY <1>1 DEF Jobs
  <2> HIDE DEF r
  <2>4. worker'[w] = r
    BY <2>2 DEF Typed, Set
  <2>5. \A p \in Group(w)' : p \in files /\ manifest[p] = worker'[w].known[p]
    BY <2>3, <2>4 DEF Group
  <2>6. Planned(w)'
    BY <1>2, <2>3, <2>4, <2>5 DEF Planned
  <2>7. QED
    BY <1>2, <2>6 DEF Keeps
<1>5. QED
  BY <1>3, <1>4

\* A row of the manifest is written: what the worker becomes.
LEMMA RecordSteps ==
  ASSUME Typed, NEW w \in Workers, worker[w] \in Jobs, NEW p, NEW entry, NEW phase,
         Record(w, p, entry, phase)
  PROVE  LET rest == worker[w].files \ {p}
         IN /\ worker'[w].files = rest
            /\ worker'[w].phase = IF rest = {} THEN phase ELSE worker[w].phase
            /\ worker'[w].want = worker[w].want /\ worker'[w].known = worker[w].known
            /\ worker'[w].left = worker[w].left
<1> DEFINE rest == worker[w].files \ {p}
           next == IF rest = {} THEN phase ELSE worker[w].phase
           r == [worker[w] EXCEPT !.files = rest, !.phase = next]
<1>1. Set(w, r)
  BY DEF Record
<1>2. /\ r.files = rest /\ r.phase = next /\ r.want = worker[w].want
      /\ r.known = worker[w].known /\ r.left = worker[w].left
  <2> HIDE DEF rest, next
  <2>1. QED
    BY DEF Jobs
<1> HIDE DEF r
<1>3. worker'[w] = r
  BY <1>1 DEF Typed, Set
<1>4. QED
  BY <1>2, <1>3

LEMMA KeepsIntent ==
  ASSUME Typed, NothingOrphaned, NEW w \in Workers, Planned(w), RecordIntent(w)
  PROVE  Keeps(w)
<1>1. worker[w] \in Jobs /\ worker[w].phase = "intent"
  BY Busy DEF RecordIntent, At_
<1>2. /\ worker[w].want \in Target /\ worker[w].files \subseteq Group(w)
      /\ \A p \in Group(w) : p \in Paths
  BY <1>1, PlanHolds DEF Planning
<1>3. PICK p \in worker[w].files :
         \/ Record(w, p, Intent(w, p), "relocate")
         \/ RecordFails(p, Intent(w, p)) /\ Fails(w)
  BY DEF RecordIntent
<1>4. rows' = rows /\ p \in Group(w) /\ p \in Paths /\ manifest[p] = worker[w].known[p]
  BY <1>1, <1>2 DEF RecordIntent, Planned
<1>5. manifest' \in {manifest, [manifest EXCEPT ![p] = Intent(w, p)]}
  BY <1>3 DEF Record, RecordFails
<1>6. NothingOrphaned'
  <2>1. Named(manifest[p]) \subseteq Named(Intent(w, p))
    BY <1>1, <1>2, <1>4, Names
  <2>2. \A i \in rows : i[1] = p /\ i \in Named(manifest[p]) => i \in Named(Intent(w, p))
    BY <2>1
  <2>3. QED
    BY <1>4, <1>5, <2>2, NamedAgain
<1>7. CASE Record(w, p, Intent(w, p), "relocate")
  <2> DEFINE rest == worker[w].files \ {p}
  <2>1. /\ worker'[w].files = rest
        /\ worker'[w].phase = IF rest = {} THEN "relocate" ELSE "intent"
        /\ worker'[w].want = worker[w].want /\ worker'[w].known = worker[w].known
    BY <1>1, <1>7, RecordSteps
  <2>2. /\ manifest'[p] = Intent(w, p)
        /\ \A q \in Paths : q # p => manifest'[q] = manifest[q]
    BY <1>4, <1>7, Kept DEF Record
  <2>3. \A q \in Group(w) :
          manifest[q] = IF q \in worker[w].files THEN worker[w].known[q] ELSE Intent(w, q)
    BY <1>1 DEF Planned
  <2>4. \A q \in Group(w) :
          manifest'[q] = IF q \in rest THEN worker[w].known[q] ELSE Intent(w, q)
    BY <1>2, <2>2, <2>3
  <2>5. Group(w)' = Group(w) /\ \A q \in Group(w) : Intent(w, q)' = Intent(w, q)
    BY <2>1, SamePlan
  <2> HIDE DEF rest
  <2>6. Planned(w)'
    <3>1. CASE rest = {}
      BY <2>1, <2>4, <2>5, <3>1 DEF Planned
    <3>2. CASE rest # {}
      BY <2>1, <2>4, <2>5, <3>2 DEF Planned
    <3>3. QED
      BY <3>1, <3>2
  <2>7. QED
    BY <1>6, <2>6 DEF Keeps
<1>8. QED
  BY <1>1, <1>3, <1>6, <1>7, PlanFails DEF Keeps

\* Every id the group wants is named by its intent.
LEMMA WantedIsNamed ==
  ASSUME NEW w \in Workers, worker[w] \in Jobs, worker[w].want \in Target,
         \A p \in Group(w) : manifest[p] = Intent(w, p),
         NEW p \in Group(w), NEW i \in New(w, p)
  PROVE  i \in Named(manifest[i[1]])
  BY Names

LEMMA KeepsRows ==
  ASSUME Typed, NothingOrphaned, NEW w \in Workers, Planned(w),
         Relocate(w) \/ EmbedBatch(w)
  PROVE  Keeps(w)
<1>1. worker[w] \in Jobs /\ worker[w].phase \in {"relocate", "embed"}
  BY Busy DEF Relocate, EmbedBatch, At_
<1>2. /\ worker[w].want \in Target /\ UNCHANGED manifest
      /\ \A p \in Group(w) : manifest[p] = Intent(w, p)
  BY <1>1, PlanHolds DEF Planning, Planned, Relocate, EmbedBatch
<1> DEFINE all == UNION {ToEmbed(w, p) : p \in Group(w)}
<1>3. ASSUME NEW phase \in {"orphans", "embed"}, NEW left \in SUBSET all,
             Set(w, [worker[w] EXCEPT !.left = left, !.phase = phase])
      PROVE  Planned(w)'
  <2> DEFINE r == [worker[w] EXCEPT !.left = left, !.phase = phase]
  <2>1. /\ r.left = left /\ r.phase = phase /\ r.want = worker[w].want
        /\ r.known = worker[w].known
    BY <1>1 DEF Jobs
  <2>2. Set(w, r)
    BY <1>3
  <2> HIDE DEF r
  <2>3. worker'[w] = r
    BY <2>2 DEF Typed, Set
  <2>4. /\ Group(w)' = Group(w)
        /\ \A p \in Group(w) : Intent(w, p)' = Intent(w, p) /\ ToEmbed(w, p)' = ToEmbed(w, p)
    BY <2>1, <2>3, SamePlan
  <2>5. all' = all
    BY <2>4
  <2>6. worker'[w].left \subseteq all'
    BY <2>1, <2>3, <2>5
  <2> HIDE DEF all
  <2>7. /\ \A p \in Group(w)' : manifest'[p] = Intent(w, p)'
        /\ worker'[w].phase \in {"orphans", "embed"}
    BY <1>2, <2>1, <2>3, <2>4
  <2>8. QED
    BY <2>6, <2>7 DEF Planned, all
<1>4. CASE Relocate(w)
  <2> DEFINE found == Copied(Moves(w))
  <2>1. found \subseteq UNION {ToRelocate(w, p) : p \in Group(w)}
    BY DEF Copied, Moves
  <2>2. \A i \in found : i \in Named(manifest[i[1]])
    BY <1>1, <1>2, <2>1, WantedIsNamed DEF ToRelocate
  <2>3. rows' \subseteq rows \cup found
    BY <1>4 DEF Relocate
  <2>4. Fails(w) \/ Set(w, [worker[w] EXCEPT !.left = all,
                              !.phase = IF all = {} THEN "orphans" ELSE "embed"])
    BY <1>4 DEF Relocate
  <2> HIDE DEF found
  <2>5. NothingOrphaned'
    BY <1>2, <2>2, <2>3, NamedGrows
  <2>6. PICK phase \in {"orphans", "embed"} :
           Fails(w) \/ Set(w, [worker[w] EXCEPT !.left = all, !.phase = phase])
    BY <2>4
  <2> HIDE DEF all
  <2>7. QED
    BY <1>1, <1>3, <2>5, <2>6, PlanFails DEF Keeps
<1>5. CASE EmbedBatch(w)
  <2>1. worker[w].phase = "embed" /\ worker[w].left \subseteq all
    BY <1>5 DEF EmbedBatch, At_, Planned
  <2>2. PICK batch \in SUBSET worker[w].left :
           /\ rows' \subseteq rows \cup batch
           /\ \/ Fails(w)
              \/ Set(w, [worker[w] EXCEPT !.left = worker[w].left \ batch,
                          !.phase = IF worker[w].left = batch THEN "orphans" ELSE @])
    BY <1>5 DEF EmbedBatch
  <2>3. \A i \in batch : i \in Named(manifest[i[1]])
    BY <1>1, <1>2, <2>1, <2>2, WantedIsNamed DEF ToEmbed
  <2>4. NothingOrphaned'
    BY <1>2, <2>2, <2>3, NamedGrows
  <2> DEFINE left == worker[w].left \ batch
  <2>5. left \in SUBSET all
    BY <2>1
  <2>6. PICK phase \in {"orphans", "embed"} :
           Fails(w) \/ Set(w, [worker[w] EXCEPT !.left = left, !.phase = phase])
    BY <2>1, <2>2
  <2> HIDE DEF all, left
  <2>7. QED
    BY <1>1, <1>3, <2>4, <2>5, <2>6, PlanFails DEF Keeps
<1>6. QED
  BY <1>4, <1>5

LEMMA KeepsOrphans ==
  ASSUME Typed, NothingOrphaned, NEW w \in Workers, Planned(w), DeleteOrphans(w)
  PROVE  Keeps(w)
<1>1. worker[w] \in Jobs /\ worker[w].phase = "orphans"
  BY Busy DEF DeleteOrphans, At_
<1>2. /\ worker[w].want \in Target /\ UNCHANGED manifest /\ Finished(w) \subseteq Group(w)
      /\ \A p \in Group(w) : manifest[p] = Intent(w, p)
  BY <1>1, PlanHolds DEF Planning, Planned, DeleteOrphans
<1> DEFINE done == Finished(w)
           orphans == UNION {Orphans(w, p) : p \in done}
           phase == IF done = {} THEN "group" ELSE "confirm"
           r == [worker[w] EXCEPT !.files = done, !.phase = phase]
<1>3. \/ rows' = rows \ orphans /\ Set(w, r)
      \/ rows' \subseteq rows /\ Fails(w)
  BY DEF DeleteOrphans
<1>4. NothingOrphaned'
  <2>1. rows' \subseteq rows
    BY <1>3
  <2>2. QED
    BY <1>2, <2>1, NamedShrinks
<1>5. CASE rows' = rows \ orphans /\ Set(w, r)
  <2>1. /\ r.files = done /\ r.phase = phase /\ r.left = worker[w].left
        /\ r.want = worker[w].want /\ r.known = worker[w].known
    <3> HIDE DEF done, phase
    <3>1. QED
      BY <1>1 DEF Jobs
  <2>2. phase \in {"group", "confirm"}
    OBVIOUS
  <2> HIDE DEF r, phase
  <2>3. worker'[w] = r
    BY <1>5 DEF Typed, Set
  <2>4. /\ Group(w)' = Group(w) /\ Finished(w)' = done
        /\ \A p \in Group(w) :
             /\ Orphans(w, p)' = Orphans(w, p) /\ Intent(w, p)' = Intent(w, p)
             /\ Confirmation(w, p)' = Confirmation(w, p)
    BY <2>1, <2>3, SamePlan
  <2>5. \A p \in done : \A i \in rows' : i \notin Orphans(w, p)
    BY <1>5
  <2>6. \A p \in Finished(w)' :
          /\ p \in worker'[w].files /\ manifest'[p] = Intent(w, p)'
          /\ \A i \in rows' : i \notin Orphans(w, p)'
    BY <1>2, <2>1, <2>3, <2>4, <2>5
  <2>7. worker'[w].files \subseteq Finished(w)'
    BY <2>1, <2>3, <2>4
  <2> HIDE DEF done
  <2>8. Planned(w)'
    BY <2>1, <2>2, <2>3, <2>6, <2>7 DEF Planned
  <2>9. QED
    BY <1>4, <2>8 DEF Keeps
<1>6. QED
  BY <1>1, <1>3, <1>4, <1>5, PlanFails DEF Keeps

LEMMA KeepsConfirm ==
  ASSUME Typed, NothingOrphaned, NEW w \in Workers, Planned(w), Confirm(w)
  PROVE  Keeps(w)
<1>1. worker[w] \in Jobs /\ worker[w].phase = "confirm"
  BY Busy DEF Confirm, At_
<1>2. /\ worker[w].want \in Target /\ UNCHANGED rows /\ Finished(w) \subseteq Group(w)
      /\ \A p \in Group(w) : p \in Paths
  BY <1>1, PlanHolds DEF Planning, Confirm
<1>3. /\ worker[w].files \subseteq Finished(w)
      /\ \A p \in Finished(w) :
           /\ manifest[p] = IF p \in worker[w].files THEN Intent(w, p) ELSE Confirmation(w, p)
           /\ \A i \in rows : i[1] = p => i \notin Orphans(w, p)
  BY <1>1 DEF Planned
<1>4. PICK p \in worker[w].files :
        \/ /\ manifest' = [manifest EXCEPT ![p] = Confirmation(w, p)]
           /\ LET rest == worker[w].files \ {p}
              IN Set(w, [worker[w] EXCEPT
                   !.files = IF rest = {} THEN Finished(w) ELSE rest,
                   !.phase = IF rest = {} THEN "stale" ELSE @,
                   !.up = IF rest = {} THEN @ + Added(w, Finished(w)) ELSE @])
        \/ /\ RecordFails(p, Confirmation(w, p))
           /\ LET landed == {q \in Finished(w) : manifest'[q] # None /\ manifest'[q].chunks = New(w, q)}
              IN Set(w, [worker[w] EXCEPT !.phase = "settle", !.failed = TRUE,
                   !.up = @ + Added(w, landed)])
        \/ /\ manifest' \in {manifest, [manifest EXCEPT ![p] = Confirmation(w, p)]}
           /\ Set(w, [worker[w] EXCEPT !.phase = "settle", !.failed = TRUE,
                !.recount = TRUE])
  BY DEF Confirm
<1>5. p \in Group(w) /\ p \in Paths /\ p \in Finished(w) /\ manifest[p] = Intent(w, p)
  BY <1>2, <1>3
<1>6. NothingOrphaned'
  <2>1. manifest' \in {manifest, [manifest EXCEPT ![p] = Confirmation(w, p)]}
    BY <1>4 DEF RecordFails
  <2>2. Named(Intent(w, p)) \subseteq Named(Confirmation(w, p)) \cup Orphans(w, p)
    BY <1>1, <1>2, <1>5, Names
  <2>3. \A i \in rows : i[1] = p /\ i \in Named(manifest[p]) => i \in Named(Confirmation(w, p))
    BY <1>3, <1>5, <2>2
  <2>4. QED
    BY <1>2, <1>5, <2>1, <2>3, NamedAgain
<1> DEFINE rest == worker[w].files \ {p}
           files == IF rest = {} THEN Finished(w) ELSE rest
           phase == IF rest = {} THEN "stale" ELSE worker[w].phase
           n == IF rest = {} THEN worker[w].up + Added(w, Finished(w)) ELSE worker[w].up
           landed == {q \in Finished(w) : manifest'[q] # None /\ manifest'[q].chunks = New(w, q)}
           m == worker[w].up + Added(w, landed)
           r1 == [worker[w] EXCEPT !.files = files, !.phase = phase, !.up = n]
           r2 == [worker[w] EXCEPT !.phase = "settle", !.failed = TRUE, !.up = m]
           r3 == [worker[w] EXCEPT !.phase = "settle", !.failed = TRUE, !.recount = TRUE]
<1>7. \/ manifest' = [manifest EXCEPT ![p] = Confirmation(w, p)] /\ Set(w, r1)
      \/ Set(w, r2) \/ Set(w, r3)
  BY <1>4
<1>8. r2.phase = "settle" /\ r3.phase = "settle"
  <2> HIDE DEF m
  <2>1. QED
    BY <1>1 DEF Jobs
<1>9. /\ r1.files = files /\ r1.phase = phase /\ r1.left = worker[w].left
      /\ r1.want = worker[w].want /\ r1.known = worker[w].known
  <2> HIDE DEF files, phase, n
  <2>1. QED
    BY <1>1 DEF Jobs
<1> HIDE DEF r1, r2, r3, landed, m, n
<1>10. CASE Set(w, r2) \/ Set(w, r3)
  <2>1. worker'[w].phase \in Unplanned
    BY <1>8, <1>10 DEF Typed, Set, Unplanned
  <2>2. QED
    BY <1>6, <2>1, PlanOver DEF Keeps
<1>11. CASE manifest' = [manifest EXCEPT ![p] = Confirmation(w, p)] /\ Set(w, r1)
  <2>1. worker'[w] = r1
    BY <1>11 DEF Typed, Set
  <2>2. /\ manifest'[p] = Confirmation(w, p)
        /\ \A q \in Paths : q # p => manifest'[q] = manifest[q]
    BY <1>5, <1>11, Kept
  <2>3. /\ Group(w)' = Group(w) /\ Finished(w)' = Finished(w)
        /\ \A q \in Group(w) :
             /\ Orphans(w, q)' = Orphans(w, q) /\ Intent(w, q)' = Intent(w, q)
             /\ Confirmation(w, q)' = Confirmation(w, q)
    BY <1>9, <2>1, SamePlan
  <2>4. \A q \in Finished(w) :
          manifest'[q] = IF q \in rest THEN Intent(w, q) ELSE Confirmation(w, q)
    BY <1>2, <1>3, <2>2
  <2>5. files \subseteq Finished(w)
    BY <1>3
  <2>6. CASE rest = {}
    <3>1. /\ worker'[w].phase = "stale" /\ worker'[w].files \subseteq Finished(w)'
          /\ \A q \in worker'[w].files : manifest'[q] = Confirmation(w, q)'
      BY <1>2, <1>9, <2>1, <2>3, <2>4, <2>5, <2>6
    <3>2. QED
      BY <1>6, <3>1 DEF Planned, Keeps
  <2>7. CASE rest # {}
    <3>1. worker'[w].phase = "confirm" /\ worker'[w].files = rest
      BY <1>1, <1>9, <2>1, <2>7
    <3>2. \A q \in Finished(w)' :
            /\ manifest'[q] = IF q \in rest THEN Intent(w, q)' ELSE Confirmation(w, q)'
            /\ \A i \in rows' : i[1] = q => i \notin Orphans(w, q)'
      BY <1>2, <1>3, <2>3, <2>4
    <3>3. worker'[w].files \subseteq Finished(w)'
      BY <1>3, <2>3, <3>1
    <3> HIDE DEF rest
    <3>4. QED
      BY <1>6, <3>1, <3>2, <3>3 DEF Planned, Keeps
  <2>8. QED
    BY <2>6, <2>7
<1>12. QED
  BY <1>7, <1>10, <1>11

LEMMA KeepsStale ==
  ASSUME Typed, NothingOrphaned, NEW w \in Workers, Planned(w), DeleteStale(w)
  PROVE  Keeps(w)
<1>1. worker[w] \in Jobs /\ worker[w].phase = "stale"
  BY Busy DEF DeleteStale, At_
<1>2. /\ UNCHANGED manifest /\ Finished(w) \subseteq Group(w)
      /\ worker[w].files \subseteq Finished(w)
      /\ \A p \in worker[w].files : manifest[p] = Confirmation(w, p)
  BY <1>1, PlanHolds DEF Planning, Planned, DeleteStale
<1> DEFINE ids == UNION {Stale(w, p) : p \in Finished(w)}
           n == worker[w].del + Cardinality(ids \cap rows)
           r == [worker[w] EXCEPT !.phase = "finalize", !.del = n]
<1>3. DeleteCounted(w, ids, "finalize")
  BY DEF DeleteStale
<1>4. \/ rows' = rows \ ids /\ Set(w, r)
      \/ rows' \subseteq rows /\ Fails(w)
  BY <1>3 DEF DeleteCounted
<1>5. NothingOrphaned'
  <2>1. rows' \subseteq rows
    BY <1>4
  <2>2. QED
    BY <1>2, <2>1, NamedShrinks
<1>6. CASE rows' = rows \ ids /\ Set(w, r)
  <2>1. /\ r.phase = "finalize" /\ r.files = worker[w].files /\ r.left = worker[w].left
        /\ r.want = worker[w].want /\ r.known = worker[w].known
    <3> HIDE DEF n
    <3>1. QED
      BY <1>1 DEF Jobs
  <2> HIDE DEF r
  <2>2. worker'[w] = r
    BY <1>6 DEF Typed, Set
  <2>3. /\ Group(w)' = Group(w) /\ Finished(w)' = Finished(w)
        /\ \A p \in Group(w) :
             Stale(w, p)' = Stale(w, p) /\ Confirmation(w, p)' = Confirmation(w, p)
    BY <2>1, <2>2, SamePlan
  <2>4. \A p \in Finished(w) : \A i \in rows' : i \notin Stale(w, p)
    BY <1>6
  <2>5. /\ worker'[w].files \subseteq Finished(w)'
        /\ \A p \in worker'[w].files :
             /\ manifest'[p] = Confirmation(w, p)'
             /\ \A i \in rows' : i \notin Stale(w, p)'
    BY <1>2, <2>1, <2>2, <2>3, <2>4
  <2>6. QED
    BY <1>5, <2>1, <2>2, <2>5 DEF Planned, Keeps
<1>7. QED
  BY <1>1, <1>4, <1>5, <1>6, PlanFails DEF Keeps

LEMMA KeepsFinalize ==
  ASSUME Typed, NothingOrphaned, NEW w \in Workers, Planned(w), Finalize(w)
  PROVE  Keeps(w)
<1>1. worker[w] \in Jobs /\ worker[w].phase = "finalize"
  BY Busy DEF Finalize, At_
<1>2. /\ worker[w].want \in Target /\ UNCHANGED rows /\ Finished(w) \subseteq Group(w)
      /\ \A p \in Group(w) : p \in Paths
      /\ worker[w].files \subseteq Finished(w)
      /\ \A p \in worker[w].files :
           /\ manifest[p] = Confirmation(w, p)
           /\ \A i \in rows : i[1] = p => i \notin Stale(w, p)
  BY <1>1, PlanHolds DEF Planning, Planned, Finalize
<1>3. PICK p \in worker[w].files :
         \/ Record(w, p, Finalized(w, p), "group")
         \/ RecordFails(p, Finalized(w, p)) /\ Fails(w)
  BY DEF Finalize
<1>4. p \in Group(w) /\ p \in Paths
  BY <1>2
<1>5. NothingOrphaned'
  <2>1. manifest' \in {manifest, [manifest EXCEPT ![p] = Finalized(w, p)]}
    BY <1>3 DEF Record, RecordFails
  <2>2. Named(Confirmation(w, p)) \subseteq Named(Finalized(w, p)) \cup Stale(w, p)
    BY <1>1, <1>2, <1>4, Names
  <2>3. \A i \in rows : i[1] = p /\ i \in Named(manifest[p]) => i \in Named(Finalized(w, p))
    BY <1>2, <2>2
  <2>4. QED
    BY <1>2, <1>4, <2>1, <2>3, NamedAgain
<1>6. CASE Record(w, p, Finalized(w, p), "group")
  <2> DEFINE rest == worker[w].files \ {p}
  <2>1. /\ worker'[w].files = rest
        /\ worker'[w].phase = IF rest = {} THEN "group" ELSE "finalize"
        /\ worker'[w].want = worker[w].want /\ worker'[w].known = worker[w].known
        /\ worker'[w].left = worker[w].left
    BY <1>1, <1>6, RecordSteps
  <2>2. \A q \in Paths : q # p => manifest'[q] = manifest[q]
    BY <1>4, <1>6, Kept DEF Record
  <2>3. /\ Group(w)' = Group(w) /\ Finished(w)' = Finished(w)
        /\ \A q \in Group(w) :
             Stale(w, q)' = Stale(w, q) /\ Confirmation(w, q)' = Confirmation(w, q)
    BY <2>1, SamePlan
  <2>4. /\ worker'[w].files \subseteq Finished(w)'
        /\ \A q \in worker'[w].files :
             /\ manifest'[q] = Confirmation(w, q)'
             /\ \A i \in rows' : i[1] = q => i \notin Stale(w, q)'
    BY <1>2, <2>1, <2>2, <2>3
  <2>5. worker'[w].phase \in {"group", "finalize"}
    BY <2>1
  <2>6. QED
    BY <1>5, <2>4, <2>5 DEF Planned, Keeps
<1>7. QED
  BY <1>1, <1>3, <1>5, <1>6, PlanFails DEF Keeps

LEMMA KeepsInside ==
  ASSUME Typed, NothingOrphaned, NEW w \in Workers, Planned(w), InnerRun(w)
  PROVE  Keeps(w)
  BY KeepsElsewhere, KeepsSweeps, KeepsGroup, KeepsIntent, KeepsRows, KeepsOrphans,
     KeepsConfirm, KeepsStale, KeepsFinalize DEF InnerRun

\* The others carry nothing, or touch neither the rows nor the manifest.
AllPlanned == \A w \in Workers : Planned(w)

LEMMA PlanStays ==
  ASSUME NEW w \in Workers, Planned(w), worker'[w] = worker[w],
         UNCHANGED <<rows, manifest>>
  PROVE  Planned(w)'
<1>1. /\ Group(w)' = Group(w) /\ Finished(w)' = Finished(w)
      /\ \A p \in Group(w) :
           /\ Stale(w, p)' = Stale(w, p) /\ Orphans(w, p)' = Orphans(w, p)
           /\ ToEmbed(w, p)' = ToEmbed(w, p) /\ Intent(w, p)' = Intent(w, p)
           /\ Confirmation(w, p)' = Confirmation(w, p)
  BY SamePlan
<1>2. Finished(w) \subseteq Group(w)
  BY DEF Finished
<1>3. (UNION {ToEmbed(w, p) : p \in Group(w)})' = UNION {ToEmbed(w, p) : p \in Group(w)}
  BY <1>1
<1>4. QED
  BY <1>1, <1>2, <1>3 DEF Planned

LEMMA NamedStep ==
  ASSUME ~Outlives, Typed, Held, Sole, NothingOrphaned, AllPlanned, [Next]_vars
  PROVE  NothingOrphaned' /\ AllPlanned'
<1>1. ASSUME UNCHANGED <<rows, manifest>>,
             \A v \in Workers : worker'[v] = worker[v] \/ worker'[v].phase \in Unplanned
      PROVE  NothingOrphaned' /\ AllPlanned'
  <2>1. NothingOrphaned'
    BY <1>1, NamedShrinks
  <2>2. ASSUME NEW v \in Workers PROVE Planned(v)'
    BY <1>1, PlanStays, PlanOver DEF AllPlanned
  <2>3. QED
    BY <2>1, <2>2 DEF AllPlanned
<1>2. CASE UNCHANGED vars
  BY <1>1, <1>2 DEF vars
<1>3. CASE ClaimExpires
  BY <1>1, <1>3 DEF ClaimExpires
<1>4. ASSUME NEW w \in Workers, InnerRun(w)
      PROVE  NothingOrphaned' /\ AllPlanned'
  <2>1. Keeps(w)
    BY <1>4, KeepsInside DEF AllPlanned
  <2>2. worker[w].phase \in Inner /\ \A v \in Workers : v # w => worker'[v] = worker[v]
    BY <1>4, InnerSteps DEF Steps
  <2>3. \A v \in Workers : v # w => worker[v].phase \notin Inner
    BY <2>2 DEF Sole, Held, Inner
  <2>4. ASSUME NEW v \in Workers, v # w
        PROVE  worker'[v].phase \in Unplanned
    <3>1. worker[v].phase \in Phases
      BY DEF Typed, TypeOK
    <3>2. QED
      BY <2>2, <2>3, <2>4, <3>1 DEF Inner, Unplanned
  <2>5. QED
    BY <2>1, <2>4, PlanOver DEF Keeps, AllPlanned
<1>5. ASSUME NEW w \in Workers,
             \/ Request(w) \/ Reset(w) \/ Requeue(w) \/ SyncGraph(w) \/ Crash(w)
             \/ Claim(w) \/ Settle(w) \/ RecountFails(w) \/ DropClaim(w)
      PROVE  NothingOrphaned' /\ AllPlanned'
  <2>1. UNCHANGED <<rows, manifest>>
    BY <1>5 DEF Request, Reset, Requeue, SyncGraph, Crash, Claim, Settle, RecountFails,
       DropClaim, stores
  <2>2. \A v \in Workers : worker'[v] = worker[v] \/ worker'[v].phase \in Unplanned
    <3>0. Idle.phase \in Unplanned /\ {"claim", "mark", "drop", "graph"} \subseteq Unplanned
      BY DEF Idle, Unplanned
    <3>1. CASE Request(w) \/ Reset(w)
      BY <3>1, StartSteps, <3>0
    <3>2. CASE Requeue(w) \/ SyncGraph(w) \/ Crash(w)
      BY <3>2, StopSteps, <3>0
    <3>3. CASE Claim(w)
      BY <3>3, ClaimSteps, <3>0
    <3>4. CASE Settle(w) \/ RecountFails(w)
      BY <3>4, SettleSteps, <3>0
    <3>5. CASE DropClaim(w)
      BY <3>5, DropSteps, <3>0
    <3>6. QED
      BY <1>5, <3>1, <3>2, <3>3, <3>4, <3>5
  <2>3. QED
    BY <1>1, <2>1, <2>2
<1>6. ASSUME NEW w \in Workers, MarkIndexing(w)
      PROVE  NothingOrphaned' /\ AllPlanned'
  <2> DEFINE phase == IF worker[w].job = "reset" THEN "wipe" ELSE "begin"
             r == [worker[w] EXCEPT !.phase = phase]
  <2>1. UNCHANGED <<rows, manifest>> /\ (Set(w, r) \/ Set(w, Idle))
    BY <1>6 DEF MarkIndexing, Go, Stops
  <2>2. worker[w] \in Jobs
    BY <1>6, Busy DEF MarkIndexing, At_
  <2>3. phase \in Unplanned
    BY DEF Unplanned
  <2>4. r.phase \in Unplanned /\ Idle.phase \in Unplanned
    <3> HIDE DEF phase
    <3>1. QED
      BY <2>2, <2>3 DEF Jobs, Idle, Unplanned
  <2> HIDE DEF r
  <2>5. \A v \in Workers : worker'[v] = worker[v] \/ worker'[v].phase \in Unplanned
    BY <2>1, <2>4 DEF Typed, Set
  <2>6. QED
    BY <1>1, <2>1, <2>5
<1>7. CASE Next
  BY <1>3, <1>4, <1>5, <1>6, <1>7, RunCases
<1>8. QED
  BY <1>2, <1>7

LEMMA NamedInit == Init => Sole /\ NothingOrphaned /\ AllPlanned
<1> SUFFICES ASSUME Init PROVE Sole /\ NothingOrphaned /\ AllPlanned
  OBVIOUS
<1>1. \A w \in Workers : worker[w].phase = "idle"
  BY DEF Init, Idle
<1>2. Sole
  BY <1>1 DEF Sole, Inner
<1>3. AllPlanned
  BY <1>1, NothingPlanned DEF AllPlanned, Unplanned
<1>4. QED
  BY <1>2, <1>3 DEF Init, NothingOrphaned

\* "Leave chunks in the index that no manifest entry mentions" never happens
\* (indexer/types.rs, IndexedFile::pending): whatever call fails and wherever a
\* process dies, every row is named by the entry of its path, if no run outlives
\* its claim.
THEOREM NoneIsOrphaned ==
  ASSUME ~Outlives
  PROVE  Spec => []NothingOrphaned
<1>1. Typed /\ Held /\ Sole /\ NothingOrphaned /\ AllPlanned /\ [Next]_vars
        => Typed' /\ Held' /\ Sole' /\ NothingOrphaned' /\ AllPlanned'
  BY TypedStep, HeldStep, SoleStep, NamedStep
<1>2. Init => Typed /\ Held /\ Sole /\ NothingOrphaned /\ AllPlanned
  BY TypedInit, HeldInit, NamedInit
<1>3. QED
  BY <1>1, <1>2, PTL DEF Spec

-----------------------------------------------------------------------------
(* What each step of a run does to it.                                     *)

\* What a run was asked, what it found when it began, what it counts, how far it
\* got and what it has in hand.
Aim(r) == <<r.job, r.want, r.sub, r.fence>>
Found(r) == <<r.rebuild, r.removed, r.before>>
Score(r) == <<r.up, r.del, r.recount>>
Scope(r) == <<r.budget, r.failed, r.todo, r.changed>>
Hand(r) == <<r.known, r.left>>

\* A step of one worker.
LEMMA SetIs ==
  ASSUME Typed, NEW w \in Workers, NEW r, Set(w, r)
  PROVE  worker'[w] = r /\ \A v \in Workers : v # w => worker'[v] = worker[v]
  BY DEF Typed, Set

\* The run fails.
Failing(w) ==
  /\ worker'[w].phase = "settle" /\ worker'[w].failed = TRUE
  /\ Aim(worker'[w]) = Aim(worker[w]) /\ Found(worker'[w]) = Found(worker[w])
  /\ Score(worker'[w]) = Score(worker[w])

LEMMA DoesFail ==
  ASSUME Typed, NEW w \in Workers, worker[w] \in Jobs, Fails(w)
  PROVE  Failing(w)
<1> DEFINE r == [worker[w] EXCEPT !.phase = "settle", !.failed = TRUE]
<1>1. /\ r.phase = "settle" /\ r.failed = TRUE
      /\ Aim(r) = Aim(worker[w]) /\ Found(r) = Found(worker[w])
      /\ Score(r) = Score(worker[w])
  BY DEF Jobs, Aim, Found, Score
<1>2. Set(w, r)
  BY DEF Fails
<1> HIDE DEF r
<1>3. QED
  BY <1>1, <1>2, SetIs DEF Failing

LEMMA DoesGo ==
  ASSUME Typed, NEW w \in Workers, worker[w] \in Jobs, NEW phase, Go(w, phase)
  PROVE  /\ worker'[w].phase = phase
         /\ Aim(worker'[w]) = Aim(worker[w]) /\ Found(worker'[w]) = Found(worker[w])
         /\ Score(worker'[w]) = Score(worker[w]) /\ Scope(worker'[w]) = Scope(worker[w])
         /\ Hand(worker'[w]) = Hand(worker[w]) /\ worker'[w].files = worker[w].files
         /\ worker'[w].swept = worker[w].swept
<1> DEFINE r == [worker[w] EXCEPT !.phase = phase]
<1>1. /\ r.phase = phase
      /\ Aim(r) = Aim(worker[w]) /\ Found(r) = Found(worker[w])
      /\ Score(r) = Score(worker[w]) /\ Scope(r) = Scope(worker[w])
      /\ Hand(r) = Hand(worker[w]) /\ r.files = worker[w].files
      /\ r.swept = worker[w].swept
  BY DEF Jobs, Aim, Found, Score, Scope, Hand
<1>2. Set(w, r)
  BY DEF Go
<1> HIDE DEF r
<1>3. QED
  BY <1>1, <1>2, SetIs

LEMMA DoesRecord ==
  ASSUME Typed, NEW w \in Workers, worker[w] \in Jobs, NEW p, NEW entry, NEW phase,
         Record(w, p, entry, phase)
  PROVE  LET rest == worker[w].files \ {p}
         IN /\ worker'[w].files = rest
            /\ worker'[w].phase = IF rest = {} THEN phase ELSE worker[w].phase
            /\ Aim(worker'[w]) = Aim(worker[w]) /\ Found(worker'[w]) = Found(worker[w])
            /\ Score(worker'[w]) = Score(worker[w]) /\ Scope(worker'[w]) = Scope(worker[w])
            /\ Hand(worker'[w]) = Hand(worker[w]) /\ worker'[w].swept = worker[w].swept
<1> DEFINE rest == worker[w].files \ {p}
           next == IF rest = {} THEN phase ELSE worker[w].phase
           r == [worker[w] EXCEPT !.files = rest, !.phase = next]
<1>1. Set(w, r)
  BY DEF Record
<1>2. /\ r.files = rest /\ r.phase = next
      /\ Aim(r) = Aim(worker[w]) /\ Found(r) = Found(worker[w])
      /\ Score(r) = Score(worker[w]) /\ Scope(r) = Scope(worker[w])
      /\ Hand(r) = Hand(worker[w]) /\ r.swept = worker[w].swept
  <2> HIDE DEF rest, next
  <2>1. QED
    BY DEF Jobs, Aim, Found, Score, Scope, Hand
<1> HIDE DEF r
<1>3. worker'[w] = r
  BY <1>1, SetIs
<1>4. QED
  BY <1>2, <1>3

\* Counted ids are deleted, or the call fails.
Deletes(w, ids, phase) ==
  /\ rows' = rows \ ids /\ torn' = torn \cup ids /\ unsure' = unsure
  /\ worker'[w].phase = phase
  /\ worker'[w].del = worker[w].del + Cardinality(ids \cap rows)
  /\ worker'[w].up = worker[w].up /\ worker'[w].recount = worker[w].recount
  /\ Aim(worker'[w]) = Aim(worker[w]) /\ Found(worker'[w]) = Found(worker[w])
  /\ Scope(worker'[w]) = Scope(worker[w]) /\ Hand(worker'[w]) = Hand(worker[w])
  /\ worker'[w].files = worker[w].files /\ worker'[w].swept = worker[w].swept
LosesDelete(w, ids) ==
  /\ \E lost \in SUBSET (ids \cap rows) :
       /\ rows' = rows \ lost /\ torn' = torn \cup lost
       /\ unsure' = (unsure \/ lost # {})
  /\ Failing(w)
LEMMA DoesDelete ==
  ASSUME Typed, NEW w \in Workers, worker[w] \in Jobs, NEW ids, NEW phase,
         DeleteCounted(w, ids, phase)
  PROVE  Deletes(w, ids, phase) \/ LosesDelete(w, ids)
<1> DEFINE n == worker[w].del + Cardinality(ids \cap rows)
           r == [worker[w] EXCEPT !.phase = phase, !.del = n]
<1>1. /\ r.phase = phase /\ r.del = n /\ r.up = worker[w].up
      /\ r.recount = worker[w].recount
      /\ Aim(r) = Aim(worker[w]) /\ Found(r) = Found(worker[w])
      /\ Scope(r) = Scope(worker[w]) /\ Hand(r) = Hand(worker[w])
      /\ r.files = worker[w].files /\ r.swept = worker[w].swept
  <2> HIDE DEF n
  <2>1. QED
    BY DEF Jobs, Aim, Found, Scope, Hand
<1>2. CASE Set(w, r) /\ rows' = rows \ ids /\ torn' = torn \cup ids /\ unsure' = unsure
  <2> HIDE DEF r
  <2>1. worker'[w] = r
    BY <1>2, SetIs
  <2>2. QED
    BY <1>1, <1>2, <2>1 DEF Deletes
<1>3. CASE /\ Fails(w)
           /\ \E lost \in SUBSET (ids \cap rows) :
                /\ rows' = rows \ lost /\ torn' = torn \cup lost
                /\ unsure' = (unsure \/ lost # {})
  BY <1>3, DoesFail DEF LosesDelete
<1>4. QED
  BY <1>2, <1>3 DEF DeleteCounted

\* Each step of a run: where it is taken, what it leaves, what it writes and where
\* it leads.  The proofs below see the actions through these facts.
LEMMA DoesRemove ==
  ASSUME Typed, NEW w \in Workers, RemoveCounted(w)
  PROVE  LET ids == UNION {Counted(manifest[p]) : p \in worker[w].swept}
         IN /\ worker[w] \in Jobs /\ worker[w].phase \in {"revoke", "remove"}
            /\ UNCHANGED <<manifest, record, claim, graph, owed>>
            /\ \/ Deletes(w, ids, IF worker[w].phase = "revoke" THEN "revoke sweep"
                                  ELSE "remove sweep")
               \/ LosesDelete(w, ids)
<1> DEFINE ids == UNION {Counted(manifest[p]) : p \in worker[w].swept}
<1>1. worker[w] \in Jobs /\ worker[w].phase \in {"revoke", "remove"}
  BY Busy DEF RemoveCounted, At_
<1>2. UNCHANGED <<manifest, record, claim, graph, owed>>
  BY DEF RemoveCounted
<1>3. \/ worker[w].phase = "revoke" /\ DeleteCounted(w, ids, "revoke sweep")
      \/ worker[w].phase = "remove" /\ DeleteCounted(w, ids, "remove sweep")
  BY DEF RemoveCounted, At_
<1> HIDE DEF ids
<1>4. QED
  BY <1>1, <1>2, <1>3, DoesDelete DEF ids

LEMMA DoesStale ==
  ASSUME Typed, NEW w \in Workers, DeleteStale(w)
  PROVE  LET ids == UNION {Stale(w, p) : p \in Finished(w)}
         IN /\ worker[w] \in Jobs /\ worker[w].phase = "stale" /\ worker[w].want \in Target
            /\ UNCHANGED <<manifest, record, claim, graph, owed>>
            /\ Deletes(w, ids, "finalize") \/ LosesDelete(w, ids)
<1> DEFINE ids == UNION {Stale(w, p) : p \in Finished(w)}
<1>1. worker[w] \in Jobs /\ worker[w].phase = "stale" /\ worker[w].want \in Target
  BY Busy DEF DeleteStale, At_, Grouping
<1>2. UNCHANGED <<manifest, record, claim, graph, owed>>
  BY DEF DeleteStale
<1>3. DeleteCounted(w, ids, "finalize")
  BY DEF DeleteStale
<1> HIDE DEF ids
<1>4. QED
  BY <1>1, <1>2, <1>3, DoesDelete DEF ids

\* What no longer is in the checkout, and what of it goes first.
Unselected(w) ==
  LET unseen == {p \in Paths : manifest[p] # None}
                  \ Selected(worker[w].want, worker[w].sub)
  IN IF worker[w].sub = "missing" THEN unseen \ SubPaths ELSE unseen
Revoked(w) == IF worker[w].sub = "denied" THEN Unselected(w) \cap SubPaths ELSE {}

LEMMA DoesBegin ==
  ASSUME Typed, NEW w \in Workers, Begin(w)
  PROVE  /\ worker[w] \in Jobs /\ worker[w].phase = "begin"
         /\ UNCHANGED <<rows, manifest, record, claim, graph, torn, owed>>
         /\ \/ Failing(w) /\ unsure' = (unsure \/ record.uncertain)
            \/ /\ worker'[w].phase = IF Revoked(w) # {} THEN "revoke" ELSE "group"
               /\ Aim(worker'[w]) = Aim(worker[w]) /\ Score(worker'[w])[1] = worker[w].up
               /\ worker'[w].del = worker[w].del /\ worker'[w].failed = worker[w].failed
               /\ worker'[w].budget = worker[w].budget
               /\ worker'[w].changed = worker[w].changed
               /\ worker'[w].before = record.chunks
               /\ worker'[w].rebuild = (record.revision = None \/ record.message)
               /\ worker'[w].recount = (record.revision = None \/ record.uncertain)
               /\ worker'[w].todo = Selected(worker[w].want, worker[w].sub)
               /\ worker'[w].removed = Unselected(w) /\ worker'[w].swept = Revoked(w)
               /\ unsure' = unsure
<1> DEFINE phase == IF Revoked(w) # {} THEN "revoke" ELSE "group"
           n == record.chunks
           rebuild == record.revision = None \/ record.message
           recount == record.revision = None \/ record.uncertain
           todo == Selected(worker[w].want, worker[w].sub)
           removed == Unselected(w)
           revoked == Revoked(w)
           r == [worker[w] EXCEPT
                   !.phase = phase, !.before = n, !.rebuild = rebuild,
                   !.recount = recount, !.todo = todo, !.removed = removed,
                   !.swept = revoked]
<1>1. worker[w] \in Jobs /\ worker[w].phase = "begin"
  BY Busy DEF Begin, At_
<1>2. UNCHANGED <<rows, manifest, record, claim, graph, torn, owed>>
  BY DEF Begin, stores
<1>3. \/ Set(w, r) /\ unsure' = unsure
      \/ Fails(w) /\ unsure' = (unsure \/ record.uncertain)
  BY Zenon DEF Begin, Unselected, Revoked
<1>4. /\ r.phase = phase /\ Aim(r) = Aim(worker[w]) /\ Score(r)[1] = worker[w].up
      /\ r.del = worker[w].del /\ r.failed = worker[w].failed /\ r.budget = worker[w].budget
      /\ r.changed = worker[w].changed /\ r.before = n /\ r.rebuild = rebuild
      /\ r.recount = recount /\ r.todo = todo /\ r.removed = removed /\ r.swept = revoked
  <2> HIDE DEF phase, n, rebuild, recount, todo, removed, revoked
  <2>1. QED
    BY <1>1 DEF Jobs, Aim, Score
<1> HIDE DEF r
<1>5. CASE Set(w, r) /\ unsure' = unsure
  <2>1. worker'[w] = r
    BY <1>5, SetIs
  <2>2. QED
    BY <1>1, <1>2, <1>4, <1>5, <2>1
<1>6. CASE Fails(w) /\ unsure' = (unsure \/ record.uncertain)
  BY <1>1, <1>2, <1>6, DoesFail
<1>7. QED
  BY <1>3, <1>5, <1>6

LEMMA DoesEnd ==
  ASSUME Typed, NEW w \in Workers, EndGroups(w)
  PROVE  /\ worker[w] \in Jobs /\ worker[w].phase = "group"
         /\ worker[w].budget \/ worker[w].todo = {}
         /\ UNCHANGED <<rows, manifest, record, claim, graph, torn, unsure, owed>>
         /\ worker'[w].phase = IF worker[w].removed = {} THEN "settle" ELSE "remove"
         /\ worker'[w].swept = worker[w].removed
         /\ Aim(worker'[w]) = Aim(worker[w]) /\ Found(worker'[w]) = Found(worker[w])
         /\ Score(worker'[w]) = Score(worker[w]) /\ Scope(worker'[w]) = Scope(worker[w])
<1> DEFINE none == <<>>
           phase == IF worker[w].removed = {} THEN "settle" ELSE "remove"
           r == [worker[w] EXCEPT !.swept = worker[w].removed, !.known = none,
                                  !.left = {}, !.phase = phase]
<1>1. worker[w] \in Jobs /\ worker[w].phase = "group" /\ (worker[w].budget \/ worker[w].todo = {})
  BY Busy DEF EndGroups, At_
<1>2. UNCHANGED <<rows, manifest, record, claim, graph, torn, unsure, owed>> /\ Set(w, r)
  BY DEF EndGroups, stores
<1>3. /\ r.phase = phase /\ r.swept = worker[w].removed
      /\ Aim(r) = Aim(worker[w]) /\ Found(r) = Found(worker[w])
      /\ Score(r) = Score(worker[w]) /\ Scope(r) = Scope(worker[w])
  <2> HIDE DEF phase, none
  <2>1. QED
    BY <1>1 DEF Jobs, Aim, Found, Score, Scope
<1> HIDE DEF r
<1>4. worker'[w] = r
  BY <1>2, SetIs
<1>5. QED
  BY <1>1, <1>2, <1>3, <1>4

LEMMA DoesGroup ==
  ASSUME Typed, NEW w \in Workers, NextGroup(w)
  PROVE  /\ worker[w] \in Jobs /\ worker[w].phase = "group" /\ worker[w].want \in Target
         /\ ~worker[w].budget
         /\ UNCHANGED <<rows, manifest, record, claim, graph, torn, unsure, owed>>
         /\ \/ Failing(w)
            \/ \E g \in SUBSET worker[w].todo :
                 LET work == {p \in g : Tree[worker[w].want.rev][p] # {}}
                 IN /\ worker'[w].phase = IF work = {} THEN "group" ELSE "intent"
                    /\ worker'[w].todo = worker[w].todo \ g
                    /\ worker'[w].known = [p \in work |-> manifest[p]]
                    /\ worker'[w].files = work
                    /\ worker'[w].changed = worker[w].changed \cup
                         {p \in work : Counted(manifest[p])
                                         # Ids(p, Tree[worker[w].want.rev][p])}
                    /\ Aim(worker'[w]) = Aim(worker[w])
                    /\ Found(worker'[w]) = Found(worker[w])
                    /\ Score(worker'[w]) = Score(worker[w])
                    /\ worker'[w].budget = worker[w].budget
                    /\ worker'[w].failed = worker[w].failed
                    /\ worker'[w].swept = worker[w].swept
<1>1. /\ worker[w] \in Jobs /\ worker[w].phase = "group" /\ ~worker[w].budget
      /\ worker[w].want \in Target
  BY Busy DEF NextGroup, At_, Grouping
<1>2. UNCHANGED <<rows, manifest, record, claim, graph, torn, unsure, owed>>
  BY DEF NextGroup, stores
<1>3. CASE Fails(w)
  BY <1>1, <1>2, <1>3, DoesFail
<1>4. CASE ~Fails(w)
  <2>1. PICK g \in SUBSET worker[w].todo :
          LET work == {p \in g : Tree[worker[w].want.rev][p] # {}}
              known == [p \in work |-> manifest[p]]
              moved == {p \in work : Counted(known[p])
                          # Ids(p, Tree[worker[w].want.rev][p])}
          IN Set(w, [worker[w] EXCEPT
                  !.phase = IF work = {} THEN "group" ELSE "intent",
                  !.todo = @ \ g, !.known = known, !.files = work,
                  !.changed = @ \cup moved])
    BY <1>4, Zenon DEF NextGroup
  <2> DEFINE work == {p \in g : Tree[worker[w].want.rev][p] # {}}
             known == [p \in work |-> manifest[p]]
             moved == {p \in work : Counted(known[p])
                          # Ids(p, Tree[worker[w].want.rev][p])}
             changed == worker[w].changed \cup moved
             todo == worker[w].todo \ g
             phase == IF work = {} THEN "group" ELSE "intent"
             r == [worker[w] EXCEPT
                     !.phase = phase, !.todo = todo, !.known = known, !.files = work,
                     !.changed = changed]
  <2>2. Set(w, r)
    BY <2>1, Zenon
  <2>3. /\ r.phase = phase /\ r.todo = todo /\ r.known = known /\ r.files = work
        /\ r.changed = changed /\ Aim(r) = Aim(worker[w]) /\ Found(r) = Found(worker[w])
        /\ Score(r) = Score(worker[w]) /\ r.budget = worker[w].budget
        /\ r.failed = worker[w].failed /\ r.swept = worker[w].swept
    <3> HIDE DEF phase, todo, known, work, changed
    <3>1. QED
      BY <1>1 DEF Jobs, Aim, Found, Score
  <2> HIDE DEF r
  <2>4. worker'[w] = r
    BY <2>2, SetIs
  <2>5. changed = worker[w].changed \cup
          {p \in work : Counted(manifest[p]) # Ids(p, Tree[worker[w].want.rev][p])}
    BY DEF Counted
  <2> HIDE DEF changed
  <2>6. QED
    BY <1>1, <1>2, <2>3, <2>4, <2>5
<1>5. QED
  BY <1>3, <1>4

\* Rows are brought in, by copy or from the embedder.
LEMMA DoesLeave ==
  ASSUME Typed, NEW w \in Workers, worker[w] \in Jobs, NEW left, NEW phase,
         Set(w, [worker[w] EXCEPT !.left = left, !.phase = phase])
  PROVE  /\ worker'[w].left = left /\ worker'[w].phase = phase
         /\ worker'[w].known = worker[w].known /\ worker'[w].files = worker[w].files
         /\ Aim(worker'[w]) = Aim(worker[w]) /\ Found(worker'[w]) = Found(worker[w])
         /\ Score(worker'[w]) = Score(worker[w]) /\ Scope(worker'[w]) = Scope(worker[w])
<1> DEFINE r == [worker[w] EXCEPT !.left = left, !.phase = phase]
<1>1. /\ r.left = left /\ r.phase = phase
      /\ r.known = worker[w].known /\ r.files = worker[w].files
      /\ Aim(r) = Aim(worker[w]) /\ Found(r) = Found(worker[w])
      /\ Score(r) = Score(worker[w]) /\ Scope(r) = Scope(worker[w])
  BY DEF Jobs, Aim, Found, Score, Scope
<1> HIDE DEF r
<1>2. worker'[w] = r
  BY SetIs DEF r
<1>3. QED
  BY <1>1, <1>2

\* A finite set with as many members as another and inside it is that one.
LEMMA AllFound ==
  ASSUME NEW w \in Workers, worker[w] \in Jobs, worker[w].want \in Target,
         Cardinality(Copied(Moves(w))) = Cardinality(Moves(w))
  PROVE  \A p \in Group(w) : ToRelocate(w, p) \subseteq Copied(Moves(w))
<1> DEFINE targets == UNION {ToRelocate(w, p) : p \in Group(w)}
           f == [m \in Moves(w) |-> m[2]]
<1>1. targets \in SUBSET Id
  BY PlanIds DEF ToRelocate
<1>2. \A p \in Group(w) : \A i \in ToRelocate(w, p) : i[1] = p
  BY DEF ToRelocate, New, Ids
<1>3. \A m \in Moves(w) : \E p \in Group(w) : \E i \in ToRelocate(w, p) :
         m = <<Source(w, p, i), i>>
  BY DEF Moves
<1>4. f \in Injection(Moves(w), targets)
  <2>1. f \in [Moves(w) -> targets]
    BY <1>3
  <2>2. ASSUME NEW m \in Moves(w), NEW n \in Moves(w), m[2] = n[2]
        PROVE  m = n
    <3>1. PICK p \in Group(w) : \E i \in ToRelocate(w, p) : m = <<Source(w, p, i), i>>
      BY <1>3
    <3>2. PICK i \in ToRelocate(w, p) : m = <<Source(w, p, i), i>>
      BY <3>1
    <3>3. PICK q \in Group(w) : \E j \in ToRelocate(w, q) : n = <<Source(w, q, j), j>>
      BY <1>3
    <3>4. PICK j \in ToRelocate(w, q) : n = <<Source(w, q, j), j>>
      BY <3>3
    <3>5. i = j
      BY <2>2, <3>2, <3>4
    <3>6. p = q
      BY <1>2, <3>5
    <3>7. QED
      BY <3>2, <3>4, <3>5, <3>6
  <2>3. QED
    BY <2>1, <2>2 DEF Injection, IsInjective
<1>5. f \in Surjection(Moves(w), targets)
  <2>1. ASSUME NEW i \in targets
        PROVE  \E m \in Moves(w) : f[m] = i
    <3>1. PICK p \in Group(w) : i \in ToRelocate(w, p)
      OBVIOUS
    <3>2. <<Source(w, p, i), i>> \in Moves(w)
      BY <3>1 DEF Moves
    <3>3. QED
      BY <3>2
  <2>2. QED
    BY <1>4, <2>1 DEF Surjection, Injection
<1>6. IsFiniteSet(targets) /\ Cardinality(Moves(w)) = Cardinality(targets)
  <2>1. IsFiniteSet(targets)
    BY <1>1, IdsAreFinite
  <2>2. QED
    BY <1>4, <1>5, <2>1, FS_Injection
<1>7. Copied(Moves(w)) \subseteq targets
  BY <1>3 DEF Copied
<1>8. Copied(Moves(w)) = targets
  BY <1>6, <1>7, FS_Subset, FS_CardinalityType
<1>9. QED
  BY <1>8

LEMMA DoesRelocate ==
  ASSUME Typed, NEW w \in Workers, Relocate(w)
  PROVE  /\ worker[w] \in Jobs /\ worker[w].phase = "relocate" /\ worker[w].want \in Target
         /\ UNCHANGED <<manifest, record, claim, graph, torn, unsure, owed>>
         /\ rows \subseteq rows'
         /\ rows' \subseteq rows \cup UNION {ToRelocate(w, p) : p \in Group(w)}
         /\ \/ Failing(w)
            \/ /\ \A p \in Group(w) : ToRelocate(w, p) \subseteq rows'
               /\ worker'[w].left = UNION {ToEmbed(w, p) : p \in Group(w)}
               /\ worker'[w].phase \in {"orphans", "embed"}
               /\ worker'[w].phase = "orphans" => worker'[w].left = {}
               /\ worker'[w].known = worker[w].known /\ worker'[w].files = worker[w].files
               /\ Aim(worker'[w]) = Aim(worker[w]) /\ Found(worker'[w]) = Found(worker[w])
               /\ Score(worker'[w]) = Score(worker[w])
               /\ Scope(worker'[w]) = Scope(worker[w])
<1> DEFINE found == Copied(Moves(w))
           left == UNION {ToEmbed(w, p) : p \in Group(w)}
           phase == IF left = {} THEN "orphans" ELSE "embed"
<1>1. worker[w] \in Jobs /\ worker[w].phase = "relocate" /\ worker[w].want \in Target
  BY Busy DEF Relocate, At_, Grouping
<1>2. UNCHANGED <<manifest, record, claim, graph, torn, unsure, owed>>
  BY DEF Relocate
<1>3. found \subseteq UNION {ToRelocate(w, p) : p \in Group(w)}
  BY DEF Copied, Moves
<1>4. /\ rows \subseteq rows' /\ rows' \subseteq rows \cup found
      /\ \/ Fails(w)
         \/ /\ rows' = rows \cup found /\ Cardinality(found) = Cardinality(Moves(w))
            /\ Set(w, [worker[w] EXCEPT !.left = left, !.phase = phase])
  BY DEF Relocate
<1>5. CASE Fails(w)
  BY <1>1, <1>2, <1>3, <1>4, <1>5, DoesFail
<1>6. CASE ~Fails(w)
  <2>1. \A p \in Group(w) : ToRelocate(w, p) \subseteq found
    BY <1>1, <1>4, <1>6, AllFound
  <2>2. /\ worker'[w].left = left /\ worker'[w].phase = phase
        /\ worker'[w].known = worker[w].known /\ worker'[w].files = worker[w].files
        /\ Aim(worker'[w]) = Aim(worker[w]) /\ Found(worker'[w]) = Found(worker[w])
        /\ Score(worker'[w]) = Score(worker[w]) /\ Scope(worker'[w]) = Scope(worker[w])
    <3> HIDE DEF left, phase
    <3>1. QED
      BY <1>1, <1>4, <1>6, DoesLeave
  <2>3. QED
    BY <1>1, <1>2, <1>3, <1>4, <1>6, <2>1, <2>2
<1>7. QED
  BY <1>5, <1>6

LEMMA DoesEmbed ==
  ASSUME Typed, NEW w \in Workers, EmbedBatch(w)
  PROVE  /\ worker[w] \in Jobs /\ worker[w].phase = "embed" /\ worker[w].want \in Target
         /\ UNCHANGED <<manifest, record, claim, graph, torn, unsure, owed>>
         /\ \E batch \in SUBSET worker[w].left :
              /\ rows \subseteq rows' /\ rows' \subseteq rows \cup batch
              /\ \/ Failing(w)
                 \/ /\ rows' = rows \cup batch /\ worker'[w].left = worker[w].left \ batch
                    /\ worker'[w].phase \in {"orphans", "embed"}
                    /\ worker'[w].phase = "orphans" => worker'[w].left = {}
                    /\ worker'[w].known = worker[w].known
                    /\ worker'[w].files = worker[w].files
                    /\ Aim(worker'[w]) = Aim(worker[w])
                    /\ Found(worker'[w]) = Found(worker[w])
                    /\ Score(worker'[w]) = Score(worker[w])
                    /\ Scope(worker'[w]) = Scope(worker[w])
<1>1. worker[w] \in Jobs /\ worker[w].phase = "embed" /\ worker[w].want \in Target
  BY Busy DEF EmbedBatch, At_, Grouping
<1>2. UNCHANGED <<manifest, record, claim, graph, torn, unsure, owed>>
  BY DEF EmbedBatch
<1>3. PICK batch \in SUBSET worker[w].left :
         /\ rows \subseteq rows' /\ rows' \subseteq rows \cup batch
         /\ \/ Fails(w)
            \/ /\ rows' = rows \cup batch
               /\ Set(w, [worker[w] EXCEPT !.left = worker[w].left \ batch,
                    !.phase = IF worker[w].left = batch THEN "orphans" ELSE @])
  BY DEF EmbedBatch
<1>4. CASE Fails(w)
  BY <1>1, <1>2, <1>3, <1>4, DoesFail
<1>5. CASE ~Fails(w)
  <2> DEFINE left == worker[w].left \ batch
             phase == IF worker[w].left = batch THEN "orphans" ELSE worker[w].phase
  <2>1. Set(w, [worker[w] EXCEPT !.left = left, !.phase = phase])
    BY <1>3, <1>5
  <2>2. phase \in {"orphans", "embed"} /\ (phase = "orphans" => left = {})
    BY <1>1
  <2>3. /\ worker'[w].left = left /\ worker'[w].phase = phase
        /\ worker'[w].known = worker[w].known /\ worker'[w].files = worker[w].files
        /\ Aim(worker'[w]) = Aim(worker[w]) /\ Found(worker'[w]) = Found(worker[w])
        /\ Score(worker'[w]) = Score(worker[w]) /\ Scope(worker'[w]) = Scope(worker[w])
    <3> HIDE DEF left, phase
    <3>1. QED
      BY <1>1, <2>1, DoesLeave
  <2>4. rows' = rows \cup batch
    BY <1>3, <1>5
  <2> HIDE DEF phase
  <2>5. QED
    BY <1>1, <1>2, <1>3, <2>2, <2>3, <2>4
<1>6. QED
  BY <1>4, <1>5

LEMMA DoesStop ==
  ASSUME Typed, NEW w \in Workers, BudgetStop(w)
  PROVE  /\ worker[w] \in Jobs /\ worker[w].phase = "embed"
         /\ UNCHANGED <<rows, manifest, record, claim, graph, torn, unsure, owed>>
         /\ worker'[w].phase = "orphans" /\ worker'[w].budget = TRUE
         /\ worker'[w].failed = worker[w].failed /\ worker'[w].todo = worker[w].todo
         /\ worker'[w].changed = worker[w].changed /\ worker'[w].files = worker[w].files
         /\ Aim(worker'[w]) = Aim(worker[w]) /\ Found(worker'[w]) = Found(worker[w])
         /\ Score(worker'[w]) = Score(worker[w]) /\ Hand(worker'[w]) = Hand(worker[w])
<1> DEFINE r == [worker[w] EXCEPT !.budget = TRUE, !.phase = "orphans"]
<1>1. worker[w] \in Jobs /\ worker[w].phase = "embed"
  BY Busy DEF BudgetStop, At_
<1>2. UNCHANGED <<rows, manifest, record, claim, graph, torn, unsure, owed>> /\ Set(w, r)
  BY DEF BudgetStop, stores
<1>3. /\ r.phase = "orphans" /\ r.budget = TRUE /\ r.failed = worker[w].failed
      /\ r.todo = worker[w].todo /\ r.changed = worker[w].changed /\ r.files = worker[w].files
      /\ Aim(r) = Aim(worker[w]) /\ Found(r) = Found(worker[w])
      /\ Score(r) = Score(worker[w]) /\ Hand(r) = Hand(worker[w])
  BY <1>1 DEF Jobs, Aim, Found, Score, Hand
<1> HIDE DEF r
<1>4. worker'[w] = r
  BY <1>2, SetIs
<1>5. QED
  BY <1>1, <1>2, <1>3, <1>4

LEMMA DoesOrphans ==
  ASSUME Typed, NEW w \in Workers, DeleteOrphans(w)
  PROVE  LET orphans == UNION {Orphans(w, p) : p \in Finished(w)}
         IN /\ worker[w] \in Jobs /\ worker[w].phase = "orphans" /\ worker[w].want \in Target
            /\ UNCHANGED <<manifest, record, claim, graph, torn, unsure, owed>>
            /\ rows' \subseteq rows /\ rows \ orphans \subseteq rows'
            /\ \/ Failing(w)
               \/ /\ worker'[w].phase = IF Finished(w) = {} THEN "group" ELSE "confirm"
                  /\ worker'[w].files = Finished(w)
                  /\ Aim(worker'[w]) = Aim(worker[w]) /\ Found(worker'[w]) = Found(worker[w])
                  /\ Score(worker'[w]) = Score(worker[w])
                  /\ Scope(worker'[w]) = Scope(worker[w])
                  /\ Hand(worker'[w]) = Hand(worker[w])
<1> DEFINE orphans == UNION {Orphans(w, p) : p \in Finished(w)}
           done == Finished(w)
           phase == IF Finished(w) = {} THEN "group" ELSE "confirm"
           r == [worker[w] EXCEPT !.files = done, !.phase = phase]
<1>1. worker[w] \in Jobs /\ worker[w].phase = "orphans" /\ worker[w].want \in Target
  BY Busy DEF DeleteOrphans, At_, Grouping
<1>2. /\ UNCHANGED <<manifest, record, claim, graph, torn, unsure, owed>>
      /\ rows' \subseteq rows /\ rows \ orphans \subseteq rows'
      /\ Fails(w) \/ Set(w, r)
  BY DEF DeleteOrphans
<1>3. /\ r.phase = phase /\ r.files = done
      /\ Aim(r) = Aim(worker[w]) /\ Found(r) = Found(worker[w])
      /\ Score(r) = Score(worker[w]) /\ Scope(r) = Scope(worker[w])
      /\ Hand(r) = Hand(worker[w])
  <2> HIDE DEF done, phase
  <2>1. QED
    BY <1>1 DEF Jobs, Aim, Found, Score, Scope, Hand
<1> HIDE DEF r
<1>4. Set(w, r) => worker'[w] = r
  BY SetIs
<1>5. QED
  BY <1>1, <1>2, <1>3, <1>4, DoesFail

\* Confirmed on record, when the confirmation failed part-way.
Landed(w) ==
  {q \in Finished(w) : manifest'[q] # None /\ manifest'[q].chunks = New(w, q)}

LEMMA DoesConfirm ==
  ASSUME Typed, NEW w \in Workers, Confirm(w)
  PROVE  /\ worker[w] \in Jobs /\ worker[w].phase = "confirm" /\ worker[w].want \in Target
         /\ UNCHANGED <<rows, record, claim, graph, torn, unsure, owed>>
         /\ \E p \in worker[w].files :
              LET rest == worker[w].files \ {p}
              IN \/ /\ manifest' = [manifest EXCEPT ![p] = Confirmation(w, p)]
                    /\ worker'[w].files = IF rest = {} THEN Finished(w) ELSE rest
                    /\ worker'[w].phase = IF rest = {} THEN "stale" ELSE "confirm"
                    /\ worker'[w].up = IF rest = {} THEN worker[w].up + Added(w, Finished(w))
                                       ELSE worker[w].up
                    /\ worker'[w].del = worker[w].del
                    /\ worker'[w].recount = worker[w].recount
                    /\ Aim(worker'[w]) = Aim(worker[w]) /\ Found(worker'[w]) = Found(worker[w])
                    /\ Scope(worker'[w]) = Scope(worker[w]) /\ Hand(worker'[w]) = Hand(worker[w])
                 \/ /\ manifest' \in {manifest, [manifest EXCEPT ![p] = Confirmation(w, p)]}
                    /\ worker'[w].phase = "settle" /\ worker'[w].failed = TRUE
                    /\ \/ /\ worker'[w].up = worker[w].up + Added(w, Landed(w))
                          /\ worker'[w].recount = worker[w].recount
                       \/ worker'[w].recount = TRUE
                    /\ worker'[w].del = worker[w].del
                    /\ Aim(worker'[w]) = Aim(worker[w]) /\ Found(worker'[w]) = Found(worker[w])
<1>1. worker[w] \in Jobs /\ worker[w].phase = "confirm" /\ worker[w].want \in Target
  BY Busy DEF Confirm, At_, Grouping
<1>2. UNCHANGED <<rows, record, claim, graph, torn, unsure, owed>>
  BY DEF Confirm
<1>3. PICK p \in worker[w].files :
        \/ /\ manifest' = [manifest EXCEPT ![p] = Confirmation(w, p)]
           /\ LET rest == worker[w].files \ {p}
              IN Set(w, [worker[w] EXCEPT
                   !.files = IF rest = {} THEN Finished(w) ELSE rest,
                   !.phase = IF rest = {} THEN "stale" ELSE @,
                   !.up = IF rest = {} THEN @ + Added(w, Finished(w)) ELSE @])
        \/ /\ RecordFails(p, Confirmation(w, p))
           /\ Set(w, [worker[w] EXCEPT !.phase = "settle", !.failed = TRUE,
                   !.up = @ + Added(w, Landed(w))])
        \/ /\ manifest' \in {manifest, [manifest EXCEPT ![p] = Confirmation(w, p)]}
           /\ Set(w, [worker[w] EXCEPT !.phase = "settle", !.failed = TRUE,
                !.recount = TRUE])
  BY DEF Confirm, Landed
<1> DEFINE rest == worker[w].files \ {p}
           files == IF rest = {} THEN Finished(w) ELSE rest
           phase == IF rest = {} THEN "stale" ELSE worker[w].phase
           n == IF rest = {} THEN worker[w].up + Added(w, Finished(w)) ELSE worker[w].up
           m == worker[w].up + Added(w, Landed(w))
           r1 == [worker[w] EXCEPT !.files = files, !.phase = phase, !.up = n]
           r2 == [worker[w] EXCEPT !.phase = "settle", !.failed = TRUE, !.up = m]
           r3 == [worker[w] EXCEPT !.phase = "settle", !.failed = TRUE, !.recount = TRUE]
<1>4. \/ manifest' = [manifest EXCEPT ![p] = Confirmation(w, p)] /\ Set(w, r1)
      \/ /\ manifest' \in {manifest, [manifest EXCEPT ![p] = Confirmation(w, p)]}
         /\ Set(w, r2) \/ Set(w, r3)
  BY <1>3 DEF RecordFails
<1>5. /\ r1.files = files /\ r1.phase = phase /\ r1.up = n /\ r1.del = worker[w].del
      /\ r1.recount = worker[w].recount /\ Aim(r1) = Aim(worker[w])
      /\ Found(r1) = Found(worker[w]) /\ Scope(r1) = Scope(worker[w])
      /\ Hand(r1) = Hand(worker[w])
  <2> HIDE DEF files, phase, n
  <2>1. QED
    BY <1>1 DEF Jobs, Aim, Found, Scope, Hand
<1>6. /\ r2.phase = "settle" /\ r2.failed = TRUE /\ r2.up = m /\ r2.del = worker[w].del
      /\ r2.recount = worker[w].recount /\ Aim(r2) = Aim(worker[w])
      /\ Found(r2) = Found(worker[w])
  <2> HIDE DEF m
  <2>1. QED
    BY <1>1 DEF Jobs, Aim, Found
<1>7. /\ r3.phase = "settle" /\ r3.failed = TRUE /\ r3.del = worker[w].del
      /\ r3.recount = TRUE /\ Aim(r3) = Aim(worker[w]) /\ Found(r3) = Found(worker[w])
  BY <1>1 DEF Jobs, Aim, Found
<1>8. phase = IF rest = {} THEN "stale" ELSE "confirm"
  BY <1>1
<1> HIDE DEF r1, r2, r3, phase
<1>9. /\ Set(w, r1) => worker'[w] = r1
      /\ Set(w, r2) => worker'[w] = r2
      /\ Set(w, r3) => worker'[w] = r3
  BY SetIs
<1>10. CASE manifest' = [manifest EXCEPT ![p] = Confirmation(w, p)] /\ Set(w, r1)
  BY <1>1, <1>2, <1>5, <1>8, <1>9, <1>10
<1>11. CASE /\ manifest' \in {manifest, [manifest EXCEPT ![p] = Confirmation(w, p)]}
            /\ Set(w, r2) \/ Set(w, r3)
  BY <1>1, <1>2, <1>6, <1>7, <1>9, <1>11
<1>12. QED
  BY <1>4, <1>10, <1>11

LEMMA DoesWipe ==
  ASSUME Typed, NEW w \in Workers, Wipe(w)
  PROVE  LET known == {p \in Paths : manifest[p] # None}
         IN /\ worker[w] \in Jobs /\ worker[w].phase = "wipe"
            /\ UNCHANGED <<manifest, record, claim, graph>>
            /\ rows' \subseteq rows /\ {i \in rows : i[1] \notin known} \subseteq rows'
            /\ LET taken == UNION {Counted(manifest[p]) : p \in known}
               IN \/ torn' = torn \cup taken
                  \/ torn' = torn \cup ((rows \ rows') \cap taken)
            /\ \/ worker'[w] = Idle /\ unsure' = TRUE /\ owed' = TRUE
               \/ /\ worker'[w].phase = "unname" /\ worker'[w].swept = known
                  /\ Aim(worker'[w]) = Aim(worker[w]) /\ Found(worker'[w]) = Found(worker[w])
                  /\ Score(worker'[w]) = Score(worker[w])
                  /\ Scope(worker'[w]) = Scope(worker[w])
                  /\ UNCHANGED <<unsure, owed>>
<1> DEFINE known == {p \in Paths : manifest[p] # None}
           taken == UNION {Counted(manifest[p]) : p \in known}
           kept == {i \in rows : i[1] \notin known}
           r == [worker[w] EXCEPT !.phase = "unname", !.swept = known]
<1>1. worker[w] \in Jobs /\ worker[w].phase = "wipe"
  BY Busy DEF Wipe, At_
<1>2. UNCHANGED <<manifest, record, claim, graph>>
  BY DEF Wipe
<1>3. /\ \/ rows' = kept /\ torn' = torn \cup taken
         \/ \E lost \in SUBSET (rows \ kept) :
              rows' = rows \ lost /\ torn' = torn \cup (lost \cap taken)
      /\ \/ Set(w, Idle) /\ unsure' = TRUE /\ owed' = TRUE
         \/ Set(w, r) /\ UNCHANGED <<unsure, owed>>
  BY DEF Wipe, Stops
<1>7. /\ rows' \subseteq rows /\ kept \subseteq rows'
      /\ torn' = torn \cup taken \/ torn' = torn \cup ((rows \ rows') \cap taken)
  <2>1. CASE rows' = kept /\ torn' = torn \cup taken
    BY <2>1
  <2>2. ASSUME NEW lost \in SUBSET (rows \ kept), rows' = rows \ lost,
               torn' = torn \cup (lost \cap taken)
        PROVE  /\ rows' \subseteq rows /\ kept \subseteq rows'
               /\ torn' = torn \cup ((rows \ rows') \cap taken)
    <3> kept \subseteq rows
      OBVIOUS
    <3> HIDE DEF kept, taken
    <3>1. lost = rows \ rows'
      BY <2>2
    <3>2. rows' \subseteq rows /\ kept \subseteq rows'
      BY <2>2
    <3>3. QED
      BY <2>2, <3>1, <3>2
  <2>3. QED
    BY <1>3, <2>1, <2>2
<1>4. /\ r.phase = "unname" /\ r.swept = known
      /\ Aim(r) = Aim(worker[w]) /\ Found(r) = Found(worker[w])
      /\ Score(r) = Score(worker[w]) /\ Scope(r) = Scope(worker[w])
  <2> HIDE DEF known
  <2>1. QED
    BY <1>1 DEF Jobs, Aim, Found, Score, Scope
<1> HIDE DEF r
<1>5. (Set(w, Idle) => worker'[w] = Idle) /\ (Set(w, r) => worker'[w] = r)
  BY SetIs
<1> HIDE DEF known
<1>6. QED
  BY <1>1, <1>2, <1>3, <1>4, <1>5, <1>7 DEF known

LEMMA DoesSweep ==
  ASSUME Typed, NEW w \in Workers, SweepPaths(w)
  PROVE  LET kept == {i \in rows : i[1] \notin worker[w].swept}
         IN /\ worker[w] \in Jobs /\ worker[w].phase \in {"revoke sweep", "remove sweep"}
            /\ UNCHANGED <<manifest, record, claim, graph, torn, unsure, owed>>
            /\ rows' \subseteq rows /\ kept \subseteq rows'
            /\ \/ Failing(w)
               \/ /\ worker'[w].phase = IF worker[w].phase = "revoke sweep" THEN "group" ELSE "forget"
                  /\ Aim(worker'[w]) = Aim(worker[w]) /\ Found(worker'[w]) = Found(worker[w])
                  /\ Score(worker'[w]) = Score(worker[w]) /\ Scope(worker'[w]) = Scope(worker[w])
                  /\ Hand(worker'[w]) = Hand(worker[w]) /\ worker'[w].files = worker[w].files
                  /\ worker'[w].swept = worker[w].swept
<1> DEFINE next == IF worker[w].phase = "revoke sweep" THEN "group" ELSE "forget"
<1>1. worker[w] \in Jobs /\ worker[w].phase \in {"revoke sweep", "remove sweep"}
  BY Busy DEF SweepPaths, At_
<1>2. /\ UNCHANGED <<manifest, record, claim, graph, torn, unsure, owed>>
      /\ rows' \subseteq rows /\ {i \in rows : i[1] \notin worker[w].swept} \subseteq rows'
      /\ Fails(w) \/ Go(w, next)
  BY DEF SweepPaths, At_
<1>3. Fails(w) => Failing(w)
  BY <1>1, DoesFail
<1>4. Go(w, next) =>
        /\ worker'[w].phase = next
        /\ Aim(worker'[w]) = Aim(worker[w]) /\ Found(worker'[w]) = Found(worker[w])
        /\ Score(worker'[w]) = Score(worker[w]) /\ Scope(worker'[w]) = Scope(worker[w])
        /\ Hand(worker'[w]) = Hand(worker[w]) /\ worker'[w].files = worker[w].files
        /\ worker'[w].swept = worker[w].swept
  <2> HIDE DEF next
  <2>1. QED
    BY <1>1, DoesGo
<1>5. QED
  BY <1>1, <1>2, <1>3, <1>4

LEMMA DoesForget ==
  ASSUME Typed, NEW w \in Workers, Forget(w) \/ Unname(w)
  PROVE  /\ worker[w] \in Jobs
         /\ \/ Forget(w) /\ worker[w].phase = "forget" /\ UNCHANGED <<unsure, owed>>
            \/ Unname(w) /\ worker[w].phase = "unname"
         /\ UNCHANGED <<rows, record, claim, graph>>
         /\ \E ps \in SUBSET worker[w].swept : manifest' = Without(ps) /\ torn' = Untorn(ps)
         /\ \/ Failing(w) /\ worker[w].phase = "forget"
            \/ worker'[w] = Idle /\ worker[w].phase = "unname" /\ unsure' = TRUE /\ owed' = TRUE
            \/ /\ manifest' = Without(worker[w].swept) /\ torn' = Untorn(worker[w].swept)
               /\ worker'[w].phase = "settle" /\ UNCHANGED <<unsure, owed>>
               /\ Aim(worker'[w]) = Aim(worker[w]) /\ Found(worker'[w]) = Found(worker[w])
               /\ Score(worker'[w]) = Score(worker[w]) /\ Scope(worker'[w]) = Scope(worker[w])
<1>1. worker[w] \in Jobs
  BY Busy DEF Forget, Unname, At_
<1>2. \/ Forget(w) /\ worker[w].phase = "forget" /\ UNCHANGED <<unsure, owed>>
      \/ Unname(w) /\ worker[w].phase = "unname"
  BY DEF Forget, Unname, At_
<1>3. /\ UNCHANGED <<rows, record, claim, graph>>
      /\ \E ps \in SUBSET worker[w].swept : manifest' = Without(ps) /\ torn' = Untorn(ps)
  BY DEF Forget, Unname
<1>4. \/ Fails(w) /\ worker[w].phase = "forget"
      \/ Set(w, Idle) /\ worker[w].phase = "unname" /\ unsure' = TRUE /\ owed' = TRUE
      \/ /\ manifest' = Without(worker[w].swept) /\ torn' = Untorn(worker[w].swept)
         /\ Go(w, "settle") /\ UNCHANGED <<unsure, owed>>
  BY DEF Forget, Unname, At_, Stops
<1>5. Set(w, Idle) => worker'[w] = Idle
  BY SetIs
<1>6. Fails(w) => Failing(w)
  BY <1>1, DoesFail
<1>7. Go(w, "settle") =>
        /\ worker'[w].phase = "settle"
        /\ Aim(worker'[w]) = Aim(worker[w]) /\ Found(worker'[w]) = Found(worker[w])
        /\ Score(worker'[w]) = Score(worker[w]) /\ Scope(worker'[w]) = Scope(worker[w])
  BY <1>1, DoesGo
<1>8. QED
  BY <1>1, <1>2, <1>3, <1>4, <1>5, <1>6, <1>7

LEMMA DoesWrite ==
  ASSUME Typed, NEW w \in Workers, RecordIntent(w) \/ Finalize(w)
  PROVE  LET phase == worker[w].phase
             entry(p) == IF phase = "intent" THEN Intent(w, p) ELSE Finalized(w, p)
         IN /\ worker[w] \in Jobs /\ worker[w].want \in Target
            /\ UNCHANGED <<rows, record, claim, graph, unsure, owed>>
            /\ \/ RecordIntent(w) /\ phase = "intent" /\ torn' = torn
               \/ Finalize(w) /\ phase = "finalize"
            /\ \E p \in worker[w].files :
                 /\ manifest' \in {manifest, [manifest EXCEPT ![p] = entry(p)]}
                 /\ phase = "finalize" => torn' = torn \ (Stale(w, p) \ Named(manifest'[p]))
                 /\ \/ Failing(w)
                    \/ /\ manifest' = [manifest EXCEPT ![p] = entry(p)]
                       /\ worker'[w].files = worker[w].files \ {p}
                       /\ worker'[w].phase = IF worker'[w].files # {} THEN phase
                                             ELSE IF phase = "intent" THEN "relocate" ELSE "group"
                       /\ Aim(worker'[w]) = Aim(worker[w]) /\ Found(worker'[w]) = Found(worker[w])
                       /\ Score(worker'[w]) = Score(worker[w])
                       /\ Scope(worker'[w]) = Scope(worker[w])
                       /\ Hand(worker'[w]) = Hand(worker[w])
                       /\ worker'[w].swept = worker[w].swept
<1> DEFINE phase == worker[w].phase
           entry(p) == IF phase = "intent" THEN Intent(w, p) ELSE Finalized(w, p)
<1>1. worker[w] \in Jobs /\ worker[w].want \in Target
  BY Busy DEF RecordIntent, Finalize, At_, Grouping
<1>2. /\ UNCHANGED <<rows, record, claim, graph, unsure, owed>>
      /\ \/ RecordIntent(w) /\ phase = "intent" /\ torn' = torn
         \/ Finalize(w) /\ phase = "finalize"
  BY DEF RecordIntent, Finalize, At_
<1>3. PICK p \in worker[w].files :
        /\ phase = "finalize" => torn' = torn \ (Stale(w, p) \ Named(manifest'[p]))
        /\ \/ Record(w, p, entry(p), IF phase = "intent" THEN "relocate" ELSE "group")
           \/ RecordFails(p, entry(p)) /\ Fails(w)
  BY <1>2 DEF RecordIntent, Finalize
<1>4. CASE RecordFails(p, entry(p)) /\ Fails(w)
  <2>1. Failing(w)
    BY <1>1, <1>4, DoesFail
  <2>2. manifest' \in {manifest, [manifest EXCEPT ![p] = entry(p)]}
    BY <1>4 DEF RecordFails
  <2>3. QED
    BY <1>1, <1>2, <1>3, <2>1, <2>2
<1>5. CASE Record(w, p, entry(p), IF phase = "intent" THEN "relocate" ELSE "group")
  <2> DEFINE then == IF phase = "intent" THEN "relocate" ELSE "group"
  <2>1. manifest' = [manifest EXCEPT ![p] = entry(p)]
    BY <1>5 DEF Record
  <2> HIDE DEF then
  <2>2. /\ worker'[w].files = worker[w].files \ {p}
        /\ worker'[w].phase = IF worker'[w].files = {} THEN then ELSE worker[w].phase
        /\ Aim(worker'[w]) = Aim(worker[w]) /\ Found(worker'[w]) = Found(worker[w])
        /\ Score(worker'[w]) = Score(worker[w]) /\ Scope(worker'[w]) = Scope(worker[w])
        /\ Hand(worker'[w]) = Hand(worker[w]) /\ worker'[w].swept = worker[w].swept
    <3> HIDE DEF entry
    <3>1. QED
      BY <1>1, <1>5, DoesRecord DEF then
  <2>3. QED
    BY <1>1, <1>2, <1>3, <2>1, <2>2 DEF then
<1>6. QED
  BY <1>3, <1>4, <1>5

-----------------------------------------------------------------------------
(* The record while a run is inside.                                       *)

\* Two runs are never inside at once, and the one inside has its fence on the
\* record.
LEMMA OnlyOne ==
  ASSUME Held, Sole, NEW w \in Workers, worker[w].phase \in Inner \cup {"mark"}
  PROVE  /\ \A v \in Workers : v # w => worker[v].phase \notin Inner \cup {"mark"}
         /\ worker[w].phase \in Inner => record.fence = worker[w].fence
         /\ \A v \in Workers : v # w => worker[v].fence # worker[w].fence
         /\ worker[w].fence # 0
<1>1. worker[w].fence = claim /\ worker[w].fence # 0
  BY DEF Sole, Held, Inner
<1>2. \A v \in Workers : v # w => worker[v].fence # worker[w].fence
  BY <1>1 DEF Held
<1>3. worker[w].phase \in Inner => record.fence = worker[w].fence
  BY <1>1 DEF Held, Working, Inner
<1>4. QED
  BY <1>1, <1>2, <1>3 DEF Sole

\* Until it is settled the record says "indexing".
Unsettled == Inner \ {"drop"}
Marked == \A w \in Workers : worker[w].phase \in Unsettled => record.state = "indexing"

\* Where the steps of a run are taken.
LEMMA RunsUnsettled ==
  ASSUME NEW w \in Workers, InnerRun(w)
  PROVE  worker[w].phase \in Unsettled \ {"settle"}
  BY DEF InnerRun, Unsettled, Inner, Phases, At_, Begin, RemoveCounted, SweepPaths, Forget,
     NextGroup, RecordIntent, Relocate, EmbedBatch, BudgetStop, DeleteOrphans, Confirm,
     DeleteStale, Finalize, EndGroups, Wipe, Unname

\* Its claim is marked: the record gets the fence, nothing else but its state.
LEMMA DoesMark ==
  ASSUME Typed, NEW w \in Workers, MarkIndexing(w)
  PROVE  /\ worker[w] \in Jobs /\ worker[w].phase = "mark"
         /\ UNCHANGED <<rows, manifest, claim, graph, claims, torn, unsure, owed>>
         /\ record'.revision = record.revision /\ record'.message = record.message
         /\ record'.uncertain = record.uncertain /\ record'.chunks = record.chunks
         /\ \/ record' = record
            \/ record'.state = "indexing" /\ record'.fence = worker[w].fence
         /\ \/ worker'[w] = Idle
            \/ /\ record'.state = "indexing" /\ record'.fence = worker[w].fence
               /\ worker'[w].phase = IF worker[w].job = "reset" THEN "wipe" ELSE "begin"
               /\ Aim(worker'[w]) = Aim(worker[w])
               /\ Score(worker'[w]) = Score(worker[w]) /\ Scope(worker'[w]) = Scope(worker[w])
<1> DEFINE marked == [record EXCEPT !.state = "indexing", !.fence = worker[w].fence]
           phase == IF worker[w].job = "reset" THEN "wipe" ELSE "begin"
<1>1. worker[w] \in Jobs /\ worker[w].phase = "mark"
  BY Busy DEF MarkIndexing, At_
<1>2. UNCHANGED <<rows, manifest, claim, graph, claims, torn, unsure, owed>>
  BY DEF MarkIndexing
<1>3. /\ marked.state = "indexing" /\ marked.fence = worker[w].fence
      /\ marked.revision = record.revision /\ marked.message = record.message
      /\ marked.uncertain = record.uncertain /\ marked.chunks = record.chunks
  BY Kept DEF Records
<1>4. \/ record' = marked /\ Go(w, phase)
      \/ record' \in {record, marked} /\ Set(w, Idle)
  BY DEF MarkIndexing, Stops
<1> HIDE DEF marked, phase
<1>5. Set(w, Idle) => worker'[w] = Idle
  BY SetIs
<1>6. Go(w, phase) =>
        /\ worker'[w].phase = phase /\ Aim(worker'[w]) = Aim(worker[w])
        /\ Score(worker'[w]) = Score(worker[w]) /\ Scope(worker'[w]) = Scope(worker[w])
  BY <1>1, DoesGo
<1>7. QED
  BY <1>1, <1>2, <1>3, <1>4, <1>5, <1>6 DEF phase

\* How a run ends with its record: it goes on to drop its claim, or it is over.
Leaves(w, failed) ==
  /\ worker'[w].phase = "drop" /\ worker'[w].failed = failed
  /\ Aim(worker'[w]) = Aim(worker[w]) /\ Found(worker'[w]) = Found(worker[w])
  /\ worker'[w].budget = worker[w].budget /\ worker'[w].todo = worker[w].todo
  /\ worker'[w].changed = worker[w].changed
LEMMA DoesLeaveRecord ==
  ASSUME Typed, NEW w \in Workers, worker[w] \in Jobs, NEW failed,
         Set(w, [worker[w] EXCEPT !.phase = "drop", !.failed = failed])
  PROVE  Leaves(w, failed)
<1> DEFINE r == [worker[w] EXCEPT !.phase = "drop", !.failed = failed]
<1>1. /\ r.phase = "drop" /\ r.failed = failed
      /\ Aim(r) = Aim(worker[w]) /\ Found(r) = Found(worker[w])
      /\ r.budget = worker[w].budget /\ r.todo = worker[w].todo
      /\ r.changed = worker[w].changed
  BY DEF Jobs, Aim, Found
<1> HIDE DEF r
<1>2. worker'[w] = r
  BY SetIs DEF r
<1>3. QED
  BY <1>1, <1>2 DEF Leaves

\* What the record says afterwards.
DoneAs(r, revision, n) ==
  /\ r.state = "ready" /\ r.message = FALSE /\ r.uncertain = FALSE
  /\ r.revision = revision /\ r.chunks = n /\ r.fence = record.fence
GaveUpAs(r, uncertain, n) ==
  /\ r.state = "failed" /\ r.message = TRUE /\ r.uncertain = uncertain
  /\ r.revision = record.revision /\ r.chunks = n /\ r.fence = record.fence
LEMMA DoneIs ==
  ASSUME record \in Records, NEW revision, NEW n
  PROVE  DoneAs(Done(revision, n), revision, n)
  BY DEF Done, DoneAs, Records
LEMMA GaveUpIs ==
  ASSUME record \in Records, NEW w \in Workers, NEW uncertain, NEW counts
  PROVE  GaveUpAs(GaveUp(w, uncertain, counts), uncertain,
                  IF counts THEN Chunks(w) ELSE record.chunks)
<1> DEFINE n == IF counts THEN Chunks(w) ELSE record.chunks
           g == [record EXCEPT !.state = "failed", !.message = TRUE,
                               !.uncertain = uncertain, !.chunks = n]
<1>1. g = GaveUp(w, uncertain, counts)
  BY DEF GaveUp
<1>2. GaveUpAs(g, uncertain, n)
  <2> HIDE DEF n
  <2>1. QED
    BY DEF Records, GaveUpAs
<1> HIDE DEF g
<1>3. QED
  BY <1>1, <1>2

\* A reset, a run that went well, one that failed, and a recount that failed.
Emptied(w) == worker[w].job = "reset" /\ DoneAs(record', None, 0) /\ (unsure => unsure')
WentWell(w) ==
  /\ worker[w].job = "index" /\ ~worker[w].failed
  /\ DoneAs(record', IF Whole(w) THEN worker[w].want ELSE None,
            IF worker[w].recount THEN Recounted ELSE Chunks(w))
  /\ (unsure \/ (worker[w].recount /\ torn # {})) => unsure'
WentWrong(w) ==
  /\ worker[w].job = "index" /\ worker[w].failed /\ (unsure => unsure')
  /\ GaveUpAs(record', worker[w].recount,
              IF worker[w].up # 0 \/ worker[w].del # 0 THEN Chunks(w) ELSE record.chunks)
LostCount(w) ==
  /\ worker[w].job = "index" /\ (unsure => unsure')
  /\ GaveUpAs(record', TRUE, record.chunks)

LEMMA SettlesAs ==
  ASSUME Typed, NEW w \in Workers, worker[w] \in Jobs, NEW s \in Settlements(w),
         record' = s[1], (unsure \/ (s[2] /\ worker[w].recount /\ torn # {})) => unsure'
  PROVE  \/ Emptied(w) /\ s[2] = TRUE
         \/ WentWell(w) /\ s[2] = TRUE
         \/ WentWrong(w) /\ s[2] = FALSE
<1>1. record \in Records
  BY Kept
<1>2. CASE worker[w].job = "reset"
  <2>1. s = <<Done(None, 0), TRUE>>
    BY <1>2 DEF Settlements
  <2>2. DoneAs(Done(None, 0), None, 0)
    BY <1>1, DoneIs
  <2>3. QED
    BY <1>2, <2>1, <2>2 DEF Emptied
<1>3. CASE worker[w].job # "reset" /\ worker[w].failed
  <2> DEFINE counts == worker[w].up # 0 \/ worker[w].del # 0
  <2>1. s = <<GaveUp(w, worker[w].recount, counts), FALSE>>
    BY <1>3 DEF Settlements
  <2>2. worker[w].job = "index"
    BY <1>3 DEF Jobs
  <2>3. GaveUpAs(record', worker[w].recount, IF counts THEN Chunks(w) ELSE record.chunks)
    BY <1>1, <2>1, GaveUpIs
  <2>4. QED
    BY <1>3, <2>1, <2>2, <2>3 DEF WentWrong
<1>4. CASE worker[w].job # "reset" /\ ~worker[w].failed
  <2> DEFINE revision == IF Whole(w) THEN worker[w].want ELSE None
             n == IF worker[w].recount THEN Recounted ELSE Chunks(w)
  <2>1. s = <<Done(revision, n), TRUE>>
    BY <1>4 DEF Settlements
  <2>2. worker[w].job = "index"
    BY <1>4 DEF Jobs
  <2>3. DoneAs(record', revision, n)
    BY <1>1, <2>1, DoneIs
  <2>4. QED
    BY <1>4, <2>1, <2>2, <2>3 DEF WentWell
<1>5. QED
  BY <1>2, <1>3, <1>4

LEMMA DoesSettle ==
  ASSUME Typed, Held, Sole, NEW w \in Workers, Settle(w) \/ RecountFails(w)
  PROVE  /\ worker[w] \in Jobs /\ worker[w].phase = "settle"
         /\ UNCHANGED <<rows, manifest, claim, graph, torn>>
         /\ \/ /\ worker'[w] = Idle /\ unsure' = TRUE /\ owed' = TRUE
               /\ record' = record \/ Emptied(w) \/ WentWell(w) \/ WentWrong(w)
            \/ /\ UNCHANGED owed
               /\ \/ Leaves(w, FALSE) /\ (Emptied(w) \/ WentWell(w))
                  \/ Leaves(w, TRUE) /\ (WentWrong(w) \/ LostCount(w))
<1> DEFINE r(failed) == [worker[w] EXCEPT !.phase = "drop", !.failed = failed]
<1>1. worker[w] \in Jobs /\ worker[w].phase = "settle"
  BY Busy DEF Settle, RecountFails, At_
<1>2. record.fence = worker[w].fence
  BY <1>1, OnlyOne DEF Inner, Phases
<1>3. UNCHANGED <<rows, manifest, claim, graph, torn>>
  BY DEF Settle, RecountFails
<1>4. \A failed : Set(w, r(failed)) => Leaves(w, failed)
  BY <1>1, DoesLeaveRecord
<1>5. CASE Settle(w)
  <2>1. PICK s \in Settlements(w) :
          \/ /\ record' = s[1] /\ Set(w, r(~s[2])) /\ UNCHANGED owed
             /\ unsure' = (unsure \/ (s[2] /\ worker[w].recount /\ torn # {}))
          \/ record' \in {record, s[1]} /\ Set(w, Idle) /\ unsure' = TRUE /\ owed' = TRUE
    BY <1>2, <1>5 DEF Settle, Stops
  <2>2. record' = s[1] =>
          \/ Emptied(w) /\ s[2] = TRUE
          \/ WentWell(w) /\ s[2] = TRUE
          \/ WentWrong(w) /\ s[2] = FALSE
    <3>1. (unsure \/ (s[2] /\ worker[w].recount /\ torn # {})) => unsure'
      BY <2>1
    <3>2. QED
      BY <1>1, <3>1, SettlesAs
  <2>3. Set(w, Idle) => worker'[w] = Idle
    BY SetIs
  <2>4. Set(w, r(~s[2])) => Leaves(w, ~s[2])
    BY <1>4
  <2> HIDE DEF r
  <2>5. CASE /\ record' = s[1] /\ Set(w, r(~s[2])) /\ UNCHANGED owed
    BY <1>1, <1>3, <2>2, <2>4, <2>5
  <2>6. CASE record' \in {record, s[1]} /\ Set(w, Idle) /\ unsure' = TRUE /\ owed' = TRUE
    BY <1>1, <1>3, <2>2, <2>3, <2>6
  <2>7. QED
    BY <2>1, <2>5, <2>6
<1>6. CASE RecountFails(w)
  <2>1. /\ record' = GaveUp(w, TRUE, FALSE) /\ Set(w, r(TRUE)) /\ UNCHANGED <<unsure, owed>>
        /\ worker[w].job = "index"
    BY <1>2, <1>6 DEF RecountFails
  <2>2. Leaves(w, TRUE)
    BY <1>4, <2>1
  <2>3. GaveUpAs(GaveUp(w, TRUE, FALSE), TRUE, IF FALSE THEN Chunks(w) ELSE record.chunks)
    <3>1. record \in Records
      BY Kept
    <3>2. QED
      BY <3>1, GaveUpIs
  <2>4. LostCount(w)
    BY <2>1, <2>3 DEF LostCount
  <2>5. QED
    BY <1>1, <1>3, <2>1, <2>2, <2>4
<1>7. QED
  BY <1>5, <1>6

\* The claim is dropped, or the process that would is gone.
LEMMA DoesDrop ==
  ASSUME Typed, NEW w \in Workers, DropClaim(w)
  PROVE  LET syncs == worker[w].job = "index" /\ ~worker[w].failed
         IN /\ worker[w] \in Jobs /\ worker[w].phase = "drop"
            /\ UNCHANGED <<rows, manifest, record, graph, torn, unsure>>
            /\ \/ worker'[w] = Idle /\ owed' = owed /\ (syncs => worker[w].sub = "missing")
               \/ worker'[w] = Idle /\ owed' = (owed \/ syncs)
               \/ /\ syncs /\ worker[w].sub # "missing" /\ owed' = owed
                  /\ worker'[w].phase = "graph"
                  /\ Aim(worker'[w]) = Aim(worker[w]) /\ Found(worker'[w]) = Found(worker[w])
                  /\ Scope(worker'[w]) = Scope(worker[w])
<1>1. worker[w] \in Jobs /\ worker[w].phase = "drop"
  BY Busy DEF DropClaim, At_
<1>2. UNCHANGED <<rows, manifest, record, graph, torn, unsure>>
  BY DEF DropClaim
<1> DEFINE syncs == worker[w].job = "index" /\ ~worker[w].failed
<1>3. \/ Set(w, Idle) /\ owed' = owed /\ (syncs => worker[w].sub = "missing")
      \/ Set(w, Idle) /\ owed' = (owed \/ syncs)
      \/ Go(w, "graph") /\ syncs /\ worker[w].sub # "missing" /\ owed' = owed
  BY DEF DropClaim, Stops
<1>4. Set(w, Idle) => worker'[w] = Idle
  BY SetIs
<1>5. Go(w, "graph") =>
        /\ worker'[w].phase = "graph"
        /\ Aim(worker'[w]) = Aim(worker[w]) /\ Found(worker'[w]) = Found(worker[w])
        /\ Scope(worker'[w]) = Scope(worker[w])
  BY <1>1, DoesGo
<1>6. QED
  BY <1>1, <1>2, <1>3, <1>4, <1>5

\* The steps of a run under its claim; meanwhile the others are elsewhere.
Away == {"idle", "claim", "graph"}
Under(w) ==
  InnerRun(w) \/ MarkIndexing(w) \/ Settle(w) \/ RecountFails(w) \/ DropClaim(w)
LEMMA OthersAway ==
  ASSUME Typed, Held, Sole, NEW w \in Workers, Under(w)
  PROVE  /\ worker[w].phase \in Inner \cup {"mark"}
         /\ \A v \in Workers : v # w =>
              /\ worker'[v] = worker[v] /\ worker[v].phase \in Away
              /\ worker[v].fence # worker[w].fence
<1>1. worker[w].phase \in Inner \cup {"mark"}
  <2>1. "settle" \in Inner /\ "drop" \in Inner
    BY DEF Inner, Phases
  <2>2. QED
    BY <2>1, InnerSteps, MarkSteps, SettleSteps, DropSteps DEF Under, Steps
<1>2. \A v \in Workers : v # w => worker'[v] = worker[v]
  BY InnerSteps, MarkSteps, SettleSteps, DropSteps DEF Under, Steps
<1>3. \A v \in Workers : v # w =>
        worker[v].phase \notin Inner \cup {"mark"} /\ worker[v].fence # worker[w].fence
  BY <1>1, OnlyOne
<1>4. \A v \in Workers : worker[v].phase \in Phases
  BY DEF Typed, TypeOK
<1>5. QED
  BY <1>1, <1>2, <1>3, <1>4 DEF Inner, Away

\* The steps that leave the stores and what they say alone.
Beside(w) ==
  Request(w) \/ Reset(w) \/ Requeue(w) \/ SyncGraph(w) \/ Crash(w) \/ Claim(w)
LEMMA StoresStand ==
  ASSUME Typed, NEW w \in Workers, Beside(w)
  PROVE  /\ UNCHANGED <<rows, manifest, record, torn>>
         /\ \A v \in Workers : v # w => worker'[v] = worker[v]
<1>1. UNCHANGED <<rows, manifest, record, torn>>
  BY DEF Beside, Request, Reset, Requeue, SyncGraph, Crash, Claim, stores
<1>2. \A v \in Workers : v # w => worker'[v] = worker[v]
  BY StartSteps, StopSteps, ClaimSteps DEF Beside
<1>3. QED
  BY <1>1, <1>2

LEMMA StepCases ==
  ASSUME [Next]_vars
  PROVE  \/ UNCHANGED vars
         \/ ClaimExpires
         \/ \E w \in Workers : Under(w) \/ Beside(w)
  BY RunCases DEF Under, Beside

\* What a fresh run is asked, and that it has done nothing yet.
Untouched(r) == r.up = 0 /\ r.del = 0 /\ ~r.failed /\ ~r.budget
AskedOf(r) ==
  r.job = "index" => r.sub \in IF r.want.allowed THEN {"fetched", "missing"} ELSE {"denied"}
LEMMA DoesStart ==
  ASSUME Typed, NEW w \in Workers, Request(w) \/ Reset(w)
  PROVE  /\ worker'[w].phase = "claim"
         /\ Untouched(worker'[w]) /\ AskedOf(worker'[w])
<1>1. \A job, t, sub :
        LET r == Start(job, t, sub)
        IN /\ r.phase = "claim" /\ Untouched(r) /\ r.job = job /\ r.want = t
           /\ r.sub = sub
  BY DEF Start, Untouched
<1>2. CASE Request(w)
  <2>1. PICK t \in Target : \E sub \in IF t.allowed THEN {"fetched", "missing"} ELSE {"denied"} :
          Set(w, Start("index", t, sub))
    BY <1>2 DEF Request
  <2>2. PICK sub \in IF t.allowed THEN {"fetched", "missing"} ELSE {"denied"} :
          Set(w, Start("index", t, sub))
    BY <2>1
  <2>3. worker'[w] = Start("index", t, sub)
    BY <2>2, SetIs
  <2>4. QED
    BY <1>1, <2>2, <2>3 DEF AskedOf
<1>3. CASE Reset(w)
  <2>1. worker'[w] = Start("reset", None, "fetched")
    BY <1>3, SetIs DEF Reset
  <2>2. QED
    BY <1>1, <2>1 DEF AskedOf
<1>4. QED
  BY <1>2, <1>3

LEMMA DoesClaim ==
  ASSUME Typed, NEW w \in Workers, Claim(w)
  PROVE  /\ worker[w] \in Jobs /\ worker[w].phase = "claim"
         /\ \/ worker'[w] = Idle
            \/ /\ worker'[w].phase = "mark"
               /\ worker'[w].job = worker[w].job /\ worker'[w].want = worker[w].want
               /\ worker'[w].sub = worker[w].sub
               /\ Score(worker'[w]) = Score(worker[w]) /\ Scope(worker'[w]) = Scope(worker[w])
<1> DEFINE n == claims + 1
           r == [worker[w] EXCEPT !.phase = "mark", !.fence = n]
<1>1. worker[w] \in Jobs /\ worker[w].phase = "claim"
  BY Busy DEF Claim, At_
<1>2. /\ r.phase = "mark" /\ r.job = worker[w].job /\ r.want = worker[w].want
      /\ r.sub = worker[w].sub /\ Score(r) = Score(worker[w]) /\ Scope(r) = Scope(worker[w])
  <2> HIDE DEF n
  <2>1. QED
    BY <1>1 DEF Jobs, Score, Scope
<1>3. Set(w, r) \/ Set(w, Idle)
  BY DEF Claim, Stops
<1> HIDE DEF r
<1>4. (Set(w, r) => worker'[w] = r) /\ (Set(w, Idle) => worker'[w] = Idle)
  BY SetIs
<1>5. QED
  BY <1>1, <1>2, <1>3, <1>4

\* Until it is settled the record says so.
LEMMA MarkedStep ==
  ASSUME Typed, Held, Sole, Marked, [Next]_vars
  PROVE  Marked'
<1>1. CASE UNCHANGED vars
  BY <1>1 DEF Marked, vars
<1>2. CASE ClaimExpires
  BY <1>2 DEF ClaimExpires, Marked
<1>3. ASSUME NEW w \in Workers, Beside(w)
      PROVE  Marked'
  <2>1. worker'[w].phase \notin Unsettled
    <3>1. worker'[w].phase \in {"idle", "claim", "mark"}
      BY <1>3, StartSteps, StopSteps, ClaimSteps DEF Beside, Idle
    <3>2. QED
      BY <3>1 DEF Unsettled, Inner
  <2>2. QED
    BY <1>3, <2>1, StoresStand DEF Marked
<1>4. ASSUME NEW w \in Workers, Under(w)
      PROVE  Marked'
  <2>1. \A v \in Workers : v # w => worker'[v].phase \notin Unsettled
    BY <1>4, OthersAway DEF Away, Unsettled, Inner
  <2>2. CASE InnerRun(w)
    <3>1. worker[w].phase \in Unsettled /\ record' = record
      BY <2>2, RunsUnsettled, InnerSteps DEF Steps
    <3>2. QED
      BY <2>1, <3>1 DEF Marked
  <2>3. CASE MarkIndexing(w)
    BY <2>1, <2>3, DoesMark DEF Marked, Idle, Unsettled, Inner
  <2>4. CASE Settle(w) \/ RecountFails(w) \/ DropClaim(w)
    <3>1. worker'[w].phase \in {"idle", "drop", "graph"}
      BY <2>4, SettleSteps, DropSteps DEF Idle
    <3>2. QED
      BY <2>1, <3>1 DEF Marked, Unsettled, Inner
  <2>5. QED
    BY <1>4, <2>2, <2>3, <2>4 DEF Under
<1>5. QED
  BY <1>1, <1>2, <1>3, <1>4, StepCases

\* What a run was asked goes with what it does.
Asked(w) ==
  LET phase == worker[w].phase
  IN /\ phase # "idle" => AskedOf(worker[w])
     /\ phase \in {"claim", "mark", "begin", "wipe", "unname"} => Untouched(worker[w])
     /\ phase \in {"remove", "remove sweep", "forget", "graph"} => worker[w].job = "index"
     /\ phase \in {"wipe", "unname"} => worker[w].job = "reset"
     /\ phase = "graph" => ~worker[w].failed /\ worker[w].sub # "missing"

\* How a reset empties the manifest.
Emptying(w) ==
  /\ worker[w].phase = "unname" =>
       \A q \in Paths : manifest[q] # None => q \in worker[w].swept
  /\ (worker[w].phase = "settle" /\ worker[w].job = "reset") =>
       \A q \in Paths : manifest[q] = None

LEMMA FailingAsked ==
  ASSUME NEW w \in Workers, Asked(w), worker[w].phase # "idle", Failing(w)
  PROVE  Asked(w)'
  BY DEF Asked, AskedOf, Failing, Aim

LEMMA IdleAsked ==
  ASSUME NEW w \in Workers, worker'[w] = Idle
  PROVE  Asked(w)' /\ Emptying(w)'
  BY DEF Asked, Emptying, Idle

\* Inside the groups nothing was asked to be emptied.
LEMMA GroupsAsked ==
  ASSUME Typed, NEW w \in Workers, Asked(w), worker[w].phase \in Grouping,
         Failing(w) \/ (/\ Aim(worker'[w]) = Aim(worker[w])
                        /\ worker'[w].phase \in (Grouping \ {"begin"}) \cup {"settle", "remove"})
  PROVE  Asked(w)' /\ Emptying(w)'
<1>1. worker[w].job = "index" /\ worker[w].phase # "idle"
  BY Busy DEF Wants, Grouping
<1>2. worker'[w].job = "index"
  BY <1>1 DEF Failing, Aim
<1>3. CASE Failing(w)
  BY <1>1, <1>2, <1>3, FailingAsked DEF Emptying, Failing
<1>4. CASE ~Failing(w)
  BY <1>1, <1>2, <1>4 DEF Asked, AskedOf, Emptying, Grouping, Aim
<1>5. QED
  BY <1>3, <1>4

LEMMA AskedInside ==
  ASSUME Typed, NEW w \in Workers, Asked(w), Emptying(w), InnerRun(w)
  PROVE  Asked(w)' /\ Emptying(w)'
<1>1. CASE Begin(w)
  BY <1>1, DoesBegin, GroupsAsked DEF Grouping
<1>2. CASE NextGroup(w)
  BY <1>2, DoesGroup, GroupsAsked DEF Grouping
<1>3. CASE RecordIntent(w) \/ Finalize(w)
  <2>1. PICK p \in worker[w].files :
          \/ Failing(w)
          \/ /\ Aim(worker'[w]) = Aim(worker[w])
             /\ worker'[w].phase = IF worker'[w].files # {} THEN worker[w].phase
                                   ELSE IF worker[w].phase = "intent" THEN "relocate" ELSE "group"
    BY <1>3, DoesWrite
  <2>2. worker[w].phase \in {"intent", "finalize"}
    BY <1>3, DoesWrite
  <2>3. QED
    BY <2>1, <2>2, GroupsAsked DEF Grouping
<1>4. CASE Relocate(w)
  BY <1>4, DoesRelocate, GroupsAsked DEF Grouping
<1>5. CASE EmbedBatch(w)
  BY <1>5, DoesEmbed, GroupsAsked DEF Grouping
<1>6. CASE BudgetStop(w)
  BY <1>6, DoesStop, GroupsAsked DEF Grouping
<1>7. CASE DeleteOrphans(w)
  BY <1>7, DoesOrphans, GroupsAsked DEF Grouping
<1>8. CASE Confirm(w)
  <2>1. /\ Aim(worker'[w]) = Aim(worker[w])
        /\ worker'[w].phase \in {"confirm", "stale", "settle"}
        /\ worker[w].phase = "confirm"
    BY <1>8, DoesConfirm
  <2>2. QED
    BY <2>1, GroupsAsked DEF Grouping
<1>9. CASE DeleteStale(w)
  BY <1>9, DoesStale, GroupsAsked DEF Grouping, Deletes, LosesDelete
<1>10. CASE EndGroups(w)
  BY <1>10, DoesEnd, GroupsAsked DEF Grouping
<1>11. CASE RemoveCounted(w)
  <2>1. CASE worker[w].phase = "revoke"
    BY <1>11, <2>1, DoesRemove, GroupsAsked DEF Grouping, Deletes, LosesDelete
  <2>2. CASE worker[w].phase = "remove"
    BY <1>11, <2>2, DoesRemove, FailingAsked
       DEF Asked, AskedOf, Emptying, Aim, Deletes, LosesDelete, Failing
  <2>3. QED
    BY <1>11, <2>1, <2>2, DoesRemove
<1>12. CASE SweepPaths(w)
  <2>1. CASE worker[w].phase = "revoke sweep"
    BY <1>12, <2>1, DoesSweep, GroupsAsked DEF Grouping
  <2>2. CASE worker[w].phase = "remove sweep"
    BY <1>12, <2>2, DoesSweep, FailingAsked DEF Asked, AskedOf, Emptying, Aim, Failing
  <2>3. QED
    BY <1>12, <2>1, <2>2, DoesSweep
<1>13. CASE Wipe(w)
  <2>1. /\ worker[w].phase = "wipe" /\ manifest' = manifest
        /\ \/ worker'[w] = Idle
           \/ /\ worker'[w].phase = "unname"
              /\ worker'[w].swept = {q \in Paths : manifest[q] # None}
              /\ Aim(worker'[w]) = Aim(worker[w]) /\ Score(worker'[w]) = Score(worker[w])
              /\ Scope(worker'[w]) = Scope(worker[w])
    BY <1>13, DoesWipe
  <2>2. CASE worker'[w] = Idle
    BY <2>2, IdleAsked
  <2>3. CASE worker'[w] # Idle
    <3>1. Asked(w)'
      BY <2>1, <2>3 DEF Asked, AskedOf, Aim, Score, Scope, Untouched
    <3>2. Emptying(w)'
      BY <2>1, <2>3 DEF Emptying
    <3>3. QED
      BY <3>1, <3>2
  <2>4. QED
    BY <2>2, <2>3
<1>14. CASE Forget(w)
  <2>1. worker[w].phase = "forget"
    BY <1>14 DEF Forget, At_
  <2>2. \/ Failing(w)
        \/ worker'[w].phase = "settle" /\ Aim(worker'[w]) = Aim(worker[w])
    BY <1>14, <2>1, DoesForget
  <2>3. worker'[w].phase = "settle" /\ Aim(worker'[w]) = Aim(worker[w])
    BY <2>2 DEF Failing
  <2>4. QED
    BY <2>1, <2>3 DEF Asked, AskedOf, Emptying, Aim
<1>15. CASE Unname(w)
  <2>2. worker[w].phase = "unname"
    BY <1>15 DEF Unname, At_
  <2>1. \/ worker'[w] = Idle
        \/ /\ manifest' = Without(worker[w].swept) /\ worker'[w].phase = "settle"
           /\ Aim(worker'[w]) = Aim(worker[w])
    BY <1>15, <2>2, DoesForget
  <2>3. CASE /\ manifest' = Without(worker[w].swept) /\ worker'[w].phase = "settle"
             /\ Aim(worker'[w]) = Aim(worker[w])
    <3>1. \A q \in Paths : manifest'[q] = None
      BY <2>2, <2>3 DEF Emptying, Without
    <3>2. QED
      BY <2>2, <2>3, <3>1 DEF Asked, AskedOf, Emptying, Aim
  <2>4. QED
    BY <2>1, <2>3, IdleAsked
<1>16. QED
  BY <1>1, <1>2, <1>3, <1>4, <1>5, <1>6, <1>7, <1>8, <1>9, <1>10, <1>11, <1>12, <1>13,
     <1>14, <1>15 DEF InnerRun

AllAsked == \A w \in Workers : Asked(w) /\ Emptying(w)
\* It stays so in every step.
LEMMA AskedStep ==
  ASSUME Typed, Held, Sole, AllAsked, [Next]_vars
  PROVE  AllAsked'
<1>1. ASSUME NEW v \in Workers, worker'[v] = worker[v],
             manifest' = manifest \/ worker[v].phase \in Away
      PROVE  Asked(v)' /\ Emptying(v)'
  BY <1>1 DEF AllAsked, Asked, Emptying, Away
<1>2. CASE UNCHANGED vars \/ ClaimExpires
  BY <1>1, <1>2 DEF vars, ClaimExpires, AllAsked
<1>3. ASSUME NEW w \in Workers, Beside(w)
      PROVE  AllAsked'
  <2>1. Asked(w)' /\ Emptying(w)'
    <3>1. CASE Request(w) \/ Reset(w)
      BY <3>1, DoesStart DEF Asked, Emptying
    <3>2. CASE Requeue(w) \/ SyncGraph(w) \/ Crash(w)
      BY <3>2, StopSteps, IdleAsked
    <3>3. CASE Claim(w)
      <4>1. Asked(w)
        BY DEF AllAsked
      <4>2. QED
        BY <3>3, <4>1, DoesClaim, IdleAsked
           DEF Asked, AskedOf, Emptying, Untouched, Score, Scope
    <3>4. QED
      BY <1>3, <3>1, <3>2, <3>3 DEF Beside
  <2>2. QED
    BY <1>1, <1>3, <2>1, StoresStand DEF AllAsked
<1>4. ASSUME NEW w \in Workers, Under(w)
      PROVE  AllAsked'
  <2>0. Asked(w) /\ Emptying(w)
    BY DEF AllAsked
  <2>1. Asked(w)' /\ Emptying(w)'
    <3>1. CASE InnerRun(w)
      BY <2>0, <3>1, AskedInside
    <3>2. CASE MarkIndexing(w)
      BY <2>0, <3>2, DoesMark, IdleAsked DEF Asked, AskedOf, Emptying, Untouched, Aim, Score, Scope
    <3>3. CASE Settle(w) \/ RecountFails(w)
      BY <2>0, <3>3, DoesSettle, IdleAsked DEF Asked, AskedOf, Emptying, Leaves, Aim
    <3>4. CASE DropClaim(w)
      BY <2>0, <3>4, DoesDrop, IdleAsked DEF Asked, AskedOf, Emptying, Aim, Scope
    <3>5. QED
      BY <1>4, <3>1, <3>2, <3>3, <3>4 DEF Under
  <2>2. QED
    BY <1>1, <1>4, <2>1, OthersAway DEF AllAsked
<1>5. QED
  BY <1>2, <1>3, <1>4, StepCases

-----------------------------------------------------------------------------
(* What is on record is in the store, or a removal took it.                *)

\* An entry names rows of its own path.
Own == \A q \in Paths : \A i \in Named(manifest[q]) : i[1] = q
\* What an entry counts is in the store, but for what a delete took already.
HeldOrTorn == \A q \in Paths : Counted(manifest[q]) \subseteq rows \cup torn

\* How far the rows of the files in hand have come.
Brought(w) ==
  LET phase == worker[w].phase
  IN /\ phase \in Planning =>
          \A q \in Group(w) : \A i \in Named(worker[w].known[q]) : i[1] = q
     /\ phase \in {"embed", "orphans"} =>
          \A q \in Group(w) :
            /\ ToRelocate(w, q) \subseteq rows
            /\ ToEmbed(w, q) \ worker[w].left \subseteq rows
     /\ phase = "confirm" => \A q \in Finished(w) : New(w, q) \ Prev(w, q) \subseteq rows
     /\ phase = "stale" => worker[w].files = Finished(w)
     /\ phase \in {"revoke sweep", "remove sweep"} =>
          \A q \in worker[w].swept : Counted(manifest[q]) \cap rows = {}
Unbrought == {"settle", "drop", "graph", "idle", "claim", "mark", "begin", "revoke", "group",
              "remove", "forget", "wipe", "unname"}
LEMMA NothingBrought ==
  ASSUME NEW w \in Workers, worker'[w].phase \in Unbrought
  PROVE  Brought(w)'
  BY DEF Brought, Unbrought, Planning

\* What is counted is named.
LEMMA CountedIsNamed ==
  ASSUME NEW e
  PROVE  Counted(e) \subseteq Named(e)
  BY DEF Counted, Named

\* A plan for a file touches rows of that file, each once.
LEMMA PlanIsOwn ==
  ASSUME NEW w \in Workers, worker[w] \in Jobs, worker[w].want \in Target, NEW q \in Group(w),
         \A i \in Named(worker[w].known[q]) : i[1] = q
  PROVE  /\ \A i \in New(w, q) \cup Prev(w, q) \cup Stale(w, q) \cup Orphans(w, q) : i[1] = q
         /\ Named(Intent(w, q)) = Prev(w, q) \cup New(w, q) \cup Stale(w, q) \cup Orphans(w, q)
         /\ Named(Confirmation(w, q)) = New(w, q) \cup Stale(w, q)
         /\ Named(Finalized(w, q)) = New(w, q)
         /\ Counted(Intent(w, q)) = Prev(w, q)
         /\ Counted(Confirmation(w, q)) = New(w, q) \cup Stale(w, q)
         /\ Counted(Finalized(w, q)) = New(w, q)
         /\ New(w, q) \cap Stale(w, q) = {} /\ Prev(w, q) \subseteq New(w, q) \cup Stale(w, q)
         /\ Stale(w, q) \subseteq Prev(w, q)
         /\ Orphans(w, q) \cap (New(w, q) \cup Stale(w, q)) = {}
<1>1. /\ Intent(w, q) # None /\ Confirmation(w, q) # None /\ Finalized(w, q) # None
      /\ worker[w].known[q] \in Entry \cup {None}
  BY PlanEntries, PlanIds, IndexAssumption
<1>2. /\ Named(Intent(w, q)) = Prev(w, q) \cup New(w, q) \cup Stale(w, q) \cup Orphans(w, q)
      /\ Named(Confirmation(w, q)) = New(w, q) \cup Stale(w, q)
      /\ Named(Finalized(w, q)) = New(w, q)
  BY <1>1 DEF Named, Intent, Confirmation, Finalized, Confirmed
<1>3. /\ Counted(Intent(w, q)) = Prev(w, q)
      /\ Counted(Confirmation(w, q)) = New(w, q) \cup Stale(w, q)
      /\ Counted(Finalized(w, q)) = New(w, q)
  BY <1>1 DEF Counted, Intent, Confirmation, Finalized, Confirmed
<1>4. /\ New(w, q) \cap Stale(w, q) = {} /\ Prev(w, q) \subseteq New(w, q) \cup Stale(w, q)
      /\ Stale(w, q) \subseteq Prev(w, q)
      /\ Orphans(w, q) \cap (New(w, q) \cup Stale(w, q)) = {}
  BY DEF Stale, Orphans
<1>5. Prev(w, q) \subseteq Named(worker[w].known[q])
  BY CountedIsNamed DEF Prev
<1>6. Orphans(w, q) \subseteq Named(worker[w].known[q])
  BY DEF Orphans, Named
<1>7. \A i \in New(w, q) : i[1] = q
  BY DEF New, Ids
<1>8. QED
  BY <1>2, <1>3, <1>4, <1>5, <1>6, <1>7

\* The store and the manifest, by what a step does to them.
Stored == Own /\ HeldOrTorn
LEMMA StoredGrows ==
  ASSUME Stored, rows \subseteq rows', UNCHANGED <<manifest, torn>>
  PROVE  Stored'
  BY DEF Stored, Own, HeldOrTorn, Named, Counted

LEMMA StoredTakes ==
  ASSUME Stored, NEW ids, rows \ ids \subseteq rows', manifest' = manifest,
         \/ torn' = torn \cup ids
         \/ torn' = torn /\ \A q \in Paths : Counted(manifest[q]) \cap ids \cap rows = {}
  PROVE  Stored'
  BY DEF Stored, Own, HeldOrTorn, Named, Counted

LEMMA StoredAgain ==
  ASSUME Typed, Stored, rows' = rows, NEW p \in Paths, NEW entry, torn' \subseteq torn,
         manifest' = [manifest EXCEPT ![p] = entry],
         \A i \in Named(entry) : i[1] = p,
         Counted(entry) \subseteq rows \cup torn',
         \A i \in torn \ torn' : i[1] = p
  PROVE  Stored'
<1>1. manifest'[p] = entry /\ \A q \in Paths : q # p => manifest'[q] = manifest[q]
  BY Kept
<1>2. \A q \in Paths : /\ \A i \in Named(manifest'[q]) : i[1] = q
                       /\ Counted(manifest'[q]) \subseteq rows' \cup torn'
  <2> SUFFICES ASSUME NEW q \in Paths
               PROVE  /\ \A i \in Named(manifest'[q]) : i[1] = q
                      /\ Counted(manifest'[q]) \subseteq rows' \cup torn'
    OBVIOUS
  <2>1. CASE q = p
    BY <1>1, <2>1
  <2>2. CASE q # p
    <3>1. manifest'[q] = manifest[q]
      BY <1>1, <2>2
    <3>2. \A i \in Counted(manifest[q]) : i[1] # p
      BY <2>2, CountedIsNamed DEF Stored, Own
    <3>3. QED
      BY <3>1, <3>2 DEF Stored, Own, HeldOrTorn
  <2>3. QED
    BY <2>1, <2>2
<1>3. QED
  BY <1>2 DEF Stored, Own, HeldOrTorn, Named, Counted

LEMMA StoredWithout ==
  ASSUME Typed, Stored, rows' = rows, NEW ps \in SUBSET Paths,
         manifest' = Without(ps), torn' = Untorn(ps)
  PROVE  Stored'
<1> SUFFICES ASSUME NEW q \in Paths
             PROVE  /\ \A i \in Named(manifest'[q]) : i[1] = q
                    /\ Counted(manifest'[q]) \subseteq rows' \cup torn'
  BY DEF Stored, Own, HeldOrTorn, Named, Counted
<1>1. CASE q \in ps
  BY <1>1 DEF Without, Named, Counted
<1>2. CASE q \notin ps
  <2>1. manifest'[q] = manifest[q]
    BY <1>2 DEF Without
  <2>2. \A i \in Counted(manifest[q]) : i[1] = q
    BY CountedIsNamed DEF Stored, Own
  <2>3. QED
    BY <1>2, <2>1, <2>2 DEF Stored, Own, HeldOrTorn, Untorn
<1>3. QED
  BY <1>1, <1>2

LEMMA SameHand ==
  ASSUME NEW w \in Workers, Aim(worker'[w]) = Aim(worker[w]),
         worker'[w].known = worker[w].known
  PROVE  /\ Group(w)' = Group(w)
         /\ \A p \in Group(w) :
              /\ New(w, p)' = New(w, p) /\ Prev(w, p)' = Prev(w, p)
              /\ Stale(w, p)' = Stale(w, p) /\ ToRelocate(w, p)' = ToRelocate(w, p)
              /\ ToEmbed(w, p)' = ToEmbed(w, p)
         /\ worker'[w].left = worker[w].left => Finished(w)' = Finished(w)
<1>1. worker'[w].want = worker[w].want
  BY DEF Aim
<1>2. \A p \in Group(w) : New(w, p)' = New(w, p) /\ Prev(w, p)' = Prev(w, p)
  BY <1>1, SamePlan
<1>3. \A p \in Group(w) : ToRelocate(w, p)' = ToRelocate(w, p)
  BY <1>2 DEF ToRelocate, SameText
<1>4. QED
  BY <1>1, <1>3, SamePlan

Brings(w) == Stored' /\ Brought(w)'

LEMMA BringsElsewhere ==
  ASSUME Stored, NEW w \in Workers, rows \subseteq rows', UNCHANGED <<manifest, torn>>,
         worker'[w].phase \in Unbrought
  PROVE  Brings(w)
  BY StoredGrows, NothingBrought DEF Brings

\* A plan that goes on with what it has.
LEMMA BroughtOn ==
  ASSUME NEW w \in Workers, Brought(w), worker[w].phase \in Planning,
         worker'[w].phase \in {"intent", "relocate", "embed", "orphans", "finalize"},
         Aim(worker'[w]) = Aim(worker[w]), worker'[w].known = worker[w].known,
         worker'[w].phase \in {"embed", "orphans"} =>
           \A q \in Group(w) : /\ ToRelocate(w, q) \subseteq rows'
                               /\ ToEmbed(w, q) \ worker'[w].left \subseteq rows'
  PROVE  Brought(w)'
<1>1. /\ Group(w)' = Group(w)
      /\ \A p \in Group(w) : /\ ToRelocate(w, p)' = ToRelocate(w, p)
                             /\ ToEmbed(w, p)' = ToEmbed(w, p)
  BY SameHand
<1>2. \A q \in Group(w)' : \A i \in Named(worker'[w].known[q]) : i[1] = q
  BY <1>1 DEF Brought
<1>3. worker'[w].phase \in {"embed", "orphans"} =>
        \A q \in Group(w)' :
          /\ ToRelocate(w, q)' \subseteq rows'
          /\ ToEmbed(w, q)' \ worker'[w].left \subseteq rows'
  BY <1>1
<1>4. QED
  BY <1>2, <1>3 DEF Brought, Named

LEMMA BringsGroup ==
  ASSUME Typed, Stored, NEW w \in Workers, NextGroup(w)
  PROVE  Brings(w)
<1>1. Stored' /\ UNCHANGED <<rows, manifest, torn>>
  BY DoesGroup, StoredGrows
<1>2. CASE worker'[w].phase \in {"settle", "group"}
  BY <1>1, <1>2, NothingBrought DEF Brings, Unbrought
<1>3. CASE worker'[w].phase \notin {"settle", "group"}
  <2>1. PICK g \in SUBSET worker[w].todo :
          LET work == {p \in g : Tree[worker[w].want.rev][p] # {}}
          IN /\ worker'[w].phase = IF work = {} THEN "group" ELSE "intent"
             /\ worker'[w].known = [p \in work |-> manifest[p]]
    BY <1>3, DoesGroup DEF Failing
  <2>2. worker'[w].phase = "intent"
    BY <1>3, <2>1
  <2>3. \A q \in Group(w)' : q \in Paths /\ worker'[w].known[q] = manifest[q]
    <3>1. worker[w].todo \subseteq Paths
      BY DoesGroup DEF Jobs
    <3>2. QED
      BY <2>1, <3>1 DEF Group
  <2>4. \A q \in Group(w)' : \A i \in Named(worker'[w].known[q]) : i[1] = q
    BY <2>3 DEF Stored, Own
  <2>5. Brought(w)'
    BY <2>2, <2>4 DEF Brought, Named
  <2>6. QED
    BY <1>1, <2>5 DEF Brings
<1>4. QED
  BY <1>2, <1>3

LEMMA BringsIntent ==
  ASSUME Typed, Stored, NEW w \in Workers, Brought(w), Planned(w), RecordIntent(w)
  PROVE  Brings(w)
<1>1. /\ worker[w] \in Jobs /\ worker[w].want \in Target /\ worker[w].phase = "intent"
      /\ rows' = rows /\ torn' = torn
  <2>1. worker[w].phase = "intent"
    BY DEF RecordIntent, At_
  <2>2. QED
    BY <2>1, DoesWrite
<1>2. PICK p \in worker[w].files :
        /\ manifest' \in {manifest, [manifest EXCEPT ![p] = Intent(w, p)]}
        /\ \/ Failing(w)
           \/ /\ worker'[w].phase \in {"intent", "relocate"}
              /\ Aim(worker'[w]) = Aim(worker[w]) /\ Hand(worker'[w]) = Hand(worker[w])
  BY <1>1, DoesWrite
<1>3. /\ p \in Group(w) /\ p \in Paths
      /\ \A i \in Named(worker[w].known[p]) : i[1] = p
      /\ manifest[p] = worker[w].known[p]
  BY <1>1, PlanHolds DEF Planning, Brought, Planned
<1>4. Stored'
  <2>1. CASE manifest' = manifest
    BY <1>1, <2>1, StoredGrows
  <2>2. CASE manifest' = [manifest EXCEPT ![p] = Intent(w, p)]
    <3>1. \A i \in Named(Intent(w, p)) : i[1] = p
      BY <1>1, <1>3, PlanIsOwn
    <3>2. Counted(Intent(w, p)) = Counted(manifest[p])
      BY <1>1, <1>3, PlanIsOwn DEF Prev
    <3>3. Counted(Intent(w, p)) \subseteq rows \cup torn'
      BY <1>1, <1>3, <3>2 DEF Stored, HeldOrTorn
    <3>4. QED
      BY <1>1, <1>3, <2>2, <3>1, <3>3, StoredAgain
  <2>3. QED
    BY <1>2, <2>1, <2>2
<1>5. Brought(w)'
  <2>1. CASE Failing(w)
    BY <2>1, NothingBrought DEF Failing, Unbrought
  <2>2. CASE ~Failing(w)
    BY <1>1, <1>2, <2>2, BroughtOn DEF Planning, Hand
  <2>3. QED
    BY <2>1, <2>2
<1>6. QED
  BY <1>4, <1>5 DEF Brings

LEMMA BringsRows ==
  ASSUME Typed, Stored, NEW w \in Workers, Brought(w), Planned(w),
         Relocate(w) \/ EmbedBatch(w) \/ BudgetStop(w)
  PROVE  Brings(w)
<1>1. CASE Relocate(w)
  <2>1. Stored'
    BY <1>1, DoesRelocate, StoredGrows
  <2>2. CASE Failing(w)
    BY <2>1, <2>2, NothingBrought DEF Brings, Failing, Unbrought
  <2>3. CASE ~Failing(w)
    <3>1. \A q \in Group(w) : /\ ToRelocate(w, q) \subseteq rows'
                              /\ ToEmbed(w, q) \ worker'[w].left \subseteq rows'
      BY <1>1, <2>3, DoesRelocate
    <3>2. Brought(w)'
      BY <1>1, <2>3, <3>1, DoesRelocate, BroughtOn DEF Planning
    <3>3. QED
      BY <2>1, <3>2 DEF Brings
  <2>4. QED
    BY <2>2, <2>3
<1>2. CASE EmbedBatch(w)
  <2>0. rows \subseteq rows' /\ UNCHANGED <<manifest, torn>>
    BY <1>2, DoesEmbed
  <2>1. Stored'
    BY <2>0, StoredGrows
  <2>2. CASE Failing(w)
    BY <2>1, <2>2, NothingBrought DEF Brings, Failing, Unbrought
  <2>3. CASE ~Failing(w)
    <3>1. PICK batch \in SUBSET worker[w].left :
            /\ rows' = rows \cup batch /\ worker'[w].left = worker[w].left \ batch
            /\ worker'[w].phase \in {"orphans", "embed"}
            /\ worker'[w].known = worker[w].known /\ Aim(worker'[w]) = Aim(worker[w])
      BY <1>2, <2>3, DoesEmbed
    <3>2. worker[w].phase = "embed"
      BY <1>2, DoesEmbed
    <3>3. \A q \in Group(w) : /\ ToRelocate(w, q) \subseteq rows'
                              /\ ToEmbed(w, q) \ worker'[w].left \subseteq rows'
      BY <3>1, <3>2 DEF Brought
    <3>4. Brought(w)'
      BY <3>1, <3>2, <3>3, BroughtOn DEF Planning
    <3>5. QED
      BY <2>1, <3>4 DEF Brings
  <2>4. QED
    BY <2>2, <2>3
<1>3. CASE BudgetStop(w)
  <2>1. Stored'
    BY <1>3, DoesStop, StoredGrows
  <2>2. worker[w].phase = "embed" /\ worker'[w].phase = "orphans" /\ rows' = rows
        /\ worker'[w].left = worker[w].left /\ worker'[w].known = worker[w].known
        /\ Aim(worker'[w]) = Aim(worker[w])
    BY <1>3, DoesStop DEF Hand
  <2>3. \A q \in Group(w) : /\ ToRelocate(w, q) \subseteq rows'
                            /\ ToEmbed(w, q) \ worker'[w].left \subseteq rows'
    BY <2>2 DEF Brought
  <2>4. Brought(w)'
    BY <2>2, <2>3, BroughtOn DEF Planning
  <2>5. QED
    BY <2>1, <2>4 DEF Brings
<1>4. QED
  BY <1>1, <1>2, <1>3

LEMMA BringsOrphans ==
  ASSUME Typed, Stored, NEW w \in Workers, Brought(w), Planned(w), DeleteOrphans(w)
  PROVE  Brings(w)
<1> DEFINE orphans == UNION {Orphans(w, p) : p \in Finished(w)}
<1>1. /\ worker[w] \in Jobs /\ worker[w].want \in Target /\ worker[w].phase = "orphans"
      /\ UNCHANGED <<manifest, torn>> /\ rows' \subseteq rows /\ rows \ orphans \subseteq rows'
      /\ Finished(w) \subseteq Group(w) /\ \A q \in Group(w) : q \in Paths
  BY DoesOrphans, PlanHolds DEF Planning
<1>2. ASSUME NEW q \in Group(w)
      PROVE  /\ manifest[q] = Intent(w, q) /\ Counted(manifest[q]) = Prev(w, q)
             /\ \A i \in New(w, q) \cup Prev(w, q) \cup Orphans(w, q) : i[1] = q
             /\ Orphans(w, q) \cap (New(w, q) \cup Prev(w, q)) = {}
  <2>1. \A i \in Named(worker[w].known[q]) : i[1] = q
    BY <1>1 DEF Brought, Planning
  <2>2. manifest[q] = Intent(w, q)
    BY <1>1 DEF Planned
  <2>3. QED
    BY <1>1, <2>1, <2>2, PlanIsOwn
<1>3. \A q \in Paths : Counted(manifest[q]) \cap orphans = {}
  <2> SUFFICES ASSUME NEW q \in Paths, NEW p \in Finished(w), NEW i \in Orphans(w, p),
                      i \in Counted(manifest[q])
               PROVE  FALSE
    OBVIOUS
  <2>1. p \in Group(w) /\ i[1] = p
    BY <1>1, <1>2
  <2>2. i[1] = q
    BY CountedIsNamed DEF Stored, Own
  <2>3. QED
    BY <1>2, <2>1, <2>2
<1>4. Stored'
  <2> HIDE DEF orphans
  <2>1. QED
    BY <1>1, <1>3, StoredTakes
<1>5. CASE worker'[w].phase # "confirm"
  <2>1. worker'[w].phase \in Unbrought
    BY <1>5, DoesOrphans DEF Failing, Unbrought
  <2>2. QED
    BY <1>4, <2>1, NothingBrought DEF Brings
<1>6. CASE worker'[w].phase = "confirm"
  <2>1. Aim(worker'[w]) = Aim(worker[w]) /\ Hand(worker'[w]) = Hand(worker[w])
    BY <1>6, DoesOrphans DEF Failing
  <2>2. /\ Group(w)' = Group(w) /\ Finished(w)' = Finished(w)
        /\ \A q \in Group(w) : New(w, q)' = New(w, q) /\ Prev(w, q)' = Prev(w, q)
    BY <2>1, SameHand DEF Hand
  <2>3. ASSUME NEW q \in Finished(w)
        PROVE  New(w, q) \ Prev(w, q) \subseteq rows'
    <3>1. q \in Group(w) /\ ToEmbed(w, q) \cap worker[w].left = {}
      BY <2>3 DEF Finished
    <3>2. ToRelocate(w, q) \subseteq rows /\ ToEmbed(w, q) \subseteq rows
      BY <1>1, <3>1 DEF Brought
    <3>3. New(w, q) \ Prev(w, q) \subseteq rows
      BY <3>2 DEF ToEmbed
    <3>4. New(w, q) \cap orphans = {}
      <4> SUFFICES ASSUME NEW i \in New(w, q), NEW p \in Finished(w), i \in Orphans(w, p)
                   PROVE  FALSE
        OBVIOUS
      <4>1. i[1] = q /\ i[1] = p
        BY <1>1, <1>2, <3>1
      <4>2. QED
        BY <1>2, <3>1, <4>1
    <3>5. QED
      BY <1>1, <3>3, <3>4
  <2>4. \A q \in Group(w) : \A i \in Named(worker[w].known[q]) : i[1] = q
    BY <1>1 DEF Brought, Planning
  <2>5. \A q \in Group(w)' : \A i \in Named(worker'[w].known[q]) : i[1] = q
    BY <2>1, <2>2, <2>4 DEF Hand
  <2>6. \A q \in Finished(w)' : New(w, q)' \ Prev(w, q)' \subseteq rows'
    <3>1. Finished(w) \subseteq Group(w)
      BY <1>1
    <3> HIDE DEF orphans
    <3>2. QED
      BY <2>2, <2>3, <3>1
  <2>7. Brought(w)'
    BY <1>6, <2>5, <2>6 DEF Brought, Named
  <2>8. QED
    BY <1>4, <2>7 DEF Brings
<1>7. QED
  BY <1>5, <1>6

LEMMA BringsConfirm ==
  ASSUME Typed, Stored, NEW w \in Workers, Brought(w), Planned(w), Confirm(w)
  PROVE  Brings(w)
<1>1. /\ worker[w] \in Jobs /\ worker[w].want \in Target /\ worker[w].phase = "confirm"
      /\ rows' = rows /\ torn' = torn
      /\ worker[w].files \subseteq Finished(w)
      /\ Finished(w) \subseteq Group(w) /\ \A q \in Group(w) : q \in Paths
  BY DoesConfirm, PlanHolds DEF Planning, Planned
<1>2. PICK p \in worker[w].files :
        LET rest == worker[w].files \ {p}
        IN /\ manifest' \in {manifest, [manifest EXCEPT ![p] = Confirmation(w, p)]}
           /\ \/ worker'[w].phase = "settle"
              \/ /\ worker'[w].files = IF rest = {} THEN Finished(w) ELSE rest
                 /\ worker'[w].phase = IF rest = {} THEN "stale" ELSE "confirm"
                 /\ Aim(worker'[w]) = Aim(worker[w]) /\ Hand(worker'[w]) = Hand(worker[w])
  BY DoesConfirm
<1>3. /\ p \in Finished(w) /\ p \in Group(w) /\ p \in Paths
      /\ \A i \in Named(worker[w].known[p]) : i[1] = p
      /\ manifest[p] = Intent(w, p) /\ New(w, p) \ Prev(w, p) \subseteq rows
  BY <1>1 DEF Planning, Brought, Planned
<1>4. Stored'
  <2>1. CASE manifest' = manifest
    BY <1>1, <2>1, StoredGrows
  <2>2. CASE manifest' = [manifest EXCEPT ![p] = Confirmation(w, p)]
    <3>1. \A i \in Named(Confirmation(w, p)) : i[1] = p
      BY <1>1, <1>3, PlanIsOwn
    <3>2. Prev(w, p) \subseteq rows \cup torn
      <4>1. Counted(manifest[p]) = Prev(w, p)
        BY <1>1, <1>3, PlanIsOwn
      <4>2. QED
        BY <1>3, <4>1 DEF Stored, HeldOrTorn
    <3>3. Counted(Confirmation(w, p)) \subseteq rows \cup torn'
      <4>1. /\ Counted(Confirmation(w, p)) = New(w, p) \cup Stale(w, p)
            /\ Stale(w, p) \subseteq Prev(w, p)
        BY <1>1, <1>3, PlanIsOwn
      <4>2. QED
        BY <1>1, <1>3, <3>2, <4>1
    <3>4. QED
      BY <1>1, <1>3, <2>2, <3>1, <3>3, StoredAgain
  <2>3. QED
    BY <1>2, <2>1, <2>2
<1>5. CASE worker'[w].phase = "settle"
  BY <1>4, <1>5, NothingBrought DEF Brings, Unbrought
<1>6. CASE worker'[w].phase # "settle"
  <2>1. /\ Aim(worker'[w]) = Aim(worker[w]) /\ Hand(worker'[w]) = Hand(worker[w])
        /\ worker'[w].phase \in {"stale", "confirm"}
        /\ worker'[w].phase = "stale" => worker'[w].files = Finished(w)
    BY <1>2, <1>6
  <2>2. /\ Group(w)' = Group(w) /\ Finished(w)' = Finished(w)
        /\ \A q \in Group(w) : New(w, q)' = New(w, q) /\ Prev(w, q)' = Prev(w, q)
    BY <2>1, SameHand DEF Hand
  <2>3. /\ \A q \in Group(w) : \A i \in Named(worker[w].known[q]) : i[1] = q
        /\ \A q \in Finished(w) : New(w, q) \ Prev(w, q) \subseteq rows
    BY <1>1 DEF Brought, Planning
  <2>4. \A q \in Group(w)' : \A i \in Named(worker'[w].known[q]) : i[1] = q
    BY <2>1, <2>2, <2>3 DEF Hand
  <2>5. \A q \in Finished(w)' : New(w, q)' \ Prev(w, q)' \subseteq rows'
    BY <1>1, <2>2, <2>3
  <2>6. Brought(w)'
    BY <2>1, <2>2, <2>4, <2>5 DEF Brought, Named
  <2>7. QED
    BY <1>4, <2>6 DEF Brings
<1>7. QED
  BY <1>5, <1>6

\* Rows a delete took are torn until the manifest stops naming them.
LEMMA StoredLoses ==
  ASSUME Stored, NEW ids, manifest' = manifest,
         \/ rows' = rows \ ids /\ torn' = torn \cup ids
         \/ \E lost \in SUBSET (ids \cap rows) : rows' = rows \ lost /\ torn' = torn \cup lost
  PROVE  Stored'
  BY StoredTakes

LEMMA BringsDeletes ==
  ASSUME Typed, Stored, NEW w \in Workers, Brought(w), DeleteStale(w) \/ RemoveCounted(w)
  PROVE  Brings(w)
<1>1. CASE DeleteStale(w)
  <2>1. PICK ids : /\ manifest' = manifest
                   /\ Deletes(w, ids, "finalize") \/ LosesDelete(w, ids)
    BY <1>1, DoesStale
  <2>2. Stored'
    BY <2>1, StoredLoses DEF Deletes, LosesDelete
  <2>3. worker[w].phase = "stale"
    BY <1>1, DoesStale
  <2>4. Brought(w)'
    BY <2>1, <2>3, BroughtOn, NothingBrought
       DEF Deletes, LosesDelete, Failing, Unbrought, Planning, Hand
  <2>5. QED
    BY <2>2, <2>4 DEF Brings
<1>2. CASE RemoveCounted(w)
  <2> DEFINE ids == UNION {Counted(manifest[p]) : p \in worker[w].swept}
  <2>1. /\ manifest' = manifest
        /\ \/ Deletes(w, ids, "revoke sweep") \/ Deletes(w, ids, "remove sweep")
           \/ LosesDelete(w, ids)
    BY <1>2, DoesRemove
  <2>2. Stored'
    <3> HIDE DEF ids
    <3>1. QED
      BY <2>1, StoredLoses DEF Deletes, LosesDelete
  <2>3. CASE LosesDelete(w, ids)
    BY <2>2, <2>3, NothingBrought DEF LosesDelete, Failing, Unbrought, Brings
  <2>4. CASE ~LosesDelete(w, ids)
    <3>1. /\ worker'[w].phase \in {"revoke sweep", "remove sweep"} /\ rows' = rows \ ids
          /\ worker'[w].swept = worker[w].swept
      BY <2>1, <2>4 DEF Deletes
    <3>2. \A q \in worker'[w].swept : Counted(manifest'[q]) \cap rows' = {}
      BY <2>1, <3>1
    <3>3. Brought(w)'
      BY <3>1, <3>2 DEF Brought, Counted, Planning
    <3>4. QED
      BY <2>2, <3>3 DEF Brings
  <2>5. QED
    BY <2>3, <2>4
<1>3. QED
  BY <1>1, <1>2

LEMMA BringsFinalize ==
  ASSUME Typed, Stored, NEW w \in Workers, Brought(w), Planned(w), Finalize(w)
  PROVE  Brings(w)
<1>1. /\ worker[w] \in Jobs /\ worker[w].want \in Target /\ worker[w].phase = "finalize"
      /\ rows' = rows
  <2>1. worker[w].phase = "finalize"
    BY DEF Finalize, At_
  <2>2. QED
    BY <2>1, DoesWrite
<1>2. PICK p \in worker[w].files :
        /\ manifest' \in {manifest, [manifest EXCEPT ![p] = Finalized(w, p)]}
        /\ torn' = torn \ (Stale(w, p) \ Named(manifest'[p]))
        /\ \/ Failing(w)
           \/ /\ worker'[w].phase \in {"finalize", "group"}
              /\ Aim(worker'[w]) = Aim(worker[w]) /\ Hand(worker'[w]) = Hand(worker[w])
  BY <1>1, DoesWrite
<1>3. /\ p \in Group(w) /\ p \in Paths
      /\ \A i \in Named(worker[w].known[p]) : i[1] = p
      /\ manifest[p] = Confirmation(w, p)
  BY <1>1, PlanHolds DEF Planning, Brought, Planned
<1>4. /\ \A i \in New(w, p) \cup Stale(w, p) : i[1] = p
      /\ Named(Confirmation(w, p)) = New(w, p) \cup Stale(w, p)
      /\ Named(Finalized(w, p)) = New(w, p) /\ Counted(Finalized(w, p)) = New(w, p)
      /\ Counted(Confirmation(w, p)) = New(w, p) \cup Stale(w, p)
      /\ New(w, p) \cap Stale(w, p) = {}
  BY <1>1, <1>3, PlanIsOwn
<1>5. Stored'
  <2>1. CASE manifest' = manifest
    <3>1. torn' = torn
      BY <1>2, <1>3, <1>4, <2>1
    <3>2. QED
      BY <1>1, <2>1, <3>1, StoredGrows
  <2>2. CASE manifest' = [manifest EXCEPT ![p] = Finalized(w, p)]
    <3>1. torn' = torn \ Stale(w, p)
      <4>1. manifest'[p] = Finalized(w, p)
        BY <1>3, <2>2, Kept
      <4>2. QED
        BY <1>2, <1>4, <4>1
    <3>2. New(w, p) \subseteq rows \cup torn
      BY <1>3, <1>4 DEF Stored, HeldOrTorn
    <3>3. Counted(Finalized(w, p)) \subseteq rows \cup torn'
      BY <1>4, <3>1, <3>2
    <3>4. QED
      BY <1>1, <1>3, <1>4, <2>2, <3>1, <3>3, StoredAgain
  <2>3. QED
    BY <1>2, <2>1, <2>2
<1>6. Brought(w)'
  <2>1. CASE worker'[w].phase = "finalize"
    BY <1>1, <1>2, <2>1, BroughtOn DEF Planning, Hand, Failing
  <2>2. CASE worker'[w].phase # "finalize"
    BY <1>2, <2>2, NothingBrought DEF Failing, Unbrought
  <2>3. QED
    BY <2>1, <2>2
<1>7. QED
  BY <1>5, <1>6 DEF Brings

LEMMA BringsSweeps ==
  ASSUME Typed, Stored, NEW w \in Workers, Brought(w),
         SweepPaths(w) \/ Wipe(w) \/ Forget(w) \/ Unname(w)
  PROVE  Brings(w)
<1>1. CASE SweepPaths(w)
  <2> DEFINE ids == {i \in rows : i[1] \in worker[w].swept}
  <2>1. /\ UNCHANGED <<manifest, torn>> /\ rows \ ids \subseteq rows'
        /\ worker[w].phase \in {"revoke sweep", "remove sweep"}
        /\ worker'[w].phase \in Unbrought
    BY <1>1, DoesSweep DEF Failing, Unbrought
  <2>2. \A q \in Paths : Counted(manifest[q]) \cap ids \cap rows = {}
    BY <2>1, CountedIsNamed DEF Brought, Stored, Own
  <2> HIDE DEF ids
  <2>3. Stored'
    BY <2>1, <2>2, StoredTakes
  <2>4. QED
    BY <2>1, <2>3, NothingBrought DEF Brings
<1>2. CASE Wipe(w)
  <2> DEFINE known == {p \in Paths : manifest[p] # None}
             taken == UNION {Counted(manifest[p]) : p \in known}
  <2>0. worker'[w].phase \in {"idle", "unname"}
    <3>1. worker'[w] = Idle \/ worker'[w].phase = "unname"
      BY <1>2, DoesWipe
    <3>2. QED
      BY <3>1 DEF Idle
  <2>1. /\ manifest' = manifest /\ worker'[w].phase \in Unbrought
        /\ torn' = torn \cup taken \/ torn' = torn \cup ((rows \ rows') \cap taken)
    <3>1. worker'[w].phase \in Unbrought
      BY <2>0 DEF Unbrought
    <3>2. QED
      BY <1>2, <3>1, DoesWipe
  <2>2. \A q \in Paths : Counted(manifest[q]) \subseteq taken
    BY DEF Counted
  <2>3. Stored'
    <3> HIDE DEF known, taken
    <3>1. QED
      BY <2>1, <2>2 DEF Stored, Own, HeldOrTorn, Named, Counted
  <2>4. QED
    BY <2>1, <2>3, NothingBrought DEF Brings
<1>3. CASE Forget(w) \/ Unname(w)
  <2>0. worker'[w].phase \in {"idle", "settle"}
    <3>1. worker'[w] = Idle \/ worker'[w].phase = "settle"
      BY <1>3, DoesForget DEF Failing
    <3>2. QED
      BY <3>1 DEF Idle
  <2>1. /\ worker[w] \in Jobs /\ rows' = rows
        /\ \E ps \in SUBSET worker[w].swept : manifest' = Without(ps) /\ torn' = Untorn(ps)
        /\ worker'[w].phase \in Unbrought
    <3>1. worker[w] \in Jobs /\ rows' = rows
          /\ \E ps \in SUBSET worker[w].swept : manifest' = Without(ps) /\ torn' = Untorn(ps)
      BY <1>3, DoesForget
    <3>2. QED
      BY <2>0, <3>1 DEF Unbrought
  <2>2. worker[w].swept \in SUBSET Paths
    BY <2>1 DEF Jobs
  <2>3. Stored'
    BY <2>1, <2>2, StoredWithout
  <2>4. QED
    BY <2>1, <2>3, NothingBrought DEF Brings
<1>4. QED
  BY <1>1, <1>2, <1>3

LEMMA BringsInside ==
  ASSUME Typed, Stored, NEW w \in Workers, Brought(w), Planned(w), InnerRun(w)
  PROVE  Brings(w)
<1>1. CASE Begin(w) \/ EndGroups(w)
  <2>1. UNCHANGED <<rows, manifest, torn>> /\ worker'[w].phase \in Unbrought
    BY <1>1, DoesBegin, DoesEnd DEF Failing, Unbrought
  <2>2. QED
    BY <2>1, BringsElsewhere
<1>2. QED
  BY <1>1, BringsGroup, BringsIntent, BringsRows, BringsOrphans, BringsConfirm, BringsDeletes,
     BringsFinalize, BringsSweeps DEF InnerRun

AllBrought == \A w \in Workers : Brought(w)
LEMMA BroughtStays ==
  ASSUME NEW v \in Workers, Brought(v), worker'[v] = worker[v], UNCHANGED <<rows, manifest>>
  PROVE  Brought(v)'
<1>1. /\ Group(v)' = Group(v) /\ Finished(v)' = Finished(v)
      /\ \A p \in Group(v) :
           /\ New(v, p)' = New(v, p) /\ Prev(v, p)' = Prev(v, p)
           /\ ToRelocate(v, p)' = ToRelocate(v, p) /\ ToEmbed(v, p)' = ToEmbed(v, p)
  BY SameHand
<1>2. Finished(v) \subseteq Group(v)
  BY DEF Finished
<1>3. worker[v].phase \in Planning =>
        \A q \in Group(v)' : \A i \in Named(worker[v].known[q]) : i[1] = q
  BY <1>1 DEF Brought
<1>4. worker[v].phase \in {"embed", "orphans"} =>
        \A q \in Group(v)' : /\ ToRelocate(v, q)' \subseteq rows
                             /\ ToEmbed(v, q)' \ worker[v].left \subseteq rows
  BY <1>1 DEF Brought
<1>5. worker[v].phase = "confirm" =>
        \A q \in Finished(v)' : New(v, q)' \ Prev(v, q)' \subseteq rows
  BY <1>1, <1>2 DEF Brought
<1>6. worker[v].phase = "stale" => worker[v].files = Finished(v)'
  BY <1>1 DEF Brought
<1>7. worker[v].phase \in {"revoke sweep", "remove sweep"} =>
        \A q \in worker[v].swept : Counted(manifest[q]) \cap rows = {}
  BY DEF Brought
<1>8. QED
  BY <1>3, <1>4, <1>5, <1>6, <1>7 DEF Brought, Named, Counted

\* Rows are written before they are confirmed and deleted after: at every step
\* what an entry counts is in the store, or a delete took it.
LEMMA StoredStep ==
  ASSUME Typed, Held, Sole, AllPlanned, Stored, AllBrought, [Next]_vars
  PROVE  Stored' /\ AllBrought'
<1>1. ASSUME UNCHANGED <<rows, manifest, torn>>
      PROVE  Stored'
  BY <1>1, StoredGrows
<1>2. CASE UNCHANGED vars \/ ClaimExpires
  BY <1>1, <1>2, BroughtStays DEF vars, ClaimExpires, AllBrought
<1>3. ASSUME NEW w \in Workers, Beside(w)
      PROVE  Stored' /\ AllBrought'
  <2>1. worker'[w].phase \in Unbrought
    <3>1. worker'[w].phase \in {"idle", "claim", "mark"}
      BY <1>3, StartSteps, StopSteps, ClaimSteps DEF Beside, Idle
    <3>2. QED
      BY <3>1 DEF Unbrought
  <2>2. QED
    BY <1>1, <1>3, <2>1, NothingBrought, StoresStand, BroughtStays DEF AllBrought
<1>4. ASSUME NEW w \in Workers, Under(w)
      PROVE  Stored' /\ AllBrought'
  <2>1. \A v \in Workers : v # w => worker'[v].phase \in Unbrought
    BY <1>4, OthersAway DEF Away, Unbrought
  <2>2. CASE InnerRun(w)
    <3>1. Brings(w)
      BY <2>2, BringsInside DEF AllBrought, AllPlanned
    <3>2. QED
      BY <2>1, <3>1, NothingBrought DEF AllBrought, Brings
  <2>3. CASE ~InnerRun(w)
    <3>1. UNCHANGED <<rows, manifest, torn>>
      BY <1>4, <2>3 DEF Under, MarkIndexing, Settle, RecountFails, DropClaim
    <3>2. worker'[w].phase \in Unbrought
      BY <1>4, <2>3, DoesMark, SettleSteps, DropSteps DEF Under, Idle, Unbrought
    <3>3. QED
      BY <1>1, <2>1, <3>1, <3>2, NothingBrought DEF AllBrought
  <2>4. QED
    BY <2>2, <2>3
<1>5. QED
  BY <1>2, <1>3, <1>4, StepCases

-----------------------------------------------------------------------------
(* How far a run has come with its commit.                                 *)

\* A run that is under way and has not failed.
Begun == (Inner \ {"begin", "wipe", "unname"}) \cup {"graph"}
Runs(w) ==
  worker[w].phase \in Begun /\ worker[w].job = "index" /\ worker[w].failed = FALSE
Removing == {"remove", "remove sweep", "forget"}
Settling == {"settle", "drop", "graph"}

\* What its commit has, and what it cannot see of it.
Seen(w) == Selected(worker[w].want, worker[w].sub)
Unseen(w) == IF worker[w].sub = "missing" THEN SubPaths ELSE {}
Text(w, q) == Tree[worker[w].want.rev][q]
InHand(w) ==
  IF worker[w].phase = "finalize" THEN worker[w].files
  ELSE IF worker[w].phase \in Planning THEN Group(w) ELSE {}

\* Files are to do, in hand, done or to be removed.
Sorted(w) ==
  /\ worker[w].todo \subseteq Seen(w) /\ worker[w].removed \cap Seen(w) = {}
  /\ worker[w].phase \in Planning => Group(w) \subseteq Seen(w)
  /\ worker[w].phase \in Removing => worker[w].swept = worker[w].removed
NothingElse(w) ==
  \A q \in Paths :
    manifest[q] # None =>
      \/ q \in Seen(w) \cup Unseen(w)
      \/ worker[w].phase \notin Settling /\ q \in worker[w].removed
Carried(w) ==
  worker[w].budget = FALSE =>
    /\ worker[w].phase \in {"orphans", "confirm", "stale", "finalize"} => worker[w].left = {}
    /\ worker[w].phase \in Removing \cup Settling => worker[w].todo = {}
    /\ \A q \in Seen(w) \ (worker[w].todo \cup InHand(w)) :
         Text(w, q) # {} => manifest[q] = Confirmed(New(w, q))
Through(w) == Sorted(w) /\ NothingElse(w) /\ Carried(w)

\* A run that failed has nothing to show.
Goes(w) == Runs(w)' => Through(w)'
LEMMA FailingGoes ==
  ASSUME NEW w \in Workers, Failing(w) \/ worker'[w] = Idle
  PROVE  Goes(w)
<1>1. Idle.phase \notin Begun
  BY DEF Idle, Begun, Inner
<1>2. QED
  BY <1>1 DEF Goes, Runs, Failing

LEMMA SameAim ==
  ASSUME NEW w \in Workers, Aim(worker'[w]) = Aim(worker[w])
  PROVE  /\ worker'[w].job = worker[w].job /\ worker'[w].want = worker[w].want
         /\ worker'[w].sub = worker[w].sub /\ worker'[w].fence = worker[w].fence
         /\ Seen(w)' = Seen(w) /\ Unseen(w)' = Unseen(w)
         /\ \A q : Text(w, q)' = Text(w, q) /\ New(w, q)' = New(w, q)
  BY DEF Aim, Seen, Unseen, Text, New, Selected

\* A step that goes on to another phase with the same files and the same manifest.
LEMMA GoesOn ==
  ASSUME NEW w \in Workers, Runs(w) => Through(w), worker[w].phase \in Begun,
         Aim(worker'[w]) = Aim(worker[w]), Scope(worker'[w]) = Scope(worker[w]),
         worker'[w].removed = worker[w].removed, manifest' = manifest,
         worker'[w].phase \in Planning => Group(w)' \subseteq Group(w) /\ worker[w].phase \in Planning,
         worker'[w].phase \in Removing =>
           worker'[w].swept = worker[w].swept /\ worker[w].phase \in Removing,
         worker'[w].phase \in {"orphans", "confirm", "stale", "finalize"} =>
           (worker[w].budget = FALSE /\ Through(w) => worker'[w].left = {}),
         worker[w].budget = FALSE /\ Through(w) => InHand(w) \subseteq InHand(w)',
         worker'[w].phase \in Settling => worker[w].phase \in Settling
  PROVE  Goes(w)
<1> SUFFICES ASSUME Runs(w)' PROVE Through(w)'
  BY DEF Goes
<1>1. /\ worker'[w].budget = worker[w].budget /\ worker'[w].failed = worker[w].failed
      /\ worker'[w].todo = worker[w].todo
  BY DEF Scope
<1>2. Runs(w) /\ Through(w)
  BY <1>1, SameAim DEF Runs
<1>3. Sorted(w)'
  BY <1>1, <1>2, SameAim DEF Sorted, Through
<1>4. NothingElse(w)'
  BY <1>2, SameAim DEF NothingElse, Through
<1>5. Carried(w)'
  <2> SUFFICES ASSUME worker'[w].budget = FALSE
               PROVE  /\ worker'[w].phase \in {"orphans", "confirm", "stale", "finalize"}
                            => worker'[w].left = {}
                      /\ worker'[w].phase \in Removing \cup Settling => worker'[w].todo = {}
                      /\ \A q \in Seen(w)' \ (worker'[w].todo \cup InHand(w)') :
                           Text(w, q)' # {} => manifest'[q] = Confirmed(New(w, q)')
    BY DEF Carried, Confirmed
  <2>1. worker[w].budget = FALSE /\ Carried(w) /\ InHand(w) \subseteq InHand(w)'
    BY <1>1, <1>2 DEF Through
  <2>2. worker'[w].phase \in Removing \cup Settling => worker'[w].todo = {}
    BY <1>1, <2>1 DEF Carried
  <2>3. \A q \in Seen(w)' \ (worker'[w].todo \cup InHand(w)') :
          Text(w, q)' # {} => manifest'[q] = Confirmed(New(w, q)')
    BY <1>1, <2>1, SameAim DEF Carried
  <2>4. QED
    BY <1>2, <2>1, <2>2, <2>3
<1>6. QED
  BY <1>3, <1>4, <1>5 DEF Through

LEMMA GoesBegin ==
  ASSUME Typed, NEW w \in Workers, Asked(w), Begin(w)
  PROVE  Goes(w)
<1>1. CASE Failing(w)
  BY <1>1, FailingGoes
<1>2. CASE ~Failing(w)
  <2>1. /\ worker'[w].phase \in {"revoke", "group"} /\ Aim(worker'[w]) = Aim(worker[w])
        /\ worker'[w].todo = Seen(w) /\ worker'[w].removed = Unselected(w)
        /\ manifest' = manifest
    BY <1>2, DoesBegin DEF Seen
  <2>2. /\ Seen(w)' = Seen(w) /\ Unseen(w)' = Unseen(w)
    BY <2>1, SameAim
  <2>3. Unselected(w) \cap Seen(w) = {}
    BY DEF Unselected, Seen
  <2>4. \A q \in Paths : manifest[q] # None => q \in Seen(w) \cup Unseen(w) \cup Unselected(w)
    BY DEF Unselected, Seen, Unseen
  <2>5. Sorted(w)'
    BY <2>1, <2>2, <2>3 DEF Sorted, Planning, Removing
  <2>6. NothingElse(w)'
    BY <2>1, <2>2, <2>4 DEF NothingElse, Settling
  <2>7. Carried(w)'
    BY <2>1, <2>2 DEF Carried, Removing, Settling
  <2>8. QED
    BY <2>5, <2>6, <2>7 DEF Goes, Through
<1>3. QED
  BY <1>1, <1>2

LEMMA GoesGroup ==
  ASSUME Typed, NEW w \in Workers, Runs(w) => Through(w), NextGroup(w)
  PROVE  Goes(w)
<1>1. CASE Failing(w)
  BY <1>1, FailingGoes
<1>2. CASE ~Failing(w)
  <2> SUFFICES ASSUME Runs(w)' PROVE Through(w)'
    BY DEF Goes
  <2>1. /\ worker[w].phase = "group" /\ worker[w].want \in Target /\ manifest' = manifest
        /\ worker[w].todo \subseteq Paths
    BY DoesGroup DEF Jobs
  <2>2. PICK g \in SUBSET worker[w].todo :
          LET work == {p \in g : Tree[worker[w].want.rev][p] # {}}
          IN /\ worker'[w].phase = IF work = {} THEN "group" ELSE "intent"
             /\ worker'[w].todo = worker[w].todo \ g
             /\ worker'[w].known = [p \in work |-> manifest[p]]
             /\ Aim(worker'[w]) = Aim(worker[w]) /\ Found(worker'[w]) = Found(worker[w])
             /\ worker'[w].budget = worker[w].budget
             /\ worker'[w].failed = worker[w].failed
    BY <1>2, DoesGroup
  <2> DEFINE work == {p \in g : Text(w, p) # {}}
  <2>3. /\ worker'[w].phase = IF work = {} THEN "group" ELSE "intent"
        /\ Group(w)' = work /\ worker'[w].removed = worker[w].removed
        /\ worker'[w].todo = worker[w].todo \ g
    BY <2>2 DEF Group, Text, Found
  <2>4. Runs(w) /\ Through(w)
    <3>1. worker[w].phase \in Begun
      BY <2>1 DEF Begun, Inner, Phases
    <3>2. QED
      BY <2>2, <3>1, SameAim DEF Runs
  <2>5. work \subseteq Seen(w)
    BY <2>4 DEF Through, Sorted
  <2> HIDE DEF work
  <2>6. InHand(w)' = work /\ InHand(w) = {}
    BY <2>1, <2>3 DEF InHand, Planning
  <2>7. Sorted(w)'
    BY <2>2, <2>3, <2>4, <2>5, SameAim DEF Sorted, Through, Removing
  <2>8. NothingElse(w)'
    BY <2>1, <2>2, <2>3, <2>4, SameAim DEF NothingElse, Through, Settling
  <2>9. Carried(w)'
    <3> SUFFICES ASSUME worker'[w].budget = FALSE
                 PROVE  /\ worker'[w].phase \in {"orphans", "confirm", "stale", "finalize"}
                              => worker'[w].left = {}
                        /\ worker'[w].phase \in Removing \cup Settling => worker'[w].todo = {}
                        /\ \A q \in Seen(w)' \ (worker'[w].todo \cup InHand(w)') :
                             Text(w, q)' # {} => manifest'[q] = Confirmed(New(w, q)')
      BY DEF Carried, Confirmed
    <3>1. ASSUME NEW q \in Seen(w) \ ((worker[w].todo \ g) \cup work), Text(w, q) # {}
          PROVE  manifest[q] = Confirmed(New(w, q))
      <4>1. q \notin g
        BY <3>1 DEF work
      <4>2. q \in Seen(w) \ (worker[w].todo \cup InHand(w))
        BY <2>6, <3>1, <4>1
      <4>3. worker[w].budget = FALSE
        BY <2>2
      <4>4. QED
        BY <2>4, <3>1, <4>2, <4>3 DEF Through, Carried
    <3>2. \A q \in Seen(w)' \ (worker'[w].todo \cup InHand(w)') :
            Text(w, q)' # {} => manifest'[q] = Confirmed(New(w, q)')
      BY <2>1, <2>2, <2>3, <2>6, <3>1, SameAim
    <3>3. worker'[w].phase \in {"group", "intent"}
      BY <2>3
    <3>4. QED
      BY <3>2, <3>3 DEF Removing, Settling
  <2>10. QED
    BY <2>7, <2>8, <2>9 DEF Through
<1>3. QED
  BY <1>1, <1>2

LEMMA SeenPaths ==
  ASSUME NEW w \in Workers, worker[w].want \in Target
  PROVE  Seen(w) \in SUBSET Paths
<1>1. worker[w].want.rev \in Revisions
  BY DEF Target
<1>2. QED
  BY <1>1, IndexAssumption DEF Seen, Selected

\* A file in hand gets another entry and stays in hand, or it is through with.
LEMMA GoesWrites ==
  ASSUME Typed, NEW w \in Workers, Runs(w) => Through(w), worker[w].phase \in Begun,
         NEW p \in InHand(w), NEW entry, worker[w].phase \in Planning,
         worker[w].want \in Target,
         InHand(w) \subseteq Group(w), Group(w) \subseteq Paths,
         manifest' = [manifest EXCEPT ![p] = entry],
         Aim(worker'[w]) = Aim(worker[w]), Scope(worker'[w]) = Scope(worker[w]),
         Hand(worker'[w]) = Hand(worker[w]), worker'[w].removed = worker[w].removed,
         worker'[w].phase \in Planning \cup {"group"},
         worker'[w].phase = "orphans" => worker[w].phase = "orphans",
         worker'[w].phase \in {"confirm", "stale", "finalize"} =>
           worker[w].phase \in {"orphans", "confirm", "stale", "finalize"},
         \/ InHand(w) \subseteq InHand(w)'
         \/ InHand(w) \ {p} \subseteq InHand(w)' /\ entry = Confirmed(New(w, p))
  PROVE  Goes(w)
<1> SUFFICES ASSUME Runs(w)' PROVE Through(w)'
  BY DEF Goes
<1>1. /\ worker'[w].budget = worker[w].budget /\ worker'[w].failed = worker[w].failed
      /\ worker'[w].todo = worker[w].todo /\ worker'[w].left = worker[w].left
      /\ Group(w)' = Group(w)
  BY DEF Scope, Hand, Group
<1>2. Runs(w) /\ Through(w)
  BY <1>1, SameAim DEF Runs
<1>3. /\ manifest'[p] = entry /\ p \in Paths
      /\ \A q \in Paths : q # p => manifest'[q] = manifest[q]
  BY Kept
<1>4. worker'[w].phase \notin Removing \cup Settling
  BY DEF Planning, Removing, Settling
<1>5. Sorted(w)'
  BY <1>1, <1>2, <1>4, SameAim DEF Sorted, Through
<1>6. NothingElse(w)'
  <2> SUFFICES ASSUME NEW q \in Paths, manifest'[q] # None
               PROVE  q \in Seen(w) \cup Unseen(w) \/ q \in worker[w].removed
    BY <1>4, SameAim DEF NothingElse
  <2>1. CASE q = p
    BY <1>2, <2>1 DEF Through, Sorted
  <2>2. CASE q # p
    BY <1>2, <1>3, <2>2 DEF Through, NothingElse
  <2>3. QED
    BY <2>1, <2>2
<1>7. Carried(w)'
  <2> SUFFICES ASSUME worker'[w].budget = FALSE
               PROVE  /\ worker'[w].phase \in {"orphans", "confirm", "stale", "finalize"}
                            => worker'[w].left = {}
                      /\ worker'[w].phase \in Removing \cup Settling => worker'[w].todo = {}
                      /\ \A q \in Seen(w)' \ (worker'[w].todo \cup InHand(w)') :
                           Text(w, q)' # {} => manifest'[q] = Confirmed(New(w, q)')
    BY DEF Carried, Confirmed
  <2>1. Carried(w)
    BY <1>2 DEF Through
  <2>2. ASSUME NEW q \in Seen(w) \ (worker[w].todo \cup InHand(w)'), Text(w, q) # {}
        PROVE  manifest'[q] = Confirmed(New(w, q))
    <3>0. worker[w].budget = FALSE
      BY <1>1
    <3>1. CASE q = p
      BY <1>3, <2>2, <3>1
    <3>2. CASE q # p
      <4>1. q \in Seen(w) \ (worker[w].todo \cup InHand(w))
        BY <2>2, <3>2
      <4>2. manifest[q] = Confirmed(New(w, q))
        BY <2>1, <2>2, <3>0, <4>1 DEF Carried
      <4>3. q \in Paths
        BY <2>2, SeenPaths
      <4>4. QED
        BY <1>3, <3>2, <4>2, <4>3
    <3>3. QED
      BY <3>1, <3>2
  <2>3. \A q \in Seen(w)' \ (worker'[w].todo \cup InHand(w)') :
          Text(w, q)' # {} => manifest'[q] = Confirmed(New(w, q)')
    BY <1>1, <2>2, SameAim
  <2>4. worker'[w].phase \in {"orphans", "confirm", "stale", "finalize"} => worker'[w].left = {}
    BY <1>1, <2>1 DEF Carried
  <2>5. QED
    BY <1>4, <2>3, <2>4
<1>8. QED
  BY <1>5, <1>6, <1>7 DEF Through

LEMMA FailedGoes ==
  ASSUME NEW w \in Workers, worker'[w].failed = TRUE \/ Failing(w)
  PROVE  Goes(w)
  BY DEF Goes, Runs, Failing

LEMMA PlanningBegun == Planning \subseteq Begun
  BY DEF Planning, Begun, Inner, Phases

LEMMA GoesIntent ==
  ASSUME Typed, NEW w \in Workers, Runs(w) => Through(w), RecordIntent(w)
  PROVE  Goes(w)
<1>1. /\ worker[w] \in Jobs /\ worker[w].want \in Target /\ worker[w].phase = "intent"
  <2>1. worker[w].phase = "intent"
    BY DEF RecordIntent, At_
  <2>2. QED
    BY <2>1, DoesWrite
<1>2. CASE Failing(w)
  BY <1>2, FailedGoes
<1>3. CASE ~Failing(w)
  <2>1. PICK p \in worker[w].files :
          /\ manifest' = [manifest EXCEPT ![p] = Intent(w, p)]
          /\ worker'[w].phase \in {"intent", "relocate"}
          /\ Aim(worker'[w]) = Aim(worker[w]) /\ Found(worker'[w]) = Found(worker[w])
          /\ Scope(worker'[w]) = Scope(worker[w]) /\ Hand(worker'[w]) = Hand(worker[w])
    BY <1>1, <1>3, DoesWrite
  <2>2. p \in Group(w) /\ Group(w) \subseteq Paths
    BY <1>1, PlanHolds DEF Planning
  <2>3. InHand(w) = Group(w) /\ InHand(w)' = Group(w)
    BY <1>1, <2>1 DEF InHand, Planning, Hand, Group
  <2>4. /\ worker[w].phase \in Planning /\ worker[w].phase \in Begun
        /\ worker'[w].phase \in Planning
    BY <1>1, <2>1, PlanningBegun DEF Planning
  <2>5. worker'[w].removed = worker[w].removed
    BY <2>1 DEF Found
  <2>6. QED
    BY <1>1, <2>1, <2>2, <2>3, <2>4, <2>5, GoesWrites
<1>4. QED
  BY <1>2, <1>3

LEMMA GoesRows ==
  ASSUME Typed, NEW w \in Workers, Runs(w) => Through(w), Relocate(w) \/ EmbedBatch(w)
  PROVE  Goes(w)
<1>1. CASE Failing(w)
  BY <1>1, FailedGoes
<1>2. CASE ~Failing(w)
  <2>1. /\ worker[w].phase \in {"relocate", "embed"} /\ manifest' = manifest
        /\ worker'[w].phase \in {"orphans", "embed"}
        /\ worker'[w].phase = "orphans" => worker'[w].left = {}
        /\ worker'[w].known = worker[w].known
        /\ Aim(worker'[w]) = Aim(worker[w]) /\ Found(worker'[w]) = Found(worker[w])
        /\ Scope(worker'[w]) = Scope(worker[w])
    BY <1>2, DoesRelocate, DoesEmbed
  <2>2. InHand(w) = Group(w) /\ InHand(w)' = Group(w) /\ Group(w)' = Group(w)
    BY <2>1 DEF InHand, Planning, Group
  <2>3. /\ worker[w].phase \in Planning /\ worker[w].phase \in Begun
        /\ worker'[w].phase \in {"orphans", "embed"}
    BY <2>1, PlanningBegun DEF Planning
  <2>4. worker'[w].removed = worker[w].removed
    BY <2>1 DEF Found
  <2>5. QED
    BY <2>1, <2>2, <2>3, <2>4, GoesOn DEF Removing, Settling
<1>3. QED
  BY <1>1, <1>2

LEMMA GoesStop ==
  ASSUME Typed, NEW w \in Workers, Runs(w) => Through(w), BudgetStop(w)
  PROVE  Goes(w)
<1> SUFFICES ASSUME Runs(w)' PROVE Through(w)'
  BY DEF Goes
<1>1. /\ worker[w].phase = "embed" /\ worker'[w].phase = "orphans" /\ manifest' = manifest
      /\ worker'[w].budget = TRUE /\ worker'[w].failed = worker[w].failed
      /\ worker'[w].todo = worker[w].todo /\ worker'[w].known = worker[w].known
      /\ worker'[w].removed = worker[w].removed /\ Aim(worker'[w]) = Aim(worker[w])
  BY DoesStop DEF Found, Hand
<1>2. Runs(w) /\ Through(w) /\ Group(w)' = Group(w)
  <2>1. worker[w].phase \in Begun
    BY <1>1, PlanningBegun DEF Planning
  <2>2. QED
    BY <1>1, <2>1, SameAim DEF Runs, Group
<1>3. Sorted(w)'
  BY <1>1, <1>2, SameAim DEF Sorted, Through, Planning, Removing
<1>4. NothingElse(w)'
  BY <1>1, <1>2, SameAim DEF NothingElse, Through, Settling
<1>5. Carried(w)'
  BY <1>1 DEF Carried
<1>6. QED
  BY <1>3, <1>4, <1>5 DEF Through

\* With nothing left to embed every file in hand is finished.
LEMMA AllFinished ==
  ASSUME NEW w \in Workers, worker[w].left = {}
  PROVE  Finished(w) = Group(w)
  BY DEF Finished

LEMMA GoesOrphans ==
  ASSUME Typed, NEW w \in Workers, Runs(w) => Through(w), DeleteOrphans(w)
  PROVE  Goes(w)
<1>1. CASE Failing(w)
  BY <1>1, FailedGoes
<1>2. CASE ~Failing(w)
  <2>1. /\ worker[w].phase = "orphans" /\ manifest' = manifest
        /\ worker'[w].phase = IF Finished(w) = {} THEN "group" ELSE "confirm"
        /\ Aim(worker'[w]) = Aim(worker[w]) /\ Found(worker'[w]) = Found(worker[w])
        /\ Scope(worker'[w]) = Scope(worker[w]) /\ Hand(worker'[w]) = Hand(worker[w])
    BY <1>2, DoesOrphans
  <2>2. /\ InHand(w) = Group(w) /\ Group(w)' = Group(w) /\ worker'[w].left = worker[w].left
        /\ worker'[w].phase = "confirm" => InHand(w)' = Group(w)
        /\ worker'[w].removed = worker[w].removed
    BY <2>1 DEF InHand, Planning, Group, Hand, Found
  <2>3. worker[w].phase \in Planning /\ worker[w].phase \in Begun
    BY <2>1, PlanningBegun DEF Planning
  <2>4. worker[w].budget = FALSE /\ Through(w) => worker[w].left = {}
    BY <2>1 DEF Through, Carried
  <2>5. worker[w].budget = FALSE /\ Through(w) => InHand(w) \subseteq InHand(w)'
    BY <2>1, <2>2, <2>4, AllFinished
  <2>6. worker'[w].phase \notin Removing \cup Settling
    BY <2>1 DEF Removing, Settling
  <2>7. QED
    BY <2>1, <2>2, <2>3, <2>4, <2>5, <2>6, GoesOn
<1>3. QED
  BY <1>1, <1>2

LEMMA GoesConfirm ==
  ASSUME Typed, NEW w \in Workers, Runs(w) => Through(w), Planned(w), Confirm(w)
  PROVE  Goes(w)
<1>1. CASE worker'[w].failed = TRUE
  BY <1>1, FailedGoes
<1>2. CASE worker'[w].failed # TRUE
  <2>1. /\ worker[w] \in Jobs /\ worker[w].phase = "confirm" /\ worker[w].want \in Target
    BY DoesConfirm
  <2>2. PICK p \in worker[w].files :
          /\ manifest' = [manifest EXCEPT ![p] = Confirmation(w, p)]
          /\ worker'[w].phase \in {"stale", "confirm"}
          /\ Aim(worker'[w]) = Aim(worker[w]) /\ Found(worker'[w]) = Found(worker[w])
          /\ Scope(worker'[w]) = Scope(worker[w]) /\ Hand(worker'[w]) = Hand(worker[w])
    BY <1>2, DoesConfirm
  <2>3. p \in Group(w) /\ Group(w) \subseteq Paths
    BY <2>1, PlanHolds DEF Planning
  <2>4. InHand(w) = Group(w) /\ InHand(w)' = Group(w)
    BY <2>1, <2>2 DEF InHand, Planning, Hand, Group
  <2>5. /\ worker[w].phase \in Planning /\ worker[w].phase \in Begun
        /\ worker'[w].phase \in Planning
    BY <2>1, <2>2, PlanningBegun DEF Planning
  <2>6. worker'[w].removed = worker[w].removed
    BY <2>2 DEF Found
  <2>7. QED
    BY <2>1, <2>2, <2>3, <2>4, <2>5, <2>6, GoesWrites
<1>3. QED
  BY <1>1, <1>2

LEMMA GoesStale ==
  ASSUME Typed, NEW w \in Workers, Runs(w) => Through(w), Brought(w), DeleteStale(w)
  PROVE  Goes(w)
<1> DEFINE ids == UNION {Stale(w, p) : p \in Finished(w)}
<1>1. /\ worker[w].phase = "stale" /\ manifest' = manifest
      /\ Deletes(w, ids, "finalize") \/ LosesDelete(w, ids)
  BY DoesStale
<1> HIDE DEF ids
<1>2. CASE LosesDelete(w, ids)
  BY <1>2, FailedGoes DEF LosesDelete
<1>3. CASE Deletes(w, ids, "finalize")
  <2>1. /\ worker'[w].phase = "finalize" /\ worker'[w].files = worker[w].files
        /\ Aim(worker'[w]) = Aim(worker[w]) /\ worker'[w].removed = worker[w].removed
        /\ Scope(worker'[w]) = Scope(worker[w])
        /\ worker'[w].known = worker[w].known /\ worker'[w].left = worker[w].left
    BY <1>3 DEF Deletes, Found, Hand
  <2>2. /\ InHand(w) = Group(w) /\ Group(w)' = Group(w) /\ InHand(w)' = Finished(w)
    BY <1>1, <2>1 DEF InHand, Planning, Group, Brought
  <2>3. worker[w].phase \in Planning /\ worker[w].phase \in Begun
    BY <1>1, PlanningBegun DEF Planning
  <2>4. worker[w].budget = FALSE /\ Through(w) => worker[w].left = {}
    BY <1>1 DEF Through, Carried
  <2>5. worker[w].budget = FALSE /\ Through(w) => InHand(w) \subseteq InHand(w)'
    BY <2>2, <2>4, AllFinished
  <2>6. worker'[w].phase \notin Removing \cup Settling
    BY <2>1 DEF Removing, Settling
  <2>7. QED
    BY <1>1, <2>1, <2>2, <2>3, <2>4, <2>5, <2>6, GoesOn
<1>4. QED
  BY <1>1, <1>2, <1>3

LEMMA GoesFinalize ==
  ASSUME Typed, NEW w \in Workers, Runs(w) => Through(w), Finalize(w)
  PROVE  Goes(w)
<1>1. /\ worker[w] \in Jobs /\ worker[w].want \in Target /\ worker[w].phase = "finalize"
  <2>1. worker[w].phase = "finalize"
    BY DEF Finalize, At_
  <2>2. QED
    BY <2>1, DoesWrite
<1>2. CASE Failing(w)
  BY <1>2, FailedGoes
<1>3. CASE ~Failing(w)
  <2>1. PICK p \in worker[w].files :
          /\ manifest' = [manifest EXCEPT ![p] = Finalized(w, p)]
          /\ worker'[w].files = worker[w].files \ {p}
          /\ worker'[w].phase = IF worker'[w].files # {} THEN "finalize" ELSE "group"
          /\ Aim(worker'[w]) = Aim(worker[w]) /\ Found(worker'[w]) = Found(worker[w])
          /\ Scope(worker'[w]) = Scope(worker[w]) /\ Hand(worker'[w]) = Hand(worker[w])
    BY <1>1, <1>3, DoesWrite
  <2>2. worker[w].files \subseteq Group(w) /\ Group(w) \subseteq Paths
    BY <1>1, PlanHolds DEF Planning
  <2>3. InHand(w) = worker[w].files /\ InHand(w) \ {p} \subseteq InHand(w)'
    BY <1>1, <2>1 DEF InHand
  <2>4. /\ worker[w].phase \in Planning /\ worker[w].phase \in Begun
        /\ worker'[w].phase \in Planning \cup {"group"}
    BY <1>1, <2>1, PlanningBegun DEF Planning
  <2>5. worker'[w].removed = worker[w].removed
    BY <2>1 DEF Found
  <2>6. Finalized(w, p) = Confirmed(New(w, p))
    BY DEF Finalized
  <2>7. QED
    BY <1>1, <2>1, <2>2, <2>3, <2>4, <2>5, <2>6, GoesWrites
<1>4. QED
  BY <1>2, <1>3

LEMMA GoesEnd ==
  ASSUME Typed, NEW w \in Workers, Runs(w) => Through(w), EndGroups(w)
  PROVE  Goes(w)
<1> SUFFICES ASSUME Runs(w)' PROVE Through(w)'
  BY DEF Goes
<1>1. /\ worker[w] \in Jobs /\ worker[w].phase = "group" /\ manifest' = manifest
      /\ worker[w].budget \/ worker[w].todo = {}
      /\ worker'[w].phase = IF worker[w].removed = {} THEN "settle" ELSE "remove"
      /\ worker'[w].swept = worker[w].removed /\ worker'[w].removed = worker[w].removed
      /\ worker'[w].budget = worker[w].budget /\ worker'[w].failed = worker[w].failed
      /\ worker'[w].todo = worker[w].todo /\ Aim(worker'[w]) = Aim(worker[w])
  BY DoesEnd DEF Found, Scope
<1>2. Runs(w) /\ Through(w)
  <2>1. worker[w].phase \in Begun
    BY <1>1 DEF Begun, Inner, Phases
  <2>2. QED
    BY <1>1, <2>1, SameAim DEF Runs
<1>3. InHand(w) = {} /\ InHand(w)' = {}
  BY <1>1 DEF InHand, Planning
<1>4. Sorted(w)'
  BY <1>1, <1>2, SameAim DEF Sorted, Through, Planning
<1>5. NothingElse(w)'
  <2>1. \A q \in Paths : manifest'[q] # None =>
          q \in Seen(w)' \cup Unseen(w)' \/ q \in worker[w].removed
    BY <1>1, <1>2, SameAim DEF NothingElse, Through
  <2>2. worker'[w].phase \in Settling => worker[w].removed = {}
    BY <1>1 DEF Settling
  <2>3. QED
    BY <1>1, <2>1, <2>2 DEF NothingElse
<1>6. Carried(w)'
  <2>1. \A q \in Seen(w)' \ (worker'[w].todo \cup InHand(w)') :
          worker[w].budget = FALSE /\ Text(w, q)' # {} => manifest'[q] = Confirmed(New(w, q)')
    BY <1>1, <1>2, <1>3, SameAim DEF Carried, Through
  <2>2. worker'[w].phase \notin {"orphans", "confirm", "stale", "finalize"}
    BY <1>1
  <2>3. QED
    BY <1>1, <2>1, <2>2 DEF Carried, Confirmed
<1>7. QED
  BY <1>4, <1>5, <1>6 DEF Through

LEMMA GoesRemoves ==
  ASSUME Typed, NEW w \in Workers, Runs(w) => Through(w), RemoveCounted(w) \/ SweepPaths(w)
  PROVE  Goes(w)
<1>1. CASE Failing(w)
  BY <1>1, FailedGoes
<1>2. CASE ~Failing(w)
  <2>1. /\ worker[w].phase \in {"revoke", "revoke sweep", "remove", "remove sweep"}
        /\ manifest' = manifest
        /\ worker'[w].phase = CASE worker[w].phase = "revoke" -> "revoke sweep"
                                [] worker[w].phase = "revoke sweep" -> "group"
                                [] worker[w].phase = "remove" -> "remove sweep"
                                [] worker[w].phase = "remove sweep" -> "forget"
        /\ Aim(worker'[w]) = Aim(worker[w]) /\ worker'[w].removed = worker[w].removed
        /\ Scope(worker'[w]) = Scope(worker[w]) /\ worker'[w].swept = worker[w].swept
    <3>1. CASE RemoveCounted(w)
      BY <1>2, <3>1, DoesRemove DEF Deletes, LosesDelete, Found
    <3>2. CASE SweepPaths(w)
      BY <1>2, <3>2, DoesSweep DEF Found
    <3>3. QED
      BY <3>1, <3>2
  <2>2. worker[w].phase \in Begun /\ InHand(w) = {}
    BY <2>1 DEF Begun, Inner, Phases, InHand, Planning
  <2>3. /\ worker'[w].phase \notin Planning /\ worker'[w].phase \notin Settling
        /\ worker'[w].phase \in Removing => worker[w].phase \in Removing
    BY <2>1 DEF Planning, Removing, Settling
  <2>4. worker'[w].phase \notin {"orphans", "confirm", "stale", "finalize"}
    BY <2>1
  <2>5. QED
    BY <2>1, <2>2, <2>3, <2>4, GoesOn
<1>3. QED
  BY <1>1, <1>2

LEMMA GoesForget ==
  ASSUME Typed, NEW w \in Workers, Runs(w) => Through(w), Forget(w)
  PROVE  Goes(w)
<1>0. worker[w].phase = "forget"
  BY DEF Forget, At_
<1>1. CASE Failing(w)
  BY <1>1, FailedGoes
<1>2. CASE ~Failing(w)
  <2> SUFFICES ASSUME Runs(w)' PROVE Through(w)'
    BY DEF Goes
  <2>1. /\ manifest' = Without(worker[w].swept) /\ worker'[w].phase = "settle"
        /\ worker'[w].removed = worker[w].removed /\ Aim(worker'[w]) = Aim(worker[w])
        /\ worker'[w].budget = worker[w].budget /\ worker'[w].failed = worker[w].failed
        /\ worker'[w].todo = worker[w].todo /\ worker[w] \in Jobs
    BY <1>0, <1>2, DoesForget DEF Found, Scope
  <2>2. Runs(w) /\ Through(w)
    <3>1. worker[w].phase \in Begun
      BY <1>0 DEF Begun, Inner, Phases
    <3>2. QED
      BY <2>1, <3>1, SameAim DEF Runs
  <2>3. worker[w].swept = worker[w].removed
    BY <1>0, <2>2 DEF Through, Sorted, Removing
  <2>4. \A q \in Paths : manifest'[q] = IF q \in worker[w].removed THEN None ELSE manifest[q]
    BY <2>1, <2>3 DEF Without
  <2>5. Sorted(w)'
    BY <2>1, <2>2, SameAim DEF Sorted, Through, Planning, Removing
  <2>6. NothingElse(w)'
    BY <2>2, <2>4, <2>1, SameAim DEF NothingElse, Through
  <2>7. Carried(w)'
    <3>1. InHand(w) = {} /\ InHand(w)' = {}
      BY <1>0, <2>1 DEF InHand, Planning
    <3>2. Seen(w) \cap worker[w].removed = {}
      BY <2>2 DEF Through, Sorted
    <3>3. Seen(w) \subseteq Paths
      BY <2>2, SeenPaths, Busy, <1>0 DEF Runs, Wants
    <3>4. \A q \in Seen(w) \ worker[w].todo :
            worker[w].budget = FALSE /\ Text(w, q) # {} => manifest'[q] = Confirmed(New(w, q))
      BY <2>2, <2>4, <3>1, <3>2, <3>3 DEF Through, Carried
    <3>5. \A q \in Seen(w)' \ (worker'[w].todo \cup InHand(w)') :
            worker[w].budget = FALSE /\ Text(w, q)' # {} => manifest'[q] = Confirmed(New(w, q)')
      BY <2>1, <3>1, <3>4, SameAim
    <3>6. worker[w].budget = FALSE => worker[w].todo = {}
      BY <1>0, <2>2 DEF Through, Carried, Removing
    <3>7. QED
      BY <2>1, <3>5, <3>6 DEF Carried, Confirmed
  <2>8. QED
    BY <2>5, <2>6, <2>7 DEF Through
<1>3. QED
  BY <1>1, <1>2

\* The run whose fence is on the record.
Leads(w) ==
  worker[w].phase \in Inner \/ (worker[w].phase = "graph" /\ record.fence = worker[w].fence)
AllThrough == \A w \in Workers : Leads(w) => (Runs(w) => Through(w))

LEMMA NotBegun ==
  ASSUME NEW w \in Workers,
         worker'[w].phase \in {"idle", "claim", "mark", "begin", "wipe", "unname"} \/ worker'[w] = Idle
  PROVE  ~Runs(w)'
  BY DEF Runs, Begun, Inner, Idle

LEMMA GoesInside ==
  ASSUME Typed, NEW w \in Workers, Runs(w) => Through(w), Asked(w), Planned(w), Brought(w),
         InnerRun(w)
  PROVE  Goes(w)
<1>1. CASE Wipe(w)
  <2>1. worker'[w] = Idle \/ worker'[w].phase = "unname"
    BY <1>1, DoesWipe
  <2>2. QED
    BY <2>1, NotBegun DEF Goes
<1>2. CASE Unname(w)
  <2>1. worker[w].phase = "unname" /\ worker[w].job = "reset"
    BY <1>2 DEF Unname, At_, Asked
  <2>2. worker'[w] = Idle \/ Aim(worker'[w]) = Aim(worker[w])
    BY <1>2, <2>1, DoesForget
  <2>3. CASE worker'[w] = Idle
    BY <2>3, NotBegun DEF Goes
  <2>4. CASE Aim(worker'[w]) = Aim(worker[w])
    BY <2>1, <2>4, SameAim DEF Goes, Runs
  <2>5. QED
    BY <2>2, <2>3, <2>4
<1>3. QED
  BY <1>1, <1>2, GoesBegin, GoesGroup, GoesIntent, GoesRows, GoesStop, GoesOrphans,
     GoesConfirm, GoesStale, GoesFinalize, GoesEnd, GoesRemoves, GoesForget DEF InnerRun

LEMMA GoesLeaves ==
  ASSUME Typed, Held, Sole, NEW w \in Workers, Runs(w) => Through(w),
         Settle(w) \/ RecountFails(w) \/ DropClaim(w)
  PROVE  Goes(w)
<1> SUFFICES ASSUME Runs(w)' PROVE Goes(w)
  BY DEF Goes
<1>1. worker'[w].failed = FALSE /\ worker'[w].job = "index" /\ worker'[w] # Idle
  BY NotBegun DEF Runs
<1>2. /\ worker[w].phase \in {"settle", "drop"} /\ manifest' = manifest
      /\ worker'[w].phase \in {"drop", "graph"}
      /\ Aim(worker'[w]) = Aim(worker[w]) /\ worker'[w].removed = worker[w].removed
      /\ Scope(worker'[w]) = Scope(worker[w])
  <2>1. CASE Settle(w) \/ RecountFails(w)
    <3>1. /\ Leaves(w, FALSE) /\ (Emptied(w) \/ WentWell(w))
          /\ worker[w].phase = "settle" /\ manifest' = manifest /\ worker[w] \in Jobs
      BY <1>1, <2>1, DoesSettle DEF Leaves
    <3>2. worker[w].job = "index"
      BY <1>1, <3>1, SameAim DEF Leaves
    <3>3. worker[w].failed = FALSE
      BY <3>1, <3>2 DEF Emptied, WentWell, Jobs
    <3>4. QED
      BY <3>1, <3>3 DEF Leaves, Scope, Found
  <2>2. CASE DropClaim(w)
    BY <1>1, <2>2, DoesDrop DEF Found
  <2>3. QED
    BY <2>1, <2>2
<1>3. worker[w].phase \in Begun /\ InHand(w) = {}
  BY <1>2 DEF Begun, Inner, Phases, InHand, Planning
<1>4. /\ worker'[w].phase \notin Planning \cup Removing
      /\ worker'[w].phase \notin {"orphans", "confirm", "stale", "finalize"}
      /\ worker[w].phase \in Settling
  BY <1>2 DEF Planning, Removing, Settling
<1>5. QED
  BY <1>2, <1>3, <1>4, GoesOn

\* A run of another worker is as far as it was.
LEMMA ThroughStays ==
  ASSUME NEW v \in Workers, worker'[v] = worker[v], manifest' = manifest,
         Runs(v) => Through(v)
  PROVE  Goes(v)
<1> SUFFICES ASSUME Runs(v)' PROVE Through(v)'
  BY DEF Goes
<1>1. /\ Seen(v)' = Seen(v) /\ Unseen(v)' = Unseen(v) /\ Group(v)' = Group(v)
      /\ \A q : Text(v, q)' = Text(v, q) /\ New(v, q)' = New(v, q)
      /\ InHand(v)' = InHand(v)
  BY SameAim DEF InHand, Group
<1>2. Through(v)
  BY DEF Runs
<1>3. Sorted(v)' /\ NothingElse(v)'
  BY <1>1, <1>2 DEF Through, Sorted, NothingElse
<1>4. Carried(v)'
  <2>1. \A q \in Seen(v)' \ (worker'[v].todo \cup InHand(v)') :
          worker[v].budget = FALSE /\ Text(v, q)' # {} => manifest'[q] = Confirmed(New(v, q)')
    BY <1>1, <1>2 DEF Carried, Through
  <2>2. worker[v].budget = FALSE =>
          /\ worker'[v].phase \in {"orphans", "confirm", "stale", "finalize"} => worker'[v].left = {}
          /\ worker'[v].phase \in Removing \cup Settling => worker'[v].todo = {}
    BY <1>2 DEF Carried, Through
  <2>3. QED
    BY <2>1, <2>2 DEF Carried, Confirmed
<1>5. QED
  BY <1>3, <1>4 DEF Through

\* Nobody else leads while a run is under its claim.
LEMMA NoneElseLeads ==
  ASSUME Typed, Held, Sole, NEW w \in Workers, Under(w), NEW v \in Workers, v # w
  PROVE  /\ worker'[v] = worker[v] /\ worker[v].phase \in Away
         /\ Leads(v)' => Leads(v) /\ MarkIndexing(w) /\ record' = record
<1>1. /\ worker'[v] = worker[v] /\ worker[v].phase \in Away
      /\ worker[v].fence # worker[w].fence /\ worker[w].phase \in Inner \cup {"mark"}
  BY OthersAway
<1>2. CASE MarkIndexing(w)
  <2>1. record' = record \/ record'.fence = worker[w].fence
    BY <1>2, DoesMark
  <2>2. QED
    BY <1>1, <1>2, <2>1 DEF Leads, Away, Inner
<1>3. CASE ~MarkIndexing(w)
  <2>1. record'.fence = record.fence /\ worker[w].phase \in Inner
    <3>1. "settle" \in Inner /\ "drop" \in Inner
      BY DEF Inner, Phases
    <3>2. QED
      BY <1>3, <3>1, InnerSteps, SettleSteps, DropSteps DEF Under
  <2>2. record.fence = worker[w].fence
    BY <2>1, OnlyOne
  <2>3. QED
    BY <1>1, <2>1, <2>2 DEF Leads, Away, Inner
<1>4. QED
  BY <1>2, <1>3

\* The runs keep track of how far they have come with their commit.
LEMMA ThroughStep ==
  ASSUME Typed, Held, Sole, AllAsked, AllPlanned, AllBrought, AllThrough, [Next]_vars
  PROVE  AllThrough'
<1>1. ASSUME NEW v \in Workers, worker'[v] = worker[v], manifest' = manifest, Leads(v)' => Leads(v)
      PROVE  Leads(v)' => Goes(v)
  BY <1>1, ThroughStays DEF AllThrough
<1>2. CASE UNCHANGED vars \/ ClaimExpires
  BY <1>1, <1>2 DEF vars, ClaimExpires, AllThrough, Goes, Leads
<1>3. ASSUME NEW w \in Workers, Beside(w)
      PROVE  AllThrough'
  <2>1. Goes(w)
    <3>1. worker'[w].phase \in {"idle", "claim", "mark"}
      BY <1>3, StartSteps, StopSteps, ClaimSteps DEF Beside, Idle
    <3>2. QED
      BY <3>1, NotBegun DEF Goes
  <2>2. \A v \in Workers : v # w => Goes(v) \/ ~Leads(v)'
    <3>1. \A v \in Workers : v # w =>
            worker'[v] = worker[v] /\ manifest' = manifest /\ (Leads(v)' => Leads(v))
      BY <1>3, StoresStand DEF Leads
    <3>2. QED
      BY <1>1, <3>1
  <2>3. QED
    BY <2>1, <2>2 DEF AllThrough, Goes
<1>4. ASSUME NEW w \in Workers, Under(w)
      PROVE  AllThrough'
  <2>1. Goes(w)
    <3>1. CASE MarkIndexing(w)
      <4>1. worker'[w] = Idle \/ worker'[w].phase \in {"begin", "wipe"}
        BY <3>1, DoesMark
      <4>2. QED
        BY <4>1, NotBegun DEF Goes
    <3>2. CASE ~MarkIndexing(w)
      <4>1. Leads(w)
        BY <1>4, <3>2, InnerSteps, SettleSteps, DropSteps DEF Under, Leads, Inner, Phases
      <4>2. Runs(w) => Through(w)
        BY <4>1 DEF AllThrough
      <4>3. QED
        BY <1>4, <3>2, <4>2, GoesInside, GoesLeaves DEF Under, AllAsked, AllPlanned, AllBrought
    <3>3. QED
      BY <3>1, <3>2
  <2>2. ASSUME NEW v \in Workers, v # w
        PROVE  Leads(v)' => Goes(v)
    <3>1. /\ worker'[v] = worker[v]
          /\ Leads(v)' => Leads(v) /\ MarkIndexing(w)
      BY <1>4, <2>2, NoneElseLeads
    <3>2. MarkIndexing(w) => manifest' = manifest
      BY DoesMark
    <3>3. QED
      BY <1>1, <3>1, <3>2
  <2>3. QED
    BY <2>1, <2>2 DEF AllThrough, Goes
<1>5. QED
  BY <1>2, <1>3, <1>4, StepCases

-----------------------------------------------------------------------------
(* A record that claims a revision tells the truth.                        *)

\* The manifest is that of the commit, but for files that yield no text there.
Complete ==
  ClaimsRevision =>
    \A q \in Paths : ~Blanked(q) =>
      manifest[q] = IF q \in Expected THEN Confirmed(Wanted(q)) ELSE None

LEMMA CompleteStays ==
  ASSUME Complete, UNCHANGED <<record, manifest>>
  PROVE  Complete'
  BY DEF Complete, ClaimsRevision, Expected, Blanked, Holds, Wanted, Confirmed, Selected, Ids

LEMMA NothingClaimed ==
  ASSUME record'.state # "ready" \/ record'.revision = None
  PROVE  Complete' /\ ~ClaimsRevision'
  BY DEF Complete, ClaimsRevision

\* What a run that may claim its revision has carried through is the commit.
LEMMA Completes ==
  ASSUME Typed, NEW w \in Workers, AskedOf(worker[w]), Runs(w), Through(w),
         worker[w].phase = "settle", WentWell(w), manifest' = manifest
  PROVE  Complete'
<1> SUFFICES ASSUME ClaimsRevision', NEW q \in Paths, ~Blanked(q)'
             PROVE  manifest[q] = IF q \in Expected' THEN Confirmed(Wanted(q)') ELSE None
  BY DEF Complete, Confirmed
<1>1. worker[w].budget = FALSE /\ worker[w].sub # "missing" /\ record'.revision = worker[w].want
  <2>1. worker[w] \in Jobs
    BY Busy
  <2>2. record'.revision = IF Whole(w) THEN worker[w].want ELSE None
    BY DEF WentWell, DoneAs
  <2>3. Whole(w)
    BY <2>2 DEF ClaimsRevision
  <2>4. QED
    BY <2>1, <2>2, <2>3 DEF Whole, Jobs
<1>2. worker[w].sub = IF worker[w].want.allowed THEN "fetched" ELSE "denied"
  BY <1>1 DEF AskedOf, Runs
<1>3. /\ Expected' = Seen(w) /\ Holds(q)' = Text(w, q)
      /\ Wanted(q)' = IF q \in Seen(w) THEN New(w, q) ELSE {}
  BY <1>1, <1>2 DEF Expected, Seen, Holds, Text, Wanted, New, Selected
<1>4. worker[w].todo = {} /\ InHand(w) = {} /\ Unseen(w) = {}
  <2>1. worker[w].phase \notin Planning \cup {"finalize"} /\ worker[w].phase \in Settling
    BY DEF Planning, Settling
  <2>2. QED
    BY <1>1, <2>1 DEF Through, Carried, InHand, Unseen
<1>5. CASE q \in Seen(w)
  <2>1. Text(w, q) # {}
    BY <1>3, <1>5 DEF Blanked
  <2>2. manifest[q] = Confirmed(New(w, q))
    BY <1>1, <1>4, <1>5, <2>1 DEF Through, Carried
  <2>3. QED
    BY <1>3, <1>5, <2>2 DEF Confirmed
<1>6. CASE q \notin Seen(w)
  <2>1. manifest[q] = None
    BY <1>4, <1>6 DEF Through, NothingElse, Settling
  <2>2. QED
    BY <1>3, <1>6, <2>1
<1>7. QED
  BY <1>5, <1>6

\* Only a run that carried its whole commit through claims it.
LEMMA CompleteStep ==
  ASSUME Typed, Held, Sole, Marked, AllAsked, AllThrough, Complete, [Next]_vars
  PROVE  Complete'
<1>1. CASE UNCHANGED vars \/ ClaimExpires
  BY <1>1, CompleteStays DEF vars, ClaimExpires
<1>2. ASSUME NEW w \in Workers, Beside(w)
      PROVE  Complete'
  BY <1>2, StoresStand, CompleteStays
<1>3. ASSUME NEW w \in Workers, Under(w)
      PROVE  Complete'
  <2>1. CASE InnerRun(w)
    <3>1. record' = record /\ record.state = "indexing"
      BY <2>1, InnerSteps, RunsUnsettled DEF Marked
    <3>2. QED
      BY <3>1, NothingClaimed
  <2>2. CASE MarkIndexing(w)
    BY <2>2, DoesMark, CompleteStays, NothingClaimed
  <2>3. CASE Settle(w) \/ RecountFails(w)
    <3>1. /\ manifest' = manifest /\ worker[w] \in Jobs /\ worker[w].phase = "settle"
          /\ record' = record \/ Emptied(w) \/ WentWell(w) \/ WentWrong(w) \/ LostCount(w)
      BY <2>3, DoesSettle
    <3>2. CASE record' = record
      BY <3>1, <3>2, CompleteStays
    <3>3. CASE Emptied(w) \/ WentWrong(w) \/ LostCount(w)
      BY <3>3, NothingClaimed DEF Emptied, WentWrong, LostCount, DoneAs, GaveUpAs
    <3>4. CASE WentWell(w)
      <4>1. worker[w].phase \in Begun /\ worker[w].phase \in Inner
        BY <3>1 DEF Begun, Inner, Phases
      <4>2. Runs(w)
        BY <3>1, <3>4, <4>1 DEF Runs, WentWell, Jobs
      <4>3. Through(w) /\ AskedOf(worker[w])
        BY <3>1, <4>1, <4>2 DEF AllThrough, Leads, AllAsked, Asked
      <4>4. QED
        BY <3>1, <3>4, <4>2, <4>3, Completes
    <3>5. QED
      BY <3>1, <3>2, <3>3, <3>4
  <2>4. CASE DropClaim(w)
    BY <2>4, DoesDrop, CompleteStays
  <2>5. QED
    BY <1>3, <2>1, <2>2, <2>3, <2>4 DEF Under
<1>4. QED
  BY <1>1, <1>2, <1>3, StepCases

\* What the runs have done, what the stores hold and what the record claims.
Sound == Typed /\ Held /\ Sole /\ NothingOrphaned /\ AllPlanned
Told == Marked /\ AllAsked /\ Stored /\ AllBrought /\ AllThrough /\ Complete
LEMMA ToldInit == Init => Told
<1> SUFFICES ASSUME Init PROVE Told
  OBVIOUS
<1>1. \A w \in Workers : worker[w] = Idle
  BY DEF Init
<1>2. \A w \in Workers : worker[w].phase = "idle"
  BY <1>1 DEF Idle
<1>3. \A q \in Paths : manifest[q] = None
  BY DEF Init
<1>4. Marked
  BY <1>2 DEF Marked, Unsettled, Inner
<1>5. AllAsked
  BY <1>2 DEF AllAsked, Asked, Emptying
<1>6. Stored
  BY <1>3 DEF Stored, Own, HeldOrTorn, Named, Counted
<1>7. AllBrought
  BY <1>2 DEF AllBrought, Brought, Planning
<1>8. AllThrough
  BY <1>2 DEF AllThrough, Leads, Inner
<1>9. Complete
  BY DEF Init, Complete, ClaimsRevision
<1>10. QED
  BY <1>4, <1>5, <1>6, <1>7, <1>8, <1>9 DEF Told

\* Together they are inductive.
LEMMA ToldStep ==
  ASSUME Sound, Told, ~Outlives, [Next]_vars
  PROVE  Sound' /\ Told'
<1>1. Sound'
  BY TypedStep, HeldStep, SoleStep, NamedStep DEF Sound
<1>2. Told'
  BY MarkedStep, AskedStep, StoredStep, ThroughStep, CompleteStep DEF Sound, Told
<1>3. QED
  BY <1>1, <1>2
LEMMA KeptInit == Init => Sound
  BY TypedInit, HeldInit, NamedInit DEF Sound

\* An index that claims a commit holds no row that is not of it: no superseded
\* chunk, no deleted file, no submodule that policy denies (indexer/run.rs: the
\* stale rows deleted after the confirmation, the removals at the end, `whole`),
\* whatever failed, died or was retried before, if no run outlives its claim.
THEOREM FreshQuotesNothingElse ==
  ASSUME ~Outlives
  PROVE  Spec => []FreshHoldsNothingElse
<1>1. Sound /\ Told /\ [Next]_vars => Sound' /\ Told'
  BY ToldStep
<1>2. Init => Sound /\ Told
  BY KeptInit, ToldInit
<1>3. Sound /\ Told => FreshHoldsNothingElse
  <2> SUFFICES ASSUME Sound, Told, ClaimsRevision, NEW p \in Paths, ~Blanked(p)
               PROVE  RowsOf(p) \subseteq Wanted(p)
    BY DEF FreshHoldsNothingElse
  <2>1. manifest[p] = IF p \in Expected THEN Confirmed(Wanted(p)) ELSE None
    BY DEF Told, Complete
  <2>2. \A i \in RowsOf(p) : i \in Named(manifest[p])
    BY DEF RowsOf, Sound, NothingOrphaned
  <2>3. Named(manifest[p]) \subseteq Wanted(p)
    BY <2>1 DEF Named, Confirmed
  <2>4. QED
    BY <2>2, <2>3
<1>4. QED
  BY <1>1, <1>2, <1>3, PTL DEF Spec

\* An index that claims a commit holds every chunk of it, but for rows that a
\* counted delete took while an entry still named them (indexer/run.rs: files are
\* confirmed only once every chunk of theirs was written), if no run outlives its
\* claim.
THEOREM FreshLacksNothing ==
  ASSUME ~Outlives
  PROVE  Spec => []FreshHoldsAll
<1>1. Sound /\ Told /\ [Next]_vars => Sound' /\ Told'
  BY ToldStep
<1>2. Init => Sound /\ Told
  BY KeptInit, ToldInit
<1>3. Sound /\ Told => FreshHoldsAll
  <2> SUFFICES ASSUME Sound, Told, ClaimsRevision, NEW p \in Paths, ~Blanked(p)
               PROVE  Wanted(p) \subseteq rows \cup torn
    BY DEF FreshHoldsAll
  <2>1. manifest[p] = IF p \in Expected THEN Confirmed(Wanted(p)) ELSE None
    BY DEF Told, Complete
  <2>2. CASE p \in Expected
    <3>1. Confirmed(Wanted(p)) # None
      <4>1. manifest[p] \in Entry \cup {None} /\ record \in Records
        BY Kept DEF Sound
      <4>2. record.revision \in Target
        BY <4>1 DEF Records, ClaimsRevision
      <4>3. Holds(p) \in SUBSET (At \X Hashes)
        BY <4>2, IndexAssumption DEF Holds, Target
      <4>4. Wanted(p) \in SUBSET Id
        BY <4>3 DEF Wanted, Ids, Id
      <4>5. Confirmed(Wanted(p)) \in Entry
        BY <4>4 DEF Confirmed, Entry
      <4>6. QED
        BY <4>5, IndexAssumption
    <3>2. Counted(manifest[p]) = Wanted(p)
      BY <2>1, <2>2, <3>1 DEF Counted, Confirmed
    <3>3. QED
      BY <3>2 DEF Told, Stored, HeldOrTorn
  <2>3. CASE p \notin Expected
    BY <2>3 DEF Wanted
  <2>4. QED
    BY <2>2, <2>3
<1>4. QED
  BY <1>1, <1>2, <1>3, PTL DEF Spec

-----------------------------------------------------------------------------
(* The graph follows what is confirmed.                                    *)

\* The graph has of a file what the manifest counts of it.
InSync(q) ==
  IF manifest[q] = None THEN graph[q] = None
  ELSE graph[q] \in SUBSET (At \X Hashes) /\ Counted(manifest[q]) = Ids(q, graph[q])
SameCount(q) ==
  \/ manifest'[q] = manifest[q]
  \/ /\ manifest[q] # None /\ manifest'[q] # None
     /\ Counted(manifest'[q]) = Counted(manifest[q])

\* What a run has in hand and does not call changed counts what it did.
Unmoved(w) ==
  Runs(w) /\ worker[w].phase \in Planning =>
    \A q \in Group(w) \ worker[w].changed :
      Prev(w, q) = New(w, q) /\ worker[w].known[q] # None

\* A step of a run that leaves what it does not call changed as it was.
Steady(w) ==
  /\ Runs(w) /\ Unmoved(w)'
  /\ worker'[w].rebuild = worker[w].rebuild /\ worker'[w].removed = worker[w].removed
  /\ worker[w].changed \subseteq worker'[w].changed
  /\ \A q \in Paths \ (worker[w].changed \cup worker[w].removed) : SameCount(q)

LEMMA EndsRun ==
  ASSUME NEW w \in Workers,
         worker'[w].failed = TRUE \/ Failing(w) \/ worker'[w] = Idle
  PROVE  ~Runs(w)'
  BY DEF Runs, Failing, Idle, Begun, Inner

LEMMA SteadyGoes ==
  ASSUME NEW w \in Workers, Runs(w)', worker[w].phase \in Begun, Unmoved(w),
         manifest' = manifest,
         Aim(worker'[w]) = Aim(worker[w]), Found(worker'[w]) = Found(worker[w]),
         worker'[w].changed = worker[w].changed, worker'[w].failed = worker[w].failed,
         worker'[w].phase \in Planning =>
           worker[w].phase \in Planning /\ worker'[w].known = worker[w].known
  PROVE  Steady(w)
<1>1. Runs(w)
  BY SameAim DEF Runs
<1>2. Unmoved(w)'
  <2>1. CASE worker'[w].phase \in Planning
    <3>1. /\ worker[w].phase \in Planning /\ worker'[w].known = worker[w].known
          /\ worker'[w].want = worker[w].want
      BY <2>1, SameAim
    <3>2. /\ Group(w)' = Group(w)
          /\ \A q \in Group(w) : New(w, q)' = New(w, q) /\ Prev(w, q)' = Prev(w, q)
      BY <3>1, SamePlan
    <3>3. QED
      BY <1>1, <3>1, <3>2 DEF Unmoved
  <2>2. QED
    BY <2>1 DEF Unmoved
<1>3. \A q \in Paths : SameCount(q)
  BY DEF SameCount
<1>4. QED
  BY <1>1, <1>2, <1>3 DEF Steady, Found

\* A file in hand gets another entry.
LEMMA SteadyWrites ==
  ASSUME Typed, NEW w \in Workers, Runs(w)', worker[w].phase \in Planning, Unmoved(w),
         NEW p \in Group(w), Group(w) \subseteq Paths, NEW entry,
         manifest' = [manifest EXCEPT ![p] = entry],
         Aim(worker'[w]) = Aim(worker[w]), Found(worker'[w]) = Found(worker[w]),
         Scope(worker'[w]) = Scope(worker[w]), Hand(worker'[w]) = Hand(worker[w]),
         Prev(w, p) = New(w, p) /\ worker[w].known[p] # None =>
           /\ manifest[p] # None /\ entry # None
           /\ Counted(entry) = Counted(manifest[p])
  PROVE  Steady(w)
<1>1. /\ worker'[w].changed = worker[w].changed /\ worker'[w].failed = worker[w].failed
      /\ worker'[w].known = worker[w].known /\ worker'[w].want = worker[w].want
  BY SameAim DEF Scope, Hand
<1>2. Runs(w)
  BY <1>1, SameAim, PlanningBegun DEF Runs
<1>3. Unmoved(w)'
  <2>1. /\ Group(w)' = Group(w)
        /\ \A q \in Group(w) : New(w, q)' = New(w, q) /\ Prev(w, q)' = Prev(w, q)
    BY <1>1, SamePlan
  <2>2. QED
    BY <1>1, <1>2, <2>1 DEF Unmoved
<1>4. manifest'[p] = entry /\ \A q \in Paths : q # p => manifest'[q] = manifest[q]
  BY Kept
<1>5. \A q \in Paths \ (worker[w].changed \cup worker[w].removed) : SameCount(q)
  BY <1>2, <1>4 DEF SameCount, Unmoved
<1>6. QED
  BY <1>1, <1>2, <1>3, <1>5 DEF Steady, Found

LEMMA SteadyIntent ==
  ASSUME Typed, NEW w \in Workers, Unmoved(w), Planned(w), RecordIntent(w), Runs(w)'
  PROVE  Steady(w)
<1>1. /\ worker[w] \in Jobs /\ worker[w].want \in Target /\ worker[w].phase = "intent"
  <2>1. worker[w].phase = "intent"
    BY DEF RecordIntent, At_
  <2>2. QED
    BY <2>1, DoesWrite
<1>2. ~Failing(w)
  BY EndsRun
<1>3. PICK p \in worker[w].files :
        /\ manifest' = [manifest EXCEPT ![p] = Intent(w, p)]
        /\ Aim(worker'[w]) = Aim(worker[w]) /\ Found(worker'[w]) = Found(worker[w])
        /\ Scope(worker'[w]) = Scope(worker[w]) /\ Hand(worker'[w]) = Hand(worker[w])
  BY <1>1, <1>2, DoesWrite
<1>4. p \in Group(w) /\ Group(w) \subseteq Paths /\ worker[w].phase \in Planning
  BY <1>1, PlanHolds DEF Planning
<1>5. manifest[p] = worker[w].known[p]
  BY <1>1, <1>4 DEF Planned
<1>6. Intent(w, p) # None /\ Counted(Intent(w, p)) = Counted(manifest[p])
  <2>1. Intent(w, p) # None
    BY <1>1, <1>4, PlanEntries, IndexAssumption
  <2>2. Counted(Intent(w, p)) = Prev(w, p)
    BY <2>1 DEF Counted, Intent
  <2>3. QED
    BY <1>5, <2>1, <2>2 DEF Prev
<1>7. QED
  BY <1>3, <1>4, <1>5, <1>6, SteadyWrites

LEMMA SteadyConfirm ==
  ASSUME Typed, NEW w \in Workers, Unmoved(w), Planned(w), Brought(w), Confirm(w), Runs(w)'
  PROVE  Steady(w)
<1>1. /\ worker[w] \in Jobs /\ worker[w].phase = "confirm" /\ worker[w].want \in Target
  BY DoesConfirm
<1>2. worker'[w].failed # TRUE
  BY EndsRun
<1>3. PICK p \in worker[w].files :
        /\ manifest' = [manifest EXCEPT ![p] = Confirmation(w, p)]
        /\ Aim(worker'[w]) = Aim(worker[w]) /\ Found(worker'[w]) = Found(worker[w])
        /\ Scope(worker'[w]) = Scope(worker[w]) /\ Hand(worker'[w]) = Hand(worker[w])
  BY <1>2, DoesConfirm
<1>4. p \in Group(w) /\ Group(w) \subseteq Paths /\ worker[w].phase \in Planning
  BY <1>1, PlanHolds DEF Planning
<1>5. manifest[p] = Intent(w, p)
  BY <1>1 DEF Planned
<1>6. /\ Intent(w, p) # None /\ Confirmation(w, p) # None
      /\ Counted(Intent(w, p)) = Prev(w, p)
      /\ Counted(Confirmation(w, p)) = New(w, p) \cup Stale(w, p)
  <2>1. Intent(w, p) # None /\ Confirmation(w, p) # None
    BY <1>1, <1>4, PlanEntries, IndexAssumption
  <2>2. QED
    BY <2>1 DEF Counted, Intent, Confirmation
<1>7. Prev(w, p) = New(w, p) => Counted(Confirmation(w, p)) = Counted(manifest[p])
  BY <1>5, <1>6 DEF Stale
<1>8. QED
  BY <1>3, <1>4, <1>5, <1>6, <1>7, SteadyWrites

LEMMA SteadyFinalize ==
  ASSUME Typed, NEW w \in Workers, Unmoved(w), Planned(w), Finalize(w), Runs(w)'
  PROVE  Steady(w)
<1>1. /\ worker[w] \in Jobs /\ worker[w].want \in Target /\ worker[w].phase = "finalize"
  <2>1. worker[w].phase = "finalize"
    BY DEF Finalize, At_
  <2>2. QED
    BY <2>1, DoesWrite
<1>2. ~Failing(w)
  BY EndsRun
<1>3. PICK p \in worker[w].files :
        /\ manifest' = [manifest EXCEPT ![p] = Finalized(w, p)]
        /\ Aim(worker'[w]) = Aim(worker[w]) /\ Found(worker'[w]) = Found(worker[w])
        /\ Scope(worker'[w]) = Scope(worker[w]) /\ Hand(worker'[w]) = Hand(worker[w])
  BY <1>1, <1>2, DoesWrite
<1>4. p \in Group(w) /\ Group(w) \subseteq Paths /\ worker[w].phase \in Planning
  BY <1>1, PlanHolds DEF Planning
<1>5. manifest[p] = Confirmation(w, p)
  BY <1>1 DEF Planned
<1>6. /\ Finalized(w, p) # None /\ Confirmation(w, p) # None
      /\ Counted(Finalized(w, p)) = New(w, p)
      /\ Counted(Confirmation(w, p)) = New(w, p) \cup Stale(w, p)
  <2>1. Finalized(w, p) # None /\ Confirmation(w, p) # None
    BY <1>1, <1>4, PlanEntries, IndexAssumption
  <2>2. QED
    BY <2>1 DEF Counted, Finalized, Confirmation, Confirmed
<1>7. Prev(w, p) = New(w, p) => Counted(Finalized(w, p)) = Counted(manifest[p])
  BY <1>5, <1>6 DEF Stale
<1>8. QED
  BY <1>3, <1>4, <1>5, <1>6, <1>7, SteadyWrites

LEMMA SteadyGroup ==
  ASSUME Typed, NEW w \in Workers, NextGroup(w), Runs(w)'
  PROVE  Steady(w)
<1>1. worker[w].phase = "group" /\ worker[w].phase \in Begun /\ manifest' = manifest
  BY DoesGroup DEF Begun, Inner, Phases
<1>2. ~Failing(w)
  BY EndsRun
<1>3. PICK g \in SUBSET worker[w].todo :
        LET work == {p \in g : Tree[worker[w].want.rev][p] # {}}
        IN /\ worker'[w].known = [p \in work |-> manifest[p]]
           /\ worker'[w].changed = worker[w].changed \cup
                {p \in work : Counted(manifest[p]) # Ids(p, Tree[worker[w].want.rev][p])}
           /\ Aim(worker'[w]) = Aim(worker[w]) /\ Found(worker'[w]) = Found(worker[w])
           /\ worker'[w].failed = worker[w].failed
  BY <1>2, DoesGroup
<1> DEFINE work == {p \in g : Tree[worker[w].want.rev][p] # {}}
<1>4. Runs(w)
  BY <1>1, <1>3, SameAim DEF Runs
<1>5. ASSUME NEW q \in work, q \notin worker'[w].changed
      PROVE  Prev(w, q)' = New(w, q)' /\ worker'[w].known[q] # None
  <2>1. Counted(manifest[q]) = New(w, q) /\ New(w, q)' = New(w, q)
    BY <1>3, <1>5, SameAim DEF New
  <2>2. worker'[w].known[q] = manifest[q] /\ Prev(w, q)' = Counted(manifest[q])
    BY <1>3 DEF Prev, Counted
  <2>3. PICK c \in Tree[worker[w].want.rev][q] : TRUE
    OBVIOUS
  <2>4. New(w, q) # {}
    BY <2>3 DEF New, Ids
  <2>5. manifest[q] # None
    BY <2>1, <2>4 DEF Counted
  <2>6. QED
    BY <2>1, <2>2, <2>5
<1>6. Group(w)' = work
  BY <1>3 DEF Group
<1>7. Unmoved(w)'
  BY <1>5, <1>6 DEF Unmoved
<1>8. \A q \in Paths : SameCount(q)
  BY <1>1 DEF SameCount
<1>9. QED
  BY <1>3, <1>4, <1>7, <1>8 DEF Steady, Found

LEMMA SteadyForget ==
  ASSUME Typed, NEW w \in Workers, Runs(w) => Through(w), Forget(w), Runs(w)'
  PROVE  Steady(w)
<1>1. worker[w].phase = "forget" /\ worker[w].phase \in Begun
  BY DEF Forget, At_, Begun, Inner, Phases
<1>2. ~Failing(w)
  BY EndsRun
<1>3. /\ manifest' = Without(worker[w].swept) /\ worker'[w].phase = "settle"
      /\ Aim(worker'[w]) = Aim(worker[w]) /\ Found(worker'[w]) = Found(worker[w])
      /\ Scope(worker'[w]) = Scope(worker[w])
  BY <1>1, <1>2, DoesForget
<1>4. Runs(w)
  BY <1>1, <1>3, SameAim DEF Runs, Scope
<1>5. worker[w].swept = worker[w].removed
  BY <1>1, <1>4 DEF Through, Sorted, Removing
<1>6. \A q \in Paths \ worker[w].removed : SameCount(q)
  BY <1>3, <1>5 DEF SameCount, Without
<1>7. Unmoved(w)'
  BY <1>3 DEF Unmoved, Planning
<1>8. QED
  BY <1>3, <1>4, <1>6, <1>7 DEF Steady, Found, Scope

LEMMA SteadyRest ==
  ASSUME Typed, NEW w \in Workers, Unmoved(w), Runs(w)',
         \/ Relocate(w) \/ EmbedBatch(w) \/ BudgetStop(w) \/ DeleteOrphans(w)
         \/ DeleteStale(w) \/ EndGroups(w) \/ RemoveCounted(w) \/ SweepPaths(w)
  PROVE  Steady(w)
<1>1. ~Failing(w)
  BY EndsRun
<1>2. CASE Relocate(w) \/ EmbedBatch(w)
  <2>1. /\ manifest' = manifest /\ worker[w].phase \in Planning
        /\ Aim(worker'[w]) = Aim(worker[w]) /\ Found(worker'[w]) = Found(worker[w])
        /\ Scope(worker'[w]) = Scope(worker[w]) /\ worker'[w].known = worker[w].known
    BY <1>1, <1>2, DoesRelocate, DoesEmbed DEF Planning
  <2>2. QED
    BY <2>1, SteadyGoes, PlanningBegun DEF Scope
<1>3. CASE BudgetStop(w)
  <2>1. /\ manifest' = manifest /\ worker[w].phase \in Planning
        /\ Aim(worker'[w]) = Aim(worker[w]) /\ Found(worker'[w]) = Found(worker[w])
        /\ worker'[w].failed = worker[w].failed /\ worker'[w].changed = worker[w].changed
        /\ worker'[w].known = worker[w].known
    BY <1>3, DoesStop DEF Planning, Hand
  <2>2. QED
    BY <2>1, SteadyGoes, PlanningBegun
<1>4. CASE DeleteOrphans(w) \/ DeleteStale(w)
  <2>1. /\ manifest' = manifest /\ worker[w].phase \in Planning
        /\ Aim(worker'[w]) = Aim(worker[w]) /\ Found(worker'[w]) = Found(worker[w])
        /\ Scope(worker'[w]) = Scope(worker[w]) /\ Hand(worker'[w]) = Hand(worker[w])
    BY <1>1, <1>4, DoesOrphans, DoesStale DEF Planning, Deletes, LosesDelete
  <2>2. QED
    BY <2>1, SteadyGoes, PlanningBegun DEF Scope, Hand
<1>5. CASE EndGroups(w)
  <2>1. /\ manifest' = manifest /\ worker[w].phase = "group"
        /\ worker'[w].phase \in {"settle", "remove"}
        /\ Aim(worker'[w]) = Aim(worker[w]) /\ Found(worker'[w]) = Found(worker[w])
        /\ Scope(worker'[w]) = Scope(worker[w])
    BY <1>5, DoesEnd
  <2>2. worker[w].phase \in Begun /\ worker'[w].phase \notin Planning
    BY <2>1 DEF Begun, Inner, Phases, Planning
  <2>3. QED
    BY <2>1, <2>2, SteadyGoes DEF Scope
<1>6. CASE RemoveCounted(w) \/ SweepPaths(w)
  <2>1. /\ manifest' = manifest
        /\ worker[w].phase \in {"revoke", "remove", "revoke sweep", "remove sweep"}
        /\ worker'[w].phase \in {"revoke sweep", "remove sweep", "group", "forget"}
        /\ Aim(worker'[w]) = Aim(worker[w]) /\ Found(worker'[w]) = Found(worker[w])
        /\ Scope(worker'[w]) = Scope(worker[w])
    BY <1>1, <1>6, DoesRemove, DoesSweep DEF Deletes, LosesDelete
  <2>2. worker[w].phase \in Begun /\ worker'[w].phase \notin Planning
    BY <2>1 DEF Begun, Inner, Phases, Planning
  <2>3. QED
    BY <2>1, <2>2, SteadyGoes DEF Scope
<1>7. QED
  BY <1>2, <1>3, <1>4, <1>5, <1>6

\* A step of a run but its first.
LEMMA SteadyInside ==
  ASSUME Typed, NEW w \in Workers, Runs(w) => Through(w), Asked(w), Planned(w), Brought(w),
         Unmoved(w), InnerRun(w), worker[w].phase # "begin", Runs(w)'
  PROVE  Steady(w)
<1>1. ~Begin(w)
  BY DEF Begin, At_
<1>2. ~Wipe(w)
  BY DoesWipe, NotBegun
<1>3. ~Unname(w)
  <2>1. Unname(w) => worker[w].phase = "unname" /\ worker[w].job = "reset"
    BY DEF Unname, At_, Asked
  <2>2. Unname(w) => worker'[w] = Idle \/ Aim(worker'[w]) = Aim(worker[w])
    BY <2>1, DoesForget
  <2>3. worker'[w] # Idle /\ worker'[w].job = "index"
    BY EndsRun DEF Runs
  <2>4. QED
    BY <2>1, <2>2, <2>3, SameAim
<1>4. QED
  BY <1>1, <1>2, <1>3, SteadyIntent, SteadyConfirm, SteadyFinalize, SteadyGroup, SteadyForget,
     SteadyRest DEF InnerRun

LEMMA UnmovedInside ==
  ASSUME Typed, NEW w \in Workers, Runs(w) => Through(w), Asked(w), Planned(w), Brought(w),
         Unmoved(w), InnerRun(w)
  PROVE  Unmoved(w)'
<1> SUFFICES ASSUME Runs(w)', worker'[w].phase \in Planning
             PROVE  Unmoved(w)'
  BY DEF Unmoved
<1>1. worker[w].phase # "begin"
  <2>1. worker[w].phase = "begin" => Begin(w)
    BY DEF InnerRun, At_, RemoveCounted, SweepPaths, Forget, NextGroup,
       RecordIntent, Relocate, EmbedBatch, BudgetStop, DeleteOrphans, Confirm,
       DeleteStale, Finalize, EndGroups, Wipe, Unname
  <2>2. Begin(w) => worker'[w].phase \in {"settle", "revoke", "group"}
    BY DoesBegin DEF Failing
  <2>3. QED
    BY <2>1, <2>2 DEF Planning
<1>2. QED
  BY <1>1, SteadyInside DEF Steady

\* The record tells that the graph may lag: it has no revision, or a message.
ReadyMeansWell == record.state = "ready" => ~record.message
Trusted == record.revision # None /\ ~record.message
AllInSync == \A q \in Textual : InSync(q)
Between ==
  (Trusted /\ ~owed /\ \A w \in Workers : worker[w].phase \notin Inner \cup {"graph"}) => AllInSync

\* So a run that finds it trusted finds the graph in step, and keeps it so but
\* for what it changes.  What it leaves on record says whether it ended well.
Alone(w) == \A v \in Workers : v # w => worker[v].phase # "graph"
Starts(w) == worker[w].phase = "begin" /\ Alone(w) /\ ~owed /\ Trusted => AllInSync
Tracks(w) ==
  Runs(w) /\ Leads(w) /\ Alone(w) /\ ~owed /\ ~worker[w].rebuild =>
    \A q \in Textual \ (worker[w].changed \cup worker[w].removed) : InSync(q)
Claimed(w) == IF Whole(w) THEN worker[w].want ELSE None
LeavesTold(w) ==
  /\ worker[w].phase = "drop" =>
       IF worker[w].job = "reset" THEN record.revision = None
       ELSE IF worker[w].failed THEN record.message
       ELSE record.revision = Claimed(w)
  /\ worker[w].phase = "graph" /\ record.fence = worker[w].fence =>
       record.revision = Claimed(w)
Follows(w) == Starts(w) /\ Tracks(w) /\ Unmoved(w) /\ LeavesTold(w)
AllFollow == ReadyMeansWell /\ Between /\ \A w \in Workers : Follows(w)

LEMMA InSyncStays ==
  ASSUME NEW q, InSync(q), SameCount(q), graph' = graph
  PROVE  InSync(q)'
  BY DEF InSync, SameCount, Ids, Counted

LEMMA AllInSyncStays ==
  ASSUME UNCHANGED <<manifest, graph>>
  PROVE  AllInSync => AllInSync'
  BY DEF AllInSync, InSync, Ids, Counted, Textual

\* A worker that does not move, while the record stands or it does not lead.
LEMMA FollowsElse ==
  ASSUME NEW v \in Workers, Follows(v), worker'[v] = worker[v],
         \/ /\ UNCHANGED <<record, manifest, graph>>
            /\ (Alone(v)' => Alone(v)) /\ (owed => owed')
         \/ worker[v].phase \in Away /\ ~Leads(v)'
         \/ record' = record /\ (owed' \/ ~Leads(v))
  PROVE  Follows(v)'
<1>1. Unmoved(v)'
  BY DEF Follows, Unmoved, Runs, Group, Prev, New
<1>2. Whole(v)' = Whole(v) /\ Claimed(v)' = Claimed(v) /\ Runs(v)' = Runs(v)
  BY DEF Whole, Claimed, Runs
<1>3. CASE worker[v].phase \in Away /\ ~Leads(v)'
  <2>1. Starts(v)' /\ Tracks(v)'
    BY <1>3 DEF Starts, Tracks, Away
  <2>2. LeavesTold(v)'
    BY <1>3 DEF LeavesTold, Away, Leads
  <2>3. QED
    BY <1>1, <2>1, <2>2 DEF Follows
<1>4. CASE record' = record
  <2>1. Leads(v)' = Leads(v) /\ Trusted' = Trusted
    BY <1>4 DEF Leads, Trusted
  <2>2. LeavesTold(v)'
    BY <1>2, <1>4 DEF Follows, LeavesTold
  <2>3. CASE owed' \/ ~Leads(v)
    <3>1. worker[v].phase = "begin" => Leads(v)
      BY DEF Leads, Inner, Phases
    <3>2. QED
      BY <1>1, <2>1, <2>2, <2>3, <3>1 DEF Follows, Starts, Tracks
  <2>4. CASE UNCHANGED <<manifest, graph>> /\ (Alone(v)' => Alone(v)) /\ (owed => owed')
    <3>1. Starts(v)'
      BY <2>1, <2>4, AllInSyncStays DEF Follows, Starts
    <3>2. \A q : SameCount(q)
      BY <2>4 DEF SameCount
    <3>3. Tracks(v)'
      BY <1>2, <2>1, <2>4, <3>2, InSyncStays DEF Follows, Tracks, Textual
    <3>4. QED
      BY <1>1, <2>2, <3>1, <3>3 DEF Follows
  <2>5. QED
    BY <1>3, <1>4, <2>3, <2>4
<1>5. QED
  BY <1>3, <1>4

\* A worker outside a run has nothing to keep.
LEMMA FollowsOutside ==
  ASSUME NEW w \in Workers, worker'[w] = Idle \/ worker'[w].phase \in {"claim", "mark", "wipe"}
  PROVE  Follows(w)'
<1>1. worker'[w].phase \in {"idle", "claim", "mark", "wipe"}
  BY DEF Idle
<1>2. ~Runs(w)'
  BY NotBegun
<1>3. QED
  BY <1>1, <1>2 DEF Follows, Starts, Tracks, Unmoved, LeavesTold, Planning

\* Inside a run the graph stands, what is owed is not forgotten and what is
\* unsure stays so; a run that stops there leaves both behind.
LEMMA InsideStands ==
  ASSUME Typed, NEW w \in Workers, InnerRun(w)
  PROVE  /\ graph' = graph /\ (owed => owed') /\ (unsure => unsure')
         /\ worker'[w] = Idle => owed' /\ unsure'
<1>1. graph' = graph /\ (owed => owed') /\ (unsure => unsure')
  <2> DEFINE G == graph' = graph /\ (owed => owed') /\ (unsure => unsure')
  <2>1. Begin(w) \/ NextGroup(w) \/ EndGroups(w) \/ Relocate(w) \/ EmbedBatch(w) \/ BudgetStop(w) => G
    BY DoesBegin, DoesGroup, DoesEnd, DoesRelocate, DoesEmbed, DoesStop
  <2>2. DeleteOrphans(w) \/ Confirm(w) \/ DeleteStale(w) \/ RemoveCounted(w) \/ SweepPaths(w) => G
    BY DoesOrphans, DoesConfirm, DoesStale, DoesRemove, DoesSweep DEF Deletes, LosesDelete
  <2>3. RecordIntent(w) \/ Finalize(w) => G
    BY DoesWrite
  <2>4. Wipe(w) => G
    BY DoesWipe
  <2>5. Forget(w) \/ Unname(w) => G
    BY DoesForget
  <2> HIDE DEF G
  <2>6. G
    BY <2>1, <2>2, <2>3, <2>4, <2>5 DEF InnerRun
  <2>7. QED
    BY <2>6 DEF G
<1>2. worker'[w] = Idle => owed' /\ unsure'
  <2> SUFFICES ASSUME worker'[w] = Idle PROVE owed' /\ unsure'
    OBVIOUS
  <2>1. worker'[w].phase = "idle"
    BY DEF Idle
  <2>2. ~Failing(w)
    BY <2>1 DEF Failing
  <2>3. ~Begin(w) /\ ~NextGroup(w) /\ ~EndGroups(w)
    BY <2>1, <2>2, DoesBegin, DoesGroup, DoesEnd
  <2>4. ~Relocate(w) /\ ~EmbedBatch(w) /\ ~BudgetStop(w) /\ ~DeleteOrphans(w)
    BY <2>1, <2>2, DoesRelocate, DoesEmbed, DoesStop, DoesOrphans
  <2>5. ~Confirm(w) /\ ~DeleteStale(w) /\ ~RemoveCounted(w) /\ ~SweepPaths(w)
    BY <2>1, <2>2, DoesConfirm, DoesStale, DoesRemove, DoesSweep DEF Deletes, LosesDelete
  <2>6. ~RecordIntent(w) /\ ~Finalize(w)
    <3>1. RecordIntent(w) \/ Finalize(w) =>
            /\ worker[w].phase \in {"intent", "finalize"}
            /\ Failing(w) \/ worker'[w].phase \in {worker[w].phase, "relocate", "group"}
      BY DoesWrite
    <3>2. QED
      BY <2>1, <2>2, <3>1
  <2>7. Wipe(w) => owed' /\ unsure'
    BY <2>1, DoesWipe
  <2>8. Forget(w) \/ Unname(w) => owed' /\ unsure'
    BY <2>1, <2>2, DoesForget
  <2>9. QED
    BY <2>3, <2>4, <2>5, <2>6, <2>7, <2>8 DEF InnerRun
<1>3. QED
  BY <1>1, <1>2

\* A step inside a run never leads back to its beginning, nor out of the claim.
LEMMA NeverBack ==
  ASSUME Typed, NEW w \in Workers, InnerRun(w)
  PROVE  worker'[w].phase \notin {"begin", "drop", "graph"}
<1>1. Failing(w) => worker'[w].phase = "settle"
  BY DEF Failing
<1>2. Begin(w) \/ NextGroup(w) \/ EndGroups(w) => worker'[w].phase \notin {"begin", "drop", "graph"}
  BY <1>1, DoesBegin, DoesGroup, DoesEnd
<1>3. Relocate(w) \/ EmbedBatch(w) \/ BudgetStop(w) \/ DeleteOrphans(w) =>
        worker'[w].phase \notin {"begin", "drop", "graph"}
  BY <1>1, DoesRelocate, DoesEmbed, DoesStop, DoesOrphans
<1>4. Confirm(w) \/ DeleteStale(w) \/ RemoveCounted(w) \/ SweepPaths(w) =>
        worker'[w].phase \notin {"begin", "drop", "graph"}
  BY <1>1, DoesConfirm, DoesStale, DoesRemove, DoesSweep DEF Deletes, LosesDelete
<1>5. RecordIntent(w) \/ Finalize(w) => worker'[w].phase \notin {"begin", "drop", "graph"}
  <2>1. RecordIntent(w) \/ Finalize(w) =>
          /\ worker[w].phase \in {"intent", "finalize"}
          /\ Failing(w) \/ worker'[w].phase \in {worker[w].phase, "relocate", "group"}
    BY DoesWrite
  <2>2. QED
    BY <1>1, <2>1
<1>6. Wipe(w) \/ Forget(w) \/ Unname(w) => worker'[w].phase \notin {"begin", "drop", "graph"}
  <2>1. Wipe(w) => worker'[w] = Idle \/ worker'[w].phase = "unname"
    BY DoesWipe
  <2>2. Forget(w) \/ Unname(w) => Failing(w) \/ worker'[w] = Idle \/ worker'[w].phase = "settle"
    BY DoesForget
  <2>3. QED
    BY <1>1, <2>1, <2>2 DEF Idle
<1>7. QED
  BY <1>2, <1>3, <1>4, <1>5, <1>6 DEF InnerRun

LEMMA AloneStays ==
  ASSUME NEW w \in Workers, \A v \in Workers : v # w => worker'[v] = worker[v]
  PROVE  Alone(w)' = Alone(w)
  BY DEF Alone

LEMMA FollowsBegin ==
  ASSUME Typed, NEW w \in Workers, Follows(w), Begin(w), Runs(w)', ~owed', Alone(w),
         ~worker'[w].rebuild
  PROVE  \A q \in Textual \ (worker'[w].changed \cup worker'[w].removed) : InSync(q)'
<1>1. ~Failing(w)
  BY EndsRun
<1>2. /\ worker[w].phase = "begin" /\ UNCHANGED <<manifest, graph, record, owed>>
      /\ worker'[w].rebuild = (record.revision = None \/ record.message)
  BY <1>1, DoesBegin
<1>3. AllInSync
  BY <1>2 DEF Follows, Starts, Trusted
<1>4. AllInSync'
  BY <1>2, <1>3, AllInSyncStays
<1>5. QED
  BY <1>4 DEF AllInSync, Textual

LEMMA FollowsInside ==
  ASSUME Typed, Held, Sole, NEW w \in Workers, Runs(w) => Through(w), Asked(w), Planned(w),
         Brought(w), Follows(w), InnerRun(w)
  PROVE  Follows(w)'
<1>1. /\ worker[w].phase \in Unsettled \ {"settle"}
      /\ worker'[w] = Idle \/ worker'[w].phase \in Inner
      /\ record' = record /\ graph' = graph /\ (owed => owed')
      /\ \A v \in Workers : v # w => worker'[v] = worker[v]
  BY RunsUnsettled, InnerSteps, InsideStands DEF Steps
<1>2. Unmoved(w)'
  BY UnmovedInside DEF Follows
<1>3. worker'[w].phase \notin {"begin", "drop", "graph"}
  BY NeverBack
<1>4. LeavesTold(w)' /\ Starts(w)'
  BY <1>3 DEF LeavesTold, Starts
<1>5. Tracks(w)'
  <2> SUFFICES ASSUME Runs(w)', Alone(w)', ~owed', ~worker'[w].rebuild
               PROVE  \A q \in Textual \ (worker'[w].changed \cup worker'[w].removed) : InSync(q)'
    BY DEF Tracks, Textual
  <2>1. Alone(w) /\ ~owed
    BY <1>1, AloneStays
  <2>2. CASE worker[w].phase = "begin"
    <3>1. Begin(w)
      BY <2>2 DEF InnerRun, At_, RemoveCounted, SweepPaths, Forget, NextGroup,
         RecordIntent, Relocate, EmbedBatch, BudgetStop, DeleteOrphans, Confirm,
         DeleteStale, Finalize, EndGroups, Wipe, Unname
    <3>2. QED
      BY <2>1, <3>1, FollowsBegin
  <2>3. CASE worker[w].phase # "begin"
    <3>1. Steady(w)
      BY <2>3, SteadyInside DEF Follows
    <3>2. Leads(w)
      BY <1>1 DEF Leads, Unsettled
    <3>3. \A q \in Textual \ (worker[w].changed \cup worker[w].removed) : InSync(q) /\ SameCount(q)
      BY <2>1, <3>1, <3>2 DEF Follows, Tracks, Steady, Textual
    <3>4. QED
      BY <1>1, <3>1, <3>3, InSyncStays DEF Steady
  <2>4. QED
    BY <2>2, <2>3
<1>6. QED
  BY <1>2, <1>4, <1>5 DEF Follows

LEMMA FollowsMark ==
  ASSUME Typed, Held, Sole, AllFollow, NEW w \in Workers, MarkIndexing(w)
  PROVE  ReadyMeansWell' /\ Between' /\ Follows(w)'
<1>1. /\ worker[w].phase = "mark" /\ UNCHANGED <<manifest, graph, owed>>
      /\ record' = record \/ record'.state = "indexing"
      /\ record'.revision = record.revision /\ record'.message = record.message
      /\ worker'[w] = Idle \/ worker'[w].phase \in {"wipe", "begin"}
  BY DoesMark
<1>2. /\ \A v \in Workers : v # w => worker'[v] = worker[v] /\ worker[v].phase \in Away
      /\ Alone(w)' = Alone(w)
  <2>1. \A v \in Workers : v # w => worker'[v] = worker[v] /\ worker[v].phase \in Away
    BY OthersAway DEF Under
  <2>2. QED
    BY <2>1, AloneStays
<1>3. Trusted' = Trusted
  BY <1>1 DEF Trusted
<1>4. Trusted /\ ~owed /\ Alone(w) => AllInSync'
  <2>1. Alone(w) => \A v \in Workers : worker[v].phase \notin Inner \cup {"graph"}
    BY <1>1, <1>2 DEF Alone, Away, Inner
  <2>2. QED
    BY <1>1, <2>1, AllInSyncStays DEF AllFollow, Between
<1>5. ReadyMeansWell'
  BY <1>1 DEF AllFollow, ReadyMeansWell
<1>6. Between'
  <2>1. (\A v \in Workers : worker'[v].phase \notin Inner \cup {"graph"}) => Alone(w)'
    BY DEF Alone
  <2>2. QED
    BY <1>1, <1>2, <1>3, <1>4, <2>1 DEF Between
<1>7. Follows(w)'
  <2>1. CASE worker'[w].phase = "begin"
    <3>1. Starts(w)'
      BY <1>1, <1>2, <1>3, <1>4 DEF Starts
    <3>2. ~Runs(w)'
      BY <2>1, NotBegun
    <3>3. QED
      BY <2>1, <3>1, <3>2 DEF Follows, Tracks, Unmoved, LeavesTold
  <2>2. QED
    BY <1>1, <2>1, FollowsOutside
<1>8. QED
  BY <1>5, <1>6, <1>7

\* On its way out a run keeps what it tracked.
LEMMA TracksOn ==
  ASSUME NEW w \in Workers, Follows(w), worker[w].phase \in {"settle", "drop"},
         Aim(worker'[w]) = Aim(worker[w]), Found(worker'[w]) = Found(worker[w]),
         worker'[w].changed = worker[w].changed,
         worker'[w].failed = FALSE => worker[w].failed = FALSE,
         UNCHANGED <<manifest, graph, owed>>,
         \A v \in Workers : v # w => worker'[v] = worker[v]
  PROVE  Tracks(w)'
<1> SUFFICES ASSUME Runs(w)', Alone(w)', ~owed', ~worker'[w].rebuild
             PROVE  \A q \in Textual \ (worker'[w].changed \cup worker'[w].removed) : InSync(q)'
  BY DEF Tracks, Textual
<1>1. Runs(w) /\ Leads(w)
  BY SameAim DEF Runs, Leads, Begun, Inner, Phases
<1>2. Alone(w) /\ ~owed /\ ~worker[w].rebuild
  BY AloneStays DEF Found
<1>3. \A q \in Textual \ (worker[w].changed \cup worker[w].removed) : InSync(q) /\ SameCount(q)
  BY <1>1, <1>2 DEF Follows, Tracks, SameCount
<1>4. QED
  BY <1>3, InSyncStays DEF Found

LEMMA FollowsSettle ==
  ASSUME Typed, Held, Sole, AllFollow, NEW w \in Workers, Settle(w) \/ RecountFails(w)
  PROVE  ReadyMeansWell' /\ Between' /\ Follows(w)'
<1>1. /\ worker[w] \in Jobs /\ worker[w].phase = "settle" /\ UNCHANGED <<manifest, graph>>
      /\ \A v \in Workers : v # w => worker'[v] = worker[v]
  BY DoesSettle, SettleSteps
<1>2. /\ DoneAs(record', None, 0) => ReadyMeansWell' /\ record'.revision = None
      /\ \A rev, n : DoneAs(record', rev, n) => ReadyMeansWell' /\ record'.revision = rev
      /\ \A un, n : GaveUpAs(record', un, n) => ReadyMeansWell' /\ record'.message = TRUE
  BY DEF ReadyMeansWell, DoneAs, GaveUpAs
<1>3. /\ Emptied(w) => ReadyMeansWell' /\ record'.revision = None /\ worker[w].job = "reset"
      /\ WentWell(w) => ReadyMeansWell' /\ record'.revision = Claimed(w) /\ worker[w].job = "index"
      /\ WentWrong(w) \/ LostCount(w) =>
           ReadyMeansWell' /\ record'.message = TRUE /\ worker[w].job = "index"
  BY <1>2 DEF Emptied, WentWell, WentWrong, LostCount, Claimed
<1>4. CASE /\ worker'[w] = Idle /\ owed' = TRUE
           /\ record' = record \/ Emptied(w) \/ WentWell(w) \/ WentWrong(w)
  BY <1>3, <1>4, FollowsOutside DEF Between, AllFollow, ReadyMeansWell
<1>5. ASSUME NEW failed \in BOOLEAN, owed' = owed, Leaves(w, failed),
             IF failed THEN WentWrong(w) \/ LostCount(w) ELSE Emptied(w) \/ WentWell(w)
      PROVE  ReadyMeansWell' /\ Between' /\ Follows(w)'
  <2>1. /\ worker'[w].phase = "drop" /\ worker'[w].failed = failed
        /\ Aim(worker'[w]) = Aim(worker[w]) /\ Found(worker'[w]) = Found(worker[w])
        /\ worker'[w].budget = worker[w].budget /\ worker'[w].changed = worker[w].changed
    BY <1>5 DEF Leaves
  <2>2. ReadyMeansWell'
    BY <1>3, <1>5
  <2>3. Between'
    <3>1. worker'[w].phase \in Inner
      BY <2>1 DEF Inner, Phases
    <3>2. QED
      BY <3>1 DEF Between
  <2>4. Claimed(w)' = Claimed(w) /\ worker'[w].job = worker[w].job
    BY <2>1, SameAim DEF Claimed, Whole
  <2>5. LeavesTold(w)'
    BY <1>3, <1>5, <2>1, <2>4 DEF LeavesTold
  <2>6. Tracks(w)'
    <3>1. CASE failed = TRUE
      BY <2>1, <3>1, EndsRun DEF Tracks
    <3>2. CASE failed = FALSE /\ Emptied(w)
      BY <1>3, <2>4, <3>2 DEF Tracks, Runs
    <3>3. CASE failed = FALSE /\ WentWell(w)
      <4>1. worker[w].failed = FALSE
        BY <1>1, <3>3 DEF WentWell, Jobs
      <4>2. Follows(w)
        BY DEF AllFollow
      <4>3. QED
        BY <1>1, <1>5, <2>1, <4>1, <4>2, TracksOn
    <3>4. QED
      BY <1>5, <3>1, <3>2, <3>3
  <2>7. Starts(w)' /\ Unmoved(w)'
    BY <2>1 DEF Starts, Unmoved, Planning
  <2>8. QED
    BY <2>2, <2>3, <2>5, <2>6, <2>7 DEF Follows
<1>6. \/ /\ worker'[w] = Idle /\ owed' = TRUE
         /\ record' = record \/ Emptied(w) \/ WentWell(w) \/ WentWrong(w)
      \/ owed' = owed /\ Leaves(w, FALSE) /\ (Emptied(w) \/ WentWell(w))
      \/ owed' = owed /\ Leaves(w, TRUE) /\ (WentWrong(w) \/ LostCount(w))
  BY DoesSettle
<1>7. QED
  BY <1>4, <1>5, <1>6

LEMMA FollowsDrop ==
  ASSUME Typed, Held, Sole, AllFollow, NEW w \in Workers, DropClaim(w)
  PROVE  ReadyMeansWell' /\ Between' /\ Follows(w)'
<1> DEFINE syncs == worker[w].job = "index" /\ ~worker[w].failed
<1>1. /\ worker[w] \in Jobs /\ worker[w].phase = "drop"
      /\ UNCHANGED <<manifest, record, graph>>
      /\ \A v \in Workers : v # w => worker'[v] = worker[v]
  BY DoesDrop, DropSteps
<1>2. ReadyMeansWell' /\ Follows(w)
  BY <1>1 DEF AllFollow, ReadyMeansWell
<1>3. /\ syncs => record.revision = Claimed(w)
      /\ ~syncs => ~Trusted
  BY <1>1, <1>2 DEF Follows, LeavesTold, Trusted, Jobs
<1>4. CASE worker'[w] = Idle
  <2>1. owed' \/ ~Trusted
    <3>1. owed' \/ ~syncs \/ worker[w].sub = "missing"
      <4>1. worker'[w].phase # "graph"
        BY <1>4 DEF Idle
      <4>2. \/ syncs => worker[w].sub = "missing"
            \/ owed' = (owed \/ syncs)
        BY <4>1, DoesDrop
      <4>3. QED
        BY <4>2
    <3>2. worker[w].sub = "missing" => Claimed(w) = None
      BY DEF Claimed, Whole
    <3>3. QED
      BY <1>3, <3>1, <3>2 DEF Trusted
  <2>2. Between'
    BY <1>1, <2>1 DEF Between, Trusted
  <2>3. QED
    BY <1>2, <1>4, <2>2, FollowsOutside
<1>5. CASE worker'[w] # Idle
  <2>1. /\ syncs /\ owed' = owed /\ worker'[w].phase = "graph"
        /\ Aim(worker'[w]) = Aim(worker[w]) /\ Found(worker'[w]) = Found(worker[w])
        /\ Scope(worker'[w]) = Scope(worker[w])
    BY <1>5, DoesDrop
  <2>2. Between'
    BY <2>1 DEF Between
  <2>3. Claimed(w)' = Claimed(w)
    BY <2>1, SameAim DEF Claimed, Whole, Scope
  <2>4. LeavesTold(w)'
    BY <1>1, <1>3, <2>1, <2>3 DEF LeavesTold
  <2>5. Tracks(w)'
    BY <1>1, <1>2, <2>1, TracksOn DEF Scope
  <2>6. Starts(w)' /\ Unmoved(w)'
    BY <2>1 DEF Starts, Unmoved, Planning
  <2>7. QED
    BY <1>2, <2>2, <2>4, <2>5, <2>6 DEF Follows
<1>6. QED
  BY <1>4, <1>5

\* A run that claims its commit brings the graph in step with it.
LEMMA SyncsAll ==
  ASSUME Typed, NEW w \in Workers, worker[w] \in Jobs, worker[w].phase = "graph",
         worker[w].want \in Target, Through(w), Whole(w), manifest' = manifest,
         NEW q \in Textual, graph'[q] = GraphOf(w, q)
  PROVE  InSync(q)'
<1>1. worker[w].budget = FALSE /\ worker[w].sub # "missing" /\ q \in Paths
  BY DEF Whole, Jobs, Textual
<1>2. worker[w].todo = {} /\ InHand(w) = {} /\ Unseen(w) = {}
  <2>1. worker[w].phase \in Settling /\ worker[w].phase \notin Planning
    BY DEF Settling, Planning
  <2>2. QED
    BY <1>1, <2>1 DEF Through, Carried, InHand, Unseen, Planning
<1>3. CASE q \in Seen(w)
  <2>1. Text(w, q) # {} /\ Text(w, q) \in SUBSET (At \X Hashes)
    BY <1>1, <1>3, IndexAssumption DEF Seen, Selected, Text, Textual, Target
  <2>2. manifest[q] = Confirmed(New(w, q))
    BY <1>1, <1>2, <1>3, <2>1 DEF Through, Carried
  <2>3. Confirmed(New(w, q)) # None
    <3>1. New(w, q) \in SUBSET Id
      BY <1>1, TreeIds DEF New
    <3>2. Confirmed(New(w, q)) \in Entry
      BY <3>1 DEF Confirmed, Entry
    <3>3. QED
      BY <3>2, IndexAssumption
  <2>4. Counted(manifest[q]) = Ids(q, Text(w, q)) /\ manifest[q] # None
    BY <2>2, <2>3 DEF Counted, Confirmed, New, Text
  <2>5. graph'[q] = Text(w, q)
    BY <1>3 DEF GraphOf, Seen, Text
  <2>6. QED
    BY <2>1, <2>4, <2>5 DEF InSync, Counted, Ids
<1>4. CASE q \notin Seen(w)
  <2>1. manifest[q] = None
    BY <1>1, <1>2, <1>4 DEF Through, NothingElse, Settling
  <2>2. graph'[q] = None
    BY <1>4 DEF GraphOf, Seen
  <2>3. QED
    BY <2>1, <2>2 DEF InSync
<1>5. QED
  BY <1>3, <1>4

\* Either the graph is owed for, or this was the run on record.
LEMMA DoesSync ==
  ASSUME Typed, NEW w \in Workers, SyncGraph(w), ~owed'
  PROVE  LET whole == RebuildsWhole(w)
             parsed == IF whole THEN Paths ELSE worker[w].changed \cup worker[w].removed
         IN /\ worker[w] \in Jobs /\ worker[w].phase = "graph" /\ worker'[w] = Idle
            /\ UNCHANGED <<record, manifest>> /\ record.fence = worker[w].fence
            /\ ~whole => ~owed /\ worker[w].rebuild = FALSE
            /\ \A q \in Paths :
                 graph'[q] = IF q \in parsed THEN GraphOf(w, q) ELSE graph[q]
<1> DEFINE whole == RebuildsWhole(w)
           parsed == IF whole THEN Paths ELSE worker[w].changed \cup worker[w].removed
           next == [p \in Paths |-> IF p \in parsed THEN GraphOf(w, p) ELSE graph[p]]
           late == record.fence # worker[w].fence
<1>1. worker[w] \in Jobs /\ worker[w].phase = "graph"
  BY Busy DEF SyncGraph, At_
<1>2. worker'[w] = Idle /\ UNCHANGED <<record, manifest>>
  BY StopSteps DEF SyncGraph
<1>3. graph' = next /\ owed' = (late \/ (owed /\ ~whole))
  BY DEF SyncGraph
<1>4. ~whole => worker[w].rebuild = FALSE
  BY <1>1 DEF RebuildsWhole, Jobs
<1> HIDE DEF whole
<1>5. ~late /\ (~whole => ~owed)
  BY <1>3
<1>6. \A q \in Paths : graph'[q] = IF q \in parsed THEN GraphOf(w, q) ELSE graph[q]
  BY <1>3
<1>7. QED
  BY <1>1, <1>2, <1>4, <1>5, <1>6 DEF whole

LEMMA FollowsGraph ==
  ASSUME Typed, Held, Sole, AllAsked, AllThrough, AllFollow, NEW w \in Workers, SyncGraph(w)
  PROVE  Between'
<1> SUFFICES ASSUME Trusted', ~owed',
                    \A v \in Workers : worker'[v].phase \notin Inner \cup {"graph"},
                    NEW q \in Textual
             PROVE  InSync(q)'
  BY DEF Between, AllInSync, Textual
<1> DEFINE whole == RebuildsWhole(w)
           parsed == IF whole THEN Paths ELSE worker[w].changed \cup worker[w].removed
<1>1. /\ worker[w] \in Jobs /\ worker[w].phase = "graph"
      /\ UNCHANGED <<record, manifest>> /\ record.fence = worker[w].fence
      /\ ~whole => ~owed /\ worker[w].rebuild = FALSE
      /\ graph'[q] = IF q \in parsed THEN GraphOf(w, q) ELSE graph[q]
  BY DoesSync DEF Textual
<1> HIDE DEF whole
<1>2. Runs(w) /\ Leads(w) /\ worker[w].want \in Target
  <2>1. worker[w].job = "index" /\ worker[w].failed = FALSE
    BY <1>1 DEF AllAsked, Asked, Jobs
  <2>2. worker[w].want \in Target
    BY <1>1, <2>1, Busy DEF Wants
  <2>3. QED
    BY <1>1, <2>1, <2>2 DEF Runs, Leads, Begun
<1>3. Through(w) /\ Follows(w)
  BY <1>2 DEF AllThrough, AllFollow
<1>4. Whole(w)
  <2>1. record.revision = Claimed(w) /\ record.revision # None
    BY <1>1, <1>3 DEF Follows, LeavesTold, Trusted
  <2>2. QED
    BY <2>1 DEF Claimed
<1>5. CASE q \in parsed
  BY <1>1, <1>2, <1>3, <1>4, <1>5, SyncsAll
<1>6. CASE q \notin parsed
  <2>1. ~whole /\ q \notin worker[w].changed \cup worker[w].removed
    BY <1>6 DEF Textual
  <2>2. Alone(w)
    <3>1. \A v \in Workers : v # w => worker'[v] = worker[v]
      BY StopSteps
    <3>2. QED
      BY <3>1 DEF Alone
  <2>3. InSync(q)
    BY <1>1, <1>2, <1>3, <2>1, <2>2 DEF Follows, Tracks
  <2>4. manifest'[q] = manifest[q] /\ graph'[q] = graph[q]
    BY <1>1, <1>6
  <2>5. QED
    BY <2>3, <2>4 DEF InSync, Counted, Ids
<1>7. QED
  BY <1>5, <1>6

LEMMA DoesBeside ==
  ASSUME Typed, NEW w \in Workers, Beside(w), ~SyncGraph(w)
  PROVE  /\ graph' = graph /\ (owed => owed')
         /\ owed' \/ worker[w].phase \in {"idle", "claim"}
<1>1. CASE Request(w) \/ Reset(w) \/ Requeue(w) \/ Claim(w)
  BY <1>1 DEF Request, Reset, Requeue, Claim, stores, At_
<1>2. CASE Crash(w)
  <2>1. graph' = graph /\ owed' = (owed \/ worker[w].phase # "claim")
    BY <1>2 DEF Crash, stores, At_
  <2>2. QED
    BY <2>1
<1>3. QED
  BY <1>1, <1>2 DEF Beside

LEMMA FollowBeside ==
  ASSUME Typed, Held, Sole, AllAsked, AllThrough, AllFollow, NEW w \in Workers, Beside(w)
  PROVE  AllFollow'
<1>1. /\ UNCHANGED <<manifest, record>>
      /\ \A v \in Workers : v # w => worker'[v] = worker[v]
      /\ worker'[w] = Idle \/ worker'[w].phase \in {"claim", "mark"}
  BY StoresStand, StartSteps, StopSteps, ClaimSteps DEF Beside
<1>2. ReadyMeansWell' /\ Follows(w)'
  BY <1>1, FollowsOutside DEF AllFollow, ReadyMeansWell
<1>3. CASE SyncGraph(w)
  <2>1. Between'
    BY <1>3, FollowsGraph
  <2>2. ASSUME NEW v \in Workers, v # w
        PROVE  owed' \/ ~Leads(v)
    <3> SUFFICES ASSUME ~owed' PROVE ~Leads(v)
      OBVIOUS
    <3>1. record.fence = worker[w].fence /\ worker[w].phase = "graph"
      BY <1>3, DoesSync
    <3>2. worker[w].fence # worker[v].fence
      BY <2>2, <3>1 DEF Held
    <3>3. worker[v].phase \in Inner => record.fence = worker[v].fence
      BY OnlyOne
    <3>4. QED
      BY <3>1, <3>2, <3>3 DEF Leads
  <2>3. \A v \in Workers : v # w => Follows(v)'
    BY <1>1, <2>2, FollowsElse DEF AllFollow
  <2>4. QED
    BY <1>2, <2>1, <2>3 DEF AllFollow
<1>4. CASE ~SyncGraph(w)
  <2>1. /\ graph' = graph /\ (owed => owed')
        /\ owed' \/ worker[w].phase \in {"idle", "claim"}
    BY <1>4, DoesBeside
  <2>2. Between'
    <3>1. Trusted' = Trusted /\ (AllInSync => AllInSync')
      BY <1>1, <2>1, AllInSyncStays DEF Trusted
    <3>2. /\ ~owed' /\ \A v \in Workers : worker'[v].phase \notin Inner \cup {"graph"}
          => \A v \in Workers : worker[v].phase \notin Inner \cup {"graph"}
      BY <1>1, <2>1 DEF Inner
    <3>3. QED
      BY <2>1, <3>1, <3>2 DEF AllFollow, Between
  <2>3. ASSUME NEW v \in Workers, v # w
        PROVE  Follows(v)'
    <3>1. owed' \/ (Alone(v)' => Alone(v))
      BY <1>1, <2>1 DEF Alone
    <3>2. Follows(v)
      BY DEF AllFollow
    <3>3. QED
      BY <1>1, <2>1, <2>3, <3>1, <3>2, FollowsElse
  <2>4. QED
    BY <1>2, <2>2, <2>3 DEF AllFollow
<1>5. QED
  BY <1>3, <1>4

LEMMA FollowUnder ==
  ASSUME Typed, Held, Sole, AllAsked, AllPlanned, AllBrought, AllThrough, AllFollow,
         NEW w \in Workers, Under(w)
  PROVE  AllFollow'
<1>1. ReadyMeansWell' /\ Between' /\ Follows(w)'
  <2>1. CASE InnerRun(w)
    <3>1. /\ worker[w].phase \in Inner /\ record' = record
          /\ worker'[w] = Idle \/ worker'[w].phase \in Inner
          /\ worker'[w] = Idle => owed'
      BY <2>1, InnerSteps, InsideStands DEF Steps
    <3>2. ReadyMeansWell' /\ Between'
      BY <3>1 DEF AllFollow, ReadyMeansWell, Between
    <3>3. Follows(w)'
      <4>1. Runs(w) => Through(w)
        BY <3>1 DEF AllThrough, Leads
      <4>2. Asked(w) /\ Planned(w) /\ Brought(w) /\ Follows(w)
        BY DEF AllAsked, AllPlanned, AllBrought, AllFollow
      <4>3. QED
        BY <2>1, <4>1, <4>2, FollowsInside
    <3>4. QED
      BY <3>2, <3>3
  <2>2. QED
    BY <2>1, FollowsMark, FollowsSettle, FollowsDrop DEF Under
<1>2. ASSUME NEW v \in Workers, v # w
      PROVE  Follows(v)'
  <2>1. /\ worker'[v] = worker[v] /\ worker[v].phase \in Away
        /\ Leads(v)' => Leads(v) /\ MarkIndexing(w) /\ record' = record
    BY <1>2, NoneElseLeads
  <2>2. Follows(v)
    BY DEF AllFollow
  <2>3. CASE ~Leads(v)'
    BY <2>1, <2>2, <2>3, FollowsElse
  <2>4. CASE Leads(v)'
    <3>1. MarkIndexing(w) /\ record' = record
      BY <2>1, <2>4
    <3>2. /\ worker[w].phase = "mark" /\ UNCHANGED <<manifest, graph, owed>>
          /\ \A u \in Workers : u # w => worker'[u] = worker[u]
      BY <3>1, DoesMark, MarkSteps
    <3>3. Alone(v)' => Alone(v)
      BY <3>2 DEF Alone
    <3>4. QED
      BY <2>1, <2>2, <3>1, <3>2, <3>3, FollowsElse
  <2>5. QED
    BY <2>3, <2>4
<1>3. QED
  BY <1>1, <1>2 DEF AllFollow

\* Every step keeps the graph in step, or something tells that it is not.
LEMMA FollowStep ==
  ASSUME Typed, Held, Sole, AllAsked, AllPlanned, AllBrought, AllThrough, AllFollow, [Next]_vars
  PROVE  AllFollow'
<1>1. CASE UNCHANGED vars \/ ClaimExpires
  <2>1. UNCHANGED <<worker, record, manifest, graph, owed>>
    BY <1>1 DEF vars, ClaimExpires
  <2>2. ReadyMeansWell' /\ Between'
    BY <2>1, AllInSyncStays DEF AllFollow, ReadyMeansWell, Between, Trusted
  <2>3. \A v \in Workers : Follows(v)'
    BY <2>1, FollowsElse DEF AllFollow, Alone
  <2>4. QED
    BY <2>2, <2>3 DEF AllFollow
<1>2. QED
  BY <1>1, FollowBeside, FollowUnder, StepCases

LEMMA FollowInit == Init => AllFollow
<1> SUFFICES ASSUME Init PROVE AllFollow
  OBVIOUS
<1>1. \A w \in Workers : worker[w].phase = "idle"
  BY DEF Init, Idle
<1>2. ReadyMeansWell /\ Between
  BY DEF Init, ReadyMeansWell, Between, Trusted
<1>3. \A w \in Workers : Follows(w)
  BY <1>1 DEF Follows, Starts, Tracks, Unmoved, LeavesTold, Runs, Begun, Inner, Planning
<1>4. QED
  BY <1>2, <1>3 DEF AllFollow

\* A set of chunks can be told from their ids.
LEMMA SameContent ==
  ASSUME NEW q, NEW c \in SUBSET (At \X Hashes), NEW d \in SUBSET (At \X Hashes),
         Ids(q, c) = Ids(q, d)
  PROVE  c = d
<1>1. ASSUME NEW a \in SUBSET (At \X Hashes), NEW b \in SUBSET (At \X Hashes),
             Ids(q, a) \subseteq Ids(q, b), NEW x \in a
      PROVE  x \in b
  <2>1. <<q, x[1], x[2]>> \in Ids(q, b)
    BY <1>1 DEF Ids
  <2>2. PICK y \in b : <<q, x[1], x[2]>> = <<q, y[1], y[2]>>
    BY <2>1 DEF Ids
  <2>3. x = y
    BY <2>2
  <2>4. QED
    BY <2>3
<1>2. QED
  BY <1>1

\* Once a run that claims a commit is through, the code graph is the one of that
\* commit: a run that finds a record with a message or without a revision rebuilds
\* it whole, any other makes up for what it changed and removed
\* (server/indexing.rs, sync_graph; indexer/run.rs, rebuild_graph), if no run
\* outlives its claim.
THEOREM GraphIsInStep ==
  ASSUME ~Outlives
  PROVE  Spec => []GraphFollows
<1>1. Sound /\ Told /\ AllFollow /\ [Next]_vars => Sound' /\ Told' /\ AllFollow'
  BY ToldStep, FollowStep DEF Sound, Told
<1>2. Init => Sound /\ Told /\ AllFollow
  BY KeptInit, ToldInit, FollowInit
<1>3. Sound /\ Told /\ AllFollow => GraphFollows
  <2> SUFFICES ASSUME Sound, Told, AllFollow, ClaimsRevision, ~owed,
                      \A w \in Workers : worker[w].phase \notin {"drop", "graph"},
                      NEW p \in Textual
               PROVE  graph[p] = IF p \in Expected THEN Holds(p) ELSE None
    BY DEF GraphFollows, Textual
  <2>1. record.revision \in Target /\ p \in Paths
    BY Kept DEF Sound, Records, ClaimsRevision, Textual
  <2>2. InSync(p)
    <3>1. \A w \in Workers : worker[w].phase \notin Inner \cup {"graph"}
      BY DEF Told, Marked, Unsettled, ClaimsRevision
    <3>2. Trusted
      BY DEF AllFollow, ReadyMeansWell, Trusted, ClaimsRevision
    <3>3. QED
      BY <3>1, <3>2 DEF AllFollow, Between, AllInSync
  <2>3. CASE p \in Expected
    <3>1. Holds(p) # {} /\ Holds(p) \in SUBSET (At \X Hashes)
      BY <2>1, <2>3, IndexAssumption DEF Expected, Holds, Selected, Textual, Target
    <3>2. manifest[p] = Confirmed(Wanted(p))
      BY <2>1, <2>3, <3>1 DEF Told, Complete, Blanked
    <3>3. Wanted(p) = Ids(p, Holds(p)) /\ Wanted(p) \in SUBSET Id
      BY <2>1, <2>3, <3>1 DEF Wanted, Ids, Id
    <3>4. manifest[p] \in Entry
      BY <3>2, <3>3 DEF Confirmed, Entry
    <3>5. manifest[p] # None
      BY <3>4, IndexAssumption
    <3>6. Counted(manifest[p]) = Ids(p, Holds(p))
      BY <3>2, <3>3, <3>5 DEF Counted, Confirmed
    <3>7. graph[p] \in SUBSET (At \X Hashes) /\ Ids(p, graph[p]) = Ids(p, Holds(p))
      BY <2>2, <3>5, <3>6 DEF InSync
    <3>8. QED
      BY <2>3, <3>1, <3>7, SameContent
  <2>4. CASE p \notin Expected
    <3>1. manifest[p] = None
      BY <2>1, <2>4 DEF Told, Complete, Blanked
    <3>2. QED
      BY <2>2, <2>4, <3>1 DEF InSync
  <2>5. QED
    BY <2>3, <2>4
<1>4. QED
  BY <1>1, <1>2, <1>3, PTL DEF Spec

-----------------------------------------------------------------------------
(* The count.                                                              *)

\* Rows that are counted.
Tally == {i \in rows : i \in Counted(manifest[i[1]])}

\* What confirming files adds, and what of it the run in hand confirmed and has
\* not added up yet.
Gain(w, q) == New(w, q) \ Prev(w, q)
Gains(w, ps) == UNION {Gain(w, q) : q \in ps}
Gained(w) ==
  IF worker[w].phase = "confirm" THEN Gains(w, Finished(w) \ worker[w].files) ELSE {}

\* While nothing is lost, the count a run found and its own sums make the tally.
Counts(w) ==
  /\ worker[w].phase \in Unsettled \ {"begin"} /\ worker[w].job = "index"
  /\ worker[w].recount = FALSE /\ ~unsure
Even(w) == record.chunks + worker[w].up = Cardinality(Tally \ Gained(w)) + worker[w].del
FromRecord(w) ==
  worker[w].up # 0 \/ worker[w].del # 0 \/ ~worker[w].failed \/ worker[w].phase # "settle"
    => worker[w].before = record.chunks
Balanced(w) == Counts(w) => Even(w) /\ FromRecord(w)
Opens(w) ==
  worker[w].phase = "begin" /\ ~record.uncertain /\ ~unsure => record.chunks = Cardinality(Tally)
Rest ==
  (\A w \in Workers : worker[w].phase \notin Unsettled) /\ ~record.uncertain /\ ~unsure
    => record.chunks = Cardinality(Tally)
AllTallied == Rest /\ \A w \in Workers : Opens(w) /\ Balanced(w)

LEMMA TallyIds ==
  ASSUME Typed
  PROVE  Tally \in SUBSET Id /\ \A i \in Id : i[1] \in Paths
<1>1. Tally \in SUBSET Id
  BY Kept DEF Tally
<1>2. \A i \in Id : i[1] \in Paths
  BY DEF Id
<1>3. QED
  BY <1>1, <1>2

\* The tally is what the entries count among the rows.
LEMMA TallyIs ==
  ASSUME Typed, Own
  PROVE  /\ Tally = rows \cap UNION {Counted(manifest[q]) : q \in Paths}
         /\ \A ps \in SUBSET Paths :
              LET ids == UNION {Counted(manifest[q]) : q \in ps}
              IN rows \cap ids = Tally \cap ids
<1>1. rows \in SUBSET Id /\ \A i \in rows : i[1] \in Paths
  BY Kept, TallyIds
<1>2. \A q \in Paths : \A i \in Counted(manifest[q]) : i[1] = q
  BY CountedIsNamed DEF Own
<1>3. Tally = rows \cap UNION {Counted(manifest[q]) : q \in Paths}
  BY <1>1, <1>2 DEF Tally
<1>4. ASSUME NEW ps \in SUBSET Paths, NEW i \in rows, NEW q \in ps, i \in Counted(manifest[q])
      PROVE  i \in Tally
  BY <1>2, <1>4 DEF Tally
<1>5. QED
  BY <1>3, <1>4 DEF Tally

\* Sums of disjoint sets of ids.
LEMMA SumIs ==
  ASSUME NEW S \in SUBSET Id, NEW T \in SUBSET S
  PROVE  /\ Cardinality(S) \in Nat /\ Cardinality(T) \in Nat /\ Cardinality(S \ T) \in Nat
         /\ Cardinality(S) = Cardinality(S \ T) + Cardinality(T)
<1>1. IsFiniteSet(S) /\ Cardinality(S) \in Nat /\ Cardinality(T) \in Nat
        /\ Cardinality(S \ T) \in Nat
  BY IdsAreFinite
<1>2. Cardinality(S \ T) = Cardinality(S) - Cardinality(S \cap T)
  BY <1>1, FS_Difference
<1>3. S \cap T = T
  OBVIOUS
<1>4. QED
  BY <1>1, <1>2, <1>3

LEMMA TallyStands ==
  ASSUME UNCHANGED <<rows, manifest>>
  PROVE  Tally' = Tally
  BY DEF Tally, Counted

\* A step that is not the last of its run.
LEMMA BalanceStays ==
  ASSUME Typed, NEW w \in Workers, Balanced(w), worker[w].phase \in Unsettled \ {"begin", "settle"},
         record' = record, unsure => unsure',
         Aim(worker'[w]) = Aim(worker[w]), Found(worker'[w]) = Found(worker[w]),
         worker'[w].recount = FALSE => worker[w].recount = FALSE,
         Counts(w)' /\ Even(w) => Even(w)'
  PROVE  Balanced(w)'
<1> SUFFICES ASSUME Counts(w)' PROVE Even(w)' /\ FromRecord(w)'
  BY DEF Balanced
<1>1. Counts(w)
  BY SameAim DEF Counts
<1>2. FromRecord(w)'
  BY <1>1 DEF Balanced, FromRecord, Found
<1>3. QED
  BY <1>1, <1>2 DEF Balanced

LEMMA EvenStays ==
  ASSUME NEW w \in Workers, record' = record, Score(worker'[w]) = Score(worker[w]),
         Tally' \ Gained(w)' = Tally \ Gained(w)
  PROVE  Even(w) => Even(w)'
  BY DEF Even, Score

\* The usual step: what it adds or takes is not counted.
LEMMA BalanceGoes ==
  ASSUME Typed, NEW w \in Workers, Balanced(w),
         worker[w].phase \in Unsettled \ {"begin", "settle", "confirm"},
         record' = record, unsure => unsure',
         Aim(worker'[w]) = Aim(worker[w]), Found(worker'[w]) = Found(worker[w]),
         Score(worker'[w]) = Score(worker[w]),
         Gained(w)' = {}, Tally' = Tally
  PROVE  Balanced(w)'
<1>1. Gained(w) = {}
  BY DEF Gained
<1>2. Even(w) => Even(w)'
  BY <1>1, EvenStays
<1>3. QED
  BY <1>2, BalanceStays DEF Score

LEMMA NothingGained ==
  ASSUME NEW w \in Workers, worker'[w].phase # "confirm"
  PROVE  Gained(w)' = {}
  BY DEF Gained

\* What a file gains is of its own path.
LEMMA GainIs ==
  ASSUME NEW w \in Workers, worker[w] \in Jobs, worker[w].want \in Target,
         NEW ps \in SUBSET Group(w),
         \A q \in Group(w) : \A i \in Named(worker[w].known[q]) : i[1] = q
  PROVE  /\ \A i : i \in Gains(w, ps) <=> i[1] \in ps /\ i \in Gain(w, i[1])
         /\ Gains(w, ps) \in SUBSET Id
         /\ Added(w, ps) = Cardinality(Gains(w, ps))
<1>1. \A q \in ps : \A i \in New(w, q) \cup Prev(w, q) : i[1] = q
  BY PlanIsOwn
<1>2. \A i : i \in Gains(w, ps) <=> i[1] \in ps /\ i \in Gain(w, i[1])
  BY <1>1 DEF Gains, Gain
<1>3. Gains(w, ps) \in SUBSET Id
  <2>1. \A q \in ps : Gain(w, q) \in SUBSET Id
    BY PlanIds DEF Gain
  <2>2. QED
    BY <2>1 DEF Gains
<1>4. (UNION {New(w, p) : p \in ps}) \ (UNION {Prev(w, p) : p \in ps}) = Gains(w, ps)
  BY <1>1 DEF Gains, Gain
<1>5. QED
  BY <1>2, <1>3, <1>4 DEF Added

\* Files are confirmed one at a time: the tally grows by what they gain.
LEMMA ConfirmedTally ==
  ASSUME Typed, Own, NEW w \in Workers, worker[w] \in Jobs, worker[w].want \in Target,
         worker[w].phase = "confirm", Planned(w), Brought(w),
         NEW C \in SUBSET Finished(w), Finished(w) \ worker[w].files \subseteq C,
         rows' = rows, \A q \in Paths \ Finished(w) : manifest'[q] = manifest[q],
         \A q \in Finished(w) :
           manifest'[q] = IF q \in C THEN Confirmation(w, q) ELSE Intent(w, q)
  PROVE  /\ Tally' \ Gains(w, C) = Tally \ Gained(w)
         /\ Gains(w, C) \subseteq Tally' /\ Gains(w, C) \in SUBSET Id
         /\ Added(w, C) = Cardinality(Gains(w, C))
<1> DEFINE D == Finished(w) \ worker[w].files
<1>1. /\ worker[w].phase \in Planning /\ Finished(w) \subseteq Group(w) /\ Group(w) \subseteq Paths
      /\ \A q \in Group(w) : \A i \in Named(worker[w].known[q]) : i[1] = q
  BY PlanHolds DEF Planning, Brought
<1>2. /\ \A i : i \in Gains(w, C) <=> i[1] \in C /\ i \in Gain(w, i[1])
      /\ \A i : i \in Gains(w, D) <=> i[1] \in D /\ i \in Gain(w, i[1])
      /\ Gains(w, C) \in SUBSET Id /\ Added(w, C) = Cardinality(Gains(w, C))
  <2>1. C \in SUBSET Group(w) /\ D \in SUBSET Group(w)
    BY <1>1
  <2>2. QED
    BY <1>1, <2>1, GainIs
<1>3. /\ \A q \in Finished(w) : /\ Counted(Intent(w, q)) = Prev(w, q)
                                /\ Counted(Confirmation(w, q)) = New(w, q) \cup Stale(w, q)
                                /\ New(w, q) \cup Stale(w, q) = Prev(w, q) \cup Gain(w, q)
  <2> SUFFICES ASSUME NEW q \in Finished(w)
               PROVE  /\ Counted(Intent(w, q)) = Prev(w, q)
                      /\ Counted(Confirmation(w, q)) = New(w, q) \cup Stale(w, q)
                      /\ New(w, q) \cup Stale(w, q) = Prev(w, q) \cup Gain(w, q)
    OBVIOUS
  <2>1. q \in Group(w)
    BY <1>1
  <2>2. QED
    BY <1>1, <2>1, PlanIsOwn DEF Gain, Stale
<1>4. \A q \in Finished(w) :
        manifest[q] = IF q \in worker[w].files THEN Intent(w, q) ELSE Confirmation(w, q)
  BY DEF Planned
<1>5. \A q \in Finished(w) : Gain(w, q) \subseteq rows
  BY DEF Brought, Gain
<1>6. \A q \in Finished(w) : Gain(w, q) \cap Prev(w, q) = {}
  BY DEF Gain
<1>7. rows \in SUBSET Id /\ \A i \in rows : i[1] \in Paths
  BY Kept, TallyIds
<1>8. ASSUME NEW i \in rows
      PROVE  i \in Tally' \ Gains(w, C) <=> i \in Tally \ Gains(w, D)
  <2> DEFINE q == i[1]
  <2>1. /\ i \in Tally' <=> i \in Counted(manifest'[q])
        /\ i \in Tally <=> i \in Counted(manifest[q])
    BY <1>8 DEF Tally, Counted
  <2>2. CASE q \notin Finished(w)
    <3>1. manifest'[q] = manifest[q] /\ q \notin C /\ q \notin D
      BY <1>7, <2>2
    <3>2. QED
      BY <1>2, <2>1, <3>1
  <2>3. CASE q \in Finished(w)
    <3>1. Counted(manifest'[q]) = IF q \in C THEN Prev(w, q) \cup Gain(w, q) ELSE Prev(w, q)
      BY <1>3, <2>3
    <3>2. Counted(manifest[q]) = IF q \in D THEN Prev(w, q) \cup Gain(w, q) ELSE Prev(w, q)
      BY <1>3, <1>4, <2>3
    <3>3. i \in Gains(w, C) <=> q \in C /\ i \in Gain(w, q)
      BY <1>2
    <3>4. i \in Gains(w, D) <=> q \in D /\ i \in Gain(w, q)
      BY <1>2
    <3>5. i \in Gain(w, q) => i \notin Prev(w, q)
      BY DEF Gain
    <3>6. i \in Tally' /\ i \notin Gains(w, C) <=> i \in Prev(w, q)
      BY <2>1, <3>1, <3>3, <3>5
    <3>7. i \in Tally /\ i \notin Gains(w, D) <=> i \in Prev(w, q)
      BY <2>1, <3>2, <3>4, <3>5
    <3>8. QED
      BY <3>6, <3>7
  <2>4. QED
    BY <2>2, <2>3
<1>9. Tally' \subseteq rows /\ Tally \subseteq rows
  BY DEF Tally
<1>10. Gained(w) = Gains(w, D)
  BY DEF Gained
<1>11. Gains(w, C) \subseteq Tally'
  <2> SUFFICES ASSUME NEW i \in Gains(w, C) PROVE i \in Tally'
    OBVIOUS
  <2>1. i[1] \in C /\ i \in Gain(w, i[1]) /\ i \in rows
    BY <1>2, <1>5
  <2>2. i \in Counted(manifest'[i[1]])
    BY <1>3, <2>1
  <2>3. QED
    BY <2>1, <2>2 DEF Tally, Counted
<1>12. QED
  BY <1>2, <1>8, <1>9, <1>10, <1>11

LEMMA BalanceConfirm ==
  ASSUME Typed, Stored, NEW w \in Workers, Balanced(w), Planned(w), Brought(w), Confirm(w)
  PROVE  Balanced(w)'
<1>1. /\ worker[w] \in Jobs /\ worker[w].phase = "confirm" /\ worker[w].want \in Target
      /\ UNCHANGED <<rows, record, unsure>>
      /\ Finished(w) \subseteq Group(w) /\ Group(w) \subseteq Paths
      /\ worker[w].files \subseteq Finished(w)
  <2>1. /\ worker[w] \in Jobs /\ worker[w].phase = "confirm" /\ worker[w].want \in Target
        /\ UNCHANGED <<rows, record, unsure>>
    BY DoesConfirm
  <2>2. QED
    BY <2>1, GroupFiles DEF Planned
<1>2. PICK p \in worker[w].files :
        LET rest == worker[w].files \ {p}
        IN \/ /\ manifest' = [manifest EXCEPT ![p] = Confirmation(w, p)]
              /\ worker'[w].files = IF rest = {} THEN Finished(w) ELSE rest
              /\ worker'[w].phase = IF rest = {} THEN "stale" ELSE "confirm"
              /\ worker'[w].up = IF rest = {} THEN worker[w].up + Added(w, Finished(w))
                                 ELSE worker[w].up
              /\ worker'[w].del = worker[w].del
              /\ worker'[w].recount = worker[w].recount
              /\ Aim(worker'[w]) = Aim(worker[w]) /\ Found(worker'[w]) = Found(worker[w])
              /\ Scope(worker'[w]) = Scope(worker[w]) /\ Hand(worker'[w]) = Hand(worker[w])
           \/ /\ manifest' \in {manifest, [manifest EXCEPT ![p] = Confirmation(w, p)]}
              /\ worker'[w].phase = "settle" /\ worker'[w].failed = TRUE
              /\ \/ /\ worker'[w].up = worker[w].up + Added(w, Landed(w))
                    /\ worker'[w].recount = worker[w].recount
                 \/ worker'[w].recount = TRUE
              /\ worker'[w].del = worker[w].del
              /\ Aim(worker'[w]) = Aim(worker[w]) /\ Found(worker'[w]) = Found(worker[w])
  BY DoesConfirm
<1>3. /\ Aim(worker'[w]) = Aim(worker[w]) /\ Found(worker'[w]) = Found(worker[w])
      /\ worker'[w].recount = FALSE => worker[w].recount = FALSE
      /\ worker'[w].del = worker[w].del
  BY <1>2
<1> DEFINE D == Finished(w) \ worker[w].files
           rest == worker[w].files \ {p}
<1>4. PICK C \in {D, D \cup {p}} :
        /\ C \subseteq Finished(w) /\ D \subseteq C
        /\ \A q \in Paths \ Finished(w) : manifest'[q] = manifest[q]
        /\ \A q \in Finished(w) :
             manifest'[q] = IF q \in C THEN Confirmation(w, q) ELSE Intent(w, q)
        /\ manifest' = [manifest EXCEPT ![p] = Confirmation(w, p)] => C = D \cup {p}
  <2>1. \A q \in Finished(w) :
          manifest[q] = IF q \in D THEN Confirmation(w, q) ELSE Intent(w, q)
    BY <1>1 DEF Planned
  <2>2. CASE manifest' = [manifest EXCEPT ![p] = Confirmation(w, p)]
    <3>1. /\ manifest'[p] = Confirmation(w, p) /\ p \in Finished(w)
          /\ \A q \in Paths : q # p => manifest'[q] = manifest[q]
      BY <1>1, <2>2, Kept
    <3> HIDE DEF D
    <3>2. \A q \in Finished(w) :
            manifest'[q] = IF q \in D \cup {p} THEN Confirmation(w, q) ELSE Intent(w, q)
      BY <1>1, <2>1, <3>1
    <3>3. QED
      BY <1>1, <3>1, <3>2 DEF D
  <2>3. CASE manifest' = manifest /\ manifest' # [manifest EXCEPT ![p] = Confirmation(w, p)]
    BY <2>1, <2>3
  <2>4. QED
    BY <1>2, <2>2, <2>3
<1>5. /\ Tally' \ Gains(w, C) = Tally \ Gained(w)
      /\ Gains(w, C) \subseteq Tally' /\ Gains(w, C) \in SUBSET Id
      /\ Added(w, C) = Cardinality(Gains(w, C))
  BY <1>1, <1>4, ConfirmedTally DEF Stored
<1>6. /\ Cardinality(Tally') = Cardinality(Tally \ Gained(w)) + Added(w, C)
      /\ Cardinality(Tally \ Gained(w)) \in Nat /\ Added(w, C) \in Nat
  <2>1. Tally' \in SUBSET Id
    BY <1>1, Kept DEF Tally
  <2>2. QED
    BY <1>5, <2>1, SumIs
<1>7. /\ worker[w].up \in Nat /\ worker[w].del \in Nat /\ record.chunks \in Nat
      /\ worker[w].phase \in Unsettled \ {"begin", "settle"}
  BY <1>1, Kept DEF Jobs, Records, Unsettled, Inner, Phases
<1>8. ASSUME worker'[w].up = worker[w].up + Added(w, C), worker'[w].phase # "confirm", Even(w)
      PROVE  Even(w)'
  <2>1. Gained(w)' = {}
    BY <1>8, NothingGained
  <2>2. Cardinality(Tally' \ Gained(w)') = Cardinality(Tally \ Gained(w)) + Added(w, C)
    BY <1>6, <2>1
  <2>3. record.chunks + worker[w].up = Cardinality(Tally \ Gained(w)) + worker[w].del
    BY <1>8 DEF Even
  <2>4. record'.chunks + worker'[w].up = Cardinality(Tally' \ Gained(w)') + worker'[w].del
    BY <1>1, <1>3, <1>6, <1>7, <1>8, <2>2, <2>3
  <2>5. QED
    BY <2>4 DEF Even
<1>9. CASE worker'[w].recount = TRUE
  BY <1>9 DEF Balanced, Counts
<1>10. CASE worker'[w].recount # TRUE /\ worker'[w].phase = "settle"
  <2>1. worker'[w].up = worker[w].up + Added(w, Landed(w))
    BY <1>2, <1>10
  <2>2. Added(w, Landed(w)) = Added(w, C)
    <3>1. \A q \in Finished(w) :
            /\ Confirmation(w, q) # None /\ Confirmation(w, q).chunks = New(w, q)
            /\ Intent(w, q) # None /\ Intent(w, q).chunks = Prev(w, q)
      BY <1>1, PlanEntries, IndexAssumption DEF Confirmation, Intent
    <3>2. \A q \in Finished(w) : q \in Landed(w) <=> q \in C \/ Prev(w, q) = New(w, q)
      BY <1>4, <3>1 DEF Landed
    <3>3. C \subseteq Landed(w) /\ \A q \in Landed(w) : q \in C \/ Gain(w, q) = {}
      BY <1>4, <3>2 DEF Landed, Gain
    <3>4. Gains(w, Landed(w)) = Gains(w, C)
      BY <3>3 DEF Gains
    <3>5. Added(w, Landed(w)) = Cardinality(Gains(w, Landed(w)))
      <4>1. Landed(w) \in SUBSET Group(w)
        BY <1>1 DEF Landed
      <4>2. \A q \in Group(w) : \A i \in Named(worker[w].known[q]) : i[1] = q
        BY <1>1 DEF Brought, Planning
      <4>3. QED
        BY <1>1, <4>1, <4>2, GainIs
    <3>6. QED
      BY <1>5, <3>4, <3>5
  <2>3. Even(w) => Even(w)'
    BY <1>8, <1>10, <2>1, <2>2
  <2>4. QED
    BY <1>1, <1>3, <1>7, <2>3, BalanceStays
<1>11. CASE worker'[w].phase # "settle"
  <2>1. /\ manifest' = [manifest EXCEPT ![p] = Confirmation(w, p)]
        /\ worker'[w].files = IF rest = {} THEN Finished(w) ELSE rest
        /\ worker'[w].phase = IF rest = {} THEN "stale" ELSE "confirm"
        /\ worker'[w].up = IF rest = {} THEN worker[w].up + Added(w, Finished(w))
                           ELSE worker[w].up
        /\ worker'[w].recount = worker[w].recount /\ Hand(worker'[w]) = Hand(worker[w])
    BY <1>2, <1>11
  <2>2. C = D \cup {p}
    BY <1>4, <2>1
  <2>3. CASE rest = {}
    <3>1. C = Finished(w)
      BY <1>1, <2>2, <2>3
    <3>2. Even(w) => Even(w)'
      BY <1>8, <2>1, <2>3, <3>1
    <3>3. QED
      BY <1>1, <1>3, <1>7, <3>2, BalanceStays
  <2>4. CASE rest # {}
    <3>1. /\ worker'[w].want = worker[w].want /\ worker'[w].known = worker[w].known
          /\ worker'[w].left = worker[w].left
      BY <1>3, <2>1, SameAim DEF Hand
    <3>2. /\ Finished(w)' = Finished(w)
          /\ \A q \in Group(w) : New(w, q)' = New(w, q) /\ Prev(w, q)' = Prev(w, q)
      BY <3>1, SamePlan
    <3>3. Finished(w)' \ worker'[w].files = C
      BY <1>1, <2>1, <2>2, <2>4, <3>2
    <3>4. \A q \in C : Gain(w, q)' = Gain(w, q)
      BY <1>1, <1>4, <3>2 DEF Gain
    <3>5. Gained(w)' = Gains(w, C)
      BY <2>1, <2>4, <3>3, <3>4 DEF Gained, Gains
    <3>6. Even(w) => Even(w)'
      <4>1. Score(worker'[w]) = Score(worker[w])
        BY <1>3, <2>1, <2>4 DEF Score
      <4>2. QED
        BY <1>1, <1>5, <3>5, <4>1, EvenStays
    <3>7. QED
      BY <1>1, <1>3, <1>7, <3>6, BalanceStays
  <2>5. QED
    BY <2>3, <2>4
<1>12. QED
  BY <1>9, <1>10, <1>11

LEMMA TallySame ==
  ASSUME rows' = rows,
         \A i \in rows : i \in Counted(manifest'[i[1]]) <=> i \in Counted(manifest[i[1]])
  PROVE  Tally' = Tally
  BY DEF Tally, Counted

LEMMA TallyRows ==
  ASSUME manifest' = manifest,
         \A i \in (rows' \ rows) \cup (rows \ rows') : i \notin Counted(manifest[i[1]])
  PROVE  Tally' = Tally
<1>1. Tally' = {i \in rows' : i \in Counted(manifest[i[1]])}
  BY DEF Tally, Counted
<1>2. QED
  BY <1>1 DEF Tally

LEMMA TallyWrites ==
  ASSUME Typed, NEW w \in Workers, Planned(w), Brought(w), RecordIntent(w) \/ Finalize(w)
  PROVE  Tally' = Tally
<1>1. /\ worker[w] \in Jobs /\ worker[w].phase \in {"intent", "finalize"}
      /\ worker[w].want \in Target /\ rows' = rows
  BY DoesWrite
<1>2. PICK p \in worker[w].files :
        manifest' = manifest
        \/ manifest' = [manifest EXCEPT ![p] = IF worker[w].phase = "intent" THEN Intent(w, p)
                                              ELSE Finalized(w, p)]
  BY DoesWrite
<1>3. worker[w].phase \in Planning /\ p \in Group(w) /\ p \in Paths
  BY <1>1, PlanHolds DEF Planning
<1>4. /\ Counted(Intent(w, p)) = Prev(w, p) /\ Counted(Finalized(w, p)) = New(w, p)
      /\ Counted(Confirmation(w, p)) = New(w, p) \cup Stale(w, p)
  BY <1>1, <1>3, PlanIsOwn DEF Brought
<1>5. CASE manifest' = manifest
  BY <1>1, <1>5, TallyStands
<1>6. CASE manifest' # manifest
  <2>1. /\ \A q \in Paths : q # p => manifest'[q] = manifest[q]
        /\ manifest'[p] = IF worker[w].phase = "intent" THEN Intent(w, p) ELSE Finalized(w, p)
    BY <1>2, <1>3, <1>6, Kept
  <2>2. ASSUME NEW i \in rows
        PROVE  i \in Counted(manifest'[i[1]]) <=> i \in Counted(manifest[i[1]])
    <3>1. i[1] \in Paths
      BY Kept, TallyIds
    <3>2. CASE i[1] # p
      BY <2>1, <3>1, <3>2
    <3>3. CASE i[1] = p /\ worker[w].phase = "intent"
      <4>1. manifest[p] = worker[w].known[p]
        BY <1>3, <3>3 DEF Planned
      <4>2. QED
        BY <1>4, <2>1, <3>3, <4>1 DEF Prev
    <3>4. CASE i[1] = p /\ worker[w].phase = "finalize"
      <4>1. manifest[p] = Confirmation(w, p) /\ i \notin Stale(w, p)
        BY <3>4 DEF Planned
      <4>2. QED
        BY <1>4, <2>1, <3>4, <4>1
    <3>5. QED
      BY <1>1, <3>2, <3>3, <3>4
  <2>3. QED
    BY <1>1, <2>2, TallySame
<1>7. QED
  BY <1>5, <1>6

LEMMA TallyForgets ==
  ASSUME Typed, NEW w \in Workers, Planned(w), Forget(w)
  PROVE  Tally' = Tally
<1>1. worker[w].phase = "forget"
  BY DEF Forget, At_
<1>2. rows' = rows /\ \E ps \in SUBSET worker[w].swept : manifest' = Without(ps)
  BY DoesForget
<1>3. \A i \in rows : i[1] \in Paths /\ i[1] \notin worker[w].swept
  BY <1>1, Kept, TallyIds DEF Planned
<1>4. \A i \in rows : manifest'[i[1]] = manifest[i[1]]
  BY <1>2, <1>3 DEF Without
<1>5. QED
  BY <1>2, <1>4, TallySame

LEMMA TallyBrings ==
  ASSUME Typed, NEW w \in Workers, Planned(w), Brought(w), Relocate(w) \/ EmbedBatch(w)
  PROVE  Tally' = Tally
<1>1. /\ worker[w] \in Jobs /\ worker[w].phase \in {"relocate", "embed"}
      /\ worker[w].want \in Target /\ manifest' = manifest /\ rows \subseteq rows'
      /\ worker[w].phase \in Planning
  BY DoesRelocate, DoesEmbed DEF Planning
<1>2. \A i \in rows' \ rows : \E q \in Group(w) : i \in New(w, q) \ Prev(w, q)
  <2>1. CASE Relocate(w)
    BY <2>1, DoesRelocate DEF ToRelocate
  <2>2. CASE EmbedBatch(w)
    <3>1. worker[w].phase = "embed" /\ rows' \subseteq rows \cup worker[w].left
      BY <2>2, DoesEmbed
    <3>2. worker[w].left \subseteq UNION {ToEmbed(w, q) : q \in Group(w)}
      BY <3>1 DEF Planned
    <3>3. QED
      BY <3>1, <3>2 DEF ToEmbed
  <2>3. QED
    BY <2>1, <2>2
<1>3. ASSUME NEW i \in rows' \ rows
      PROVE  i \notin Counted(manifest[i[1]])
  <2>1. PICK q \in Group(w) : i \in New(w, q) \ Prev(w, q)
    BY <1>2
  <2>2. i[1] = q /\ Counted(Intent(w, q)) = Prev(w, q)
    BY <1>1, <2>1, PlanIsOwn DEF Brought
  <2>3. manifest[q] = Intent(w, q)
    BY <1>1 DEF Planned
  <2>4. QED
    BY <2>1, <2>2, <2>3
<1>4. QED
  BY <1>1, <1>3, TallyRows

LEMMA TallyOrphans ==
  ASSUME Typed, NEW w \in Workers, Planned(w), Brought(w), DeleteOrphans(w)
  PROVE  Tally' = Tally
<1>1. /\ worker[w] \in Jobs /\ worker[w].phase = "orphans" /\ worker[w].want \in Target
      /\ manifest' = manifest /\ worker[w].phase \in Planning
      /\ rows' \subseteq rows
      /\ rows \ (UNION {Orphans(w, p) : p \in Finished(w)}) \subseteq rows'
      /\ Finished(w) \subseteq Group(w)
  BY DoesOrphans, GroupFiles DEF Planning
<1>2. ASSUME NEW i \in rows \ rows'
      PROVE  i \notin Counted(manifest[i[1]])
  <2>1. PICK q \in Finished(w) : i \in Orphans(w, q)
    BY <1>1
  <2>2. q \in Group(w)
    BY <1>1
  <2>3. i[1] = q /\ Counted(Intent(w, q)) = Prev(w, q) /\ i \notin Prev(w, q)
    BY <1>1, <2>1, <2>2, PlanIsOwn DEF Brought
  <2>4. manifest[q] = Intent(w, q)
    BY <1>1, <2>2 DEF Planned
  <2>5. QED
    BY <2>3, <2>4
<1>3. rows' \subseteq rows
  BY <1>1
<1>4. QED
  BY <1>1, <1>2, <1>3, TallyRows

LEMMA TallySweeps ==
  ASSUME Typed, NEW w \in Workers, Brought(w), SweepPaths(w)
  PROVE  Tally' = Tally
<1>1. /\ worker[w].phase \in {"revoke sweep", "remove sweep"} /\ manifest' = manifest
      /\ rows' \subseteq rows /\ {i \in rows : i[1] \notin worker[w].swept} \subseteq rows'
  BY DoesSweep
<1>2. \A i \in rows \ rows' : i[1] \in worker[w].swept
  BY <1>1
<1>3. \A i \in rows \ rows' : i \notin Counted(manifest[i[1]])
  BY <1>1, <1>2 DEF Brought
<1>4. QED
  BY <1>1, <1>3, TallyRows

\* Counted rows are deleted and taken off.
LEMMA BalanceDeletes ==
  ASSUME Typed, NEW w \in Workers, Balanced(w),
         worker[w].phase \in Unsettled \ {"begin", "settle", "confirm"},
         NEW ids, NEW phase \in Phases \ {"confirm"},
         Deletes(w, ids, phase) \/ LosesDelete(w, ids),
         UNCHANGED <<manifest, record>>, rows \cap ids = Tally \cap ids
  PROVE  Balanced(w)'
<1>1. CASE LosesDelete(w, ids)
  <2>1. PICK lost \in SUBSET (ids \cap rows) :
          rows' = rows \ lost /\ unsure' = (unsure \/ lost # {})
    BY <1>1 DEF LosesDelete
  <2>2. CASE lost # {}
    <3>1. unsure'
      BY <2>1, <2>2
    <3>2. QED
      BY <3>1 DEF Balanced, Counts
  <2>3. CASE lost = {}
    <3>1. rows' = rows /\ (unsure => unsure')
      BY <2>1, <2>3
    <3>2. /\ Aim(worker'[w]) = Aim(worker[w]) /\ Found(worker'[w]) = Found(worker[w])
          /\ Score(worker'[w]) = Score(worker[w]) /\ worker'[w].phase # "confirm"
      BY <1>1 DEF LosesDelete, Failing
    <3>3. QED
      BY <3>1, <3>2, TallyStands, NothingGained, BalanceGoes
  <2>4. QED
    BY <2>2, <2>3
<1>2. CASE Deletes(w, ids, phase)
  <2>1. /\ rows' = rows \ ids /\ unsure' = unsure /\ worker'[w].phase = phase
        /\ worker'[w].del = worker[w].del + Cardinality(ids \cap rows)
        /\ worker'[w].up = worker[w].up /\ worker'[w].recount = worker[w].recount
        /\ Aim(worker'[w]) = Aim(worker[w]) /\ Found(worker'[w]) = Found(worker[w])
    BY <1>2 DEF Deletes
  <2>2. Gained(w) = {} /\ Gained(w)' = {}
    BY <2>1 DEF Gained
  <2>3. Tally' = Tally \ ids
    BY <2>1 DEF Tally, Counted
  <2>4. /\ Cardinality(Tally) = Cardinality(Tally') + Cardinality(ids \cap rows)
        /\ Cardinality(Tally') \in Nat /\ Cardinality(ids \cap rows) \in Nat
    <3>1. Tally \in SUBSET Id /\ Tally \cap ids \in SUBSET Tally
      BY TallyIds
    <3>2. Tally' = Tally \ (Tally \cap ids) /\ ids \cap rows = Tally \cap ids
      BY <2>3
    <3>3. QED
      BY <3>1, <3>2, SumIs
  <2>5. Even(w) => Even(w)'
    <3>1. /\ worker[w].up \in Nat /\ worker[w].del \in Nat /\ record.chunks \in Nat
      BY Busy, Kept DEF Jobs, Records, Unsettled, Inner
    <3>2. Cardinality(Tally \ Gained(w)) = Cardinality(Tally)
          /\ Cardinality(Tally' \ Gained(w)') = Cardinality(Tally')
      BY <2>2
    <3>3. QED
      BY <2>1, <2>4, <3>1, <3>2 DEF Even
  <2>6. QED
    BY <2>1, <2>5, BalanceStays
<1>3. QED
  BY <1>1, <1>2

LEMMA BalanceStale ==
  ASSUME Typed, NEW w \in Workers, Balanced(w), Planned(w), Brought(w), DeleteStale(w)
  PROVE  Balanced(w)'
<1> DEFINE ids == UNION {Stale(w, p) : p \in Finished(w)}
<1>1. /\ worker[w] \in Jobs /\ worker[w].phase = "stale" /\ worker[w].want \in Target
      /\ UNCHANGED <<manifest, record>> /\ Finished(w) \subseteq Group(w)
      /\ Deletes(w, ids, "finalize") \/ LosesDelete(w, ids)
  BY DoesStale, GroupFiles
<1>2. ASSUME NEW i \in rows, NEW q \in Finished(w), i \in Stale(w, q)
      PROVE  i \in Tally
  <2>1. q \in Group(w)
    BY <1>1
  <2>2. i[1] = q /\ Counted(Confirmation(w, q)) = New(w, q) \cup Stale(w, q)
    BY <1>1, <1>2, <2>1, PlanIsOwn DEF Brought, Planning
  <2>3. manifest[q] = Confirmation(w, q)
    BY <1>1 DEF Planned, Brought
  <2>4. QED
    BY <1>2, <2>2, <2>3 DEF Tally
<1>3. rows \cap ids = Tally \cap ids
  BY <1>2 DEF Tally
<1>4. /\ worker[w].phase \in Unsettled \ {"begin", "settle", "confirm"}
      /\ "finalize" \in Phases \ {"confirm"}
  BY <1>1 DEF Unsettled, Inner, Phases
<1> HIDE DEF ids
<1>5. QED
  BY <1>1, <1>3, <1>4, BalanceDeletes

LEMMA BalanceRemoves ==
  ASSUME Typed, Own, NEW w \in Workers, Balanced(w), RemoveCounted(w)
  PROVE  Balanced(w)'
<1> DEFINE ids == UNION {Counted(manifest[p]) : p \in worker[w].swept}
           phase == IF worker[w].phase = "revoke" THEN "revoke sweep" ELSE "remove sweep"
<1>1. /\ worker[w] \in Jobs /\ worker[w].phase \in {"revoke", "remove"}
      /\ UNCHANGED <<manifest, record>>
      /\ Deletes(w, ids, phase) \/ LosesDelete(w, ids)
  BY DoesRemove
<1>2. rows \cap ids = Tally \cap ids
  <2>1. worker[w].swept \in SUBSET Paths
    BY <1>1 DEF Jobs
  <2>2. QED
    BY <2>1, TallyIs
<1>3. /\ worker[w].phase \in Unsettled \ {"begin", "settle", "confirm"}
      /\ phase \in Phases \ {"confirm"}
  BY <1>1 DEF Unsettled, Inner, Phases
<1> HIDE DEF ids, phase
<1>4. QED
  BY <1>1, <1>2, <1>3, BalanceDeletes

LEMMA BalanceBegin ==
  ASSUME Typed, NEW w \in Workers, Asked(w), Opens(w), Begin(w)
  PROVE  Balanced(w)'
<1>1. /\ worker[w] \in Jobs /\ worker[w].phase = "begin"
      /\ UNCHANGED <<rows, manifest, record>>
      /\ worker'[w].phase \in {"settle", "revoke", "group"}
      /\ worker'[w].up = 0 /\ worker'[w].del = 0
      /\ \/ /\ worker'[w].failed = TRUE /\ worker'[w].phase = "settle"
            /\ unsure' = (unsure \/ record.uncertain)
         \/ /\ worker'[w].before = record.chunks /\ unsure' = unsure
            /\ worker'[w].recount = (record.revision = None \/ record.uncertain)
  <2>1. Begin(w) /\ worker[w].phase = "begin" /\ worker[w].up = 0 /\ worker[w].del = 0
    BY DoesBegin DEF Asked, Untouched
  <2>2. QED
    BY <2>1, DoesBegin DEF Failing, Score
<1>2. Tally' = Tally /\ Gained(w)' = {}
  BY <1>1, TallyStands DEF Gained
<1>3. ASSUME Counts(w)'
      PROVE  Even(w)' /\ FromRecord(w)'
  <2>0. unsure' = FALSE /\ worker'[w].recount = FALSE
    BY <1>3 DEF Counts
  <2>1. ~unsure /\ ~record.uncertain
    <3>1. CASE worker'[w].failed = TRUE /\ worker'[w].phase = "settle"
               /\ unsure' = (unsure \/ record.uncertain)
      BY <2>0, <3>1
    <3>2. CASE worker'[w].recount = (record.revision = None \/ record.uncertain)
               /\ unsure' = unsure
      <4>1. (record.revision = None \/ record.uncertain) = FALSE /\ unsure = FALSE
        BY <2>0, <3>2
      <4>2. QED
        BY <4>1
    <3>3. QED
      BY <1>1, <3>1, <3>2
  <2>2. record.chunks = Cardinality(Tally) /\ record.chunks \in Nat
    BY <1>1, <2>1, Kept DEF Opens, Records
  <2>3. Even(w)'
    BY <1>1, <1>2, <2>2 DEF Even
  <2>4. FromRecord(w)'
    BY <1>1 DEF FromRecord
  <2>5. QED
    BY <2>3, <2>4
<1>4. QED
  BY <1>3 DEF Balanced

\* The steps whose calls say nothing of the count.
LEMMA BalanceRest ==
  ASSUME Typed, NEW w \in Workers, Balanced(w), Planned(w), Brought(w),
         \/ NextGroup(w) \/ RecordIntent(w) \/ Relocate(w) \/ EmbedBatch(w) \/ BudgetStop(w)
         \/ DeleteOrphans(w) \/ Finalize(w) \/ EndGroups(w) \/ SweepPaths(w) \/ Forget(w)
  PROVE  Balanced(w)'
<1>1. /\ record' = record /\ unsure' = unsure
      /\ worker[w].phase \in Unsettled \ {"begin", "settle", "confirm"}
  <2>1. record' = record /\ worker[w].phase \in Unsettled \ {"settle"}
    BY InnerSteps, RunsUnsettled DEF InnerRun
  <2>2. worker[w].phase \notin {"begin", "confirm"}
    BY DEF NextGroup, RecordIntent, Relocate, EmbedBatch, BudgetStop, DeleteOrphans, Finalize,
       EndGroups, SweepPaths, Forget, At_
  <2>3. unsure' = unsure
    BY DEF NextGroup, RecordIntent, Relocate, EmbedBatch, BudgetStop, DeleteOrphans, Finalize,
       EndGroups, SweepPaths, Forget
  <2>4. QED
    BY <2>1, <2>2, <2>3
<1>2. Tally' = Tally
  <2>1. CASE NextGroup(w) \/ BudgetStop(w) \/ EndGroups(w)
    BY <2>1, DoesGroup, DoesStop, DoesEnd, TallyStands
  <2>2. QED
    BY <2>1, TallyWrites, TallyBrings, TallyOrphans, TallySweeps, TallyForgets
<1>3. /\ Aim(worker'[w]) = Aim(worker[w]) /\ Found(worker'[w]) = Found(worker[w])
      /\ Score(worker'[w]) = Score(worker[w])
      /\ \/ worker'[w].phase # "confirm"
         \/ /\ worker'[w].files = Finished(w) /\ Hand(worker'[w]) = Hand(worker[w])
            /\ worker'[w].phase = "confirm"
  <2>1. CASE Failing(w)
    BY <2>1 DEF Failing
  <2>2. CASE NextGroup(w) \/ BudgetStop(w) \/ EndGroups(w)
    BY <2>2, <2>1, DoesGroup, DoesStop, DoesEnd
  <2>3. CASE Relocate(w) \/ EmbedBatch(w)
    BY <2>3, <2>1, DoesRelocate, DoesEmbed
  <2>4. CASE DeleteOrphans(w)
    BY <2>4, <2>1, DoesOrphans
  <2>5. CASE RecordIntent(w) \/ Finalize(w)
    <3>1. worker[w].phase \in {"intent", "finalize"}
      BY <2>5, DoesWrite
    <3>2. QED
      BY <2>5, <2>1, <3>1, DoesWrite
  <2>6. CASE SweepPaths(w)
    BY <2>6, <2>1, DoesSweep
  <2>7. CASE Forget(w)
    <3>1. worker[w].phase = "forget"
      BY <2>7 DEF Forget, At_
    <3>2. QED
      BY <2>7, <2>1, <3>1, DoesForget
  <2>8. QED
    BY <2>2, <2>3, <2>4, <2>5, <2>6, <2>7
<1>4. Gained(w)' = {}
  <2>1. CASE worker'[w].phase # "confirm"
    BY <2>1, NothingGained
  <2>2. CASE worker'[w].files = Finished(w) /\ Hand(worker'[w]) = Hand(worker[w])
    <3>1. Finished(w)' = Finished(w)
      BY <1>3, <2>2, SameAim, SamePlan DEF Hand
    <3>2. QED
      BY <2>2, <3>1 DEF Gained, Gains
  <2>3. QED
    BY <1>3, <2>1, <2>2
<1>5. QED
  BY <1>1, <1>2, <1>3, <1>4, BalanceGoes

\* Outside a run there is nothing to balance.
LEMMA NothingTallied ==
  ASSUME NEW v \in Workers, worker'[v].phase \notin Unsettled
  PROVE  Opens(v)' /\ Balanced(v)'
  BY DEF Opens, Balanced, Counts, Unsettled, Inner, Phases

LEMMA TalliedInside ==
  ASSUME Typed, Stored, NEW w \in Workers, Asked(w), Opens(w), Balanced(w), Planned(w),
         Brought(w), InnerRun(w)
  PROVE  Opens(w)' /\ Balanced(w)'
<1>1. Opens(w)'
  BY NeverBack DEF Opens
<1>2. Balanced(w)'
  <2>1. CASE Begin(w)
    BY <2>1, BalanceBegin
  <2>2. CASE Confirm(w)
    BY <2>2, BalanceConfirm
  <2>3. CASE DeleteStale(w)
    BY <2>3, BalanceStale
  <2>4. CASE RemoveCounted(w)
    BY <2>4, BalanceRemoves DEF Stored
  <2>5. CASE Wipe(w) \/ Unname(w)
    <3>1. worker[w].phase \in {"wipe", "unname"}
      BY <2>5 DEF Wipe, Unname, At_
    <3>2. worker[w].job = "reset"
      BY <3>1 DEF Asked
    <3>3. worker'[w] = Idle \/ Aim(worker'[w]) = Aim(worker[w])
      BY <2>5, <3>1, DoesWipe, DoesForget DEF Failing
    <3>4. worker'[w] = Idle \/ worker'[w].job = "reset"
      BY <3>2, <3>3 DEF Aim
    <3>5. CASE worker'[w] = Idle
      <4>1. worker'[w].phase = "idle"
        BY <3>5 DEF Idle
      <4>2. QED
        BY <4>1, NothingTallied DEF Unsettled, Inner
    <3>6. CASE worker'[w].job = "reset"
      BY <3>6 DEF Balanced, Counts
    <3>7. QED
      BY <3>4, <3>5, <3>6
  <2>6. CASE \/ NextGroup(w) \/ RecordIntent(w) \/ Relocate(w) \/ EmbedBatch(w) \/ BudgetStop(w)
             \/ DeleteOrphans(w) \/ Finalize(w) \/ EndGroups(w) \/ SweepPaths(w) \/ Forget(w)
    BY <2>6, BalanceRest
  <2>7. QED
    BY <2>1, <2>2, <2>3, <2>4, <2>5, <2>6 DEF InnerRun
<1>3. QED
  BY <1>1, <1>2

\* The sums of a run that ended make its count.
LEMMA SumsUp ==
  ASSUME Typed, NEW w \in Workers, worker[w] \in Jobs, worker[w].phase = "settle", Counts(w),
         Balanced(w), worker[w].before = record.chunks
  PROVE  Chunks(w) = Cardinality(Tally)
<1>1. record.chunks + worker[w].up = Cardinality(Tally) + worker[w].del
  BY DEF Balanced, Even, Gained
<1>2. Cardinality(Tally) \in Nat
  <2>1. Tally \in SUBSET Id
    BY TallyIds
  <2>2. QED
    BY <2>1, SumIs
<1>3. /\ worker[w].up \in Nat /\ worker[w].del \in Nat /\ worker[w].before \in Nat
  BY DEF Jobs
<1>4. worker[w].before + worker[w].up - worker[w].del = Cardinality(Tally)
  BY <1>1, <1>2, <1>3
<1> DEFINE n == Cardinality(Tally)
<1> HIDE DEF n
<1>5. n \in Nat /\ worker[w].before + worker[w].up - worker[w].del = n
  BY <1>2, <1>4 DEF n
<1>6. Chunks(w) = n
  BY <1>3, <1>5 DEF Chunks, Less
<1>7. QED
  BY <1>6 DEF n

\* What a run that settles puts on record is the tally, or it says it is not.
LEMMA SettlesTally ==
  ASSUME Typed, Held, Sole, Stored, NEW w \in Workers, Emptying(w), Balanced(w),
         Settle(w) \/ RecountFails(w), ~unsure', ~record'.uncertain
  PROVE  record'.chunks = Cardinality(Tally)
<1>1. /\ worker[w] \in Jobs /\ worker[w].phase = "settle"
      /\ Emptied(w) \/ WentWell(w) \/ WentWrong(w) \/ LostCount(w)
  BY DoesSettle
<1>2. worker[w].phase \in Unsettled \ {"begin"}
  BY <1>1 DEF Unsettled, Inner, Phases
<1>3. ~LostCount(w)
  BY DEF LostCount, GaveUpAs
<1>4. CASE Emptied(w)
  <2>1. \A q \in Paths : manifest[q] = None
    BY <1>1, <1>4 DEF Emptied, Emptying
  <2>2. Tally = {}
    <3>1. \A i \in rows : i[1] \in Paths
      BY TallyIds, Kept
    <3>2. QED
      BY <2>1, <3>1 DEF Tally, Counted
  <2>3. record'.chunks = 0
    BY <1>4 DEF Emptied, DoneAs
  <2>4. Cardinality({}) = 0
    BY FS_EmptySet
  <2>5. QED
    BY <2>2, <2>3, <2>4
<1>5. CASE WentWell(w) /\ worker[w].recount
  <2>1. worker[w].recount = TRUE /\ torn = {}
    BY <1>1, <1>5 DEF WentWell, Jobs
  <2>2. record'.chunks = Recounted
    BY <1>5 DEF WentWell, DoneAs
  <2>3. UNION {Counted(manifest[q]) : q \in Paths} \subseteq rows
    BY <2>1 DEF Stored, HeldOrTorn
  <2>4. Tally = UNION {Counted(manifest[q]) : q \in Paths}
    BY <2>3, TallyIs DEF Stored
  <2>5. QED
    BY <2>2, <2>4 DEF Recounted
<1>6. CASE WentWell(w) /\ ~worker[w].recount
  <2>1. /\ ~unsure /\ worker[w].recount = FALSE /\ worker[w].failed = FALSE
        /\ worker[w].job = "index" /\ record'.chunks = Chunks(w)
    BY <1>1, <1>6 DEF WentWell, DoneAs, Jobs
  <2>2. Counts(w)
    BY <1>2, <2>1 DEF Counts
  <2>3. worker[w].before = record.chunks
    BY <2>1, <2>2 DEF Balanced, FromRecord
  <2>4. QED
    BY <1>1, <2>1, <2>2, <2>3, SumsUp
<1>7. CASE WentWrong(w)
  <2>1. /\ ~unsure /\ worker[w].recount = FALSE /\ worker[w].job = "index"
        /\ record'.chunks = IF worker[w].up # 0 \/ worker[w].del # 0 THEN Chunks(w)
                            ELSE record.chunks
    BY <1>1, <1>7 DEF WentWrong, GaveUpAs, Jobs
  <2>2. Counts(w)
    BY <1>2, <2>1 DEF Counts
  <2>3. CASE worker[w].up # 0 \/ worker[w].del # 0
    <3>1. worker[w].before = record.chunks
      BY <2>2, <2>3 DEF Balanced, FromRecord
    <3>2. QED
      BY <1>1, <2>1, <2>2, <2>3, <3>1, SumsUp
  <2>4. CASE worker[w].up = 0 /\ worker[w].del = 0
    <3>1. record.chunks + 0 = Cardinality(Tally) + 0
      BY <1>1, <2>2, <2>4 DEF Balanced, Even, Gained
    <3>2. Cardinality(Tally) \in Nat /\ record.chunks \in Nat
      <4>1. Tally \in SUBSET Id /\ record.chunks \in Nat
        BY TallyIds, Kept DEF Records
      <4>2. QED
        BY <4>1, SumIs
    <3>3. QED
      BY <2>1, <2>4, <3>1, <3>2
  <2>5. QED
    BY <2>3, <2>4
<1>8. QED
  BY <1>1, <1>3, <1>4, <1>5, <1>6, <1>7

\* A step under a claim.
LEMMA TalliedUnder ==
  ASSUME Sound, Told, AllTallied, NEW w \in Workers, Under(w)
  PROVE  AllTallied'
<1>1. \A v \in Workers : v # w => worker'[v] = worker[v] /\ worker[v].phase \in Away
  BY OthersAway DEF Sound
<1>2. \A v \in Workers : v # w => Opens(v)' /\ Balanced(v)'
  BY <1>1, NothingTallied DEF Away, Unsettled, Inner
<1>3. CASE InnerRun(w)
  <2>1. Opens(w)' /\ Balanced(w)'
    BY <1>3, TalliedInside DEF Sound, Told, AllAsked, AllPlanned, AllBrought, AllTallied
  <2>2. Rest'
    <3>1. worker'[w] = Idle \/ worker'[w].phase \in Inner
      BY <1>3, InnerSteps DEF Steps, Sound
    <3>2. worker'[w] = Idle => unsure'
      BY <1>3, InsideStands DEF Sound
    <3>3. worker'[w].phase \notin {"begin", "drop", "graph"}
      BY <1>3, NeverBack DEF Sound
    <3>4. QED
      BY <3>1, <3>2, <3>3 DEF Rest, Unsettled
  <2>3. QED
    BY <1>2, <2>1, <2>2 DEF AllTallied
<1>4. CASE MarkIndexing(w)
  <2>1. /\ UNCHANGED <<rows, manifest, unsure>> /\ worker[w].phase = "mark"
        /\ record'.uncertain = record.uncertain /\ record'.chunks = record.chunks
        /\ worker'[w] = Idle \/ worker'[w].phase \in {"wipe", "begin"}
    BY <1>4, DoesMark DEF Sound
  <2>2. Tally' = Tally
    BY <2>1, TallyStands
  <2>3. ~record.uncertain /\ ~unsure => record.chunks = Cardinality(Tally)
    BY <1>1, <2>1 DEF AllTallied, Rest, Away, Unsettled, Inner
  <2>4. worker'[w].phase \in {"idle", "wipe", "begin"}
    BY <2>1 DEF Idle
  <2>5. Rest' /\ Opens(w)'
    BY <2>1, <2>2, <2>3 DEF Rest, Opens
  <2>6. Balanced(w)'
    <3>1. CASE worker'[w].phase # "wipe"
      BY <2>4, <3>1 DEF Balanced, Counts, Unsettled, Inner
    <3>2. CASE worker'[w].phase = "wipe"
      <4>1. /\ worker'[w].phase = IF worker[w].job = "reset" THEN "wipe" ELSE "begin"
            /\ Aim(worker'[w]) = Aim(worker[w])
        BY <1>4, <2>4, <3>2, DoesMark DEF Sound, Idle
      <4>2. worker'[w].job = "reset"
        BY <3>2, <4>1 DEF Aim
      <4>3. QED
        BY <4>2 DEF Balanced, Counts
    <3>3. QED
      BY <3>1, <3>2
  <2>7. QED
    BY <1>2, <2>5, <2>6 DEF AllTallied
<1>5. CASE Settle(w) \/ RecountFails(w)
  <2>1. /\ UNCHANGED <<rows, manifest>>
        /\ (worker'[w] = Idle /\ unsure' = TRUE) \/ worker'[w].phase = "drop"
    BY <1>5, DoesSettle DEF Sound, Leaves
  <2>2. worker'[w].phase \in {"idle", "drop"}
    BY <2>1 DEF Idle
  <2>3. Opens(w)' /\ Balanced(w)'
    BY <2>2, NothingTallied DEF Unsettled, Inner
  <2>4. Tally' = Tally
    BY <2>1, TallyStands
  <2>5. ~unsure' /\ ~record'.uncertain => record'.chunks = Cardinality(Tally)
    BY <1>5, SettlesTally DEF Sound, Told, AllAsked, AllTallied
  <2>6. Rest'
    BY <2>4, <2>5 DEF Rest
  <2>7. QED
    BY <1>2, <2>3, <2>6 DEF AllTallied
<1>6. CASE DropClaim(w)
  <2>1. /\ UNCHANGED <<rows, manifest, record, unsure>> /\ worker[w].phase = "drop"
        /\ worker'[w] = Idle \/ worker'[w].phase = "graph"
    BY <1>6, DoesDrop DEF Sound
  <2>2. worker'[w].phase \in {"idle", "graph"}
    BY <2>1 DEF Idle
  <2>3. Opens(w)' /\ Balanced(w)'
    BY <2>2, NothingTallied DEF Unsettled, Inner
  <2>4. Rest'
    <3>1. \A v \in Workers : worker[v].phase \notin Unsettled
      BY <1>1, <2>1 DEF Away, Unsettled, Inner
    <3>2. QED
      BY <2>1, <3>1, TallyStands DEF AllTallied, Rest
  <2>5. QED
    BY <1>2, <2>3, <2>4 DEF AllTallied
<1>7. QED
  BY <1>3, <1>4, <1>5, <1>6 DEF Under

\* A step beside the stores: a death inside a run leaves the count unsure.
LEMMA TalliedBeside ==
  ASSUME Typed, AllTallied, NEW w \in Workers, Beside(w)
  PROVE  AllTallied'
<1>1. /\ UNCHANGED <<rows, manifest, record>>
      /\ \A v \in Workers : v # w => worker'[v] = worker[v]
      /\ worker'[w].phase \in {"idle", "claim", "mark"}
  BY StoresStand, StartSteps, StopSteps, ClaimSteps DEF Beside, Idle
<1>2. (unsure => unsure') /\ (unsure' \/ worker[w].phase \notin Unsettled)
  <2>1. CASE Request(w) \/ Reset(w) \/ Requeue(w) \/ Claim(w) \/ SyncGraph(w)
    <3>1. unsure' = unsure /\ worker[w].phase \in {"idle", "claim", "graph"}
      BY <2>1 DEF Request, Reset, Requeue, Claim, SyncGraph, At_
    <3>2. QED
      BY <3>1 DEF Unsettled, Inner
  <2>2. CASE Crash(w)
    <3>1. unsure' = (unsure \/ worker[w].phase \notin {"claim", "drop", "graph"})
      BY <2>2 DEF Crash
    <3>2. unsure \/ worker[w].phase \notin {"claim", "drop", "graph"} => unsure'
      BY <3>1
    <3>3. QED
      BY <3>2 DEF Unsettled, Inner
  <2>3. QED
    BY <2>1, <2>2 DEF Beside
<1>3. Tally' = Tally
  BY <1>1, TallyStands
<1>4. Opens(w)' /\ Balanced(w)'
  BY <1>1, NothingTallied DEF Unsettled, Inner
<1>5. ASSUME NEW v \in Workers, v # w
      PROVE  Opens(v)' /\ Balanced(v)'
  <2>1. Opens(v) /\ Balanced(v) /\ worker'[v] = worker[v]
    BY <1>1, <1>5 DEF AllTallied
  <2>2. Finished(v)' = Finished(v) /\ Gained(v)' = Gained(v)
    BY <2>1 DEF Finished, Group, ToEmbed, ToRelocate, SameText, New, Prev, Gained, Gains, Gain
  <2>3. QED
    BY <1>1, <1>2, <1>3, <2>1, <2>2 DEF Opens, Balanced, Counts, Even, FromRecord
<1>6. Rest'
  <2> SUFFICES ASSUME \A v \in Workers : worker'[v].phase \notin Unsettled,
                      ~record'.uncertain, ~unsure'
               PROVE  record'.chunks = Cardinality(Tally)
    BY <1>3 DEF Rest
  <2>1. \A v \in Workers : worker[v].phase \notin Unsettled
    BY <1>1, <1>2
  <2>2. QED
    BY <1>1, <1>2, <2>1 DEF AllTallied, Rest
<1>7. QED
  BY <1>4, <1>5, <1>6 DEF AllTallied

\* Every step keeps the count and the rows in balance.
LEMMA TallyStep ==
  ASSUME Sound, Told, AllTallied, [Next]_vars
  PROVE  AllTallied'
<1>1. CASE UNCHANGED vars \/ ClaimExpires
  <2>1. UNCHANGED <<rows, manifest, record, worker, unsure>>
    BY <1>1 DEF vars, ClaimExpires
  <2>2. Tally' = Tally
    BY <2>1, TallyStands
  <2>3. \A v \in Workers : Gained(v)' = Gained(v)
    BY <2>1 DEF Finished, Group, ToEmbed, ToRelocate, SameText, New, Prev, Gained, Gains, Gain
  <2>4. QED
    BY <2>1, <2>2, <2>3 DEF AllTallied, Rest, Opens, Balanced, Counts, Even, FromRecord
<1>2. QED
  BY <1>1, TalliedUnder, TalliedBeside, StepCases DEF Sound

LEMMA TallyInit == Init => AllTallied
<1> SUFFICES ASSUME Init PROVE AllTallied
  OBVIOUS
<1>1. \A w \in Workers : worker[w].phase = "idle"
  BY DEF Init, Idle
<1>2. Tally = {} /\ record.chunks = 0
  BY DEF Init, Tally
<1>3. Rest
  BY <1>2, FS_EmptySet DEF Rest
<1>4. \A w \in Workers : Opens(w) /\ Balanced(w)
  BY <1>1 DEF Opens, Balanced, Counts, Unsettled, Inner
<1>5. QED
  BY <1>3, <1>4 DEF AllTallied

\* The chunk count on record is the number of counted rows in the store: what a
\* run found, plus what its confirmed files gained, less what it deleted, or a
\* recount (indexer/run.rs, the counters of the run and `recount`), whatever failed
\* or was retried before, if no run outlives its claim.
THEOREM CountIsHonest ==
  ASSUME ~Outlives
  PROVE  Spec => []CountHonest
<1>1. Sound /\ Told /\ AllTallied /\ [Next]_vars => Sound' /\ Told' /\ AllTallied'
  BY ToldStep, TallyStep
<1>2. Init => Sound /\ Told /\ AllTallied
  BY KeptInit, ToldInit, TallyInit
<1>3. Sound /\ Told /\ AllTallied => CountHonest
  <2> SUFFICES ASSUME Sound, Told, AllTallied, record.state \in {"ready", "failed"},
                      ~record.uncertain, ~unsure
               PROVE  record.chunks
                        = Cardinality(rows \cap UNION {Counted(manifest[p]) : p \in Paths})
    BY DEF CountHonest
  <2>1. \A w \in Workers : worker[w].phase \notin Unsettled
    BY DEF Told, Marked
  <2>2. record.chunks = Cardinality(Tally)
    BY <2>1 DEF AllTallied, Rest
  <2>3. Tally = rows \cap UNION {Counted(manifest[p]) : p \in Paths}
    BY TallyIs DEF Sound, Told, Stored
  <2>4. QED
    BY <2>2, <2>3
<1>4. QED
  BY <1>1, <1>2, <1>3, PTL DEF Spec
=============================================================================

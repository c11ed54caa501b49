------------------------------ MODULE IndexRun ------------------------------
(***************************************************************************)
(* The repository index: one repository, one embedding signature.  The     *)
(* chunk rows, the manifest that names them, the record that says which    *)
(* revision they reflect, the claim that lets one worker in at a time, and *)
(* the code graph.  A worker is an indexing run started by a delivery      *)
(* (server/indexing.rs, indexer/run.rs) or an operator's reset             *)
(* (server/admin.rs).  Every call to a store is a step of its own, because *)
(* a process can die, and a call can fail or lose its answer, between any  *)
(* two of them.                                                            *)
(*                                                                         *)
(* A chunk of a file is <<at, hash>>: where it starts and what it says;    *)
(* its row id adds the path.  The order in which a run takes files and     *)
(* chunks is the walk's business and is left open.                         *)
(***************************************************************************)
EXTENDS Integers, FiniteSets

CONSTANTS
  Paths,        \* paths of files
  SubPaths,     \* those under a submodule
  Revisions,    \* commits
  Present,      \* Present[r]: the paths the selector takes from the commit
  Tree,         \* Tree[r][p]: the chunks of the file, none if it yields no text
  At, Hashes,   \* start lines and content hashes of chunks
  None,         \* no manifest entry, no revision, no file
  Workers,      \* indexing tasks, of all processes
  GroupSize,    \* files carried at once
  BatchSize,    \* chunks embedded by one call
  MaxClaims,    \* bound: claims taken in a behaviour
  MaxFaults,    \* bound: failed calls and deaths in a behaviour
  Outlives      \* may a run outlive its claim?

Id == Paths \X At \X Hashes

\* What the manifest says of a path (IndexedFile).
Entry == [chunks : SUBSET Id, pending : SUBSET Id, stale : BOOLEAN]

ASSUME IndexAssumption ==
  /\ None \notin Entry
  /\ SubPaths \subseteq Paths
  /\ At \subseteq Nat
  /\ IsFiniteSet(Paths) /\ IsFiniteSet(At) /\ IsFiniteSet(Hashes)
  /\ Present \in [Revisions -> SUBSET Paths]
  /\ Tree \in [Revisions -> [Paths -> SUBSET (At \X Hashes)]]
  /\ GroupSize \in Nat \ {0} /\ BatchSize \in Nat \ {0}
  /\ MaxClaims \in Nat /\ MaxFaults \in Nat
  /\ Outlives \in BOOLEAN

VARIABLES
  rows,       \* ids in the chunk store
  manifest,   \* path -> what the manifest says of it
  record,     \* the repository's record
  claim,      \* the fence of the claim in force, 0 if there is none
  worker,     \* what each worker is doing
  graph,      \* path -> the content its part of the code graph was built from
  claims,     \* claims taken so far; the last is the newest fence
  faults,     \* faults so far
  torn,       \* history: counted ids a delete took while an entry names them
  unsure,     \* history: a run ended unsettled, a counted delete failed after
              \* it took rows, a run failed before it could act on a record
              \* that is uncertain, or a recount took a vanished row for a row
  owed        \* history: the graph missed a run that the record does not tell

vars == <<rows, manifest, record, claim, worker, graph, claims, faults,
          torn, unsure, owed>>
stores == <<rows, manifest, record, claim, graph>>

\* What is asked of a run: the commit, and whether policy allows its submodules.
Target == [rev : Revisions, allowed : BOOLEAN]

Confirmed(ids) == [chunks |-> ids, pending |-> {}, stale |-> FALSE]

Idle == [phase |-> "idle", fence |-> 0]
Start(job, t, sub) ==
  [phase |-> "claim", job |-> job, want |-> t, sub |-> sub, fence |-> 0,
   before |-> 0, up |-> 0, del |-> 0, recount |-> FALSE, rebuild |-> FALSE,
   budget |-> FALSE, failed |-> FALSE, todo |-> {}, removed |-> {},
   swept |-> {}, changed |-> {}, known |-> <<>>, files |-> {}, left |-> {}]

-----------------------------------------------------------------------------
(* What a run sees of its checkout.                                        *)

Ids(p, content) == {<<p, c[1], c[2]>> : c \in content}

\* Files the walk selects: a submodule that was not fetched is not there.
Selected(t, sub) ==
  {p \in Present[t.rev] : p \in SubPaths => sub = "fetched"}
Named(e) == IF e = None THEN {} ELSE e.chunks \cup e.pending

\* Ids on record as stored and counted.
Counted(e) ==
  IF e = None THEN {}
  ELSE e.chunks \cup (IF e.stale THEN e.pending ELSE {})

\* FileWork: the plan for path p of the group worker w has in hand.
New(w, p) == Ids(p, Tree[worker[w].want.rev][p])
Prev(w, p) == Counted(worker[w].known[p])
Stale(w, p) == Prev(w, p) \ New(w, p)
Orphans(w, p) ==
  LET e == worker[w].known[p]
  IN (IF e = None \/ e.stale THEN {} ELSE e.pending) \ (New(w, p) \cup Stale(w, p))
SameText(w, p, i) == {j \in Prev(w, p) : j[3] = i[3]}
ToRelocate(w, p) ==
  {i \in New(w, p) \ Prev(w, p) : SameText(w, p, i) # {}}
ToEmbed(w, p) == (New(w, p) \ Prev(w, p)) \ ToRelocate(w, p)

\* The row a moved chunk takes its vector from.
Source(w, p, i) ==
  CHOOSE j \in SameText(w, p, i) : \A k \in SameText(w, p, i) : k[2] <= j[2]

IntentAfterwards(w, p) ==
  [chunks |-> Prev(w, p), stale |-> FALSE, pending |-> Stale(w, p) \cup Orphans(w, p)]
Intent(w, p) ==
  [chunks |-> Prev(w, p), stale |-> FALSE,
   pending |-> New(w, p) \cup Stale(w, p) \cup Orphans(w, p)]
Confirmation(w, p) ==
  [chunks |-> New(w, p), pending |-> Stale(w, p), stale |-> TRUE]
Finalized(w, p) == Confirmed(New(w, p))

Group(w) == DOMAIN worker[w].known
FinishedAnyway(w) == Group(w)
Finished(w) == {p \in Group(w) : ToEmbed(w, p) \cap worker[w].left = {}}

Wrapping(a, b) == a - b
Less(a, b) == IF a > b THEN a - b ELSE 0     \* saturating_sub
Chunks(w) == Less(worker[w].before + worker[w].up, worker[w].del)

-----------------------------------------------------------------------------
Init ==
  /\ rows = {} /\ manifest = [p \in Paths |-> None]
  /\ record = [state |-> "absent", revision |-> None, message |-> FALSE,
               uncertain |-> FALSE, chunks |-> 0, fence |-> 0]
  /\ claim = 0
  /\ worker = [w \in Workers |-> Idle]
  /\ graph = [p \in Paths |-> None]
  /\ claims = 0 /\ faults = 0
  /\ torn = {} /\ unsure = FALSE /\ owed = FALSE

\* A call that failed: before it reached the store, or after.
Fault == faults < MaxFaults /\ faults' = faults + 1
Set(w, r) == worker' = [worker EXCEPT ![w] = r]
At_(w, phase) == worker[w].phase = phase
Go(w, phase) == Set(w, [worker[w] EXCEPT !.phase = phase])

\* `?` inside the run: on to the release of a failed run.
Fails(w) == Set(w, [worker[w] EXCEPT !.phase = "settle", !.failed = TRUE])

\* `?` outside it, or a dead process: the claim stays behind.
Stops(w) == Set(w, Idle)

Fresh(t) == record.state = "ready" /\ record.revision = t

-----------------------------------------------------------------------------
(* Starting: ensure_indexed, with_requeue, reindex, claim.                 *)

\* A delivery asks for a commit that the record does not reflect.  Policy
\* denies submodules, or allows them and the fetch works or does not.
Request(w) ==
  /\ At_(w, "idle") /\ claims < MaxClaims
  /\ \E t \in Target :
       /\ ~Fresh(t)
       /\ \E sub \in IF t.allowed THEN {"fetched", "missing"} ELSE {"denied"} :
            Set(w, Start("index", t, sub))
  /\ UNCHANGED <<stores, claims, faults, torn, unsure, owed>>

\* An operator asks for the index to be discarded.
Reset(w) ==
  /\ At_(w, "idle") /\ claims < MaxClaims
  /\ Set(w, Start("reset", None, "fetched"))
  /\ UNCHANGED <<stores, claims, faults, torn, unsure, owed>>

\* The claim is an insert under a unique key, then the record.
Claim(w) ==
  /\ At_(w, "claim") /\ claim = 0 /\ claims < MaxClaims
  /\ claim' = claims + 1 /\ claims' = claims + 1
  /\ \/ /\ Set(w, [worker[w] EXCEPT !.phase = "mark", !.fence = claims + 1])
        /\ UNCHANGED faults
     \/ Fault /\ Stops(w)
  /\ UNCHANGED <<rows, manifest, record, graph, torn, unsure, owed>>

\* Somebody else has the claim: requeue, and look again from the start.
Requeue(w) ==
  /\ At_(w, "claim") /\ claim # 0
  /\ Stops(w)
  /\ UNCHANGED <<stores, claims, faults, torn, unsure, owed>>

MarkIndexing(w) ==
  LET marked == [record EXCEPT !.state = "indexing", !.fence = worker[w].fence]
  IN /\ At_(w, "mark")
     /\ \/ /\ record' = marked
           /\ Go(w, IF worker[w].job = "reset" THEN "wipe" ELSE "begin")
           /\ UNCHANGED faults
        \/ Fault /\ record' \in {record, marked} /\ Stops(w)
     /\ UNCHANGED <<rows, manifest, claim, graph, claims, torn, unsure, owed>>

\* Everything the run decides under the claim: where its count starts, what is
\* owed from earlier runs, what the walk no longer sees.  Rows of a submodule
\* whose fetch failed are kept; those of a denied one go first.
Begin(w) ==
  LET t == worker[w].want
      sub == worker[w].sub
      unseen == {p \in Paths : manifest[p] # None} \ Selected(t, sub)
      removed == IF sub = "missing" THEN unseen \ SubPaths ELSE unseen
      revoked == IF sub = "denied" THEN removed \cap SubPaths ELSE {}
  IN /\ At_(w, "begin")
     /\ \/ /\ Set(w, [worker[w] EXCEPT
                 !.phase = IF revoked # {} THEN "revoke" ELSE "group",
                 !.before = record.chunks,
                 !.rebuild = record.revision = None \/ record.message,
                 !.recount = record.revision = None \/ record.uncertain,
                 !.todo = Selected(t, sub),
                 !.removed = removed, !.swept = revoked])
           /\ UNCHANGED faults
           /\ UNCHANGED unsure
        \/ Fault /\ Fails(w) /\ unsure' = (unsure \/ record.uncertain)
     /\ UNCHANGED <<stores, claims, torn, owed>>

-----------------------------------------------------------------------------
(* Removing rows: remove_rows, by counted id and then by path.             *)

\* Delete ids the manifest counts; `then` is the phase that follows.
DeleteCounted(w, ids, then) ==
  \/ /\ rows' = rows \ ids
     /\ Set(w, [worker[w] EXCEPT
           !.phase = then, !.del = @ + Cardinality(ids \cap rows)])
     /\ torn' = torn \cup ids
     /\ UNCHANGED <<faults, unsure>>
  \/ /\ Fault
     /\ \E lost \in SUBSET (ids \cap rows) :
          /\ rows' = rows \ lost /\ torn' = torn \cup lost
          /\ unsure' = (unsure \/ lost # {})
     /\ Fails(w)

RemoveCounted(w) ==
  /\ \/ At_(w, "revoke") /\ DeleteCounted(w,
          UNION {Counted(manifest[p]) : p \in worker[w].swept}, "revoke sweep")
     \/ At_(w, "remove") /\ DeleteCounted(w,
          UNION {Counted(manifest[p]) : p \in worker[w].swept}, "remove sweep")
  /\ UNCHANGED <<manifest, record, claim, graph, claims, owed>>

SweepPaths(w) ==
  LET kept == {i \in rows : i[1] \notin worker[w].swept}
      next == IF At_(w, "revoke sweep") THEN "group" ELSE "forget"
  IN /\ At_(w, "revoke sweep") \/ At_(w, "remove sweep")
     /\ \/ rows' = kept /\ Go(w, next) /\ UNCHANGED faults
        \/ /\ Fault /\ Fails(w)
           /\ \E lost \in SUBSET (rows \ kept) : rows' = rows \ lost
     /\ UNCHANGED <<manifest, record, claim, graph, claims, torn, unsure, owed>>

Without(ps) == [p \in Paths |-> IF p \in ps THEN None ELSE manifest[p]]
Untorn(ps) == {i \in torn : i[1] \notin ps}

Forget(w) ==
  /\ At_(w, "forget")
  /\ \/ /\ manifest' = Without(worker[w].swept) /\ torn' = Untorn(worker[w].swept)
        /\ Go(w, "settle") /\ UNCHANGED faults
     \/ /\ Fault /\ Fails(w)
        /\ \E ps \in SUBSET worker[w].swept :
             manifest' = Without(ps) /\ torn' = Untorn(ps)
  /\ UNCHANGED <<rows, record, claim, graph, claims, unsure, owed>>

-----------------------------------------------------------------------------
(* One group of files: index_group.                                        *)

\* Take the next files.  One that yields no text is reported and left as it is.
NextGroup(w) ==
  /\ At_(w, "group") /\ ~worker[w].budget /\ worker[w].todo # {}
  /\ \/ /\ UNCHANGED faults
        /\ \E g \in SUBSET worker[w].todo :
             LET work == {p \in g : Tree[worker[w].want.rev][p] # {}}
                 known == [p \in work |-> manifest[p]]
                 moved == {p \in work : Counted(known[p])
                             # Ids(p, Tree[worker[w].want.rev][p])}
             IN /\ g # {} /\ Cardinality(g) <= GroupSize
                /\ Cardinality(g) < GroupSize => g = worker[w].todo
                /\ Set(w, [worker[w] EXCEPT
                     !.phase = IF work = {} THEN "group" ELSE "intent",
                     !.todo = @ \ g, !.known = known, !.files = work,
                     !.changed = @ \cup moved])
     \/ Fault /\ Fails(w)
  /\ UNCHANGED <<stores, claims, torn, unsure, owed>>

\* The manifest writes its rows one at a time.
Record(w, p, entry, then) ==
  LET rest == worker[w].files \ {p}
  IN /\ manifest' = [manifest EXCEPT ![p] = entry]
     /\ Set(w, [worker[w] EXCEPT
           !.files = rest, !.phase = IF rest = {} THEN then ELSE @])

RecordFails(p, entry) ==
  Fault /\ manifest' \in {manifest, [manifest EXCEPT ![p] = entry]}

RecordIntent(w) ==
  /\ At_(w, "intent")
  /\ \E p \in worker[w].files :
       \/ Record(w, p, Intent(w, p), "relocate") /\ UNCHANGED faults
       \/ RecordFails(p, Intent(w, p)) /\ Fails(w)
  /\ UNCHANGED <<rows, record, claim, graph, claims, torn, unsure, owed>>

Moves(w) ==
  UNION {{<<Source(w, p, i), i>> : i \in ToRelocate(w, p)} : p \in Group(w)}
Copied(moves) == {m[2] : m \in {m \in moves : m[1] \in rows}}

\* Copy the rows of chunks that moved inside their file; a missing one fails
\* the run, after the others were copied.
Relocate(w) ==
  LET found == Copied(Moves(w))
      left == UNION {ToEmbed(w, p) : p \in Group(w)}
  IN /\ At_(w, "relocate")
     /\ \/ /\ rows' = rows \cup found
           /\ IF Cardinality(found) = Cardinality(Moves(w))
              THEN Set(w, [worker[w] EXCEPT !.left = left,
                     !.phase = IF left = {} THEN "orphans" ELSE "embed"])
              ELSE Fails(w)
           /\ UNCHANGED faults
        \/ /\ Fault /\ Fails(w)
           /\ \E some \in SUBSET found : rows' = rows \cup some
     /\ UNCHANGED <<manifest, record, claim, graph, claims, torn, unsure, owed>>

\* One call to the embedder and one upsert, whose rows are written concurrently.
EmbedBatch(w) ==
  LET left == worker[w].left
  IN /\ At_(w, "embed")
     /\ \E batch \in SUBSET left :
          /\ batch # {} /\ Cardinality(batch) <= BatchSize
          /\ \/ /\ rows' = rows \cup batch
                /\ Set(w, [worker[w] EXCEPT !.left = left \ batch,
                     !.phase = IF left = batch THEN "orphans" ELSE @])
                /\ UNCHANGED faults
             \/ /\ Fault /\ Fails(w)
                /\ \E some \in SUBSET batch : rows' = rows \cup some
     /\ UNCHANGED <<manifest, record, claim, graph, claims, torn, unsure, owed>>

\* The next batch would cross the spend ceiling.
BudgetStop(w) ==
  /\ At_(w, "embed")
  /\ Set(w, [worker[w] EXCEPT !.budget = TRUE, !.phase = "orphans"])
  /\ UNCHANGED <<stores, claims, faults, torn, unsure, owed>>

\* Rows an earlier intent may have written and nobody confirmed.
DeleteOrphans(w) ==
  LET done == Finished(w)
      orphans == UNION {Orphans(w, p) : p \in done}
  IN /\ At_(w, "orphans")
     /\ \/ /\ rows' = rows \ orphans
           /\ Set(w, [worker[w] EXCEPT !.files = done,
                !.phase = IF done = {} THEN "group" ELSE "confirm"])
           /\ UNCHANGED faults
        \/ /\ Fault /\ Fails(w)
           /\ \E lost \in SUBSET (orphans \cap rows) : rows' = rows \ lost
     /\ UNCHANGED <<manifest, record, claim, graph, claims, torn, unsure, owed>>

\* What a confirmed file adds to the count.
AddedEmbedded(w, ps) == Cardinality(UNION {ToEmbed(w, p) : p \in ps})
Added(w, ps) ==
  Cardinality((UNION {New(w, p) : p \in ps}) \ (UNION {Prev(w, p) : p \in ps}))

\* Confirm the files whose every chunk was written.  When that fails part-way
\* the manifest is asked which ones are on record, and those are counted; when
\* it cannot tell, the next run recounts.
Confirm(w) ==
  /\ At_(w, "confirm")
  /\ \E p \in worker[w].files :
       \/ /\ manifest' = [manifest EXCEPT ![p] = Confirmation(w, p)]
          /\ LET rest == worker[w].files \ {p}
             IN Set(w, [worker[w] EXCEPT
                  !.files = IF rest = {} THEN Finished(w) ELSE rest,
                  !.phase = IF rest = {} THEN "stale" ELSE @,
                  !.up = IF rest = {} THEN @ + Added(w, Finished(w)) ELSE @])
          /\ UNCHANGED faults
       \/ /\ RecordFails(p, Confirmation(w, p))
          /\ LET landed == {q \in Finished(w) : manifest'[q] # None /\ manifest'[q].chunks = New(w, q)}
             IN Set(w, [worker[w] EXCEPT !.phase = "settle", !.failed = TRUE,
                  !.up = @ + Added(w, landed)])
       \/ /\ faults + 2 <= MaxFaults /\ faults' = faults + 2
          /\ manifest' \in {manifest, [manifest EXCEPT ![p] = Confirmation(w, p)]}
          /\ Set(w, [worker[w] EXCEPT !.phase = "settle", !.failed = TRUE,
               !.recount = TRUE])
  /\ UNCHANGED <<rows, record, claim, graph, claims, torn, unsure, owed>>

\* Only now is anything deleted.
DeleteStale(w) ==
  /\ At_(w, "stale")
  /\ DeleteCounted(w, UNION {Stale(w, p) : p \in Finished(w)}, "finalize")
  /\ UNCHANGED <<manifest, record, claim, graph, claims, owed>>

Finalize(w) ==
  /\ At_(w, "finalize")
  /\ \E p \in worker[w].files :
       /\ \/ Record(w, p, Finalized(w, p), "group") /\ UNCHANGED faults
          \/ RecordFails(p, Finalized(w, p)) /\ Fails(w)
       /\ torn' = torn \ (Stale(w, p) \ Named(manifest'[p]))
  /\ UNCHANGED <<rows, record, claim, graph, claims, unsure, owed>>

\* Every group is through, or the budget is: removals come last.
EndGroups(w) ==
  /\ At_(w, "group") /\ (worker[w].budget \/ worker[w].todo = {})
  /\ Set(w, [worker[w] EXCEPT !.swept = worker[w].removed,
       !.known = <<>>, !.left = {},
       !.phase = IF worker[w].removed = {} THEN "settle" ELSE "remove"])
  /\ UNCHANGED <<stores, claims, faults, torn, unsure, owed>>
-----------------------------------------------------------------------------
(* An operator's reset: `?` everywhere, so a failure keeps the claim.      *)

Wipe(w) ==
  LET known == {p \in Paths : manifest[p] # None}
      kept == {i \in rows : i[1] \notin known}
      taken == UNION {Counted(manifest[p]) : p \in known}
  IN /\ At_(w, "wipe")
     /\ \/ /\ rows' = kept /\ torn' = torn \cup taken
           /\ Set(w, [worker[w] EXCEPT !.phase = "unname", !.swept = known])
           /\ UNCHANGED <<faults, unsure, owed>>
        \/ /\ Fault /\ Stops(w) /\ unsure' = TRUE /\ owed' = TRUE
           /\ \E lost \in SUBSET (rows \ kept) :
                rows' = rows \ lost /\ torn' = torn \cup (lost \cap taken)
     /\ UNCHANGED <<manifest, record, claim, graph, claims>>

Unname(w) ==
  /\ At_(w, "unname")
  /\ \/ /\ manifest' = Without(worker[w].swept) /\ torn' = Untorn(worker[w].swept)
        /\ Go(w, "settle") /\ UNCHANGED <<faults, unsure, owed>>
     \/ /\ Fault /\ Stops(w) /\ unsure' = TRUE /\ owed' = TRUE
        /\ \E ps \in SUBSET worker[w].swept :
             manifest' = Without(ps) /\ torn' = Untorn(ps)
  /\ UNCHANGED <<rows, record, claim, graph, claims>>

-----------------------------------------------------------------------------
(* Ending: guarded, settle, release, sync_graph.                           *)

\* Every counted id on record.
Recounted == Cardinality(UNION {Counted(manifest[p]) : p \in Paths})

\* A partial run does not claim its revision.
WholeAnyway(w) == ~worker[w].budget
Whole(w) == ~worker[w].budget /\ worker[w].sub # "missing"
Done(revision, chunks) ==
  [record EXCEPT !.state = "ready", !.revision = revision, !.chunks = chunks,
                 !.message = FALSE, !.uncertain = FALSE]
GaveUp(w, uncertain, counts) ==
  [record EXCEPT !.state = "failed", !.message = TRUE, !.uncertain = uncertain,
                 !.chunks = IF counts THEN Chunks(w) ELSE @]

\* How the run leaves the record, and whether the run went well.
Settlements(w) ==
  IF worker[w].job = "reset" THEN {<<Done(None, 0), TRUE>>}
  ELSE IF worker[w].failed
  THEN {<<GaveUp(w, worker[w].recount, worker[w].up # 0 \/ worker[w].del # 0), FALSE>>}
  ELSE {<<Done(IF Whole(w) THEN worker[w].want ELSE None,
            IF worker[w].recount THEN Recounted ELSE Chunks(w)), TRUE>>}

\* The record first.  The update names the fence: a run that lost its claim to
\* a newer one is refused, and gives up.
Settle(w) ==
  /\ At_(w, "settle")
  /\ IF record.fence = worker[w].fence
     THEN \/ \E s \in Settlements(w) :
               /\ record' = s[1]
               /\ Set(w, [worker[w] EXCEPT !.phase = "drop", !.failed = ~s[2]])
               /\ unsure' = (unsure \/ (s[2] /\ worker[w].recount /\ torn # {}))
               /\ UNCHANGED <<faults, owed>>
          \/ \E s \in Settlements(w) :
               /\ Fault /\ record' \in {record, s[1]} /\ Stops(w)
               /\ unsure' = TRUE /\ owed' = TRUE
     ELSE record' = record /\ Stops(w) /\ UNCHANGED <<faults, unsure, owed>>
  /\ UNCHANGED <<rows, manifest, claim, graph, claims, torn>>

\* The recount could not be read.
RecountFails(w) ==
  /\ At_(w, "settle") /\ worker[w].job = "index" /\ ~worker[w].failed
  /\ worker[w].recount
  /\ Fault
  /\ IF record.fence = worker[w].fence
     THEN /\ record' = GaveUp(w, TRUE, FALSE)
          /\ Set(w, [worker[w] EXCEPT !.phase = "drop", !.failed = TRUE])
     ELSE record' = record /\ Stops(w)
  /\ UNCHANGED <<rows, manifest, claim, graph, claims, torn, unsure, owed>>

\* The claim last, again by its fence.  A complete run goes on to the graph.
FreedUnfenced(w) == 0
Freed(w) == IF claim = worker[w].fence THEN 0 ELSE claim
DropClaim(w) ==
  LET syncs == worker[w].job = "index" /\ ~worker[w].failed
  IN /\ At_(w, "drop")
     /\ \/ /\ claim' = Freed(w)
           /\ IF syncs /\ worker[w].sub # "missing" THEN Go(w, "graph") ELSE Stops(w)
           /\ UNCHANGED <<faults, owed>>
        \/ /\ Fault /\ claim' \in {claim, Freed(w)} /\ Stops(w)
           /\ owed' = (owed \/ syncs)
     /\ UNCHANGED <<rows, manifest, record, graph, claims, torn, unsure>>

GraphOf(w, p) ==
  IF p \in Selected(worker[w].want, worker[w].sub)
  THEN Tree[worker[w].want.rev][p] ELSE None

\* From the checkout of the run, after the claim is gone: whole when the graph
\* is empty or the run began from an incomplete one, else what changed.
RebuildsEmpty(w) == \A p \in Paths : graph[p] = None
RebuildsWhole(w) == worker[w].rebuild \/ \A p \in Paths : graph[p] = None
SyncGraph(w) ==
  LET whole == RebuildsWhole(w)
      parsed == IF whole THEN Paths ELSE worker[w].changed \cup worker[w].removed
      next == [p \in Paths |-> IF p \in parsed THEN GraphOf(w, p) ELSE graph[p]]
      late == record.fence # worker[w].fence
  IN /\ At_(w, "graph")
     /\ Stops(w)
     /\ \/ /\ graph' = next /\ UNCHANGED faults
           /\ owed' = (late \/ (owed /\ ~whole))
        \/ /\ Fault /\ owed' = TRUE
           /\ \E some \in SUBSET parsed :
                graph' = [p \in Paths |-> IF p \in some THEN None ELSE graph[p]]
     /\ UNCHANGED <<rows, manifest, record, claim, claims, torn, unsure>>

\* The process dies.
Crash(w) ==
  /\ ~At_(w, "idle") /\ Fault
  /\ Stops(w)
  /\ unsure' = (unsure \/ worker[w].phase \notin {"claim", "drop", "graph"})
  /\ owed' = (owed \/ ~At_(w, "claim"))
  /\ UNCHANGED <<stores, claims, torn>>

\* The store drops a claim of two hours: one whose run is over, unless runs may
\* take that long; none does between the two writes of its claim.
ClaimExpires ==
  /\ claim # 0
  /\ \A w \in Workers : worker[w].fence = claim => Outlives /\ ~At_(w, "mark")
  /\ claim' = 0
  /\ UNCHANGED <<rows, manifest, record, worker, graph, claims, faults,
                 torn, unsure, owed>>

Run(w) ==
  \/ Claim(w) \/ Requeue(w) \/ MarkIndexing(w) \/ Begin(w)
  \/ RemoveCounted(w) \/ SweepPaths(w) \/ Forget(w)
  \/ NextGroup(w) \/ RecordIntent(w) \/ Relocate(w) \/ EmbedBatch(w)
  \/ BudgetStop(w) \/ DeleteOrphans(w) \/ Confirm(w) \/ DeleteStale(w)
  \/ Finalize(w) \/ EndGroups(w) \/ Wipe(w) \/ Unname(w)
  \/ Settle(w) \/ RecountFails(w) \/ DropClaim(w) \/ SyncGraph(w)

Next ==
  \/ \E w \in Workers : Request(w) \/ Reset(w) \/ Run(w) \/ Crash(w)
  \/ ClaimExpires

Spec == Init /\ [][Next]_vars

-----------------------------------------------------------------------------
(* What the index promises.                                                *)

Phases ==
  {"idle", "claim", "mark", "begin", "revoke", "revoke sweep", "group",
   "intent", "relocate", "embed", "orphans", "confirm", "stale", "finalize",
   "remove", "remove sweep", "forget", "wipe", "unname", "settle", "drop",
   "graph"}

\* The stores hold what their types say, and a fence is one that was handed out.
TypeOK ==
  /\ rows \subseteq Id
  /\ manifest \in [Paths -> Entry \cup {None}]
  /\ record.state \in {"absent", "indexing", "ready", "failed"}
  /\ record.revision \in Target \cup {None} /\ record.chunks \in Nat
  /\ claim \in 0..claims /\ record.fence \in 0..claims
  /\ \A w \in Workers : worker[w].phase \in Phases
  /\ torn \subseteq Id

\* "Leave chunks in the index that no manifest entry mentions": at every moment,
\* whatever failed or died, each row is named by the entry of its path, so that
\* a later run can find and delete it (IndexedFile::pending).
NothingOrphaned == \A i \in rows : i \in Named(manifest[i[1]])

\* The revision the record claims, when it claims one.
ClaimsRevision == record.state = "ready" /\ record.revision # None
Expected ==
  Selected(record.revision, IF record.revision.allowed THEN "fetched" ELSE "denied")
Holds(p) == Tree[record.revision.rev][p]
Wanted(p) == IF p \in Expected THEN Ids(p, Holds(p)) ELSE {}
Blanked(p) == p \in Expected /\ Holds(p) = {}
RowsOf(p) == {i \in rows : i[1] = p}

\* An index that is fresh for a commit quotes nothing else: no superseded chunk,
\* no deleted file, no submodule that policy denies.  Files that yield no text
\* any more are apart: the code skips them and leaves what they had.
FreshHoldsNothingElse ==
  ClaimsRevision => \A p \in Paths : ~Blanked(p) => RowsOf(p) \subseteq Wanted(p)

\* An index that is fresh for a commit holds every chunk of it, but for chunks
\* an interrupted removal took.
FreshHoldsAll ==
  ClaimsRevision =>
    \A p \in Paths : ~Blanked(p) => Wanted(p) \subseteq rows \cup torn

\* The chunk count on record is the number of counted rows in the store, over
\* any sequence of failed, partial and retried runs whose failures the code can
\* account for: no death, no counted delete that took rows and then failed, no run
\* that failed before it could act on a count known to be uncertain.
CountHonest ==
  claim = 0 /\ record.state \in {"ready", "failed"} /\ ~record.uncertain /\ ~unsure
    => record.chunks = Cardinality(rows \cap UNION {Counted(manifest[p]) : p \in Paths})

\* Files that have text in every commit that has them.
Textual == {p \in Paths : \A r \in Revisions : p \in Present[r] => Tree[r][p] # {}}

\* After a run that claims a revision, the graph is the one of that commit: what
\* earlier failed, partial and incomplete runs confirmed without a graph is
\* made up for (rebuild_graph).  It is not so for a file that loses its text and
\* gets it back: the manifest kept its chunks, so nothing changed, while a graph
\* that was rebuilt whole in between has nothing of it.
GraphFollows ==
  /\ ClaimsRevision /\ ~owed
  /\ \A w \in Workers : worker[w].phase \notin {"drop", "graph"}
  => \A p \in Textual : graph[p] = IF p \in Expected THEN Holds(p) ELSE None

\* A run that outlived its claim can neither settle nor delete a newer one
\* (IndexLease::fence): from the moment a run has marked the record until it
\* drops its claim, record and claim move only by that run, or with time.
Working(w) ==
  /\ worker[w].phase \notin {"idle", "claim", "mark", "graph"}
  /\ worker[w].fence = claim
NewerClaimUntouched ==
  [][\A w \in Workers :
       Working(w) /\ worker'[w] = worker[w] /\ worker' # worker
         => record' = record /\ claim' = claim]_vars

-----------------------------------------------------------------------------
(* What the documentation says and the code does not do.                   *)

\* "Confirmed: every id here is in the index" (indexer/types.rs).
ConfirmedIsIndexed ==
  ClaimsRevision =>
    \A p \in Paths : manifest[p] # None => manifest[p].chunks \subseteq rows
=============================================================================

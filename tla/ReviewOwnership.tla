--------------------------- MODULE ReviewOwnership ---------------------------
(***************************************************************************)
(* How a worker knows that it owns a review: the compare-and-swap loop of  *)
(* src/src/server/store.rs over the scheduler's document, with the clock   *)
(* of the database, and the heartbeat and local fence of                   *)
(* src/src/server/routes.rs.  One record; every call of the store is       *)
(* several steps, and any of them may fail, be cancelled or be overtaken.  *)
(***************************************************************************)
EXTENDS Naturals, FiniteSets

CONSTANTS
  Workers,    \* claim slots of the server processes
  OwnerOf,    \* identity of the process a worker runs in
  Ttl,        \* REVIEW_OWNER_TTL_MS
  Margin,     \* LOCAL_OWNER_FENCE_MARGIN_MS
  Retries,    \* REVIEW_SCHEDULER_CAS_RETRIES
  None,
  \* Bounds of the model, not of the code.
  MaxClock,   \* time
  MaxGen,     \* claims
  MaxAdrift   \* writes whose caller is gone at any one moment

ASSUME OwnershipAssumption ==
  /\ {Ttl, Margin, Retries, MaxClock, MaxGen, MaxAdrift} \subseteq Nat
  /\ Margin <= Ttl
  /\ OwnerOf \in [Workers -> {OwnerOf[w] : w \in Workers}]
  /\ None \notin {OwnerOf[w] : w \in Workers}

VARIABLES
  revision,  \* of the document
  lease,     \* of the record in it
  clock,     \* the database's
  drift,     \* what a process's monotonic clock has fallen behind it
  time,      \* history: server time of the last write
  worker,    \* each worker: its OwnedReview, and its local fence
  call,      \* the store call each task waits for
  adrift     \* writes sent by callers that are gone

vars == <<revision, lease, clock, drift, time, worker, call, adrift>>

Owners == {OwnerOf[w] : w \in Workers}
Register == INSTANCE LeaseRegister

\* A worker's own calls, and those of its heartbeat task.
Tasks == {"main", "beat"}
Callers == Workers \X Tasks
Phases == {"idle", "starting", "running", "leaving", "refused"}
Ops == {"none", "claim", "renew", "owns", "leave"}
\* failed: the write lost its last race.
Stages == {"reading", "timing", "writing", "replying", "failed"}

\* `until` is the conservative local deadline.
Worker == [phase: Phases, gen: Nat, until: Nat, lost: BOOLEAN]
Absent == [phase |-> "idle", gen |-> 0, until |-> 0, lost |-> FALSE]
Write == [rev: Nat, next: Register!Lease, now: Nat]
\* The state read, the change computed, and the answer to give.  `since` is
\* the local time the call began.
Call == [op: Ops, at: Stages, gen: Nat, since: Nat, rev: Nat,
         seen: Register!Lease, now: Nat, next: Register!Lease,
         answer: BOOLEAN, tries: Nat]
NoCall == [op |-> "none", at |-> "reading", gen |-> 0, since |-> 0, rev |-> 0,
           seen |-> Register!NoLease, now |-> 0, next |-> Register!NoLease,
           answer |-> FALSE, tries |-> 0]

\* tokio's Instant in a process
Local == clock - drift

-----------------------------------------------------------------------------
(* Store: change_review_scheduler                                          *)

Issue(c, op, gen) ==
  /\ call[c].op = "none"
  /\ call' = [call EXCEPT ![c] =
       [NoCall EXCEPT !.op = op, !.gen = gen, !.since = Local]]

\* The free function owns(), and the lease not expired.
Holds(c, r, now) ==
  /\ r.owner = OwnerOf[c[1]] /\ r.gen = call[c].gen
  /\ now < r.until

\* Whether the operation is granted on record r, and what it leaves there.  The
\* other conditions of a claim only delay it.
Granted(c, r, now) ==
  IF call[c].op = "claim" THEN Register!Free(r, now) /\ r.gen < MaxGen
  ELSE Holds(c, r, now)
After(c, r, now) ==
  IF ~Granted(c, r, now) THEN r
  ELSE CASE call[c].op = "claim" -> Register!Claimed(r, OwnerOf[c[1]], now)
         [] call[c].op = "renew" -> Register!Renewed(r, now)
         [] call[c].op = "leave" -> Register!Left(r)
         [] OTHER                -> r

Read(c) ==
  /\ call[c].op # "none" /\ call[c].at = "reading"
  /\ call' = [call EXCEPT ![c].rev = revision, ![c].seen = lease,
                          ![c].at = "timing"]
  /\ UNCHANGED <<revision, lease, clock, drift, time, worker, adrift>>

\* The server's clock is read after the state; an operation that changes
\* nothing is answered without a write.
Change(c) ==
  LET next == After(c, call[c].seen, clock) IN
  /\ call[c].op # "none" /\ call[c].at = "timing"
  /\ call' = [call EXCEPT
       ![c].now = clock, ![c].next = next,
       ![c].answer = Granted(c, call[c].seen, clock),
       ![c].at = IF next = call[c].seen THEN "replying" ELSE "writing"]
  /\ UNCHANGED <<revision, lease, clock, drift, time, worker, adrift>>

\* Mutant: the lost race is repeated with the change already computed.
Rewritten(k) == [k EXCEPT !.rev = revision, !.tries = @ + 1]
\* Another process won the compare-and-swap: start over from its state.
Reloaded(k) ==
  [k EXCEPT !.tries = @ + 1,
            !.at = IF k.tries + 1 < Retries THEN "reading" ELSE "failed"]

Commit(c) ==
  /\ call[c].op # "none" /\ call[c].at = "writing" /\ call[c].rev = revision
  /\ revision' = revision + 1
  /\ lease' = call[c].next
  /\ time' = call[c].now
  /\ call' = [call EXCEPT ![c].at = "replying"]
  /\ UNCHANGED <<clock, drift, worker, adrift>>

Overtaken(c) ==
  /\ call[c].op # "none" /\ call[c].at = "writing" /\ call[c].rev # revision
  /\ call' = [call EXCEPT ![c] = Reloaded(@)]
  /\ UNCHANGED <<revision, lease, clock, drift, time, worker, adrift>>

\* A write whose caller gave up or died reaches the database after all, or
\* never does: one overtaken by another matches no document any more.
LateCommit ==
  \E a \in adrift :
    /\ a.rev = revision
    /\ revision' = revision + 1 /\ lease' = a.next /\ time' = a.now
    /\ UNCHANGED <<clock, drift, worker, call, adrift>>

\* An operation on another record of the document takes effect.
Elsewhere ==
  /\ revision' = revision + 1
  /\ UNCHANGED <<lease, clock, drift, time, worker, call, adrift>>

Pending(c) == call[c].op # "none" /\ call[c].at = "writing"
Sent(c) == [rev |-> call[c].rev, next |-> call[c].next, now |-> call[c].now]
\* What may be left on the way when the calls of S are abandoned.
Abandoned(S) ==
  \E left \in SUBSET {Sent(c) : c \in {s \in S : Pending(s)}} :
    /\ adrift' = adrift \cup left
    /\ left # {} => 
         Cardinality({a \in adrift' : a.rev = revision}) <= MaxAdrift

-----------------------------------------------------------------------------
(* Worker: run_owned_review                                                *)

Main(w) == <<w, "main">>
Beat(w) == <<w, "beat">>

\* local_owner_valid
LocallyValid(w) == ~worker[w].lost /\ Local < worker[w].until

\* drain_review_queue: one per process, which waits for each claim in turn.
Claim(w) ==
  /\ worker[w].phase = "idle"
  /\ \A v \in Workers : OwnerOf[v] = OwnerOf[w] => call[Main(v)].op # "claim"
  /\ Issue(Main(w), "claim", 0)
  /\ UNCHANGED <<revision, lease, clock, drift, time, worker, adrift>>

\* The initial renewal establishes the local fence.
FirstRenewal(w) ==
  /\ worker[w].phase = "starting"
  /\ Issue(Main(w), "renew", worker[w].gen)
  /\ UNCHANGED <<revision, lease, clock, drift, time, worker, adrift>>

\* spawn_review_heartbeat
Heartbeat(w) ==
  /\ worker[w].phase \in {"running", "leaving"} /\ ~worker[w].lost
  /\ Issue(Beat(w), "renew", worker[w].gen)
  /\ UNCHANGED <<revision, lease, clock, drift, time, worker, adrift>>

\* check_owner_after_await, up to the await
Check(w) ==
  /\ worker[w].phase = "running" /\ LocallyValid(w)
  /\ Issue(Main(w), "owns", worker[w].gen)
  /\ UNCHANGED <<revision, lease, clock, drift, time, worker, adrift>>

\* record_owned_disposition, or the deferral of a claim made while shutting
\* down.  finish_or_yield's first attempt, when it is refused for a yield, changes
\* nothing.
Leave(w) ==
  /\ worker[w].phase \in {"starting", "running"}
  /\ Issue(Main(w), "leave", worker[w].gen)
  /\ worker' = [worker EXCEPT ![w].phase =
                  IF @ = "running" THEN "leaving" ELSE "refused"]
  /\ UNCHANGED <<revision, lease, clock, drift, time, adrift>>

\* The call c of the worker ended with this answer.
Answers(c, op, yes) ==
  /\ call[c].op = op /\ call[c].at = "replying" /\ call[c].answer = yes
  /\ call' = [call EXCEPT ![c] = NoCall]

ClaimAnswered(w) ==
  /\ \/ /\ Answers(Main(w), "claim", TRUE)
        /\ worker' = [worker EXCEPT ![w] =
             [Absent EXCEPT !.phase = "starting", !.gen = call[Main(w)].next.gen]]
     \/ Answers(Main(w), "claim", FALSE) /\ UNCHANGED worker
  /\ UNCHANGED <<revision, lease, clock, drift, time, adrift>>

\* Mutant: the deadline counts from the answer.
UntilFromAnswer(c) == Local + (Ttl - Margin)
\* conservative_owner_deadline(renewal_started)
Until(c) == call[c].since + (Ttl - Margin)

Renewed(w) ==
  /\ \E c \in {Main(w), Beat(w)} :
       /\ Answers(c, "renew", TRUE)
       /\ worker' = [worker EXCEPT ![w].until = Until(c),
            ![w].phase = IF @ = "starting" THEN "running" ELSE @]
  /\ UNCHANGED <<revision, lease, clock, drift, time, adrift>>

\* renew answered false or failed in the heartbeat: it stops.
HeartbeatLost(w) ==
  /\ \/ Answers(Beat(w), "renew", FALSE) /\ UNCHANGED adrift
     \/ /\ call[Beat(w)].op # "none" /\ Abandoned({Beat(w)})
        /\ call' = [call EXCEPT ![Beat(w)] = NoCall]
  /\ worker' = [worker EXCEPT ![w].lost = TRUE]
  /\ UNCHANGED <<revision, lease, clock, drift, time>>

\* Mutant: the store's answer is enough.
NoRecheck(w) == TRUE
\* Mongo may answer after the local deadline.
StillValid(w) == LocallyValid(w)
\* check_owner: a forge write or a model call may follow.
CheckPasses(w) ==
  /\ Answers(Main(w), "owns", TRUE)
  /\ StillValid(w)
  /\ UNCHANGED <<revision, lease, clock, drift, time, worker, adrift>>

\* The check, or a claim, failed with an error of the store.
CallFails(w) ==
  /\ call[Main(w)].op \in {"claim", "owns"}
  /\ Abandoned({Main(w)})
  /\ call' = [call EXCEPT ![Main(w)] = NoCall]
  /\ UNCHANGED <<revision, lease, clock, drift, time, worker>>

\* The outcome is recorded or refused, ownership is lost, the local fence
\* trips, or the process dies: the worker and its heartbeat are gone.
Gone(w) ==
  /\ worker[w].phase # "idle"
  /\ Abandoned({Main(w), Beat(w)})
  /\ worker' = [worker EXCEPT ![w] = Absent]
  /\ call' = [call EXCEPT ![Main(w)] = NoCall, ![Beat(w)] = NoCall]
  /\ UNCHANGED <<revision, lease, clock, drift, time>>

Tick ==
  /\ clock < MaxClock
  /\ clock' = clock + 1
  /\ drift' \in {drift, drift + 1} \cap 0..Margin
  /\ UNCHANGED <<revision, lease, time, worker, call, adrift>>

-----------------------------------------------------------------------------
(* Specification                                                           *)

Init ==
  /\ revision = 0 /\ lease = Register!NoLease
  /\ clock = 0 /\ drift = 0 /\ time = 0
  /\ worker = [w \in Workers |-> Absent]
  /\ call = [c \in Callers |-> NoCall]
  /\ adrift = {}

StoreStep(c) == Read(c) \/ Change(c) \/ Commit(c) \/ Overtaken(c)
WorkerStep(w) ==
  \/ Claim(w) \/ ClaimAnswered(w) \/ FirstRenewal(w) \/ Heartbeat(w)
  \/ Renewed(w) \/ HeartbeatLost(w) \/ Check(w) \/ CheckPasses(w)
  \/ CallFails(w) \/ Leave(w) \/ Gone(w)

Next ==
  \/ \E c \in Callers : StoreStep(c)
  \/ \E w \in Workers : WorkerStep(w)
  \/ LateCommit
  \/ Elsewhere
  \/ Tick

Spec == Init /\ [][Next]_vars

-----------------------------------------------------------------------------
(* Properties                                                              *)

\* The document, the workers and their calls have their declared shapes.
TypeOK ==
  /\ revision \in Nat /\ clock \in Nat /\ time \in Nat
  /\ drift \in 0..Margin /\ drift <= clock
  /\ lease \in Register!Lease
  /\ worker \in [Workers -> Worker]
  /\ call \in [Callers -> Call]
  /\ adrift \subseteq Write

\* The record is w's in the document, and its lease runs.
Owns(w) ==
  /\ lease.owner = OwnerOf[w] /\ lease.gen = worker[w].gen
  /\ clock < lease.until

\* A worker whose local fence has not tripped is the owner in the document,
\* whatever calls are on their way and however late they are answered
\* (conservative_owner_deadline, spawn_review_heartbeat).
FenceInsideLease ==
  \A w \in Workers : worker[w].phase = "running" /\ LocallyValid(w) => Owns(w)

\* Whoever passes the check before a forge write or a model call owns the
\* review at that moment, not only when the store looked
\* (check_owner_after_await).
CheckedMeansOwner == [][\A w \in Workers : CheckPasses(w) => Owns(w)]_vars

\* The document moves as if every operation were one step, in the order of the
\* times they were computed with (change_review_scheduler).
ImplementsRegister == Register!Spec
==============================================================================

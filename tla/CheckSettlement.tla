--------------------------- MODULE CheckSettlement ---------------------------
(***************************************************************************)
(* The second half of the e2e lane's verdict on one pull request.  A       *)
(* review (app/review.rs) decides what it can, leaves a watch on the jobs  *)
(* that still run in the remembered state, and publishes a neutral check   *)
(* (app/apply.rs).  Every completed check on the pull request, ours        *)
(* included, is a delivery (server/webhook.rs) whose handler settles the   *)
(* watch (server/routes.rs, apply::settle_e2e): it reads the jobs again,   *)
(* publishes the verdict and clears exactly that watch (server/store.rs).  *)
(*                                                                         *)
(* Reviews follow one another; handlers run beside them and beside each    *)
(* other, one lease at a time.  A job reports once: runs of the same job   *)
(* again, matrices that grow and closed pull requests are left out, and so *)
(* is the text of the checks.                                              *)
(***************************************************************************)
EXTENDS Integers

CONSTANTS
  Jobs,         \* the end-to-end jobs of the pull request
  Outcomes,     \* what a job may report
  FailOn,       \* the outcomes that fail the lane: lanes.e2e.fail_on
  Handlers,     \* deliveries handled at a time
  None,         \* no watch, nobody
  MaxHead,      \* bound: pushes
  MaxReviews,   \* bound: reviews
  MaxFaults     \* bound: failed calls, lapsed leases, deaths

ASSUME SettlementAssumption ==
  /\ Outcomes \subseteq {"passed", "failed", "skipped"}
  /\ FailOn \subseteq Outcomes \ {"passed"}
  /\ None \notin Handlers
  /\ MaxHead \in Nat \ {0} /\ MaxReviews \in Nat /\ MaxFaults \in Nat

VARIABLES
  head,       \* the live head
  jobs,       \* what each job reported on each head
  check,      \* the conclusion of tinysweeper/e2e on each head
  watch,      \* ReviewedState::e2e
  review,     \* the review in progress
  begun,      \* reviews so far: the generation of the last one's watch
  handler,    \* the deliveries being handled
  lease,      \* the holder of the e2e-settle lease
  events,     \* deliveries not handled yet
  faults,     \* faults so far
  latest,     \* history: the generation the last save left in the state, 0 for none
  settled     \* history: generations whose verdict was published

vars == <<head, jobs, check, watch, review, begun, handler, lease, events,
          faults, latest, settled>>
reviewing == <<review, begun>>
settling == <<handler, lease>>

Heads == 1..MaxHead

\* Neutral because a job still runs, neutral because nobody judged the coverage.
Conclusions == {"none", "waiting", "neutral", "failure", "success"}

Fault == faults < MaxFaults /\ faults' = faults + 1
Pending(h) == {j \in Jobs : jobs[h][j] = "pending"}

\* Deliveries after one more check completed.  Our own checks count: the
\* webhook does not tell them apart.
Filtered == events
Announced == events + 1

Idle == [phase |-> "idle"]

Init ==
  /\ head = 1 /\ jobs = [h \in Heads |-> [j \in Jobs |-> "pending"]]
  /\ check = [h \in Heads |-> "none"]
  /\ watch = None /\ review = Idle /\ begun = 0
  /\ handler = [s \in Handlers |-> Idle] /\ lease = None /\ events = 0 /\ faults = 0
  /\ latest = 0 /\ settled = {}

-----------------------------------------------------------------------------
(* The world.                                                              *)

Push ==
  /\ head < MaxHead /\ head' = head + 1
  /\ UNCHANGED <<jobs, check, watch, reviewing, settling, events, faults, latest, settled>>

Conclude(h, j) ==
  /\ h <= head /\ jobs[h][j] = "pending"
  /\ \E outcome \in Outcomes : jobs' = [jobs EXCEPT ![h][j] = outcome]
  /\ events' = Announced
  /\ UNCHANGED <<head, check, watch, reviewing, settling, faults, latest, settled>>

-----------------------------------------------------------------------------
(* The review.                                                             *)

\* What the lane concludes: lane_proposal.
Unwaited(r) ==
  IF r.failed THEN "failure" ELSE IF ~r.answered THEN "neutral" ELSE "success"
Conclusion(r) ==
  IF r.failed THEN "failure"
  ELSE IF ~r.answered THEN "neutral"
  ELSE IF r.waits # {} THEN "waiting"
  ELSE "success"

\* e2e_watch: generations never repeat.
EmptyWatch(r) ==
  [gen |-> r.gen, head |-> r.head, jobs |-> r.waits, failed |-> r.failed]
Watch(r) ==
  IF r.waits = {} THEN None
  ELSE [gen |-> r.gen, head |-> r.head, jobs |-> r.waits, failed |-> r.failed]

\* The remembered state, the jobs so far, the lane's own findings.  A full
\* review keeps what it remembers where it has nothing of its own to say.
Begin ==
  /\ review = Idle /\ begun < MaxReviews /\ begun' = begun + 1
  /\ \E full, answered, objects \in BOOLEAN, stored \in {watch, None} :
       /\ review' = [phase |-> "save", gen |-> begun + 1, head |-> head, full |-> full,
                     waits |-> Pending(head), answered |-> answered, stored |-> stored,
                     failed |-> objects \/ \E j \in Jobs : jobs[head][j] \in FailOn]
       /\ IF stored = watch THEN UNCHANGED faults ELSE Fault
  /\ UNCHANGED <<head, jobs, check, watch, settling, events, latest, settled>>

\* Saved before anything is published; a full review without a watch saves only
\* a new summary, over the record it read.
Generation(w) == IF w = None THEN 0 ELSE w.gen
Saves(w) == watch' = w /\ latest' = Generation(w)
SaveState ==
  /\ review.phase = "save"
  /\ review' = [phase |-> "live", head |-> review.head, conclusion |-> Conclusion(review)]
  /\ \/ /\ IF review.full /\ review.waits = {}
           THEN Saves(review.stored) \/ UNCHANGED <<watch, latest>>
           ELSE Saves(Watch(review))
        /\ UNCHANGED faults
     \/ Fault /\ UNCHANGED <<watch, latest>>
  /\ UNCHANGED <<head, jobs, check, begun, settling, events, settled>>

\* apply: a head that moved is not published on.
ReadLive ==
  /\ review.phase = "live"
  /\ review' = IF head = review.head THEN [review EXCEPT !.phase = "publish"] ELSE Idle
  /\ UNCHANGED <<head, jobs, check, watch, begun, settling, events, faults, latest, settled>>

Publish ==
  /\ review.phase = "publish"
  /\ \/ /\ check' = [check EXCEPT ![review.head] = review.conclusion]
        /\ events' = Announced
        /\ \/ review' = [phase |-> "load"] /\ UNCHANGED faults
           \/ Fault /\ review' = Idle
     \/ Fault /\ review' = Idle /\ UNCHANGED <<check, events>>
  /\ UNCHANGED <<head, jobs, watch, begun, settling, latest, settled>>

\* The rest of apply changes other fields of the record: it loads all of it and
\* saves all of it.
Load ==
  /\ review.phase = "load"
  /\ review' = [phase |-> "store", copy |-> watch]
  /\ UNCHANGED <<head, jobs, check, watch, begun, settling, events, faults, latest, settled>>
Store ==
  /\ review.phase = "store" /\ review' = Idle
  /\ \/ Saves(review.copy) /\ UNCHANGED faults
     \/ Fault /\ UNCHANGED <<watch, latest>>
  /\ UNCHANGED <<head, jobs, check, begun, settling, events, settled>>

CrashReview ==
  /\ review # Idle /\ Fault /\ review' = Idle
  /\ UNCHANGED <<head, jobs, check, watch, begun, settling, events, latest, settled>>

-----------------------------------------------------------------------------
(* A delivery's handler.                                                   *)

At(s, phase) == handler[s].phase = phase
Go(s, phase) == handler' = [handler EXCEPT ![s].phase = phase]

\* The cheap exit: nothing is watched.
Deliver(s) ==
  /\ handler[s] = Idle /\ events > 0 /\ events' = events - 1
  /\ IF watch = None THEN UNCHANGED handler ELSE Go(s, "claim")
  /\ UNCHANGED <<head, jobs, check, watch, reviewing, lease, faults, latest, settled>>

Claim(s) ==
  /\ At(s, "claim") /\ lease = None
  /\ lease' = s /\ Go(s, "load")
  /\ UNCHANGED <<head, jobs, check, watch, reviewing, events, faults, latest, settled>>

\* The holder was slower than all the retries, or the claim fails.
GiveUp(s) ==
  /\ At(s, "claim") /\ Fault /\ Go(s, "idle")
  /\ UNCHANGED <<head, jobs, check, watch, reviewing, lease, events, latest, settled>>

\* A lease that expires under its holder, or a claim that fails to come back.
Lapse ==
  /\ lease # None /\ Fault /\ lease' = None
  /\ UNCHANGED <<head, jobs, check, watch, reviewing, handler, events, latest, settled>>

LoadWatch(s) ==
  /\ At(s, "load")
  /\ handler' = [handler EXCEPT ![s] =
       IF watch = None THEN [phase |-> "release"] ELSE [phase |-> "live", watch |-> watch]]
  /\ UNCHANGED <<head, jobs, check, watch, reviewing, lease, events, faults, latest, settled>>

ReadHead(s) ==
  /\ At(s, "live")
  /\ IF head = handler[s].watch.head THEN Go(s, "checks")
     ELSE handler' = [handler EXCEPT ![s] = [phase |-> "release"]]
  /\ UNCHANGED <<head, jobs, check, watch, reviewing, lease, events, faults, latest, settled>>

\* runs::settle: nothing while a watched job still runs; a lane that failed
\* already stays failed.
Verdict(w) ==
  IF w.failed \/ \E j \in w.jobs : jobs[w.head][j] \in FailOn THEN "failure" ELSE "success"
Concluded(w) == w.jobs \cap Pending(w.head) = {}

ReadChecks(s) ==
  LET w == handler[s].watch
  IN /\ At(s, "checks")
     /\ handler' = [handler EXCEPT ![s] =
          IF Concluded(w)
          THEN [phase |-> "publish", watch |-> w, verdict |-> Verdict(w)]
          ELSE [phase |-> "release"]]
     /\ UNCHANGED <<head, jobs, check, watch, reviewing, lease, events, faults, latest, settled>>

\* A read that fails ends the settlement.
FailRead(s) ==
  /\ handler[s].phase \in {"load", "live", "checks"} /\ Fault
  /\ handler' = [handler EXCEPT ![s] = [phase |-> "release"]]
  /\ UNCHANGED <<head, jobs, check, watch, reviewing, lease, events, latest, settled>>

\* Cleared only after the write succeeded.
PublishVerdict(s) ==
  LET w == handler[s].watch
  IN /\ At(s, "publish")
     /\ \/ /\ check' = [check EXCEPT ![w.head] = handler[s].verdict]
           /\ events' = Announced /\ settled' = settled \cup {w.gen}
           /\ \/ /\ handler' = [handler EXCEPT ![s] = [phase |-> "clear", watch |-> w]]
                 /\ UNCHANGED faults
              \/ Fault /\ handler' = [handler EXCEPT ![s] = [phase |-> "release"]]
        \/ /\ Fault /\ handler' = [handler EXCEPT ![s] = [phase |-> "release"]]
           /\ UNCHANGED <<check, events, settled>>
     /\ UNCHANGED <<head, jobs, watch, reviewing, lease, latest>>

\* clear_e2e_watch: still exactly this watch, in one write.
ClearedByHead(w) == IF watch # None /\ watch.head = w.head THEN None ELSE watch
Cleared(w) == IF watch = w THEN None ELSE watch
ClearWatch(s) ==
  /\ At(s, "clear")
  /\ \/ watch' = Cleared(handler[s].watch) /\ UNCHANGED faults
     \/ Fault /\ UNCHANGED watch
  /\ handler' = [handler EXCEPT ![s] = [phase |-> "release"]]
  /\ UNCHANGED <<head, jobs, check, reviewing, lease, events, latest, settled>>

\* The lease is released by name, whoever holds it by now.
Release(s) ==
  /\ At(s, "release") /\ handler' = [handler EXCEPT ![s] = Idle]
  /\ \/ lease' = None /\ UNCHANGED faults
     \/ Fault /\ UNCHANGED lease
  /\ UNCHANGED <<head, jobs, check, watch, reviewing, events, latest, settled>>

CrashHandler(s) ==
  /\ handler[s] # Idle /\ Fault /\ handler' = [handler EXCEPT ![s] = Idle]
  /\ UNCHANGED <<head, jobs, check, watch, reviewing, lease, events, latest, settled>>

Reviewing == SaveState \/ ReadLive \/ Publish \/ Load \/ Store
Handling(s) ==
  \/ Deliver(s) \/ Claim(s) \/ LoadWatch(s) \/ ReadHead(s) \/ ReadChecks(s)
  \/ PublishVerdict(s) \/ ClearWatch(s) \/ Release(s)

Next ==
  \/ Push \/ Begin \/ Reviewing \/ CrashReview \/ Lapse
  \/ \E h \in Heads, j \in Jobs : Conclude(h, j)
  \/ \E s \in Handlers : Handling(s) \/ GiveUp(s) \/ FailRead(s) \/ CrashHandler(s)

\* A review that began and a delivery that arrived go on.
Spec ==
  /\ Init /\ [][Next]_vars
  /\ WF_vars(Reviewing) /\ \A s \in Handlers : WF_vars(Handling(s))

-----------------------------------------------------------------------------
Watches ==
  [gen : 1..MaxReviews, head : Heads, jobs : (SUBSET Jobs) \ {{}}, failed : BOOLEAN]
WatchesOrNone == Watches \cup {None}
Reviews ==
  {Idle, [phase |-> "load"]}
  \cup [phase : {"save"}, gen : 1..MaxReviews, head : Heads, full : BOOLEAN,
        waits : SUBSET Jobs, answered : BOOLEAN, stored : WatchesOrNone,
        failed : BOOLEAN]
  \cup [phase : {"live", "publish"}, head : Heads, conclusion : Conclusions]
  \cup [phase : {"store"}, copy : WatchesOrNone]
Deliveries ==
  [phase : {"idle", "claim", "load", "release"}]
  \cup [phase : {"live", "checks", "clear"}, watch : Watches]
  \cup [phase : {"publish"}, watch : Watches, verdict : {"failure", "success"}]

\* Types; a watch waits for some job of one head, and each phase keeps only what
\* its code still holds (review.rs, apply.rs, routes.rs).
TypeOK ==
  /\ head \in Heads /\ jobs \in [Heads -> [Jobs -> Outcomes \cup {"pending"}]]
  /\ check \in [Heads -> Conclusions]
  /\ watch \in WatchesOrNone
  /\ begun \in 0..MaxReviews /\ faults \in 0..MaxFaults /\ events \in Nat
  /\ review \in Reviews
  /\ handler \in [Handlers -> Deliveries]
  /\ lease \in Handlers \cup {None}
  /\ latest \in 0..MaxReviews /\ settled \subseteq 1..MaxReviews

\* A green check was earned: whoever published it, every job of that head has
\* concluded and none in a way that fails the lane (runs.rs, settle;
\* review.rs, lane_proposal).
SuccessIsEarned ==
  \A h \in Heads : check[h] = "success" =>
    \A j \in Jobs : jobs[h][j] # "pending" /\ jobs[h][j] \notin FailOn

\* A settlement takes away only the watch it settled: the last one saved is
\* still there, or its verdict was published (store.rs, clear_e2e_watch).
NothingForgotten == latest # 0 => Generation(watch) = latest \/ latest \in settled

\* No settlement is missed: once every delivery is handled, a watch whose jobs
\* have all concluded is settled, or replaced, or about another head, also when
\* they concluded before it was saved: the neutral check itself completes
\* (apply.rs, settle_e2e; webhook.rs, automerge_trigger).  A fault ends the
\* promise: the next completion may never come.
Quiet == review = Idle /\ events = 0 /\ \A s \in Handlers : handler[s] = Idle
Due == watch # None /\ watch.gen \notin settled /\ watch.head = head /\ Concluded(watch)
NoDueWatchLeft == Quiet /\ faults = 0 => ~Due

\* "The check settles when the jobs do": a check left neutral because jobs were
\* running does not stay so once they all concluded (the comment in
\* lane_proposal; docs/modules/lanes/README.md).
CheckSettles ==
  \A h \in Heads :
    (check[h] = "waiting" /\ Pending(h) = {})
      ~> (check[h] # "waiting" \/ head # h \/ faults > 0)
=============================================================================

------------------------- MODULE ReviewPublication -------------------------
(***************************************************************************)
(* What tinysweeper says about one pull request: a review that ends in a   *)
(* proposal (app/review.rs), the publication of that proposal              *)
(* (app/apply.rs), the reviews and inline comments on the forge, and the   *)
(* remembered state that lets a later push say less.  Reviews of one pull  *)
(* request follow one another (ReviewScheduler); pushes, dismissals by     *)
(* people, failed calls and deaths come at any moment between two calls.   *)
(*                                                                         *)
(* A finding is an identity.  Whether it fails its lane, or is severe      *)
(* enough to request changes, is a property of the finding.  Which fresh   *)
(* findings become inline comments (the posting gate, the cap, the lines   *)
(* of the live diff) is left open.                                         *)
(***************************************************************************)
EXTENDS Integers, Sequences, FiniteSets

CONSTANTS
  Findings,     \* identities a review may raise
  Failing,      \* those at or above fail_on
  Blocking,     \* those at or above request_changes_at
  ApproveWhenClean, \* whether a clean review is approved
  None,         \* no review, no record, no receipt
  MaxHead,      \* bound: pushes
  MaxReviews,   \* bound: reviews started
  MaxFaults     \* bound: failed calls and deaths

Heads == 1..MaxHead
Events == {"approve", "changes", "comment"}

\* A review of ours as the forge remembers it.
Said == [event : Events, head : Heads]

ASSUME PublicationAssumption ==
  /\ None \notin Said
  /\ Failing \subseteq Findings /\ Blocking \subseteq Findings
  /\ ApproveWhenClean \in BOOLEAN
  /\ MaxHead \in Nat \ {0} /\ MaxReviews \in Nat /\ MaxFaults \in Nat

VARIABLES
  head,       \* the live head
  reviews,    \* our reviews on the forge, oldest first
  posted,     \* findings with an inline comment of ours
  store,      \* the remembered state
  run,        \* the review in progress
  started,    \* reviews so far
  faults,     \* faults so far
  untold,     \* history: a review landed after the one the receipt is about
  meddled     \* history: a person dismissed a review during this run

vars == <<head, reviews, posted, store, run, started, faults,
          untold, meddled>>

\* Everything seen and answered; a patch the forge withheld; a question no
\* model answered; a kill switch.
Coverages == {"complete", "withheld", "unanswered", "skipped"}

-----------------------------------------------------------------------------
(* The proposal, and the verdict it draws.                                 *)

Complete(want) == want.coverage = "complete"
Unvouched(want) == ~Complete(want) /\ want.coverage # "skipped"
Blocked(want) == want.raised \cap Failing # {}
BlockingSet(want) == want.raised \cap Blocking
RequestsChanges(want) == Blocked(want) /\ BlockingSet(want) # {}

\* The verdict ladder: review_event.
NoVerdict(want, previous, draft) ==
  IF RequestsChanges(want) THEN "changes"
  ELSE IF want.coverage = "skipped" THEN None
  ELSE "comment"
Verdict(want, previous, draft) ==
  IF RequestsChanges(want) THEN "changes"
  ELSE IF ~draft /\ ~Blocked(want) /\ Complete(want) /\ ApproveWhenClean THEN "approve"
  ELSE IF previous # None /\ previous.event = "changes" /\ Complete(want) THEN "approve"
  ELSE "comment"

-----------------------------------------------------------------------------
(* The forge's list of our reviews.                                        *)

Entry(event, at, want) ==
  [event |-> event, head |-> at, dismissed |-> FALSE,
   blocking |-> BlockingSet(want), complete |-> Complete(want),
   failing |-> Blocked(want)]

\* The last review among those of a kind, 0 if there is none.
LastOf(is) == IF is = {} THEN 0 ELSE CHOOSE i \in is : \A j \in is : j <= i

\* A verdict is in force until a later one replaces it, or a dismissal, its own
\* or a later review's, ends it: own_review_state_of.
InForce(list, i) ==
  /\ list[i].event # "comment"
  /\ \A j \in DOMAIN list : j >= i => ~list[j].dismissed
Standing(list) == LastOf({i \in DOMAIN list : InForce(list, i)})

\* A dismissed review counts as a comment.
Remark(list) ==
  LastOf({i \in DOMAIN list : list[i].event = "comment" \/ list[i].dismissed})
OwnReview(list) ==
  LET verdict == Standing(list)
      remark == Remark(list)
  IN IF verdict # 0 THEN [event |-> list[verdict].event, head |-> list[verdict].head]
     ELSE IF remark # 0 THEN [event |-> "comment", head |-> list[remark].head]
     ELSE None

\* own_standing_approval_id.
Approves(list, i) ==
  /\ list[i].event = "approve" /\ ~list[i].dismissed
  /\ \A j \in DOMAIN list : j > i => list[j].event # "changes" /\ ~list[j].dismissed
StandingApproval(list) == LastOf({i \in DOMAIN list : Approves(list, i)})

Dismissed(list, i) == [list EXCEPT ![i].dismissed = TRUE]
Withdrawn(list) ==
  IF StandingApproval(list) = 0 THEN list ELSE Dismissed(list, StandingApproval(list))

-----------------------------------------------------------------------------
Idle == [phase |-> "idle"]

Init ==
  /\ head = 1 /\ reviews = <<>> /\ posted = {} /\ store = None
  /\ run = Idle /\ started = 0 /\ faults = 0
  /\ untold = FALSE /\ meddled = FALSE

Fault == faults < MaxFaults /\ faults' = faults + 1
InPhase(phase) == run.phase = phase
Go(phase) == run' = [run EXCEPT !.phase = phase]

\* The run is over without a published verdict: an early return, an error.
Ends == run' = Idle

Push ==
  /\ head < MaxHead
  /\ head' = head + 1
  /\ UNCHANGED <<reviews, posted, store, run, started, faults, untold, meddled>>

\* A person dismisses the verdict in force.
Dismiss ==
  /\ Standing(reviews) # 0
  /\ reviews' = Dismissed(reviews, Standing(reviews))
  /\ meddled' = TRUE
  /\ UNCHANGED <<head, posted, store, run, started, faults, untold>>

-----------------------------------------------------------------------------
(* The read half: review.                                                  *)

\* What must not be said again: every comment of ours on the pull request and
\* what the remembered state adds.
Suppressed(prior, remembered) ==
  prior \cup (IF remembered = None THEN {} ELSE remembered.fingerprints)

\* The state saved before anything is published: what is suppressed already,
\* and the receipt of the last publication.
Blank == [fingerprints |-> {}, receipt |-> None]
SavedAhead(stored, suppressed, raised) ==
  [fingerprints |-> suppressed \cup raised,
   receipt |-> IF stored = None THEN None ELSE stored.receipt]
Saved(stored, suppressed, raised) ==
  [fingerprints |-> suppressed,
   receipt |-> IF stored = None THEN None ELSE stored.receipt]

\* A full review keeps what it could read and says nothing of its own.
Kept(stored) == IF stored = None THEN Blank ELSE stored

\* A review of the live head, whatever it finds.  A full review ignores what
\* was said before.  Reading our comments or the remembered state may fail, and
\* the review goes on without; a save may fail, or not be called for.
Review ==
  /\ InPhase("idle") /\ started < MaxReviews
  /\ started' = started + 1 /\ meddled' = FALSE
  /\ \E full \in BOOLEAN, coverage \in Coverages, raised \in SUBSET Findings,
        prior \in {posted, {}}, stored \in {store, None} :
       LET suppressed == IF full THEN {} ELSE Suppressed(prior, stored)
           saved == IF full THEN Kept(stored) ELSE Saved(stored, suppressed, raised)
       IN /\ coverage = "skipped" => raised = {}
          /\ IF (full \/ prior = posted) /\ stored = store THEN UNCHANGED faults ELSE Fault
          /\ \E comments \in SUBSET (raised \ suppressed) :
               /\ store' \in IF coverage = "skipped" THEN {store} ELSE {store, saved}
               /\ run' = [phase |-> "live",
                          want |-> [head |-> head, raised |-> raised,
                                    comments |-> comments, coverage |-> coverage]]
  /\ UNCHANGED <<head, reviews, posted, untold>>

-----------------------------------------------------------------------------
(* The write half: apply.                                                  *)

\* Against live state first: a closed pull request or a head that moved ends
\* it.  Then the threads and the lanes' checks, whose failure is an error.
ReadLive ==
  /\ InPhase("live")
  /\ \/ /\ head = run.want.head
        /\ \E draft \in BOOLEAN :
             run' = [phase |-> "own", want |-> run.want, draft |-> draft]
        /\ UNCHANGED faults
     \/ Ends /\ UNCHANGED faults        \* closed, merged, or moved on
     \/ Fault /\ Ends
  /\ UNCHANGED <<head, reviews, posted, store, started, untold, meddled>>

\* Whether the receipt is about the same decision, and it still stands.
SameVerdict(want, event, receipt) == receipt # None /\ receipt.event = event
SameDecision(want, event, receipt) ==
  receipt # None /\ receipt.event = event /\ receipt.blocking = BlockingSet(want)
Undismissed(event, receipt, previous, known) ==
  known /\ receipt # None
SameStanding(event, receipt, previous, known) ==
  /\ known /\ receipt # None
  /\ IF event = "comment"
     THEN previous = IF receipt.standing # None THEN receipt.standing
                     ELSE [event |-> "comment", head |-> receipt.head]
     ELSE previous = [event |-> event, head |-> receipt.head]
Redundant(want, event, receipt, previous, known) ==
  /\ SameDecision(want, event, receipt)
  /\ SameStanding(event, receipt, previous, known)
  /\ CASE event = "approve" -> Complete(want)
       [] event = "changes" -> TRUE
       [] event = "comment" -> receipt.complete = Complete(want)
RedundantApproval(want, event, previous) ==
  /\ event = "approve" /\ want.comments = {}
  /\ previous = [event |-> "approve", head |-> want.head]

Says(want, event) ==
  want.comments # {} \/ event # "comment" \/ want.coverage = "unanswered"

Withdraws(want, event, previous, known) ==
  /\ Unvouched(want) /\ event = "comment"
  /\ ~known \/ (previous # None /\ previous.event = "approve")

\* What we said before, from the forge and from the receipt; either read may
\* fail and leave it unknown.  Reading the diff again may end the run.
ReadOwn ==
  LET want == run.want
  IN /\ InPhase("own")
     /\ \/ \E known \in BOOLEAN, receipt \in {IF store = None THEN None ELSE store.receipt, None} :
             LET previous == IF known THEN OwnReview(reviews) ELSE None
                 event == Verdict(want, previous, run.draft)
                 said == \/ RedundantApproval(want, event, previous)
                         \/ Redundant(want, event, receipt, previous, known)
             IN /\ IF known /\ (store = None \/ receipt = store.receipt)
                   THEN UNCHANGED faults ELSE Fault
                /\ run' = [phase |-> IF Withdraws(want, event, previous, known)
                                     THEN "withdraw" ELSE "post",
                           want |-> want, event |-> event, previous |-> previous,
                           known |-> known, says |-> ~said /\ Says(want, event),
                           standing |-> FALSE]
        \/ Fault /\ Ends
     /\ UNCHANGED <<head, reviews, posted, store, started, untold, meddled>>

\* A push nobody could vouch for takes the approval with it.  If that fails the
\* comment still goes out, and the run fails at the end.
Withdraw ==
  /\ InPhase("withdraw")
  /\ \/ /\ reviews' = Withdrawn(reviews) /\ Go("post") /\ UNCHANGED faults
     \/ /\ Fault /\ reviews' \in {reviews, Withdrawn(reviews)}
        /\ run' = [run EXCEPT !.phase = "post", !.standing = TRUE]
  /\ UNCHANGED <<head, posted, store, started, untold, meddled>>

\* The forge takes the review for the head it has at that moment.
Submitted == Append(reviews, Entry(run.event, head, run.want))

Post ==
  /\ InPhase("post")
  /\ \/ /\ ~run.says /\ Go("record")
        /\ UNCHANGED <<reviews, posted, untold, faults>>
     \/ /\ run.says
        /\ reviews' = Submitted /\ posted' = posted \cup run.want.comments
        /\ untold' = TRUE
        /\ Go("extend") /\ UNCHANGED faults
     \/ /\ run.says /\ Fault /\ Ends
        /\ \/ UNCHANGED <<reviews, posted, untold>>
           \/ /\ reviews' = Submitted /\ posted' = posted \cup run.want.comments
              /\ untold' = TRUE
  /\ UNCHANGED <<head, store, started, meddled>>

\* The remembered state learns of the comments, best effort.
Extend ==
  /\ InPhase("extend") /\ Go("record")
  /\ \/ /\ store' = IF store = None THEN None
                    ELSE [store EXCEPT !.fingerprints = @ \cup run.want.comments]
        /\ UNCHANGED faults
     \/ Fault /\ UNCHANGED store
  /\ UNCHANGED <<head, reviews, posted, started, untold, meddled>>

\* The verdict expected to stand from now on: standing_review_after_success.
After ==
  IF /\ run.event = "comment" /\ ~run.known
  THEN None
  ELSE IF /\ run.event = "comment" /\ run.previous # None
          /\ \/ run.previous.event = "changes"
             \/ run.previous.event = "approve" /\ (~Unvouched(run.want) \/ run.standing)
  THEN run.previous
  ELSE [event |-> run.event, head |-> run.want.head]

Receipt ==
  [event |-> run.event, head |-> run.want.head, blocking |-> BlockingSet(run.want),
   standing |-> After, complete |-> Complete(run.want)]

\* The usage and, if a review was submitted, the receipt; best effort again.
Recorded ==
  IF run.says THEN [Kept(store) EXCEPT !.receipt = Receipt] ELSE Kept(store)
RecordApplyState ==
  /\ InPhase("record") /\ Go("finish")
  /\ \/ /\ store' = Recorded /\ untold' = (untold /\ ~run.says)
        /\ UNCHANGED faults
     \/ Fault /\ UNCHANGED <<store, untold>>
  /\ UNCHANGED <<head, reviews, posted, started, meddled>>

\* The hub and the labels; a label that cannot be set is an error, and so is an
\* approval that could not be withdrawn.
Finish ==
  /\ InPhase("finish") /\ Ends
  /\ UNCHANGED faults \/ Fault
  /\ UNCHANGED <<head, reviews, posted, store, started, untold, meddled>>

\* The process dies, or its ownership is lost, between two calls.
Crash ==
  /\ ~InPhase("idle") /\ Fault /\ Ends
  /\ UNCHANGED <<head, reviews, posted, store, started, untold, meddled>>

Next ==
  \/ Push \/ Dismiss \/ Review \/ ReadLive \/ ReadOwn \/ Withdraw \/ Post
  \/ Extend \/ RecordApplyState \/ Finish \/ Crash

Spec == Init /\ [][Next]_vars

-----------------------------------------------------------------------------
Decisions ==
  [event : Events, head : Heads, blocking : SUBSET Blocking,
   standing : Said \cup {None}, complete : BOOLEAN]
Proposals ==
  [head : Heads, raised : SUBSET Findings, comments : SUBSET Findings,
   coverage : Coverages]
Entries ==
  [event : Events, head : Heads, dismissed : BOOLEAN, blocking : SUBSET Blocking,
   complete : BOOLEAN, failing : BOOLEAN]
Runs ==
  {Idle} \cup [phase : {"live"}, want : Proposals]
  \cup [phase : {"own"}, want : Proposals, draft : BOOLEAN]
  \cup [phase : {"withdraw", "post", "extend", "record", "finish"},
        want : Proposals, event : Events, previous : Said \cup {None},
        known : BOOLEAN, says : BOOLEAN, standing : BOOLEAN]

\* Types: reviews carry a verdict the ladder knows, a receipt is a decision
\* (apply.rs, state/types.rs).
TypeOK ==
  /\ untold \in BOOLEAN /\ meddled \in BOOLEAN
  /\ head \in Heads /\ started \in 0..MaxReviews /\ faults \in 0..MaxFaults
  /\ posted \subseteq Findings
  /\ reviews \in Seq(Entries)
  /\ store \in [fingerprints : SUBSET Findings, receipt : Decisions \cup {None}] \cup {None}
  /\ run \in Runs

\* Nothing is kept quiet that was never said: a finding the remembered state
\* suppresses has a comment on the pull request, whatever failed or died
\* between the save, the review and the record of it (review.rs, save_state
\* before publication; apply.rs, extended after it).
SuppressedIsPosted == store # None => store.fingerprints \subseteq posted

\* A run that ends well leaves its verdict in force, whether it submitted a
\* review or took the last one for good enough: an objection stands, an
\* approval stands, and over a push it could not vouch for no approval does
\* (apply.rs, the redundant decisions and the withdrawal).
VerdictStands ==
  InPhase("finish") /\ ~run.standing /\ ~meddled =>
    /\ run.event # "comment" => OwnReview(reviews) # None /\ OwnReview(reviews).event = run.event
    /\ run.event = "comment" /\ Unvouched(run.want) =>
         OwnReview(reviews) = None \/ OwnReview(reviews).event # "approve"

\* Being quiet loses nothing: while the receipt is about our last review, an
\* objection in force after a run names exactly the findings the run would block
\* on, and after a run whose model never answered the last review is one that
\* calls itself incomplete (apply.rs, redundant_decision).
SaysWhatItFound ==
  InPhase("finish") /\ ~untold /\ ~meddled =>
    /\ run.event = "changes" => reviews[Standing(reviews)].blocking = BlockingSet(run.want)
    /\ run.event = "comment" /\ run.want.coverage = "unanswered" =>
         reviews # <<>> /\ ~reviews[Len(reviews)].complete

\* "A failing lane must not be approved": no review of ours approves a proposal
\* one of whose lanes fails (the comment in review_event; the ladder of
\* docs/modules/app/README.md).
RedNeverApproved ==
  \A i \in DOMAIN reviews : reviews[i].event = "approve" => ~reviews[i].failing
=============================================================================

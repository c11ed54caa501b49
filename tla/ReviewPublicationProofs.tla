----------------------- MODULE ReviewPublicationProofs -----------------------
(***************************************************************************)
(* What holds of the publication for every set of findings, every policy   *)
(* on them, and any number of pushes, reviews and faults: the types, that  *)
(* nothing unsaid is suppressed, and that a run that ends well leaves its  *)
(* verdict in force.                                                       *)
(***************************************************************************)
EXTENDS ReviewPublication, SequenceTheorems, TLAPS

USE PublicationAssumption DEF PublicationAssumption

-----------------------------------------------------------------------------
(* The list of reviews                                                     *)

\* Every kind of review that occurs has a last one.
Ranked(list) ==
  \A is \in SUBSET (DOMAIN list) : is # {} => \E i \in is : \A j \in is : j <= i

LEMMA LastIs ==
  ASSUME NEW list, Ranked(list), NEW is \in SUBSET (DOMAIN list), is # {}
  PROVE  LastOf(is) \in is /\ \A j \in is : j <= LastOf(is)
<1>1. PICK i \in is : \A j \in is : j <= i
  BY DEF Ranked
<1>2. QED
  BY <1>1 DEF LastOf

LEMMA EntriesDomain ==
  ASSUME NEW list \in Seq(Entries)
  PROVE  /\ DOMAIN list = 1..Len(list) /\ Len(list) \in Nat
         /\ \A i \in DOMAIN list : list[i] \in Entries
  OBVIOUS

\* The verdict in force, where there is one.
LEMMA StandingIs ==
  ASSUME NEW list \in Seq(Entries), Ranked(list)
  PROVE  /\ Standing(list) # 0 =>
              /\ Standing(list) \in DOMAIN list /\ InForce(list, Standing(list))
              /\ \A i \in DOMAIN list : InForce(list, i) => i <= Standing(list)
         /\ Standing(list) = 0 => \A i \in DOMAIN list : ~InForce(list, i)
<1> DEFINE is == {i \in DOMAIN list : InForce(list, i)}
<1>1. CASE is = {}
  BY <1>1 DEF Standing, LastOf
<1>2. CASE is # {}
  <2>1. LastOf(is) \in is /\ \A j \in is : j <= LastOf(is)
    BY <1>2, LastIs
  <2>2. LastOf(is) # 0
    BY <2>1
  <2>3. QED
    BY <2>1, <2>2 DEF Standing
<1>3. QED
  BY <1>1, <1>2

LEMMA ApprovalIs ==
  ASSUME NEW list \in Seq(Entries), Ranked(list)
  PROVE  /\ StandingApproval(list) # 0 =>
              /\ StandingApproval(list) \in DOMAIN list
              /\ \A i \in DOMAIN list : Approves(list, i) => i <= StandingApproval(list)
         /\ StandingApproval(list) = 0 => \A i \in DOMAIN list : ~Approves(list, i)
<1> DEFINE is == {i \in DOMAIN list : Approves(list, i)}
<1>1. CASE is = {}
  BY <1>1 DEF StandingApproval, LastOf
<1>2. CASE is # {}
  <2>1. LastOf(is) \in is /\ \A j \in is : j <= LastOf(is)
    BY <1>2, LastIs
  <2>2. LastOf(is) # 0
    BY <2>1
  <2>3. QED
    BY <2>1, <2>2 DEF StandingApproval
<1>3. QED
  BY <1>1, <1>2

LEMMA RemarkIs ==
  ASSUME NEW list \in Seq(Entries), Ranked(list), Remark(list) # 0
  PROVE  Remark(list) \in DOMAIN list
<1> DEFINE is == {i \in DOMAIN list : list[i].event = "comment" \/ list[i].dismissed}
<1>1. is # {}
  BY DEF Remark, LastOf
<1>2. LastOf(is) \in is
  BY <1>1, LastIs
<1>3. QED
  BY <1>2 DEF Remark

\* What we are found to have said last.
LEMMA OwnReviewIs ==
  ASSUME NEW list \in Seq(Entries), Ranked(list)
  PROVE  /\ OwnReview(list) \in Said \cup {None}
         /\ Standing(list) # 0 =>
              /\ OwnReview(list) # None
              /\ OwnReview(list).event = list[Standing(list)].event
         /\ Standing(list) = 0 =>
              OwnReview(list) = None \/ OwnReview(list).event = "comment"
<1>1. CASE Standing(list) # 0
  <2>1. list[Standing(list)] \in Entries
    BY <1>1, StandingIs, EntriesDomain
  <2>2. OwnReview(list) = [event |-> list[Standing(list)].event,
                           head |-> list[Standing(list)].head]
    BY <1>1 DEF OwnReview
  <2>3. OwnReview(list) \in Said
    BY <2>1, <2>2 DEF Said, Entries
  <2>4. QED
    BY <1>1, <2>2, <2>3
<1>2. CASE Standing(list) = 0
  <2>1. CASE Remark(list) = 0
    BY <1>2, <2>1 DEF OwnReview
  <2>2. CASE Remark(list) # 0
    <3>1. list[Remark(list)] \in Entries
      BY <2>2, RemarkIs, EntriesDomain
    <3>2. OwnReview(list) = [event |-> "comment", head |-> list[Remark(list)].head]
      BY <1>2, <2>2 DEF OwnReview
    <3>3. QED
      BY <1>2, <3>1, <3>2 DEF Said, Entries, Events
  <2>3. QED
    BY <2>1, <2>2
<1>3. QED
  BY <1>1, <1>2

Approved(list) == OwnReview(list) # None /\ OwnReview(list).event = "approve"

-----------------------------------------------------------------------------
(* One more review                                                         *)

LEMMA AppendRanked ==
  ASSUME NEW list \in Seq(Entries), NEW e \in Entries, Ranked(list)
  PROVE  Append(list, e) \in Seq(Entries) /\ Ranked(Append(list, e))
<1>1. /\ Append(list, e) \in Seq(Entries) /\ Len(list) \in Nat
      /\ DOMAIN Append(list, e) = 1..(Len(list) + 1) /\ DOMAIN list = 1..Len(list)
  OBVIOUS
<1>2. ASSUME NEW is \in SUBSET (1..(Len(list) + 1)), is # {}
      PROVE  \E i \in is : \A j \in is : j <= i
  <2>1. CASE Len(list) + 1 \in is
    BY <1>1, <2>1
  <2>2. CASE Len(list) + 1 \notin is
    <3>1. is \in SUBSET (DOMAIN list)
      BY <1>1, <2>2
    <3>2. QED
      BY <1>2, <3>1 DEF Ranked
  <2>3. QED
    BY <2>1, <2>2
<1>3. QED
  BY <1>1, <1>2 DEF Ranked

LEMMA AppendVerdict ==
  ASSUME NEW list \in Seq(Entries), NEW e \in Entries, Ranked(list),
         e.event # "comment", e.dismissed = FALSE
  PROVE  OwnReview(Append(list, e)) # None /\ OwnReview(Append(list, e)).event = e.event
<1> DEFINE more == Append(list, e)
           n == Len(list) + 1
<1>1. more \in Seq(Entries) /\ Ranked(more)
  BY AppendRanked
<1>2. n \in Nat \ {0} /\ DOMAIN more = 1..n /\ more[n] = e
  OBVIOUS
<1> HIDE DEF more, n
<1>3. InForce(more, n)
  BY <1>2 DEF InForce
<1>4. Standing(more) = n
  <2>1. Standing(more) # 0
    BY <1>1, <1>2, <1>3, StandingIs
  <2>2. Standing(more) \in 1..n /\ n <= Standing(more)
    BY <1>1, <1>2, <1>3, <2>1, StandingIs
  <2>3. QED
    BY <1>2, <2>2
<1>5. OwnReview(more) # None /\ OwnReview(more).event = e.event
  BY <1>1, <1>2, <1>4, OwnReviewIs
<1>6. QED
  BY <1>5 DEF more

LEMMA AppendComment ==
  ASSUME NEW list \in Seq(Entries), NEW e \in Entries, Ranked(list),
         e.event = "comment", Approved(Append(list, e))
  PROVE  Approved(list)
<1> DEFINE more == Append(list, e)
           n == Len(list)
<1>1. more \in Seq(Entries) /\ Ranked(more)
  BY AppendRanked
<1>2. /\ n \in Nat /\ DOMAIN more = 1..(n + 1) /\ DOMAIN list = 1..n
      /\ more[n + 1] = e /\ \A i \in 1..n : more[i] = list[i]
  OBVIOUS
<1>3. Standing(more) # 0 /\ more[Standing(more)].event = "approve"
  BY <1>1, OwnReviewIs DEF Approved
<1>4. PICK s \in 1..(n + 1) : s = Standing(more) /\ InForce(more, s)
                            /\ \A i \in 1..(n + 1) : InForce(more, i) => i <= s
  BY <1>1, <1>2, <1>3, StandingIs
<1>5. s \in 1..n
  BY <1>2, <1>3, <1>4
<1>6. \A i \in 1..n : InForce(list, i) => i <= s
  <2>1. SUFFICES ASSUME NEW i \in 1..n, InForce(list, i), i > s PROVE FALSE
    BY <1>2, <1>5
  <2>2. \A j \in 1..(n + 1) : j >= i => ~more[j].dismissed
    BY <1>2, <1>4, <1>5, <2>1 DEF InForce
  <2>3. InForce(more, i)
    BY <1>2, <2>1, <2>2 DEF InForce
  <2>4. QED
    BY <1>2, <1>4, <1>5, <2>1, <2>3
<1>7. InForce(list, s)
  BY <1>2, <1>4, <1>5 DEF InForce
<1>8. Standing(list) = s
  <2>1. Standing(list) # 0
    BY <1>2, <1>5, <1>7, StandingIs
  <2>2. Standing(list) \in 1..n /\ InForce(list, Standing(list)) /\ s <= Standing(list)
    BY <1>2, <1>5, <1>7, <2>1, StandingIs
  <2>3. QED
    BY <1>2, <1>5, <1>6, <2>2
<1>9. QED
  BY <1>2, <1>3, <1>4, <1>5, <1>8, OwnReviewIs DEF Approved

-----------------------------------------------------------------------------
(* A review dismissed                                                      *)

LEMMA DismissRanked ==
  ASSUME NEW list \in Seq(Entries), Ranked(list), NEW i \in DOMAIN list
  PROVE  /\ Dismissed(list, i) \in Seq(Entries) /\ Ranked(Dismissed(list, i))
         /\ DOMAIN Dismissed(list, i) = DOMAIN list
         /\ Dismissed(list, i)[i].dismissed
         /\ Dismissed(list, i)[i].event = list[i].event
         /\ \A j \in DOMAIN list \ {i} : Dismissed(list, i)[j] = list[j]
<1>1. [list[i] EXCEPT !.dismissed = TRUE] \in Entries
  <2>1. PICK x \in Entries : x = list[i]
    BY EntriesDomain
  <2>2. [x EXCEPT !.dismissed = TRUE] \in Entries
    BY DEF Entries
  <2>3. QED
    BY <2>1, <2>2
<1>2. Dismissed(list, i) = [list EXCEPT ![i] = [list[i] EXCEPT !.dismissed = TRUE]]
  BY DEF Dismissed
<1>3. Dismissed(list, i) \in Seq(Entries)
  BY <1>1, <1>2, ExceptSeq
<1>4. DOMAIN Dismissed(list, i) = DOMAIN list
  BY <1>2
<1>5. Ranked(Dismissed(list, i))
  BY <1>4 DEF Ranked
<1>6. Dismissed(list, i)[i].dismissed /\ Dismissed(list, i)[i].event = list[i].event
  <2>1. PICK x \in Entries : x = list[i]
    BY EntriesDomain
  <2>2. [x EXCEPT !.dismissed = TRUE].dismissed /\ [x EXCEPT !.dismissed = TRUE].event = x.event
    BY DEF Entries
  <2>3. Dismissed(list, i)[i] = [x EXCEPT !.dismissed = TRUE]
    BY <1>2, <2>1
  <2>4. QED
    BY <2>1, <2>2, <2>3
<1>7. \A j \in DOMAIN list \ {i} : Dismissed(list, i)[j] = list[j]
  BY <1>2
<1>8. QED
  BY <1>3, <1>4, <1>5, <1>6, <1>7

\* Withdrawing the approval leaves none in force.
LEMMA WithdrawnIs ==
  ASSUME NEW list \in Seq(Entries), Ranked(list)
  PROVE  /\ Withdrawn(list) \in Seq(Entries) /\ Ranked(Withdrawn(list))
         /\ ~Approved(Withdrawn(list))
<1> DEFINE less == Withdrawn(list)
           a == StandingApproval(list)
<1>1. a # 0 => a \in DOMAIN list
  BY ApprovalIs
<1>2. /\ less \in Seq(Entries) /\ Ranked(less) /\ DOMAIN less = DOMAIN list
      /\ \A j \in DOMAIN list : less[j].event = list[j].event
      /\ \A j \in DOMAIN list : ~less[j].dismissed => less[j] = list[j]
      /\ a # 0 => less[a].dismissed
  <2>1. CASE a = 0
    BY <2>1 DEF Withdrawn
  <2>2. CASE a # 0
    <3>1. less = Dismissed(list, a)
      BY <2>2 DEF Withdrawn
    <3>2. QED
      BY <1>1, <2>2, <3>1, DismissRanked
  <2>3. QED
    BY <2>1, <2>2
<1> HIDE DEF less, a
<1>3. SUFFICES ASSUME Approved(less) PROVE FALSE
  BY <1>2 DEF less
<1>4. Standing(less) # 0 /\ less[Standing(less)].event = "approve"
  BY <1>2, <1>3, OwnReviewIs DEF Approved
<1>5. PICK s \in DOMAIN list : s = Standing(less) /\ InForce(less, s)
                            /\ \A i \in DOMAIN list : InForce(less, i) => i <= s
  BY <1>2, <1>4, StandingIs
<1>6. DOMAIN list = 1..Len(list) /\ Len(list) \in Nat
  BY EntriesDomain
<1>7. Approves(list, s)
  <2>1. list[s].event = "approve" /\ ~list[s].dismissed
    BY <1>2, <1>4, <1>5, <1>6 DEF InForce
  <2>2. ASSUME NEW j \in DOMAIN list, j > s
        PROVE  list[j].event # "changes" /\ ~list[j].dismissed
    <3>1. ~less[j].dismissed
      BY <1>2, <1>5, <1>6, <2>2 DEF InForce
    <3>2. ~InForce(less, j)
      BY <1>5, <1>6, <2>2
    <3>3. \A k \in DOMAIN less : k >= j => ~less[k].dismissed
      BY <1>2, <1>5, <1>6, <2>2 DEF InForce
    <3>4. less[j].event = "comment"
      BY <1>2, <3>2, <3>3 DEF InForce
    <3>5. QED
      BY <1>2, <3>1, <3>4
  <2>3. QED
    BY <2>1, <2>2 DEF Approves
<1>8. a # 0 /\ s <= a
  BY <1>7, ApprovalIs DEF a
<1>9. less[a].dismissed /\ a \in DOMAIN list
  BY <1>1, <1>2, <1>8
<1>10. QED
  BY <1>2, <1>5, <1>6, <1>8, <1>9 DEF InForce

-----------------------------------------------------------------------------
(* Types                                                                   *)

Listed == TypeOK /\ Ranked(reviews)

LEMMA ListedInit == Init => Listed
<1> SUFFICES ASSUME Init PROVE Listed
  OBVIOUS
<1>1. reviews \in Seq(Entries) /\ Ranked(reviews)
  BY DEF Init, Ranked
<1>2. run \in Runs
  BY DEF Init, Runs
<1>3. untold \in BOOLEAN /\ meddled \in BOOLEAN
  BY DEF Init
<1>4. head \in Heads /\ started \in 0..MaxReviews /\ faults \in 0..MaxFaults
  BY DEF Init, Heads
<1>5. posted \subseteq Findings
      /\ store \in [fingerprints : SUBSET Findings, receipt : Decisions \cup {None}] \cup {None}
  BY DEF Init
<1>6. QED
  BY <1>1, <1>2, <1>3, <1>4, <1>5 DEF Listed, TypeOK

\* What a run knows in each phase.
LEMMA RunShape ==
  ASSUME TypeOK
  PROVE  /\ run.phase = "live" => run.want \in Proposals
         /\ run.phase = "own" => run.want \in Proposals
         /\ run.phase \in {"withdraw", "post", "extend", "record", "finish"} =>
              run \in [phase : {"withdraw", "post", "extend", "record", "finish"},
                       want : Proposals, event : Events, previous : Said \cup {None},
                       known : BOOLEAN, says : BOOLEAN, standing : BOOLEAN]
  BY DEF TypeOK, Runs, Idle

LEMMA VerdictType ==
  ASSUME NEW want, NEW previous, NEW draft
  PROVE  /\ Verdict(want, previous, draft) \in Events
         /\ BlockingSet(want) \in SUBSET Blocking
         /\ Complete(want) \in BOOLEAN /\ Blocked(want) \in BOOLEAN
  BY DEF Verdict, Events, BlockingSet, Complete, Blocked

LEMMA SubmittedType ==
  ASSUME Listed, run.phase = "post"
  PROVE  /\ Entry(run.event, head, run.want) \in Entries
         /\ Submitted \in Seq(Entries) /\ Ranked(Submitted)
<1>1. Entry(run.event, head, run.want) \in Entries
  BY RunShape, VerdictType DEF Entry, Entries, Listed, TypeOK
<1>2. QED
  BY <1>1, AppendRanked DEF Submitted, Listed, TypeOK

LEMMA StoreType ==
  ASSUME TypeOK
  PROVE  Kept(store) \in [fingerprints : SUBSET Findings, receipt : Decisions \cup {None}]
  BY DEF Kept, Blank, TypeOK

LEMMA ReceiptType ==
  ASSUME TypeOK, run.phase = "record" PROVE Receipt \in Decisions
<1>1. run.event \in Events /\ run.previous \in Said \cup {None} /\ run.want.head \in Heads
  BY RunShape DEF Proposals
<1>2. After \in Said \cup {None}
  BY <1>1 DEF After, Said
<1>3. QED
  BY <1>1, <1>2, VerdictType DEF Receipt, Decisions

LEMMA ReviewType ==
  ASSUME TypeOK, Review PROVE TypeOK'
<1>1. PICK full \in BOOLEAN, coverage \in Coverages, raised \in SUBSET Findings,
           prior \in {posted, {}}, stored \in {store, None} :
       LET suppressed == IF full THEN {} ELSE Suppressed(prior, stored)
           saved == IF full THEN Kept(stored) ELSE Saved(stored, suppressed, raised)
       IN /\ coverage = "skipped" => raised = {}
          /\ IF (full \/ prior = posted) /\ stored = store THEN UNCHANGED faults ELSE Fault
          /\ \E comments \in SUBSET (raised \ suppressed) :
               /\ store' \in IF coverage = "skipped" THEN {store} ELSE {store, saved}
               /\ run' = [phase |-> "live",
                          want |-> [head |-> head, raised |-> raised,
                                    comments |-> comments, coverage |-> coverage]]
  BY DEF Review
<1> DEFINE suppressed == IF full THEN {} ELSE Suppressed(prior, stored)
           saved == IF full THEN Kept(stored) ELSE Saved(stored, suppressed, raised)
           Records == [fingerprints : SUBSET Findings, receipt : Decisions \cup {None}]
<1>2. stored \in Records \cup {None} /\ prior \in SUBSET Findings
  BY DEF TypeOK
<1>3. suppressed \in SUBSET Findings
  BY <1>2 DEF Suppressed
<1>4. saved \in Records
  <2>1. Kept(stored) \in Records
    BY <1>2 DEF Kept, Blank
  <2>2. Saved(stored, suppressed, raised) \in Records
    BY <1>2, <1>3 DEF Saved
  <2>3. QED
    BY <2>1, <2>2
<1>5. store' \in Records \cup {None}
  BY <1>1, <1>4 DEF TypeOK
<1>6. run' \in Runs
  <2>1. PICK comments \in SUBSET raised :
          run' = [phase |-> "live",
                  want |-> [head |-> head, raised |-> raised, comments |-> comments,
                            coverage |-> coverage]]
    BY <1>1
  <2>2. QED
    BY <2>1 DEF Runs, Proposals, TypeOK
<1>7. faults' \in 0..MaxFaults
  BY <1>1 DEF Fault, TypeOK
<1>8. started' \in 0..MaxReviews
  BY DEF Review, TypeOK
<1>9. QED
  BY <1>5, <1>6, <1>7, <1>8 DEF Review, TypeOK

LEMMA ReadOwnType ==
  ASSUME Listed, ReadOwn PROVE TypeOK'
<1>1. run.want \in Proposals
  BY RunShape DEF ReadOwn, InPhase, Listed
<1>2. CASE Fault /\ Ends
  BY <1>2 DEF ReadOwn, Fault, Ends, Listed, TypeOK, Runs
<1>3. CASE ~(Fault /\ Ends)
  <2>1. PICK known \in BOOLEAN,
             receipt \in {IF store = None THEN None ELSE store.receipt, None} :
          LET previous == IF known THEN OwnReview(reviews) ELSE None
              event == Verdict(run.want, previous, run.draft)
              said == \/ RedundantApproval(run.want, event, previous)
                      \/ Redundant(run.want, event, receipt, previous, known)
          IN /\ IF known /\ (store = None \/ receipt = store.receipt)
                THEN UNCHANGED faults ELSE Fault
             /\ run' = [phase |-> IF Withdraws(run.want, event, previous, known)
                                  THEN "withdraw" ELSE "post",
                        want |-> run.want, event |-> event, previous |-> previous,
                        known |-> known, says |-> ~said /\ Says(run.want, event),
                        standing |-> FALSE]
    BY <1>3 DEF ReadOwn
  <2> DEFINE previous == IF known THEN OwnReview(reviews) ELSE None
             event == Verdict(run.want, previous, run.draft)
  <2>2. previous \in Said \cup {None} /\ event \in Events
    BY OwnReviewIs, VerdictType DEF Listed, TypeOK
  <2>3. run'.says \in BOOLEAN
    BY <2>1
  <2>4. run' \in Runs
    BY <1>1, <2>1, <2>2 DEF Runs
  <2>5. faults' \in 0..MaxFaults
    BY <2>1 DEF Fault, Listed, TypeOK
  <2>6. QED
    BY <2>4, <2>5 DEF ReadOwn, Listed, TypeOK
<1>4. QED
  BY <1>2, <1>3

LEMMA ListedStep == Listed /\ [Next]_vars => Listed'
<1> SUFFICES ASSUME Listed, [Next]_vars PROVE TypeOK' /\ Ranked(reviews')
  BY DEF Listed
<1> USE DEF Listed
<1>1. CASE UNCHANGED vars
  BY <1>1 DEF TypeOK, vars
<1>2. CASE Push
  BY <1>2 DEF Push, TypeOK, Heads
<1>3. CASE Dismiss
  BY <1>3, StandingIs, DismissRanked DEF Dismiss, TypeOK
<1>4. CASE Review
  BY <1>4, ReviewType DEF Review
<1>5. CASE ReadLive
  BY <1>5, RunShape DEF ReadLive, InPhase, Ends, Fault, TypeOK, Runs
<1>6. CASE ReadOwn
  BY <1>6, ReadOwnType DEF ReadOwn
<1>7. CASE Withdraw
  <2>1. run' \in Runs
    BY <1>7, RunShape DEF Withdraw, InPhase, Go, Runs
  <2>2. reviews' \in Seq(Entries) /\ Ranked(reviews')
    BY <1>7, WithdrawnIs DEF Withdraw, TypeOK
  <2>3. QED
    BY <1>7, <2>1, <2>2 DEF Withdraw, Fault, TypeOK
<1>8. CASE Post
  <2>1. run' \in Runs
    BY <1>8, RunShape DEF Post, InPhase, Go, Ends, Runs
  <2>2. reviews' \in Seq(Entries) /\ Ranked(reviews')
    BY <1>8, SubmittedType DEF Post, InPhase, TypeOK
  <2>3. run.want.comments \subseteq Findings
    BY <1>8, RunShape DEF Post, InPhase, Proposals
  <2>4. posted' \subseteq Findings
    BY <1>8, <2>3 DEF Post, TypeOK
  <2>5. untold' \in BOOLEAN
    BY <1>8 DEF Post, TypeOK
  <2>6. faults' \in 0..MaxFaults
    BY <1>8 DEF Post, Fault, TypeOK
  <2>7. QED
    BY <1>8, <2>1, <2>2, <2>4, <2>5, <2>6 DEF Post, TypeOK
<1>9. CASE Extend
  <2>1. run' \in Runs
    BY <1>9, RunShape DEF Extend, InPhase, Go, Runs
  <2>2. run.want.comments \subseteq Findings
    BY <1>9, RunShape DEF Extend, InPhase, Proposals
  <2>3. store' \in [fingerprints : SUBSET Findings, receipt : Decisions \cup {None}] \cup {None}
    BY <1>9, <2>2 DEF Extend, TypeOK
  <2>4. QED
    BY <1>9, <2>1, <2>3 DEF Extend, Fault, TypeOK
<1>10. CASE RecordApplyState
  <2>1. run' \in Runs
    BY <1>10, RunShape DEF RecordApplyState, InPhase, Go, Runs
  <2>2. Recorded \in [fingerprints : SUBSET Findings, receipt : Decisions \cup {None}]
    BY <1>10, StoreType, ReceiptType DEF RecordApplyState, InPhase, Recorded
  <2>3. store' \in [fingerprints : SUBSET Findings, receipt : Decisions \cup {None}] \cup {None}
    BY <1>10, <2>2 DEF RecordApplyState, TypeOK
  <2>4. untold' \in BOOLEAN
    BY <1>10 DEF RecordApplyState, TypeOK
  <2>5. faults' \in 0..MaxFaults
    BY <1>10 DEF RecordApplyState, Fault, TypeOK
  <2>6. QED
    BY <1>10, <2>1, <2>3, <2>4, <2>5 DEF RecordApplyState, TypeOK
<1>11. CASE Finish \/ Crash
  BY <1>11 DEF Finish, Crash, Ends, Fault, TypeOK, Runs
<1>12. QED
  BY <1>1, <1>2, <1>3, <1>4, <1>5, <1>6, <1>7, <1>8, <1>9, <1>10, <1>11 DEF Next

\* Reviews, receipts and the remembered state keep their shape (apply.rs).
THEOREM TypeCorrect == Spec => []TypeOK
<1>1. Listed => TypeOK
  BY DEF Listed
<1>2. QED
  BY <1>1, ListedInit, ListedStep, PTL DEF Spec

-----------------------------------------------------------------------------
(* Nothing unsaid is suppressed                                            *)

Extending == run.phase = "extend" => run.want.comments \subseteq posted

LEMMA SuppressedStep ==
  Listed /\ Extending /\ SuppressedIsPosted /\ [Next]_vars => (Extending /\ SuppressedIsPosted)'
<1> SUFFICES ASSUME Listed, Extending, SuppressedIsPosted, [Next]_vars
             PROVE  Extending' /\ SuppressedIsPosted'
  OBVIOUS
<1> USE DEF Listed
<1>1. CASE UNCHANGED vars
  BY <1>1 DEF Extending, SuppressedIsPosted, vars
<1>2. CASE Push \/ Dismiss
  BY <1>2 DEF Push, Dismiss, Extending, SuppressedIsPosted
<1>3. CASE Review
  <2>1. PICK full \in BOOLEAN, coverage \in Coverages, raised \in SUBSET Findings,
             prior \in {posted, {}}, stored \in {store, None} :
         LET suppressed == IF full THEN {} ELSE Suppressed(prior, stored)
             saved == IF full THEN Kept(stored) ELSE Saved(stored, suppressed, raised)
         IN /\ coverage = "skipped" => raised = {}
            /\ IF (full \/ prior = posted) /\ stored = store THEN UNCHANGED faults ELSE Fault
            /\ \E comments \in SUBSET (raised \ suppressed) :
                 /\ store' \in IF coverage = "skipped" THEN {store} ELSE {store, saved}
                 /\ run' = [phase |-> "live",
                            want |-> [head |-> head, raised |-> raised,
                                      comments |-> comments, coverage |-> coverage]]
    BY <1>3 DEF Review
  <2>2. Kept(stored).fingerprints \subseteq posted
    BY DEF Kept, Blank, SuppressedIsPosted
  <2>3. Saved(stored, Suppressed(prior, stored), raised).fingerprints \subseteq posted
    BY DEF Saved, Suppressed, SuppressedIsPosted
  <2>4. UNCHANGED posted /\ run'.phase = "live"
    BY <1>3, <2>1 DEF Review
  <2>5. SuppressedIsPosted'
    BY <2>1, <2>2, <2>3, <2>4 DEF SuppressedIsPosted
  <2>6. QED
    BY <2>4, <2>5 DEF Extending
<1>4. CASE ReadLive \/ ReadOwn \/ Withdraw \/ Finish \/ Crash
  <2>1. UNCHANGED <<store, posted>>
    BY <1>4 DEF ReadLive, ReadOwn, Withdraw, Finish, Crash
  <2>2. run'.phase # "extend"
    <3>1. ReadLive => run'.phase # "extend"
      BY DEF ReadLive, Ends, Idle
    <3>2. ReadOwn => run'.phase \in {"idle", "withdraw", "post"}
      BY DEF ReadOwn, Ends, Idle
    <3>3. Withdraw => run'.phase # "extend"
      BY RunShape DEF Withdraw, Go, InPhase
    <3>4. Finish \/ Crash => run'.phase # "extend"
      BY DEF Finish, Crash, Ends, Idle
    <3>5. QED
      BY <1>4, <3>1, <3>2, <3>3, <3>4
  <2>3. QED
    BY <2>1, <2>2 DEF Extending, SuppressedIsPosted
<1>5. CASE Post
  <2>1. posted \subseteq posted' /\ UNCHANGED store
    BY <1>5 DEF Post
  <2>2. CASE run'.phase = "extend"
    <3>1. posted' = posted \cup run.want.comments /\ run'.want = run.want
      BY <1>5, <2>2, RunShape DEF Post, Ends, Idle, Go, InPhase
    <3>2. QED
      BY <2>1, <3>1 DEF Extending, SuppressedIsPosted
  <2>3. CASE run'.phase # "extend"
    BY <2>1, <2>3 DEF Extending, SuppressedIsPosted
  <2>4. QED
    BY <2>2, <2>3
<1>6. CASE Extend
  <2>1. run'.phase = "record" /\ run.want.comments \subseteq posted /\ UNCHANGED posted
    BY <1>6, RunShape DEF Extend, Go, InPhase, Extending
  <2>2. store' # None => store'.fingerprints \subseteq posted
    BY <1>6, <2>1 DEF Extend, SuppressedIsPosted, TypeOK
  <2>3. QED
    BY <2>1, <2>2 DEF Extending, SuppressedIsPosted
<1>7. CASE RecordApplyState
  <2>1. run'.phase = "finish" /\ UNCHANGED posted
    BY <1>7, RunShape DEF RecordApplyState, Go, InPhase
  <2>2. Kept(store).fingerprints \subseteq posted
    BY DEF Kept, Blank, SuppressedIsPosted
  <2>3. Recorded.fingerprints = Kept(store).fingerprints
    BY StoreType DEF Recorded
  <2>4. QED
    BY <1>7, <2>1, <2>2, <2>3 DEF RecordApplyState, Extending, SuppressedIsPosted
<1>8. QED
  BY <1>1, <1>2, <1>3, <1>4, <1>5, <1>6, <1>7 DEF Next

\* A finding is suppressed only if it has a comment on the pull request, whatever
\* save, submission or record failed before (save_state, apply).
THEOREM SuppressedWasPosted == Spec => []SuppressedIsPosted
<1>1. Init => Extending /\ SuppressedIsPosted
  BY DEF Init, Extending, SuppressedIsPosted, Idle
<1>2. QED
  BY <1>1, ListedInit, ListedStep, SuppressedStep, PTL DEF Spec

-----------------------------------------------------------------------------
(* A verdict is in force after its run                                     *)

Stands == OwnReview(reviews) # None /\ OwnReview(reviews).event = run.event

\* A quiet run relied on what stood when it read it; a submitted one put it there.
Decided ==
  /\ run.phase = "withdraw" => run.event = "comment"
  /\ ~meddled /\ run.event # "comment" /\ run.phase \in {"post", "extend", "record", "finish"} =>
       Stands \/ (run.phase = "post" /\ run.says)
  /\ ~meddled /\ run.event = "comment" /\ Unvouched(run.want) /\ ~run.standing
       /\ run.phase \in {"post", "extend", "record", "finish"} => ~Approved(reviews)

LEMMA DecidedReadOwn ==
  ASSUME Listed, ReadOwn PROVE Decided'
<1>1. run.want \in Proposals /\ UNCHANGED <<reviews, meddled>>
  BY RunShape DEF ReadOwn, InPhase, Listed
<1>2. CASE Fault /\ Ends
  BY <1>2 DEF Ends, Idle, Decided
<1>3. CASE ~(Fault /\ Ends)
  <2>1. PICK known \in BOOLEAN,
             receipt \in {IF store = None THEN None ELSE store.receipt, None} :
          LET previous == IF known THEN OwnReview(reviews) ELSE None
              event == Verdict(run.want, previous, run.draft)
              said == \/ RedundantApproval(run.want, event, previous)
                      \/ Redundant(run.want, event, receipt, previous, known)
          IN /\ IF known /\ (store = None \/ receipt = store.receipt)
                THEN UNCHANGED faults ELSE Fault
             /\ run' = [phase |-> IF Withdraws(run.want, event, previous, known)
                                  THEN "withdraw" ELSE "post",
                        want |-> run.want, event |-> event, previous |-> previous,
                        known |-> known, says |-> ~said /\ Says(run.want, event),
                        standing |-> FALSE]
    BY <1>3 DEF ReadOwn
  <2> DEFINE previous == IF known THEN OwnReview(reviews) ELSE None
             event == Verdict(run.want, previous, run.draft)
             said == \/ RedundantApproval(run.want, event, previous)
                     \/ Redundant(run.want, event, receipt, previous, known)
  <2>2. /\ run'.event = event /\ run'.want = run.want
        /\ run'.phase = IF Withdraws(run.want, event, previous, known) THEN "withdraw" ELSE "post"
        /\ run'.says <=> (~said /\ Says(run.want, event))
    BY <2>1
  <2>3. event \in Events
    BY VerdictType
  <2>4. receipt # None => receipt.head \in Heads
    BY DEF Listed, TypeOK, Decisions
  <2> HIDE DEF event, previous
  <2>5. ASSUME said, event # "comment"
        PROVE  OwnReview(reviews) # None /\ OwnReview(reviews).event = event
    <3>1. CASE RedundantApproval(run.want, event, previous)
      <4>1. previous = [event |-> "approve", head |-> run.want.head] /\ event = "approve"
        BY <3>1 DEF RedundantApproval
      <4>2. previous \in Said
        BY <1>1, <4>1 DEF Said, Events, Proposals
      <4>3. QED
        BY <4>1, <4>2 DEF previous
    <3>2. CASE Redundant(run.want, event, receipt, previous, known)
      <4>1. previous = [event |-> event, head |-> receipt.head] /\ receipt # None
        BY <2>5, <3>2 DEF Redundant, SameStanding
      <4>2. previous \in Said
        BY <2>3, <2>4, <4>1 DEF Said
      <4>3. QED
        BY <4>1, <4>2 DEF previous
    <3>3. QED
      BY <2>5, <3>1, <3>2
  <2>6. event # "comment" => Says(run.want, event) /\ ~Withdraws(run.want, event, previous, known)
    BY DEF Says, Withdraws
  <2>7. event = "comment" /\ Unvouched(run.want)
        /\ ~Withdraws(run.want, event, previous, known) => ~Approved(reviews)
    BY DEF Withdraws, Approved, previous
  <2>8. run'.phase \in {"withdraw", "post"} /\ (run'.phase = "withdraw" => event = "comment")
    BY <2>2, <2>6
  <2>9. event # "comment" => (run'.says \/ said)
    BY <2>2, <2>6
  <2>10. Unvouched(run'.want) = Unvouched(run.want)
    BY <2>2
  <2>11. ~meddled' /\ event # "comment" => Stands' \/ run'.says
    BY <1>1, <2>2, <2>5, <2>9 DEF Stands
  <2>12. event = "comment" /\ Unvouched(run.want) /\ run'.phase = "post" => ~Approved(reviews')
    BY <1>1, <2>2, <2>7
  <2>13. QED
    BY <2>2, <2>8, <2>11, <2>12 DEF Decided
<1>4. QED
  BY <1>2, <1>3

LEMMA DecidedPost ==
  ASSUME Listed, Decided, Post PROVE Decided'
<1> USE DEF Listed
<1>1. CASE run' = Idle
  BY <1>1 DEF Idle, Decided
<1>2. CASE ~run.says /\ run' # Idle
  <2>1. run'.phase = "record" /\ run.phase = "post" /\ run'.event = run.event
        /\ run'.want = run.want /\ run'.standing = run.standing /\ UNCHANGED <<reviews, meddled>>
    BY <1>2, RunShape DEF Post, Go, InPhase, Ends
  <2>2. QED
    BY <1>2, <2>1 DEF Decided, Stands, Unvouched, Complete
<1>3. CASE run.says /\ run' # Idle
  <2>1. run'.phase = "extend" /\ run.phase = "post" /\ run'.event = run.event
        /\ run'.want = run.want /\ run'.standing = run.standing /\ UNCHANGED meddled
        /\ reviews' = Append(reviews, Entry(run.event, head, run.want))
    BY <1>3, RunShape DEF Post, Go, InPhase, Ends, Submitted
  <2> DEFINE e == Entry(run.event, head, run.want)
  <2>2. e \in Entries /\ e.event = run.event /\ e.dismissed = FALSE
    BY <2>1, SubmittedType DEF Entry
  <2> HIDE DEF e
  <2>3. reviews' = Append(reviews, e) /\ reviews \in Seq(Entries) /\ Ranked(reviews)
    BY <2>1 DEF e, TypeOK
  <2>4. CASE run.event # "comment"
    <3>1. OwnReview(reviews') # None /\ OwnReview(reviews').event = run.event
      BY <2>2, <2>3, <2>4, AppendVerdict
    <3>2. QED
      BY <2>1, <2>4, <3>1 DEF Decided, Stands
  <2>5. CASE run.event = "comment"
    <3>1. Approved(reviews') => Approved(reviews)
      BY <2>2, <2>3, <2>5, AppendComment
    <3>2. QED
      BY <2>1, <2>5, <3>1 DEF Decided, Unvouched, Complete
  <2>6. QED
    BY <2>4, <2>5
<1>4. QED
  BY <1>1, <1>2, <1>3

LEMMA DecidedStep == Listed /\ Decided /\ [Next]_vars => Decided'
<1> SUFFICES ASSUME Listed, Decided, [Next]_vars PROVE Decided'
  OBVIOUS
<1> USE DEF Listed
<1>1. CASE UNCHANGED vars \/ Push
  <2>1. UNCHANGED <<run, reviews, meddled>>
    BY <1>1 DEF Push, vars
  <2>2. QED
    BY <2>1 DEF Decided, Stands, Unvouched, Complete
<1>2. CASE Dismiss
  BY <1>2 DEF Dismiss, Decided
<1>3. CASE Review \/ ReadLive
  <2>1. run'.phase \in {"idle", "live", "own"}
    BY <1>3 DEF Review, ReadLive, Ends, Idle
  <2>2. QED
    BY <2>1 DEF Decided
<1>4. CASE ReadOwn
  BY <1>4, DecidedReadOwn
<1>5. CASE Withdraw
  <2>1. run'.phase = "post" /\ run.phase = "withdraw" /\ run'.event = run.event
    BY <1>5, RunShape DEF Withdraw, Go, InPhase
  <2>2. run'.event = "comment"
    BY <2>1 DEF Decided
  <2>3. run'.standing \/ reviews' = Withdrawn(reviews)
    BY <1>5, RunShape DEF Withdraw, Go, InPhase
  <2>4. QED
    BY <2>1, <2>2, <2>3, WithdrawnIs DEF Decided, TypeOK
<1>6. CASE Post
  BY <1>6, DecidedPost
<1>7. CASE Extend \/ RecordApplyState
  <2>1. run'.phase \in {"record", "finish"} /\ run.phase \in {"extend", "record"}
        /\ run'.event = run.event /\ run'.want = run.want /\ run'.standing = run.standing
        /\ UNCHANGED <<reviews, meddled>>
    BY <1>7, RunShape DEF Extend, RecordApplyState, Go, InPhase
  <2>2. QED
    BY <2>1 DEF Decided, Stands, Unvouched, Complete
<1>8. CASE Finish \/ Crash
  BY <1>8 DEF Finish, Crash, Ends, Idle, Decided
<1>9. QED
  BY <1>1, <1>2, <1>3, <1>4, <1>5, <1>6, <1>7, <1>8 DEF Next

\* After a run whose calls went well, its objection or its approval is the review
\* in force, submitted or relied on, and no approval is in force over a push it
\* could not vouch for (apply.rs: redundant decisions, withdrawal).
THEOREM VerdictIsInForce == Spec => []VerdictStands
<1>1. Init => Decided
  BY DEF Init, Decided, Idle
<1>2. Decided => VerdictStands
  BY DEF Decided, VerdictStands, Stands, Approved, InPhase
<1>3. QED
  BY <1>1, <1>2, ListedInit, ListedStep, DecidedStep, PTL DEF Spec

-----------------------------------------------------------------------------
(* Being quiet loses nothing                                               *)

Newest(list) == list[Len(list)]

\* A list that differs from another in what was dismissed only.
Reworded(list, less) ==
  /\ less \in Seq(Entries) /\ Len(less) = Len(list)
  /\ \A i \in DOMAIN list :
       /\ less[i].event = list[i].event /\ less[i].blocking = list[i].blocking
       /\ less[i].complete = list[i].complete

LEMMA DismissRewords ==
  ASSUME NEW list \in Seq(Entries), Ranked(list), NEW i \in DOMAIN list
  PROVE  Reworded(list, Dismissed(list, i))
<1>1. /\ Dismissed(list, i) \in Seq(Entries) /\ DOMAIN Dismissed(list, i) = DOMAIN list
      /\ \A j \in DOMAIN list \ {i} : Dismissed(list, i)[j] = list[j]
  BY DismissRanked
<1>2. Len(Dismissed(list, i)) = Len(list)
  BY <1>1, EntriesDomain
<1>3. /\ Dismissed(list, i)[i].event = list[i].event
      /\ Dismissed(list, i)[i].blocking = list[i].blocking
      /\ Dismissed(list, i)[i].complete = list[i].complete
  <2>1. PICK x \in Entries : x = list[i]
    BY EntriesDomain
  <2>2. LET y == [x EXCEPT !.dismissed = TRUE]
        IN y.event = x.event /\ y.blocking = x.blocking /\ y.complete = x.complete
    BY DEF Entries
  <2>3. Dismissed(list, i)[i] = [x EXCEPT !.dismissed = TRUE]
    BY <2>1 DEF Dismissed
  <2>4. QED
    BY <2>1, <2>2, <2>3
<1>4. QED
  BY <1>1, <1>2, <1>3 DEF Reworded

LEMMA WithdrawnRewords ==
  ASSUME NEW list \in Seq(Entries), Ranked(list)
  PROVE  Reworded(list, Withdrawn(list))
<1>1. CASE StandingApproval(list) = 0
  BY <1>1 DEF Withdrawn, Reworded
<1>2. CASE StandingApproval(list) # 0
  BY <1>2, ApprovalIs, DismissRewords DEF Withdrawn
<1>3. QED
  BY <1>1, <1>2

\* The newest review, if it is a verdict and nothing after the verdict in force
\* was dismissed, is the one in force.
LEMMA NewestStands ==
  ASSUME NEW list \in Seq(Entries), Ranked(list), list # <<>>,
         Newest(list).event # "comment",
         ~Newest(list).dismissed \/ Standing(list) # 0
  PROVE  Standing(list) = Len(list)
<1> DEFINE n == Len(list)
<1>1. n \in Nat \ {0} /\ DOMAIN list = 1..n
  BY EntriesDomain
<1>2. ~list[n].dismissed
  <2>1. CASE Standing(list) # 0
    <3>1. Standing(list) \in 1..n /\ InForce(list, Standing(list))
      BY <1>1, <2>1, StandingIs
    <3>2. QED
      BY <1>1, <3>1 DEF InForce
  <2>2. QED
    BY <2>1 DEF Newest
<1>3. InForce(list, n)
  BY <1>1, <1>2 DEF InForce, Newest
<1>4. Standing(list) # 0
  BY <1>1, <1>3, StandingIs
<1>5. Standing(list) \in 1..n /\ n <= Standing(list)
  BY <1>1, <1>3, <1>4, StandingIs
<1>6. QED
  BY <1>1, <1>5

\* The last review says what this decision does.
Repeats(event, blocking, complete) ==
  /\ reviews # <<>> /\ Newest(reviews).event = event
  /\ Newest(reviews).blocking = blocking /\ Newest(reviews).complete = complete

LEMMA RewordedRepeats ==
  ASSUME reviews \in Seq(Entries), reviews # <<>>, Reworded(reviews, reviews')
  PROVE  /\ reviews' # <<>>
         /\ Newest(reviews').event = Newest(reviews).event
         /\ Newest(reviews').blocking = Newest(reviews).blocking
         /\ Newest(reviews').complete = Newest(reviews).complete
<1>1. Len(reviews) \in DOMAIN reviews /\ Len(reviews') = Len(reviews)
  BY DEF Reworded
<1>2. reviews' # <<>>
  BY <1>1 DEF Reworded
<1>3. QED
  BY <1>1, <1>2 DEF Reworded, Newest

\* The receipt is about the last review, once the state knows of it; a run is
\* until then. What a quiet run relied on is still the last review.
Publishing == {"withdraw", "post", "extend", "record", "finish"}
Spoke == run.says /\ run.phase \in {"extend", "record"}
Speaking == run.says /\ run.phase \in {"withdraw", "post"}
Settled == Spoke \/ (~untold /\ ~Speaking)
ReceiptTrue ==
  ~untold /\ store # None /\ store.receipt # None =>
    Repeats(store.receipt.event, store.receipt.blocking, store.receipt.complete)
Traced ==
  /\ ReceiptTrue
  /\ run.phase \in Publishing =>
       /\ Spoke => Repeats(run.event, BlockingSet(run.want), Complete(run.want))
       /\ run.phase = "withdraw" => run.event = "comment"
       /\ ~meddled /\ run.event = "changes" /\ Settled =>
            /\ reviews # <<>> /\ Standing(reviews) = Len(reviews)
            /\ Newest(reviews).blocking = BlockingSet(run.want)
       /\ run.event = "comment" /\ run.want.coverage = "unanswered" /\ Settled =>
            reviews # <<>> /\ ~Newest(reviews).complete

\* The receipt a step leaves is the one it found, or none.
LEMMA ReceiptStays ==
  ASSUME Traced, UNCHANGED <<untold, reviews>>,
         store' # None /\ store'.receipt # None =>
           store # None /\ store.receipt = store'.receipt
  PROVE  ReceiptTrue'
  BY DEF Traced, ReceiptTrue, Repeats

LEMMA TracedReview ==
  ASSUME Listed, Traced, Review PROVE Traced'
<1>1. PICK stored \in {store, None} :
         \/ store' = store \/ store' = Kept(stored)
         \/ \E suppressed, raised : store' = Saved(stored, suppressed, raised)
  BY DEF Review
<1>2. store' # None /\ store'.receipt # None => store # None /\ store.receipt = store'.receipt
  BY <1>1 DEF Kept, Blank, Saved
<1>3. UNCHANGED <<reviews, untold>> /\ run'.phase = "live"
  BY DEF Review
<1>4. QED
  BY <1>2, <1>3, ReceiptStays DEF Traced, Publishing

LEMMA TracedReadOwn ==
  ASSUME Listed, Traced, ReadOwn PROVE Traced'
<1>1. UNCHANGED <<reviews, untold, store, meddled>>
  BY DEF ReadOwn
<1>2. CASE Fault /\ Ends
  BY <1>1, <1>2, ReceiptStays DEF Ends, Idle, Traced, Publishing
<1>3. CASE ~(Fault /\ Ends)
  <2>1. PICK known \in BOOLEAN,
             receipt \in {IF store = None THEN None ELSE store.receipt, None} :
          LET previous == IF known THEN OwnReview(reviews) ELSE None
              event == Verdict(run.want, previous, run.draft)
              said == \/ RedundantApproval(run.want, event, previous)
                      \/ Redundant(run.want, event, receipt, previous, known)
          IN /\ IF known /\ (store = None \/ receipt = store.receipt)
                THEN UNCHANGED faults ELSE Fault
             /\ run' = [phase |-> IF Withdraws(run.want, event, previous, known)
                                  THEN "withdraw" ELSE "post",
                        want |-> run.want, event |-> event, previous |-> previous,
                        known |-> known, says |-> ~said /\ Says(run.want, event),
                        standing |-> FALSE]
    BY <1>3 DEF ReadOwn
  <2> DEFINE previous == IF known THEN OwnReview(reviews) ELSE None
             event == Verdict(run.want, previous, run.draft)
             redundant == Redundant(run.want, event, receipt, previous, known)
             said == RedundantApproval(run.want, event, previous) \/ redundant
  <2>2. /\ run'.event = event /\ run'.want = run.want
        /\ run'.phase = IF Withdraws(run.want, event, previous, known) THEN "withdraw" ELSE "post"
        /\ run'.says <=> (~said /\ Says(run.want, event))
    BY <2>1
  <2>3. receipt # None =>
          store # None /\ store.receipt = receipt /\ (~untold =>
            Repeats(receipt.event, receipt.blocking, receipt.complete))
    BY DEF ReceiptTrue, Traced
  <2>4. Complete(run.want) \in BOOLEAN
    BY VerdictType
  <2>5. ~redundant => (event # "approve" => ~said)
    BY DEF RedundantApproval
  <2> HIDE DEF event, redundant, said
  <2>6. run'.phase \in {"withdraw", "post"} /\ (run'.phase = "withdraw" => event = "comment")
    BY <2>2 DEF Withdraws
  <2>7. ASSUME event = "changes", ~run'.says, ~untold
        PROVE  /\ reviews # <<>> /\ Standing(reviews) = Len(reviews)
               /\ Newest(reviews).blocking = BlockingSet(run.want)
    <3>1. redundant
      BY <2>2, <2>5, <2>7 DEF Says
    <3>2. /\ receipt # None /\ receipt.event = "changes"
          /\ receipt.blocking = BlockingSet(run.want)
          /\ previous = [event |-> "changes", head |-> receipt.head]
      BY <2>7, <3>1 DEF redundant, Redundant, SameDecision, SameStanding
    <3>3. Repeats("changes", BlockingSet(run.want), receipt.complete)
      BY <2>3, <2>7, <3>2
    <3>4. Standing(reviews) # 0
      <4>1. receipt.head \in Heads
        BY <2>3, <3>2 DEF Listed, TypeOK, Decisions
      <4>2. previous \in Said
        BY <3>2, <4>1 DEF Said, Events
      <4>3. OwnReview(reviews) = previous /\ previous # None /\ previous.event = "changes"
        BY <3>2, <4>2 DEF previous
      <4>4. QED
        BY <4>3, OwnReviewIs DEF Listed, TypeOK
    <3>5. QED
      BY <3>3, <3>4, NewestStands DEF Repeats, Listed, TypeOK
  <2>8. ASSUME event = "comment", run.want.coverage = "unanswered", ~run'.says, ~untold
        PROVE  reviews # <<>> /\ ~Newest(reviews).complete
    <3>1. redundant
      BY <2>2, <2>5, <2>8 DEF Says
    <3>2. receipt # None /\ receipt.complete = Complete(run.want)
      BY <2>8, <3>1 DEF redundant, Redundant, SameDecision
    <3>3. QED
      BY <2>3, <2>8, <3>2 DEF Repeats, Complete
  <2> HIDE DEF previous
  <2>9. ~Spoke' /\ (Settled' => ~untold /\ ~run'.says)
    BY <1>1, <2>6 DEF Spoke, Speaking, Settled
  <2>10. ReceiptTrue'
    BY <1>1, ReceiptStays
  <2>11. QED
    BY <1>1, <2>2, <2>6, <2>7, <2>8, <2>9, <2>10 DEF Traced, BlockingSet
<1>4. QED
  BY <1>2, <1>3

LEMMA TracedPost ==
  ASSUME Listed, Traced, Post PROVE Traced'
<1>1. UNCHANGED <<store, meddled>> /\ run.phase = "post"
  BY DEF Post, InPhase
<1>2. CASE run' = Idle
  <2>1. UNCHANGED <<reviews, untold>> \/ untold'
    BY <1>2 DEF Post
  <2>2. run'.phase \notin Publishing
    BY <1>2 DEF Idle, Publishing
  <2>3. CASE untold'
    BY <2>2, <2>3 DEF ReceiptTrue, Traced
  <2>4. CASE UNCHANGED <<reviews, untold>>
    BY <1>1, <2>2, <2>4, ReceiptStays DEF Traced
  <2>5. QED
    BY <2>1, <2>3, <2>4
<1>3. CASE ~run.says /\ run' # Idle
  <2>1. /\ run'.phase = "record" /\ run'.event = run.event /\ run'.want = run.want
        /\ run'.says = run.says /\ UNCHANGED <<reviews, untold>>
    BY <1>3, RunShape DEF Post, Go, InPhase, Ends, Listed
  <2>2. ~Spoke' /\ Settled' = Settled
    BY <1>1, <1>3, <2>1 DEF Spoke, Speaking, Settled
  <2>3. ReceiptTrue'
    BY <1>1, <2>1, ReceiptStays
  <2>4. QED
    BY <1>1, <2>1, <2>2, <2>3 DEF Traced, Publishing, BlockingSet
<1>4. CASE run.says /\ run' # Idle
  <2>1. /\ run'.phase = "extend" /\ run'.event = run.event /\ run'.want = run.want
        /\ run'.says = run.says /\ untold'
        /\ reviews' = Append(reviews, Entry(run.event, head, run.want))
    BY <1>4, RunShape DEF Post, Go, InPhase, Ends, Listed, Submitted
  <2> DEFINE e == Entry(run.event, head, run.want)
  <2>2. /\ e.event = run.event /\ e.dismissed = FALSE
        /\ e.blocking = BlockingSet(run.want) /\ e.complete = Complete(run.want)
    BY DEF Entry
  <2>3. reviews' \in Seq(Entries) /\ Ranked(reviews')
    BY <1>1, <2>1, SubmittedType DEF Submitted
  <2>4. e \in Entries
    BY <1>1, SubmittedType
  <2> HIDE DEF e
  <2>5. reviews' # <<>> /\ Newest(reviews') = e
    <3>1. reviews \in Seq(Entries) /\ reviews' = Append(reviews, e)
      BY <2>1 DEF e, Listed, TypeOK
    <3>2. QED
      BY <2>4, <3>1 DEF Newest
  <2>6. run.event = "changes" => Standing(reviews') = Len(reviews')
    BY <2>2, <2>3, <2>5, NewestStands
  <2>7. run.want.coverage = "unanswered" => ~Complete(run.want)
    BY DEF Complete
  <2>8. QED
    BY <2>1, <2>2, <2>5, <2>6, <2>7 DEF ReceiptTrue, Traced, Repeats, BlockingSet, Complete
<1>5. QED
  BY <1>2, <1>3, <1>4

LEMMA TracedRecord ==
  ASSUME Listed, Traced, Extend \/ RecordApplyState PROVE Traced'
<1>1. UNCHANGED <<reviews, meddled>>
  BY DEF Extend, RecordApplyState
<1>2. CASE Extend
  <2>1. /\ run'.phase = "record" /\ run.phase = "extend" /\ run'.event = run.event
        /\ run'.want = run.want /\ run'.says = run.says /\ UNCHANGED untold
    BY <1>2, RunShape DEF Extend, Go, InPhase, Listed
  <2>2. store' # None /\ store'.receipt # None => store # None /\ store.receipt = store'.receipt
    BY <1>2 DEF Extend, Listed, TypeOK
  <2>3. Spoke' = Spoke /\ Settled' = Settled
    BY <2>1 DEF Spoke, Speaking, Settled
  <2>4. ReceiptTrue'
    BY <1>1, <2>1, <2>2, ReceiptStays
  <2>5. QED
    BY <1>1, <2>1, <2>3, <2>4 DEF Traced, Publishing, Repeats, BlockingSet, Complete
<1>3. CASE RecordApplyState
  <2>1. /\ run'.phase = "finish" /\ run.phase = "record" /\ run'.event = run.event
        /\ run'.want = run.want /\ run'.says = run.says
        /\ untold' = untold \/ (untold' = (untold /\ ~run.says) /\ store' = Recorded)
        /\ store' = store \/ store' = Recorded
    BY <1>3, RunShape DEF RecordApplyState, Go, InPhase, Listed
  <2>2. Settled' => Settled
    BY <2>1 DEF Spoke, Speaking, Settled
  <2>3. ~Spoke'
    BY <2>1 DEF Spoke
  <2>4. ReceiptTrue'
    <3>1. CASE run.says /\ store' = Recorded
      <4>1. Repeats(run.event, BlockingSet(run.want), Complete(run.want))
        BY <2>1, <3>1 DEF Traced, Spoke, Publishing
      <4>2. store'.receipt = Receipt
        BY <3>1, StoreType DEF Recorded, Listed
      <4>3. /\ store'.receipt.event = run.event /\ store'.receipt.complete = Complete(run.want)
            /\ store'.receipt.blocking = BlockingSet(run.want)
        BY <4>2 DEF Receipt
      <4>4. QED
        BY <1>1, <4>1, <4>3 DEF ReceiptTrue, Repeats
    <3>2. CASE ~(run.says /\ store' = Recorded)
      <4>1. store' # None /\ store'.receipt # None => store # None /\ store.receipt = store'.receipt
        BY <2>1, <3>2 DEF Recorded, Kept, Blank
      <4>2. UNCHANGED untold
        BY <2>1, <3>2 DEF Listed, TypeOK
      <4>3. QED
        BY <1>1, <4>1, <4>2, ReceiptStays
    <3>3. QED
      BY <3>1, <3>2
  <2>5. QED
    BY <1>1, <2>1, <2>2, <2>3, <2>4 DEF Traced, Publishing, BlockingSet
<1>4. QED
  BY <1>2, <1>3

\* A dismissal changes no review that was said.
LEMMA TracedDismissed ==
  ASSUME Listed, Traced, UNCHANGED <<store, untold>>, Reworded(reviews, reviews'),
         \/ run' = run /\ meddled'
         \/ /\ run.phase = "withdraw" /\ run'.phase = "post" /\ run'.event = run.event
            /\ run'.want = run.want /\ run'.says = run.says
  PROVE  Traced'
<1>1. reviews # <<>> =>
        /\ reviews' # <<>>
        /\ Newest(reviews').event = Newest(reviews).event
        /\ Newest(reviews').blocking = Newest(reviews).blocking
        /\ Newest(reviews').complete = Newest(reviews).complete
  BY RewordedRepeats DEF Listed, TypeOK
<1>2. ReceiptTrue'
  BY <1>1 DEF ReceiptTrue, Traced, Repeats
<1>3. CASE run' = run /\ meddled'
  <2>1. Spoke' = Spoke /\ Settled' = Settled
    BY <1>3 DEF Spoke, Speaking, Settled
  <2>2. QED
    BY <1>1, <1>2, <1>3, <2>1 DEF Traced, Repeats, BlockingSet, Complete
<1>4. CASE /\ run.phase = "withdraw" /\ run'.phase = "post" /\ run'.event = run.event
           /\ run'.want = run.want /\ run'.says = run.says
  <2>1. ~Spoke' /\ Settled' = Settled /\ run.event = "comment"
    BY <1>4 DEF Spoke, Speaking, Settled, Traced, Publishing
  <2>2. QED
    BY <1>1, <1>2, <1>4, <2>1 DEF Traced, Publishing
<1>5. QED
  BY <1>3, <1>4

LEMMA TracedStep == Listed /\ Traced /\ [Next]_vars => Traced'
<1> SUFFICES ASSUME Listed, Traced, [Next]_vars PROVE Traced'
  OBVIOUS
<1>1. CASE UNCHANGED vars \/ Push
  <2>1. UNCHANGED <<run, reviews, meddled, untold, store>>
    BY <1>1 DEF Push, vars
  <2>2. QED
    BY <2>1 DEF ReceiptTrue, Traced, Repeats, Spoke, Speaking, Settled, BlockingSet, Complete
<1>2. CASE Dismiss
  <2>1. Reworded(reviews, reviews')
    BY <1>2, StandingIs, DismissRewords DEF Dismiss, Listed, TypeOK
  <2>2. QED
    BY <1>2, <2>1, TracedDismissed DEF Dismiss
<1>3. CASE ReadLive \/ Finish \/ Crash
  <2>1. UNCHANGED <<reviews, untold, store>> /\ run'.phase \in {"idle", "own"}
    BY <1>3 DEF ReadLive, Finish, Crash, Ends, Idle
  <2>2. QED
    BY <2>1, ReceiptStays DEF Traced, Publishing
<1>4. CASE Withdraw
  <2>1. /\ run.phase = "withdraw" /\ run'.phase = "post" /\ run'.event = run.event
        /\ run'.want = run.want /\ run'.says = run.says /\ UNCHANGED <<store, untold>>
    BY <1>4, RunShape DEF Withdraw, Go, InPhase, Listed
  <2>2. Reworded(reviews, reviews')
    <3>1. reviews \in Seq(Entries) /\ Ranked(reviews)
      BY DEF Listed, TypeOK
    <3>2. Reworded(reviews, reviews) /\ Reworded(reviews, Withdrawn(reviews))
      BY <3>1, WithdrawnRewords DEF Reworded
    <3>3. reviews' \in {reviews, Withdrawn(reviews)}
      BY <1>4 DEF Withdraw
    <3>4. QED
      BY <3>2, <3>3
  <2>3. QED
    BY <2>1, <2>2, TracedDismissed
<1>5. QED
  BY <1>1, <1>2, <1>3, <1>4, TracedReview, TracedReadOwn, TracedPost, TracedRecord DEF Next

\* A run that keeps quiet found what the last review says: the objection in force
\* names its blocking findings, and an unanswered push is not passed over for a
\* complete one (apply.rs: redundant_decision, the receipt).
THEOREM NothingFoundIsLost == Spec => []SaysWhatItFound
<1>1. Init => Traced
  BY DEF ReceiptTrue, Init, Traced, Idle, Publishing
<1>2. Traced => SaysWhatItFound
  BY DEF Traced, SaysWhatItFound, Settled, Spoke, Speaking, Newest, InPhase, Publishing
<1>3. QED
  BY <1>1, <1>2, ListedInit, ListedStep, TracedStep, PTL DEF Spec
=============================================================================

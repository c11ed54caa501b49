------------------------ MODULE CheckSettlementProofs ------------------------
(***************************************************************************)
(* What holds of the e2e check for every number of jobs, deliveries,       *)
(* reviews and faults: the types, that a green check was earned, that a    *)
(* settlement takes away only what it settled, and that without a fault no *)
(* settlement is missed.                                                   *)
(***************************************************************************)
EXTENDS CheckSettlement, TLAPS

USE SettlementAssumption DEF SettlementAssumption

\* The steps of the forge, of the review, of one delivery.
World == Push \/ Lapse \/ \E h \in Heads, j \in Jobs : Conclude(h, j)
Review == Begin \/ Reviewing \/ CrashReview
Handle(s) == Handling(s) \/ GiveUp(s) \/ FailRead(s) \/ CrashHandler(s)

-----------------------------------------------------------------------------
(* Types                                                                   *)

LEMMA TypeInit == Init => TypeOK
<1> SUFFICES ASSUME Init PROVE TypeOK
  OBVIOUS
<1>1. head \in Heads /\ jobs \in [Heads -> [Jobs -> Outcomes \cup {"pending"}]]
  BY DEF Init, Heads
<1>2. check \in [Heads -> Conclusions]
  BY DEF Init, Conclusions
<1>3. handler \in [Handlers -> Deliveries] /\ review \in Reviews
  BY DEF Init, Deliveries, Reviews, Idle
<1>4. QED
  BY <1>1, <1>2, <1>3 DEF Init, TypeOK, WatchesOrNone

\* What a review knows in each phase, and a handler.
LEMMA ReviewShape ==
  ASSUME TypeOK
  PROVE  /\ review.phase = "save" =>
              /\ review.gen \in 1..MaxReviews /\ review.head \in Heads
              /\ review.waits \subseteq Jobs /\ review.failed \in BOOLEAN
              /\ review.stored \in WatchesOrNone
         /\ review.phase \in {"live", "publish"} =>
              /\ review \in [phase : {"live", "publish"}, head : Heads,
                             conclusion : Conclusions]
         /\ review.phase = "store" => review.copy \in WatchesOrNone
  BY DEF TypeOK, Reviews, Idle

LEMMA HandlerShape ==
  ASSUME TypeOK, NEW s \in Handlers
  PROVE  /\ handler[s].phase \in {"live", "checks", "clear"} =>
              handler[s] \in [phase : {"live", "checks", "clear"}, watch : Watches]
         /\ handler[s].phase = "publish" =>
              /\ handler[s].watch \in Watches
              /\ handler[s].verdict \in {"failure", "success"}
         /\ handler[s].phase \in {"idle", "claim", "load", "release"} =>
              handler[s] \in [phase : {"idle", "claim", "load", "release"}]
  BY DEF TypeOK, Deliveries

LEMMA WorldType ==
  ASSUME TypeOK, World PROVE TypeOK'
<1>1. CASE Push
  BY <1>1 DEF TypeOK, Push, Heads, reviewing, settling
<1>2. CASE Lapse
  BY <1>2 DEF TypeOK, Lapse, Fault, reviewing
<1>3. ASSUME NEW h \in Heads, NEW j \in Jobs, Conclude(h, j) PROVE TypeOK'
  <2>1. jobs' \in [Heads -> [Jobs -> Outcomes \cup {"pending"}]]
    BY <1>3 DEF TypeOK, Conclude
  <2>2. QED
    BY <1>3, <2>1 DEF TypeOK, Conclude, Announced, reviewing, settling
<1>4. QED
  BY <1>1, <1>2, <1>3 DEF World

LEMMA WatchType ==
  ASSUME TypeOK, review.phase = "save" PROVE Watch(review) \in WatchesOrNone
  BY ReviewShape DEF Watch, WatchesOrNone, Watches

LEMMA ReviewType ==
  ASSUME TypeOK, Review PROVE TypeOK'
<1>1. CASE Begin
  <2>1. PICK full \in BOOLEAN, answered \in BOOLEAN, objects \in BOOLEAN,
             stored \in {watch, None} :
          /\ review' = [phase |-> "save", gen |-> begun + 1, head |-> head, full |-> full,
                        waits |-> Pending(head), answered |-> answered, stored |-> stored,
                        failed |-> objects \/ \E j \in Jobs : jobs[head][j] \in FailOn]
          /\ IF stored = watch THEN UNCHANGED faults ELSE Fault
    BY <1>1 DEF Begin
  <2>2. Pending(head) \in SUBSET Jobs
    BY DEF Pending
  <2>3. (objects \/ \E j \in Jobs : jobs[head][j] \in FailOn) \in BOOLEAN
    OBVIOUS
  <2>4. begun + 1 \in 1..MaxReviews /\ begun' \in 0..MaxReviews
    BY <1>1 DEF Begin, TypeOK
  <2>5. stored \in WatchesOrNone
    BY DEF TypeOK, WatchesOrNone
  <2>6. review' \in Reviews
    BY <2>1, <2>2, <2>3, <2>4, <2>5 DEF TypeOK, Reviews
  <2>7. faults' \in 0..MaxFaults
    BY <2>1 DEF Fault, TypeOK
  <2>8. QED
    BY <1>1, <2>4, <2>6, <2>7 DEF Begin, TypeOK, settling
<1>2. CASE SaveState
  <2>1. review' \in Reviews
    BY <1>2, ReviewShape DEF SaveState, Reviews, Conclusion, Conclusions
  <2>2. \A w \in WatchesOrNone : Generation(w) \in 0..MaxReviews
    BY DEF Generation, WatchesOrNone, Watches
  <2>3. watch' \in WatchesOrNone /\ latest' \in 0..MaxReviews
    BY <1>2, <2>2, ReviewShape, WatchType DEF SaveState, Saves, TypeOK
  <2>4. faults' \in 0..MaxFaults
    BY <1>2 DEF SaveState, Fault, TypeOK
  <2>5. QED
    BY <1>2, <2>1, <2>3, <2>4 DEF SaveState, TypeOK, settling
<1>3. CASE ReadLive
  BY <1>3, ReviewShape DEF ReadLive, TypeOK, Reviews, settling
<1>4. CASE Publish
  <2>1. review' \in Reviews
    BY <1>4 DEF Publish, Reviews
  <2>2. check' \in [Heads -> Conclusions]
    BY <1>4, ReviewShape DEF Publish, TypeOK
  <2>3. events' \in Nat /\ faults' \in 0..MaxFaults
    BY <1>4 DEF Publish, Announced, Fault, TypeOK
  <2>4. QED
    BY <1>4, <2>1, <2>2, <2>3 DEF Publish, TypeOK, settling
<1>5. CASE Load
  BY <1>5 DEF Load, TypeOK, Reviews, settling
<1>6. CASE Store
  <2>1. \A w \in WatchesOrNone : Generation(w) \in 0..MaxReviews
    BY DEF Generation, WatchesOrNone, Watches
  <2>2. QED
    BY <1>6, <2>1, ReviewShape DEF Store, Saves, Fault, TypeOK, Reviews, settling
<1>7. CASE CrashReview
  BY <1>7 DEF CrashReview, Fault, TypeOK, Reviews, settling
<1>8. QED
  BY <1>1, <1>2, <1>3, <1>4, <1>5, <1>6, <1>7 DEF Review, Reviewing

LEMMA HandlerType ==
  ASSUME TypeOK, NEW s \in Handlers, Handle(s) PROVE TypeOK'
<1>1. handler' \in [Handlers -> Deliveries]
  <2>1. CASE Deliver(s) \/ Claim(s) \/ GiveUp(s) \/ Release(s) \/ CrashHandler(s)
    BY <2>1, HandlerShape DEF Deliver, Claim, GiveUp, Release, CrashHandler, Go, At,
       TypeOK, Deliveries, Idle
  <2>2. CASE LoadWatch(s)
    BY <2>2 DEF LoadWatch, TypeOK, Deliveries, WatchesOrNone
  <2>3. CASE ReadHead(s)
    BY <2>3, HandlerShape DEF ReadHead, At, Go, TypeOK, Deliveries
  <2>4. CASE ReadChecks(s)
    BY <2>4, HandlerShape DEF ReadChecks, At, Verdict, TypeOK, Deliveries
  <2>5. CASE FailRead(s) \/ PublishVerdict(s) \/ ClearWatch(s)
    BY <2>5, HandlerShape DEF FailRead, PublishVerdict, ClearWatch, At, TypeOK, Deliveries
  <2>6. QED
    BY <2>1, <2>2, <2>3, <2>4, <2>5 DEF Handle, Handling
<1>2. watch' \in WatchesOrNone /\ lease' \in Handlers \cup {None}
  BY DEF Handle, Handling, Deliver, Claim, GiveUp, LoadWatch, ReadHead, ReadChecks, FailRead,
     PublishVerdict, ClearWatch, Cleared, Release, CrashHandler, TypeOK, WatchesOrNone, reviewing
<1>3. faults' \in 0..MaxFaults
  BY DEF Handle, Handling, Deliver, Claim, GiveUp, LoadWatch, ReadHead, ReadChecks, FailRead,
     PublishVerdict, ClearWatch, Release, CrashHandler, TypeOK, Fault
<1>4. events' \in Nat
  BY DEF Handle, Handling, Deliver, Claim, GiveUp, LoadWatch, ReadHead, ReadChecks, FailRead,
     PublishVerdict, ClearWatch, Release, CrashHandler, TypeOK, Announced
<1>5. check' \in [Heads -> Conclusions] /\ settled' \subseteq 1..MaxReviews
  <2>1. CASE PublishVerdict(s)
    BY <2>1, HandlerShape DEF PublishVerdict, At, TypeOK, Watches, Conclusions
  <2>2. CASE ~PublishVerdict(s)
    BY <2>2 DEF Handle, Handling, Deliver, Claim, GiveUp, LoadWatch, ReadHead, ReadChecks,
       FailRead, ClearWatch, Release, CrashHandler, TypeOK
  <2>3. QED
    BY <2>1, <2>2
<1>6. UNCHANGED <<head, jobs, review, begun, latest>>
  BY DEF Handle, Handling, Deliver, Claim, GiveUp, LoadWatch, ReadHead, ReadChecks, FailRead,
     PublishVerdict, ClearWatch, Release, CrashHandler, reviewing
<1>7. QED
  BY <1>1, <1>2, <1>3, <1>4, <1>5, <1>6 DEF TypeOK

LEMMA Steps ==
  ASSUME Next PROVE World \/ Review \/ \E s \in Handlers : Handle(s)
  BY DEF Next, World, Review, Handle

LEMMA TypeStep == TypeOK /\ [Next]_vars => TypeOK'
<1> SUFFICES ASSUME TypeOK, [Next]_vars PROVE TypeOK'
  OBVIOUS
<1>1. CASE UNCHANGED vars
  BY <1>1 DEF TypeOK, vars, reviewing, settling
<1>2. CASE Next
  BY <1>2, Steps, WorldType, ReviewType, HandlerType
<1>3. QED
  BY <1>1, <1>2

\* The record, the review and every delivery keep their shape, however calls
\* fail and leases lapse (settle_e2e, apply, review).
THEOREM TypeCorrect == Spec => []TypeOK
<1>1. QED
  BY TypeInit, TypeStep, PTL DEF Spec

-----------------------------------------------------------------------------
(* A green check was earned                                                *)

Passed(h, j) == jobs[h][j] # "pending" /\ jobs[h][j] \notin FailOn
Green(h) == \A j \in Jobs : Passed(h, j)

\* What a watch leaves out has passed, unless it says the lane failed.
Sound(w) == w.failed \/ \A j \in Jobs \ w.jobs : Passed(w.head, j)

\* Every decision to publish green was made on jobs that had all passed.
ReviewSound ==
  /\ review.phase = "save" =>
       /\ review.failed \/ \A j \in Jobs \ review.waits : Passed(review.head, j)
       /\ review.stored # None => Sound(review.stored)
  /\ review.phase = "store" /\ review.copy # None => Sound(review.copy)
  /\ review.phase \in {"live", "publish"} /\ review.conclusion = "success" =>
       Green(review.head)
HandlerSound(s) ==
  /\ handler[s].phase \in {"live", "checks", "publish", "clear"} => Sound(handler[s].watch)
  /\ handler[s].phase = "publish" /\ handler[s].verdict = "success" =>
       Green(handler[s].watch.head)
Earned ==
  /\ SuccessIsEarned
  /\ watch # None => Sound(watch)
  /\ ReviewSound
  /\ \A s \in Handlers : HandlerSound(s)

\* A job that passed on a head has passed there for good.
LEMMA PassedStays ==
  ASSUME TypeOK, [Next]_vars
  PROVE  /\ \A h \in Heads, j \in Jobs : Passed(h, j) => Passed(h, j)'
         /\ \A h \in Heads : Green(h) => Green(h)'
         /\ \A w \in Watches : Sound(w) => Sound(w)'
<1>1. \A h \in Heads, j \in Jobs : Passed(h, j) => Passed(h, j)'
  <2>1. CASE \E h \in Heads, j \in Jobs : Conclude(h, j)
    BY <2>1 DEF Conclude, TypeOK, Passed
  <2>2. CASE UNCHANGED jobs
    BY <2>2 DEF Passed
  <2>3. (\E h \in Heads, j \in Jobs : Conclude(h, j)) \/ UNCHANGED jobs
    BY DEF Next, Push, Begin, Reviewing, SaveState, ReadLive, Publish, Load, Store, CrashReview,
       Lapse, Handling, Deliver, Claim, LoadWatch, ReadHead, ReadChecks, PublishVerdict, ClearWatch,
       Release, GiveUp, FailRead, CrashHandler, vars
  <2>4. QED
    BY <2>1, <2>2, <2>3
<1>2. \A h \in Heads : Green(h) => Green(h)'
  BY <1>1 DEF Green
<1>3. \A w \in Watches : Sound(w) => Sound(w)'
  BY <1>1 DEF Sound, Watches
<1>4. QED
  BY <1>1, <1>2, <1>3

LEMMA WatchSound ==
  ASSUME TypeOK, ReviewSound, review.phase = "save"
  PROVE  Watch(review) # None => Sound(Watch(review))
<1>1. review.failed \in BOOLEAN
  BY ReviewShape
<1>2. CASE review.waits = {}
  BY <1>2 DEF Watch
<1>3. CASE review.waits # {}
  <2>1. Watch(review) = [gen |-> review.gen, head |-> review.head, jobs |-> review.waits,
                         failed |-> review.failed]
    BY <1>3 DEF Watch
  <2>2. QED
    BY <2>1 DEF Sound, ReviewSound
<1>4. QED
  BY <1>2, <1>3

LEMMA EarnedInit == Init => Earned
  BY DEF Init, Earned, SuccessIsEarned, ReviewSound, HandlerSound, Idle

\* What a step leaves alone stays sound.
LEMMA SoundStays ==
  ASSUME TypeOK, Earned, [Next]_vars
  PROVE  /\ UNCHANGED watch => (watch # None => Sound(watch))'
         /\ UNCHANGED review => ReviewSound'
         /\ \A s \in Handlers : handler'[s] = handler[s] => HandlerSound(s)'
         /\ UNCHANGED check => SuccessIsEarned'
<1>1. UNCHANGED watch => (watch # None => Sound(watch))'
  <2>1. SUFFICES ASSUME UNCHANGED watch, watch # None PROVE Sound(watch)'
    OBVIOUS
  <2>2. watch \in Watches /\ Sound(watch)
    BY <2>1 DEF Earned, TypeOK, WatchesOrNone
  <2>3. PICK w \in Watches : w = watch
    BY <2>2
  <2>4. Sound(w) /\ Sound(w)'
    BY <2>2, <2>3, PassedStays
  <2>5. QED
    BY <2>1, <2>3, <2>4 DEF Sound, Passed
<1>2. UNCHANGED review => ReviewSound'
  <2> SUFFICES ASSUME UNCHANGED review PROVE ReviewSound'
    OBVIOUS
  <2>1. ASSUME review.phase = "save"
        PROVE  /\ review.failed \/ \A j \in Jobs \ review.waits : Passed(review.head, j)'
               /\ review.stored # None => Sound(review.stored)'
    <3>1. review.head \in Heads /\ review.stored \in WatchesOrNone /\ review.failed \in BOOLEAN
      BY <2>1, ReviewShape
    <3>2. review.failed \/ \A j \in Jobs \ review.waits : Passed(review.head, j)'
      BY <2>1, <3>1, PassedStays DEF Earned, ReviewSound, Passed
    <3>3. review.stored # None => Sound(review.stored)'
      BY <2>1, <3>1, PassedStays DEF Earned, ReviewSound, WatchesOrNone, Sound, Passed
    <3>4. QED
      BY <3>2, <3>3
  <2>2. ASSUME review.phase = "store", review.copy # None PROVE Sound(review.copy)'
    BY <2>2, ReviewShape, PassedStays DEF Earned, ReviewSound, WatchesOrNone, Sound, Passed
  <2>3. ASSUME review.phase \in {"live", "publish"}, review.conclusion = "success"
        PROVE  Green(review.head)'
    BY <2>3, ReviewShape, PassedStays DEF Earned, ReviewSound, Green, Passed
  <2>4. QED
    BY <2>1, <2>2, <2>3 DEF ReviewSound, Sound, Passed, Green
<1>3. ASSUME NEW s \in Handlers, handler'[s] = handler[s] PROVE HandlerSound(s)'
  <2>1. ASSUME handler[s].phase \in {"live", "checks", "publish", "clear"}
        PROVE  Sound(handler[s].watch)'
    BY <1>3, <2>1, HandlerShape, PassedStays DEF Earned, HandlerSound, Sound, Passed
  <2>2. ASSUME handler[s].phase = "publish", handler[s].verdict = "success"
        PROVE  Green(handler[s].watch.head)'
    BY <1>3, <2>2, HandlerShape, PassedStays DEF Earned, HandlerSound, Green, Passed, Watches
  <2>3. QED
    BY <1>3, <2>1, <2>2 DEF HandlerSound, Sound, Green, Passed
<1>4. UNCHANGED check => SuccessIsEarned'
  BY PassedStays DEF Earned, SuccessIsEarned, Passed
<1>5. QED
  BY <1>1, <1>2, <1>3, <1>4

\* The review decides on the jobs it read, and publishes what it decided.
LEMMA ReviewEarns ==
  ASSUME TypeOK, Earned, Review PROVE Earned'
<1> USE SoundStays DEF Earned
<1>0. [Next]_vars
  BY DEF Review, Next
<1>1. CASE Begin
  <2>1. PICK full \in BOOLEAN, answered \in BOOLEAN, objects \in BOOLEAN,
             stored \in {watch, None} :
          review' = [phase |-> "save", gen |-> begun + 1, head |-> head, full |-> full,
                     waits |-> Pending(head), answered |-> answered, stored |-> stored,
                     failed |-> objects \/ \E j \in Jobs : jobs[head][j] \in FailOn]
    BY <1>1 DEF Begin
  <2>2. UNCHANGED <<head, jobs, check, watch, handler>>
    BY <1>1 DEF Begin, settling
  <2>3. review'.failed \/ \A j \in Jobs \ review'.waits : Passed(review'.head, j)
    BY <2>1 DEF Pending, Passed
  <2>4. stored # None => Sound(stored)
    BY DEF Earned
  <2>5. ReviewSound'
    BY <2>1, <2>2, <2>3, <2>4 DEF ReviewSound, Sound, Passed
  <2>6. QED
    BY <1>0, <2>2, <2>5
<1>2. CASE SaveState
  <2>1. Conclusion(review) = "success" => Green(review.head)
    BY <1>2, ReviewShape DEF SaveState, Conclusion, ReviewSound, Green
  <2>2. UNCHANGED <<jobs, check, handler>>
    BY <1>2 DEF SaveState, settling
  <2>3. ReviewSound'
    BY <1>2, <2>1, <2>2 DEF SaveState, ReviewSound, Green, Passed
  <2>4. watch' \in {watch, review.stored, Watch(review)}
    BY <1>2 DEF SaveState, Saves
  <2>5. watch' # None => Sound(watch')
    BY <1>2, <2>4, WatchSound DEF SaveState, ReviewSound
  <2>6. QED
    BY <1>0, <2>2, <2>3, <2>5 DEF Sound, Passed
<1>3. CASE ReadLive
  <2>1. UNCHANGED <<jobs, check, watch, handler>>
    BY <1>3 DEF ReadLive, settling
  <2>2. ReviewSound'
    BY <1>3, <2>1, ReviewShape DEF ReadLive, ReviewSound, Idle, Green, Passed
  <2>3. QED
    BY <1>0, <2>1, <2>2
<1>4. CASE Publish
  <2>1. UNCHANGED <<jobs, watch, handler>>
    BY <1>4 DEF Publish, settling
  <2>2. ReviewSound'
    BY <1>4 DEF Publish, ReviewSound, Idle
  <2>3. check' = check \/ check' = [check EXCEPT ![review.head] = review.conclusion]
    BY <1>4 DEF Publish
  <2>4. SuccessIsEarned'
    BY <1>4, <2>1, <2>3 DEF Publish, SuccessIsEarned, ReviewSound, Green, Passed, TypeOK
  <2>5. QED
    BY <1>0, <2>1, <2>2, <2>4
<1>5. CASE Load
  <2>1. UNCHANGED <<jobs, check, watch, handler>>
    BY <1>5 DEF Load, settling
  <2>2. ReviewSound'
    BY <1>5, <2>1 DEF Load, ReviewSound, Sound, Passed
  <2>3. QED
    BY <1>0, <2>1, <2>2
<1>6. CASE Store
  <2>1. UNCHANGED <<jobs, check, handler>>
    BY <1>6 DEF Store, settling
  <2>2. ReviewSound'
    BY <1>6 DEF Store, ReviewSound, Idle
  <2>3. watch' \in {watch, review.copy}
    BY <1>6 DEF Store, Saves
  <2>4. watch' # None => Sound(watch')
    BY <1>6, <2>3 DEF Store, ReviewSound
  <2>5. QED
    BY <1>0, <2>1, <2>2, <2>4 DEF Sound, Passed
<1>7. CASE CrashReview
  <2>1. UNCHANGED <<jobs, check, watch, handler>>
    BY <1>7 DEF CrashReview, settling
  <2>2. ReviewSound'
    BY <1>7 DEF CrashReview, ReviewSound, Idle
  <2>3. QED
    BY <1>0, <2>1, <2>2
<1>8. QED
  BY <1>1, <1>2, <1>3, <1>4, <1>5, <1>6, <1>7 DEF Review, Reviewing

\* A delivery reads a sound watch and every job it names.
LEMMA HandlerEarns ==
  ASSUME TypeOK, Earned, NEW s \in Handlers, Handle(s) PROVE Earned'
<1>0. [Next]_vars /\ UNCHANGED <<jobs, review>>
  BY DEF Handle, Handling, Deliver, Claim, GiveUp, LoadWatch, ReadHead, ReadChecks, FailRead,
     PublishVerdict, ClearWatch, Release, CrashHandler, reviewing, Next
<1>1. \A t \in Handlers \ {s} : handler'[t] = handler[t]
  BY DEF Handle, Handling, Deliver, Claim, GiveUp, LoadWatch, ReadHead, ReadChecks, FailRead,
     PublishVerdict, ClearWatch, Release, CrashHandler, Go, TypeOK
<1>2. HandlerSound(s)'
  <2>1. CASE ReadChecks(s)
    <3>1. PICK w \in Watches : w = handler[s].watch
      BY <2>1, HandlerShape DEF ReadChecks, At
    <3>2. Sound(w)
      BY <2>1, <3>1 DEF ReadChecks, At, Earned, HandlerSound
    <3>3. Concluded(w) /\ Verdict(w) = "success" => Green(w.head)
      BY <3>1, <3>2 DEF Concluded, Verdict, Pending, Green, Passed, Sound, Watches
    <3>4. handler'[s] = IF Concluded(w)
                        THEN [phase |-> "publish", watch |-> w, verdict |-> Verdict(w)]
                        ELSE [phase |-> "release"]
      BY <2>1, <3>1 DEF ReadChecks, TypeOK
    <3>5. QED
      BY <1>0, <3>2, <3>3, <3>4 DEF HandlerSound, Sound, Green, Passed
  <2>2. CASE LoadWatch(s)
    BY <1>0, <2>2 DEF LoadWatch, TypeOK, HandlerSound, Earned, Sound, Passed
  <2>3. CASE ReadHead(s)
    BY <1>0, <2>3, HandlerShape DEF ReadHead, At, Go, TypeOK, HandlerSound, Earned, Sound, Passed
  <2>4. CASE PublishVerdict(s)
    BY <1>0, <2>4 DEF PublishVerdict, At, TypeOK, HandlerSound, Earned, Sound, Passed
  <2>5. CASE Deliver(s) \/ Claim(s) \/ GiveUp(s) \/ FailRead(s) \/ ClearWatch(s) \/ Release(s)
               \/ CrashHandler(s)
    BY <1>0, <2>5, HandlerShape DEF Deliver, Claim, GiveUp, FailRead, ClearWatch, Release,
       CrashHandler, Idle, At, Go, TypeOK, HandlerSound, Earned
  <2>6. QED
    BY <2>1, <2>2, <2>3, <2>4, <2>5 DEF Handle, Handling
<1>3. SuccessIsEarned'
  <2>1. CASE PublishVerdict(s)
    <3>1. handler[s].watch.head \in Heads
      BY <2>1, HandlerShape DEF PublishVerdict, At, Watches
    <3>2. check' = check \/ check' = [check EXCEPT ![handler[s].watch.head] = handler[s].verdict]
      BY <2>1 DEF PublishVerdict
    <3>3. handler[s].verdict = "success" => Green(handler[s].watch.head)
      BY <2>1 DEF PublishVerdict, At, Earned, HandlerSound
    <3>4. QED
      BY <1>0, <3>1, <3>2, <3>3 DEF SuccessIsEarned, Earned, Green, Passed, TypeOK
  <2>2. CASE ~PublishVerdict(s)
    <3>1. UNCHANGED check
      BY <2>2 DEF Handle, Handling, Deliver, Claim, GiveUp, LoadWatch, ReadHead, ReadChecks,
         FailRead, ClearWatch, Release, CrashHandler
    <3>2. QED
      BY <1>0, <3>1, SoundStays
  <2>3. QED
    BY <2>1, <2>2
<1>4. (watch # None => Sound(watch))'
  <2>1. watch' \in {watch, None}
    BY DEF Handle, Handling, Deliver, Claim, GiveUp, LoadWatch, ReadHead, ReadChecks, FailRead,
       PublishVerdict, ClearWatch, Cleared, Release, CrashHandler
  <2>2. QED
    BY <1>0, <2>1, SoundStays
<1>5. QED
  BY <1>0, <1>1, <1>2, <1>3, <1>4, SoundStays DEF Earned

LEMMA EarnedStep == TypeOK /\ Earned /\ [Next]_vars => Earned'
<1> SUFFICES ASSUME TypeOK, Earned, [Next]_vars PROVE Earned'
  OBVIOUS
<1>1. CASE UNCHANGED vars
  BY <1>1, SoundStays DEF Earned, vars, reviewing, settling
<1>2. CASE World
  <2>1. UNCHANGED <<check, watch, review, handler>>
    BY <1>2 DEF World, Push, Lapse, Conclude, reviewing, settling
  <2>2. QED
    BY <2>1, SoundStays DEF Earned
<1>3. QED
  BY <1>1, <1>2, Steps, ReviewEarns, HandlerEarns

\* Whoever published it, review or settlement, and in whatever order their calls
\* arrive, a green check is on a head whose jobs all concluded without failing
\* the lane (lane_proposal, runs.rs settle).
THEOREM GreenIsEarned == Spec => []SuccessIsEarned
<1>1. Earned => SuccessIsEarned
  BY DEF Earned
<1>2. QED
  BY <1>1, TypeInit, TypeStep, EarnedInit, EarnedStep, PTL DEF Spec

-----------------------------------------------------------------------------
(* A settlement takes away only what it settled                            *)

Clearing == \A s \in Handlers : At(s, "clear") => handler[s].watch.gen \in settled

LEMMA ForgottenStep ==
  TypeOK /\ Clearing /\ NothingForgotten /\ [Next]_vars => (Clearing /\ NothingForgotten)'
<1> SUFFICES ASSUME TypeOK, Clearing, NothingForgotten, [Next]_vars
             PROVE  Clearing' /\ NothingForgotten'
  OBVIOUS
<1>1. CASE UNCHANGED vars
  BY <1>1 DEF Clearing, NothingForgotten, Generation, At, vars, reviewing, settling
<1>2. CASE World
  BY <1>2 DEF World, Push, Lapse, Conclude, Clearing, NothingForgotten, Generation, At,
     reviewing, settling
<1>3. CASE Review
  <2>1. UNCHANGED <<handler, settled>>
    BY <1>3 DEF Review, Begin, Reviewing, SaveState, ReadLive, Publish, Load, Store, CrashReview,
       settling
  <2>2. UNCHANGED <<watch, latest>> \/ latest' = Generation(watch')
    BY <1>3 DEF Review, Begin, Reviewing, SaveState, ReadLive, Publish, Load, Store, CrashReview,
       Saves
  <2>3. QED
    BY <2>1, <2>2 DEF Clearing, NothingForgotten, Generation, At
<1>4. ASSUME NEW s \in Handlers, Handle(s) PROVE Clearing' /\ NothingForgotten'
  <2>1. settled \subseteq settled' /\ UNCHANGED latest
    BY <1>4 DEF Handle, Handling, Deliver, Claim, GiveUp, LoadWatch, ReadHead, ReadChecks,
       FailRead, PublishVerdict, ClearWatch, Release, CrashHandler, reviewing
  <2>2. \A t \in Handlers \ {s} : handler'[t] = handler[t]
    BY <1>4 DEF Handle, Handling, Deliver, Claim, GiveUp, LoadWatch, ReadHead, ReadChecks,
       FailRead, PublishVerdict, ClearWatch, Release, CrashHandler, Go, TypeOK
  <2>3. handler'[s].phase = "clear" => handler'[s].watch.gen \in settled'
    <3>1. CASE PublishVerdict(s)
      BY <3>1 DEF PublishVerdict, At, TypeOK
    <3>2. CASE ~PublishVerdict(s)
      BY <1>4, <3>2, HandlerShape DEF Handle, Handling, Deliver, Claim, GiveUp, LoadWatch,
         ReadHead, ReadChecks, FailRead, ClearWatch, Release, CrashHandler, Go, At, TypeOK, Idle
    <3>3. QED
      BY <3>1, <3>2
  <2>4. NothingForgotten'
    <3>1. CASE ClearWatch(s)
      BY <2>1, <3>1 DEF ClearWatch, Cleared, Clearing, NothingForgotten, Generation
    <3>2. CASE ~ClearWatch(s)
      <4>1. UNCHANGED watch
        BY <1>4, <3>2 DEF Handle, Handling, Deliver, Claim, GiveUp, LoadWatch, ReadHead,
           ReadChecks, FailRead, PublishVerdict, Release, CrashHandler
      <4>2. QED
        BY <2>1, <4>1 DEF NothingForgotten, Generation
    <3>3. QED
      BY <3>1, <3>2
  <2>5. QED
    BY <2>1, <2>2, <2>3, <2>4 DEF Clearing, At
<1>5. QED
  BY <1>1, <1>2, <1>3, <1>4, Steps

\* The watch of the last save is in the record until its verdict is out, with any
\* number of settlements that read an older one (clear_e2e_watch).
THEOREM NothingIsForgotten == Spec => []NothingForgotten
<1>1. Init => Clearing /\ NothingForgotten
  BY DEF Init, Clearing, NothingForgotten, At, Idle
<1>2. QED
  BY <1>1, TypeInit, TypeStep, ForgottenStep, PTL DEF Spec

-----------------------------------------------------------------------------
(* Without a fault no settlement is missed                                 *)

\* Somebody has yet to look at the watch: the review that is to publish the
\* neutral check, a delivery to come, a handler before its read or with it.
Attended ==
  \/ review.phase \in {"live", "publish"} /\ review.head = head
  \/ events > 0
  \/ \E s \in Handlers :
       \/ handler[s].phase \in {"claim", "load"}
       \/ handler[s].phase \in {"live", "checks", "publish"} /\ handler[s].watch = watch

\* What the review remembers is what the record holds, or was settled since.
Current(w) == w = watch \/ w = None \/ w.gen \in settled
Remembers ==
  /\ review.phase = "save" => Current(review.stored)
  /\ review.phase = "store" => Current(review.copy)

\* No watch of a head to come.
Past ==
  /\ watch # None => watch.head <= head
  /\ review.phase \in {"save", "live", "publish"} => review.head <= head
  /\ review.phase = "save" /\ review.stored # None => review.stored.head <= head
  /\ review.phase = "store" /\ review.copy # None => review.copy.head <= head

NothingMissed ==
  faults = 0 => Past /\ Remembers /\ (Due => Attended)

LEMMA FaultStays ==
  ASSUME TypeOK, [Next]_vars, faults' = 0 PROVE faults = 0
<1>1. CASE UNCHANGED faults
  BY <1>1
<1>2. CASE Fault
  BY <1>2 DEF Fault, TypeOK
<1>3. UNCHANGED faults \/ Fault
  BY DEF Next, Push, Begin, Reviewing, SaveState, ReadLive, Publish, Load, Store, CrashReview,
     Lapse, Conclude, Handling, Deliver, Claim, LoadWatch, ReadHead, ReadChecks, PublishVerdict,
     ClearWatch, Release, GiveUp, FailRead, CrashHandler, vars
<1>4. QED
  BY <1>1, <1>2, <1>3

LEMMA MissedWorld ==
  ASSUME TypeOK, NothingMissed, Clearing, World, faults = 0, faults' = 0
  PROVE  Past' /\ Remembers' /\ (Due => Attended)'
<1>1. UNCHANGED <<watch, review, handler, settled>>
  BY DEF World, Push, Lapse, Conclude, reviewing, settling
<1>2. head' \in Nat /\ head <= head' /\ head \in Nat /\ events \in Nat
  BY DEF World, Push, Lapse, Conclude, TypeOK, Heads
<1>3. (watch # None => watch.head \in Nat)
      /\ (review.phase \in {"save", "live", "publish"} => review.head \in Nat)
      /\ (review.phase = "save" /\ review.stored # None => review.stored.head \in Nat)
      /\ (review.phase = "store" /\ review.copy # None => review.copy.head \in Nat)
  BY ReviewShape DEF TypeOK, WatchesOrNone, Watches, Heads
<1>4. Past' /\ Remembers'
  BY <1>1, <1>2, <1>3 DEF NothingMissed, Past, Remembers, Current
<1>5. CASE Push
  BY <1>1, <1>2, <1>3, <1>4, <1>5 DEF Push, Due, NothingMissed, Past
<1>6. CASE \E h \in Heads, j \in Jobs : Conclude(h, j)
  BY <1>2, <1>4, <1>6 DEF Conclude, Announced, Attended
<1>7. QED
  BY <1>4, <1>5, <1>6 DEF World, Lapse, Fault

\* A watch that is saved is published about, a watch saved again was settled.
LEMMA MissedReview ==
  ASSUME TypeOK, NothingMissed, Review, faults = 0, faults' = 0
  PROVE  Past' /\ Remembers' /\ (Due => Attended)'
<1>0. UNCHANGED <<head, jobs, handler, settled>> /\ head \in Nat /\ events \in Nat /\ ~Fault
  BY DEF Review, Begin, Reviewing, SaveState, ReadLive, Publish, Load, Store, CrashReview,
     settling, TypeOK, Heads, Fault
<1>a. Past /\ Remembers /\ (Due => Attended)
  BY DEF NothingMissed
<1>1. CASE Begin
  <2>1. /\ UNCHANGED <<watch, events>>
        /\ review'.phase = "save" /\ review'.head = head /\ review'.stored = watch
    BY <1>0, <1>1 DEF Begin
  <2>2. ~(review.phase \in {"live", "publish"})
    BY <1>1 DEF Begin, Idle
  <2>3. QED
    BY <1>0, <1>a, <2>1, <2>2 DEF Past, Remembers, Current, Due, Concluded, Pending, Attended
<1>2. CASE SaveState
  <2>1. review'.phase = "live" /\ review'.head = review.head /\ review.phase = "save"
        /\ UNCHANGED events
    BY <1>2 DEF SaveState
  <2>2. review.head \in Nat /\ review.head <= head
    BY <1>a, <2>1, ReviewShape DEF Past, Heads
  <2>3. CASE watch' = Watch(review) /\ review.waits # {}
    <3>1. watch'.head = review.head
      BY <2>3 DEF Watch
    <3>2. Past'
      BY <1>0, <2>1, <2>2, <3>1 DEF Past
    <3>3. QED
      BY <2>1, <3>1, <3>2 DEF Remembers, Due, Attended
  <2>4. CASE watch' = None
    BY <1>0, <2>1, <2>2, <2>4 DEF Past, Remembers, Due
  <2>5. CASE watch' = watch
    BY <1>0, <1>a, <2>1, <2>2, <2>5 DEF Past, Remembers, Due, Concluded, Pending, Attended
  <2>6. CASE watch' = review.stored /\ watch' # None /\ watch' # watch
    <3>1. review.stored.gen \in settled
      BY <1>a, <2>1, <2>6 DEF Remembers, Current
    <3>2. Past'
      BY <1>0, <1>a, <2>1, <2>2, <2>6 DEF Past
    <3>3. QED
      BY <1>0, <2>1, <2>6, <3>1, <3>2 DEF Remembers, Due
  <2>7. QED
    BY <1>0, <1>2, <2>3, <2>4, <2>5, <2>6 DEF SaveState, Saves, Watch
<1>3. CASE ReadLive
  BY <1>0, <1>a, <1>3 DEF ReadLive, Idle, Past, Remembers, Due, Concluded, Pending, Attended
<1>4. CASE Publish
  BY <1>0, <1>a, <1>4 DEF Publish, Announced, Past, Remembers, Attended
<1>5. CASE Load
  BY <1>0, <1>a, <1>5 DEF Load, Past, Remembers, Current, Due, Concluded, Pending, Attended
<1>6. CASE Store
  <2>1. /\ review.phase = "store" /\ review'.phase = "idle"
        /\ watch' = review.copy /\ UNCHANGED events
    BY <1>0, <1>6 DEF Store, Saves, Idle
  <2>2. Past' /\ Remembers'
    BY <1>0, <1>a, <2>1 DEF Past, Remembers
  <2>3. CASE watch' = watch
    BY <1>0, <1>a, <2>1, <2>2, <2>3 DEF Due, Concluded, Pending, Attended
  <2>4. CASE watch' # watch
    <3>1. watch' = None \/ review.copy.gen \in settled
      BY <1>a, <2>1, <2>4 DEF Remembers, Current
    <3>2. ~Due'
      BY <1>0, <2>1, <3>1 DEF Due
    <3>3. QED
      BY <2>2, <3>2
  <2>5. QED
    BY <2>3, <2>4
<1>7. QED
  BY <1>0, <1>1, <1>2, <1>3, <1>4, <1>5, <1>6 DEF Review, Reviewing, CrashReview

\* A delivery either leaves the watch to somebody else, or carries it to its
\* settlement.
LEMMA MissedHandler ==
  ASSUME TypeOK, NothingMissed, Clearing, NEW s \in Handlers, Handle(s),
         faults = 0, faults' = 0
  PROVE  Past' /\ Remembers' /\ (Due => Attended)'
<1>0. UNCHANGED <<head, jobs, review>> /\ ~Fault
  BY DEF Handle, Handling, Deliver, Claim, GiveUp, LoadWatch, ReadHead, ReadChecks, FailRead,
     PublishVerdict, ClearWatch, Release, CrashHandler, reviewing, Fault
<1>a. Past /\ Remembers /\ (Due => Attended)
  BY DEF NothingMissed
<1>b. Handling(s)
  BY <1>0 DEF Handle, GiveUp, FailRead, CrashHandler
<1>c. \A t \in Handlers \ {s} : handler'[t] = handler[t]
  BY <1>b DEF Handling, Deliver, Claim, LoadWatch, ReadHead, ReadChecks, PublishVerdict,
     ClearWatch, Release, Go, TypeOK
<1>d. settled \subseteq settled'
      /\ \/ watch' = watch
         \/ watch' = None /\ watch.gen \in settled'
  <2>1. CASE ClearWatch(s)
    BY <2>1 DEF ClearWatch, Cleared, Clearing, At
  <2>2. CASE ~ClearWatch(s)
    BY <1>b, <2>2 DEF Handling, Deliver, Claim, LoadWatch, ReadHead, ReadChecks, PublishVerdict,
       Release
  <2>3. QED
    BY <2>1, <2>2
<1>1. Past' /\ Remembers'
  BY <1>0, <1>a, <1>d DEF Past, Remembers, Current
<1>2. SUFFICES ASSUME Due' PROVE Attended'
  BY <1>1
<1>3. watch' = watch /\ watch # None /\ Due
  BY <1>0, <1>2, <1>d DEF Due, Concluded, Pending
<1>4. Attended
  BY <1>a, <1>3
<1>5. CASE Deliver(s)
  <2>1. handler'[s].phase = "claim"
    BY <1>3, <1>5, HandlerShape DEF Deliver, Go, TypeOK, Idle
  <2>2. QED
    BY <2>1 DEF Attended
<1>6. CASE Claim(s) \/ LoadWatch(s)
  <2>1. CASE Claim(s)
    <3>1. handler'[s].phase = "load"
      BY <2>1, HandlerShape DEF Claim, At, Go, TypeOK
    <3>2. QED
      BY <3>1 DEF Attended
  <2>2. CASE LoadWatch(s)
    <3>1. handler'[s].phase = "live" /\ handler'[s].watch = watch'
      BY <1>3, <2>2 DEF LoadWatch, TypeOK
    <3>2. QED
      BY <3>1 DEF Attended
  <2>3. QED
    BY <1>6, <2>1, <2>2
<1>7. CASE ReadHead(s)
  <2>1. handler[s].watch = watch => handler'[s].phase = "checks" /\ handler'[s].watch = watch
    BY <1>3, <1>7, HandlerShape DEF ReadHead, At, Go, Due, TypeOK
  <2>2. UNCHANGED events
    BY <1>7 DEF ReadHead
  <2>3. QED
    BY <1>0, <1>3, <1>4, <1>c, <1>7, <2>1, <2>2 DEF ReadHead, At, Attended
<1>8. CASE ReadChecks(s)
  <2>1. handler[s].watch = watch => handler'[s].phase = "publish" /\ handler'[s].watch = watch
    BY <1>3, <1>8 DEF ReadChecks, Due, TypeOK
  <2>2. UNCHANGED events
    BY <1>8 DEF ReadChecks
  <2>3. QED
    BY <1>0, <1>3, <1>4, <1>c, <1>8, <2>1, <2>2 DEF ReadChecks, At, Attended
<1>9. CASE PublishVerdict(s)
  BY <1>0, <1>9 DEF PublishVerdict, Announced, Attended, TypeOK
<1>10. CASE ClearWatch(s) \/ Release(s)
  <2>1. UNCHANGED events /\ handler[s].phase \in {"clear", "release"}
    BY <1>10 DEF ClearWatch, Release, At
  <2>2. QED
    BY <1>0, <1>3, <1>4, <1>c, <2>1 DEF Attended
<1>11. QED
  BY <1>b, <1>5, <1>6, <1>7, <1>8, <1>9, <1>10 DEF Handling

LEMMA MissedStep == TypeOK /\ Clearing /\ NothingMissed /\ [Next]_vars => NothingMissed'
<1> SUFFICES ASSUME TypeOK, Clearing, NothingMissed, [Next]_vars, faults' = 0
             PROVE  Past' /\ Remembers' /\ (Due => Attended)'
  BY DEF NothingMissed
<1>0. faults = 0
  BY FaultStays
<1>1. CASE UNCHANGED vars
  BY <1>0, <1>1 DEF NothingMissed, Past, Remembers, Current, Due, Concluded, Pending, Attended,
     vars, reviewing, settling
<1>2. QED
  BY <1>0, <1>1, Steps, MissedWorld, MissedReview, MissedHandler

\* With every delivery handled and no call failed, a watch whose jobs have all
\* concluded was settled, replaced or overtaken by a push, whether they concluded
\* before it was saved, while it was, or while another delivery held the lease
\* (settle_e2e_inner, automerge_trigger).
THEOREM NoneIsMissed == Spec => []NoDueWatchLeft
<1>1. Init => Clearing /\ NothingForgotten /\ NothingMissed
  BY DEF Init, Clearing, NothingForgotten, NothingMissed, Past, Remembers, Due, At, Idle
<1>2. NothingMissed => NoDueWatchLeft
  BY DEF NothingMissed, NoDueWatchLeft, Quiet, Attended, Idle
<1>3. QED
  BY <1>1, <1>2, TypeInit, TypeStep, ForgottenStep, MissedStep, PTL DEF Spec
=============================================================================

------------------------ MODULE ReviewOwnershipProofs ------------------------
(***************************************************************************)
(* What holds of the store's compare-and-swap loop for every number of     *)
(* workers, every lease and margin, and every number of retries: the       *)
(* types, the refinement of LeaseRegister, and - whatever calls are on     *)
(* their way - that a worker its local fence lets work is the owner in the *)
(* document.                                                               *)
(***************************************************************************)
EXTENDS ReviewOwnership, TLAPS

-----------------------------------------------------------------------------
(* Types                                                                   *)

LEMMA NoCallType == NoCall \in Call
BY DEF NoCall, Call, Ops, Stages, Register!Lease, Register!NoLease

LEMMA TypeInit == Init => TypeOK
<1> SUFFICES ASSUME Init PROVE TypeOK
  OBVIOUS
<1>1. worker \in [Workers -> Worker]
  BY DEF Init, Absent, Worker, Phases
<1>2. call \in [Callers -> Call]
  BY NoCallType DEF Init
<1>3. lease \in Register!Lease
  BY DEF Init, Register!Lease, Register!NoLease
<1>4. QED
  BY <1>1, <1>2, <1>3, OwnershipAssumption DEF Init, TypeOK, OwnershipAssumption

\* The clock of a process is a time.
LEMMA LocalType ==
  ASSUME TypeOK
  PROVE  Local \in Nat
BY OwnershipAssumption DEF TypeOK, Local, OwnershipAssumption

\* Every call issued has its shape.
LEMMA IssueType ==
  ASSUME TypeOK, NEW c \in Callers, NEW op \in Ops, NEW gen \in Nat,
         Issue(c, op, gen)
  PROVE  call' \in [Callers -> Call]
<1>1. [NoCall EXCEPT !.op = op, !.gen = gen, !.since = Local] \in Call
  BY NoCallType, LocalType DEF Call
<1>2. QED
  BY <1>1 DEF TypeOK, Issue

\* Every record an operation leaves in the document has its shape.
LEMMA AfterType ==
  ASSUME NEW w \in Workers, NEW t \in Tasks, NEW r \in Register!Lease,
         NEW now \in Nat
  PROVE  After(<<w, t>>, r, now) \in Register!Lease
<1>1. Ttl \in Nat /\ OwnerOf[w] \in Owners
  BY OwnershipAssumption DEF OwnershipAssumption, Owners
<1>2. Register!Claimed(r, OwnerOf[w], now) \in Register!Lease
  BY <1>1 DEF Register!Claimed, Register!Lease
<1>3. Register!Renewed(r, now) \in Register!Lease
  BY <1>1 DEF Register!Renewed, Register!Lease
<1>4. Register!Left(r) \in Register!Lease
  BY DEF Register!Left, Register!Lease
<1>5. QED
  BY <1>2, <1>3, <1>4 DEF After

LEMMA ReadType ==
  ASSUME TypeOK, NEW c \in Callers, Read(c)
  PROVE  TypeOK'
<1>1. call' \in [Callers -> Call]
  BY DEF Read, TypeOK, Call, Stages
<1>2. QED
  BY <1>1 DEF Read, TypeOK

LEMMA ChangeType ==
  ASSUME TypeOK, NEW c \in Callers, Change(c)
  PROVE  TypeOK'
<1>1. PICK w \in Workers, t \in Tasks : c = <<w, t>>
  BY DEF Callers
<1>2. After(c, call[c].seen, clock) \in Register!Lease
  BY <1>1, AfterType DEF TypeOK, Call
<1>3. Granted(c, call[c].seen, clock) \in BOOLEAN
  BY DEF Granted, Holds, Register!Free
<1>4. call' \in [Callers -> Call]
  BY <1>2, <1>3 DEF Change, TypeOK, Call, Stages
<1>5. QED
  BY <1>4 DEF Change, TypeOK

LEMMA CommitType ==
  ASSUME TypeOK, NEW c \in Callers, Commit(c)
  PROVE  TypeOK'
<1>1. call' \in [Callers -> Call]
  BY DEF Commit, TypeOK, Call, Stages
<1>2. lease' \in Register!Lease /\ time' \in Nat /\ revision' \in Nat
  BY DEF Commit, TypeOK, Call
<1>3. QED
  BY <1>1, <1>2 DEF Commit, TypeOK

LEMMA OvertakenType ==
  ASSUME TypeOK, NEW c \in Callers, Overtaken(c)
  PROVE  TypeOK'
<1>1. Reloaded(call[c]) \in Call
  <2>1. call[c] \in Call
    BY DEF TypeOK
  <2> DEFINE at == IF call[c].tries + 1 < Retries THEN "reading" ELSE "failed"
  <2>2. at \in Stages /\ call[c].tries + 1 \in Nat
    BY <2>1 DEF Stages, Call
  <2>3. Reloaded(call[c]) = [call[c] EXCEPT !.tries = call[c].tries + 1, !.at = at]
    BY DEF Reloaded
  <2> HIDE DEF at
  <2>4. QED
    BY <2>1, <2>2, <2>3 DEF Call
<1>2. call' \in [Callers -> Call]
  BY <1>1 DEF Overtaken, TypeOK
<1>3. QED
  BY <1>2 DEF Overtaken, TypeOK

LEMMA LateCommitType ==
  ASSUME TypeOK, LateCommit
  PROVE  TypeOK'
BY DEF LateCommit, TypeOK, Write

\* What is left on the way has the shape of a write.
LEMMA AbandonedType ==
  ASSUME TypeOK, NEW S \in SUBSET Callers, Abandoned(S)
  PROVE  adrift' \subseteq Write
<1>1. \A c \in Callers : Sent(c) \in Write
  BY DEF TypeOK, Sent, Write, Call
<1>2. QED
  BY <1>1 DEF TypeOK, Abandoned

\* A call that ended leaves none.
LEMMA AnswersType ==
  ASSUME TypeOK, NEW c \in Callers, NEW op, NEW yes, Answers(c, op, yes)
  PROVE  call' \in [Callers -> Call]
BY NoCallType DEF TypeOK, Answers

LEMMA WorkerType ==
  ASSUME TypeOK, NEW w \in Workers, WorkerStep(w)
  PROVE  TypeOK'
<1>0. Main(w) \in Callers /\ Beat(w) \in Callers
  BY DEF Main, Beat, Callers, Tasks
<1>1. worker[w].gen \in Nat /\ {"claim", "renew", "owns", "leave"} \subseteq Ops
  BY DEF TypeOK, Worker, Ops
<1>2. CASE Claim(w) \/ FirstRenewal(w) \/ Heartbeat(w) \/ Check(w)
  <2>1. call' \in [Callers -> Call]
    BY <1>0, <1>1, <1>2, IssueType DEF Claim, FirstRenewal, Heartbeat, Check
  <2>2. QED
    BY <1>2, <2>1 DEF TypeOK, Claim, FirstRenewal, Heartbeat, Check
<1>3. CASE Leave(w)
  <2>1. call' \in [Callers -> Call]
    BY <1>0, <1>1, <1>3, IssueType DEF Leave
  <2>2. worker' \in [Workers -> Worker]
    BY <1>3 DEF TypeOK, Leave, Worker, Phases
  <2>3. QED
    BY <1>3, <2>1, <2>2 DEF TypeOK, Leave
<1>4. CASE ClaimAnswered(w)
  <2>1. call' \in [Callers -> Call]
    BY <1>0, <1>4, AnswersType DEF ClaimAnswered
  <2>2. call[Main(w)].next.gen \in Nat
    BY <1>0 DEF TypeOK, Call, Register!Lease
  <2>3. [Absent EXCEPT !.phase = "starting", !.gen = call[Main(w)].next.gen]
          \in Worker
    BY <2>2 DEF Absent, Worker, Phases
  <2>4. worker' \in [Workers -> Worker]
    BY <1>4, <2>3 DEF TypeOK, ClaimAnswered
  <2>5. QED
    BY <1>4, <2>1, <2>4 DEF TypeOK, ClaimAnswered
<1>5. CASE Renewed(w)
  <2>1. PICK c \in {Main(w), Beat(w)} :
          /\ Answers(c, "renew", TRUE)
          /\ worker' = [worker EXCEPT ![w].until = Until(c),
               ![w].phase = IF @ = "starting" THEN "running" ELSE @]
    BY <1>5 DEF Renewed
  <2>2. call' \in [Callers -> Call]
    BY <1>0, <2>1, AnswersType
  <2>3. Until(c) \in Nat
    BY <1>0, <2>1, OwnershipAssumption DEF Until, TypeOK, Call, OwnershipAssumption
  <2>4. worker' \in [Workers -> Worker]
    BY <2>1, <2>3 DEF TypeOK, Worker, Phases
  <2>5. QED
    BY <1>5, <2>2, <2>4 DEF TypeOK, Renewed
<1>6. CASE HeartbeatLost(w)
  <2>1. call' \in [Callers -> Call]
    BY <1>0, <1>6, AnswersType, NoCallType DEF HeartbeatLost, TypeOK
  <2>2. adrift' \subseteq Write
    BY <1>0, <1>6, AbandonedType DEF HeartbeatLost, TypeOK
  <2>3. worker' \in [Workers -> Worker]
    BY <1>6 DEF TypeOK, HeartbeatLost, Worker
  <2>4. QED
    BY <1>6, <2>1, <2>2, <2>3 DEF TypeOK, HeartbeatLost
<1>7. CASE CheckPasses(w)
  <2>1. call' \in [Callers -> Call]
    BY <1>0, <1>7, AnswersType DEF CheckPasses
  <2>2. QED
    BY <1>7, <2>1 DEF TypeOK, CheckPasses
<1>8. CASE CallFails(w)
  <2>1. call' \in [Callers -> Call] /\ adrift' \subseteq Write
    BY <1>0, <1>8, AbandonedType, NoCallType DEF CallFails, TypeOK
  <2>2. QED
    BY <1>8, <2>1 DEF TypeOK, CallFails
<1>9. CASE Gone(w)
  <2>1. call' \in [Callers -> Call] /\ adrift' \subseteq Write
    BY <1>0, <1>9, AbandonedType, NoCallType DEF Gone, TypeOK
  <2>2. worker' \in [Workers -> Worker]
    BY <1>9 DEF TypeOK, Gone, Worker, Absent, Phases
  <2>3. QED
    BY <1>9, <2>1, <2>2 DEF TypeOK, Gone
<1>10. QED
  BY <1>2, <1>3, <1>4, <1>5, <1>6, <1>7, <1>8, <1>9 DEF WorkerStep

LEMMA TickType ==
  ASSUME TypeOK, Tick
  PROVE  TypeOK'
BY OwnershipAssumption DEF TypeOK, Tick, OwnershipAssumption

LEMMA TypeStep == TypeOK /\ [Next]_vars => TypeOK'
<1> SUFFICES ASSUME TypeOK, [Next]_vars PROVE TypeOK'
  OBVIOUS
<1>1. CASE UNCHANGED vars
  BY <1>1 DEF TypeOK, vars
<1>2. CASE \E c \in Callers : StoreStep(c)
  BY <1>2, ReadType, ChangeType, CommitType, OvertakenType DEF StoreStep
<1>3. CASE Elsewhere
  BY <1>3 DEF Elsewhere, TypeOK
<1>4. QED
  BY <1>1, <1>2, <1>3, WorkerType, LateCommitType, TickType DEF Next

\* The document, the workers and their calls keep their shapes
\* (change_review_scheduler, run_owned_review).
THEOREM TypeCorrect == Spec => []TypeOK
BY TypeInit, TypeStep, PTL DEF Spec

-----------------------------------------------------------------------------
(* The compare-and-swap loop implements the register                       *)

\* n is what one operation of the register at time t leaves of l.
StepOf(l, n, t) ==
  \/ Register!Free(l, t) /\ \E o \in Owners : n = Register!Claimed(l, o, t)
  \/ Register!Live(l, t) /\ (n = Register!Renewed(l, t) \/ n = Register!Left(l))

\* A write that the document still admits was computed from its present lease,
\* after the last write.
Linked(a) ==
  /\ a.rev <= revision
  /\ a.rev = revision =>
       /\ time <= a.now /\ a.now <= clock
       /\ StepOf(lease, a.next, a.now)

Current(c) ==
  /\ call[c].at = "timing" =>
       call[c].rev <= revision /\ (call[c].rev = revision => call[c].seen = lease)
  /\ call[c].at = "writing" => Linked(Sent(c))

Serial ==
  /\ time <= clock
  /\ \A c \in Callers : Current(c)
  /\ \A a \in adrift : Linked(a)

LEMMA SerialInit == Init => Serial
BY DEF Init, Serial, Current, NoCall

\* A change that leaves a record different is a step of the register.
LEMMA AfterStep ==
  ASSUME TypeOK, NEW c \in Callers, call[c].op # "none",
         After(c, call[c].seen, clock) # call[c].seen
  PROVE  StepOf(call[c].seen, After(c, call[c].seen, clock), clock)
<1>1. PICK w \in Workers, t \in Tasks : c = <<w, t>>
  BY DEF Callers
<1>2. OwnerOf[w] \in Owners /\ OwnerOf[w] # None
  BY OwnershipAssumption DEF OwnershipAssumption, Owners
<1>3. Granted(c, call[c].seen, clock)
  BY DEF After
<1>4. CASE call[c].op = "claim"
  BY <1>1, <1>2, <1>3, <1>4 DEF After, Granted, StepOf
<1>5. CASE call[c].op # "claim"
  <2>1. Register!Live(call[c].seen, clock)
    BY <1>1, <1>2, <1>3, <1>5 DEF Granted, Holds, Register!Live
  <2>2. \/ After(c, call[c].seen, clock) = Register!Renewed(call[c].seen, clock)
        \/ After(c, call[c].seen, clock) = Register!Left(call[c].seen)
    BY <1>3, <1>5 DEF After
  <2>3. QED
    BY <2>1, <2>2 DEF StepOf
<1>6. QED
  BY <1>4, <1>5

\* A write that is not lost stays linked while the document does not move.
LEMMA LinkedKept ==
  ASSUME TypeOK, NEW a \in Write, Linked(a), clock <= clock', clock' \in Nat,
         UNCHANGED <<revision, lease, time>>
  PROVE  Linked(a)'
BY DEF Linked, StepOf, Write, TypeOK

\* After a write of the document none computed before it is admitted.
LEMMA LinkedPast ==
  ASSUME TypeOK, NEW a \in Write, Linked(a), revision' = revision + 1
  PROVE  Linked(a)'
BY DEF Linked, Write, TypeOK

LEMMA SentType ==
  ASSUME TypeOK, NEW c \in Callers
  PROVE  Sent(c) \in Write
BY DEF TypeOK, Sent, Write, Call

\* A call that did not move keeps what links it to the document.
LEMMA CurrentKept ==
  ASSUME TypeOK, NEW c \in Callers, Current(c), call'[c] = call[c],
         clock <= clock', clock' \in Nat, UNCHANGED <<revision, lease, time>>
  PROVE  Current(c)'
<1>1. Sent(c) \in Write /\ Sent(c)' = Sent(c)
  BY SentType DEF Sent
<1>2. Linked(Sent(c)) => Linked(Sent(c))'
  BY <1>1, LinkedKept DEF Linked, StepOf, TypeOK, Write
<1>3. QED
  BY <1>2 DEF Current

LEMMA CurrentPast ==
  ASSUME TypeOK, NEW c \in Callers, Current(c), call'[c] = call[c],
         revision' = revision + 1
  PROVE  Current(c)'
<1>1. Sent(c) \in Write /\ Sent(c)' = Sent(c)
  BY SentType DEF Sent
<1>2. Linked(Sent(c)) => Linked(Sent(c))'
  BY <1>1 DEF Linked, Write, TypeOK
<1>3. call[c].rev \in Nat
  BY DEF TypeOK, Call
<1>4. QED
  BY <1>2, <1>3 DEF Current, TypeOK

LEMMA StoreSerial ==
  ASSUME TypeOK, Serial, NEW c \in Callers, StoreStep(c)
  PROVE  Serial'
<1>1. \A d \in Callers \ {c} : call'[d] = call[d]
  BY DEF StoreStep, Read, Change, Commit, Overtaken, TypeOK
<1>2. adrift' = adrift /\ clock' = clock /\ adrift \subseteq Write
  BY DEF StoreStep, Read, Change, Commit, Overtaken, TypeOK
<1>3. CASE Read(c) \/ Change(c) \/ Overtaken(c)
  <2>1. UNCHANGED <<revision, lease, time>> /\ clock \in Nat
    BY <1>3 DEF Read, Change, Overtaken, TypeOK
  <2>2. \A d \in Callers \ {c} : Current(d)'
    BY <1>1, <1>2, <2>1, CurrentKept DEF Serial, TypeOK
  <2>3. \A a \in adrift' : Linked(a)'
    BY <1>2, <2>1, LinkedKept DEF Serial, TypeOK
  <2>4. CASE Read(c)
    BY <1>2, <2>1, <2>2, <2>3, <2>4 DEF Read, Serial, Current, TypeOK, Call
  <2>5. CASE Overtaken(c)
    BY <1>2, <2>1, <2>2, <2>3, <2>5 DEF Overtaken, Reloaded, Serial, Current,
       TypeOK, Call
  <2>6. CASE Change(c)
    <3>1. call'[c].at = "writing" =>
            /\ call[c].op # "none" /\ After(c, call[c].seen, clock) # call[c].seen
            /\ Sent(c)' = [rev |-> call[c].rev,
                 next |-> After(c, call[c].seen, clock), now |-> clock]
      BY <2>6 DEF Change, TypeOK, Call, Sent
    <3>2. call[c].rev <= revision /\ (call[c].rev = revision => call[c].seen = lease)
      BY <2>6 DEF Change, Serial, Current
    <3>3. call'[c].at = "writing" => Linked(Sent(c))'
      BY <1>2, <2>1, <3>1, <3>2, AfterStep DEF Linked, StepOf, Serial, TypeOK
    <3>4. call'[c].at # "timing"
      BY <2>6 DEF Change, TypeOK, Call
    <3>5. QED
      BY <1>2, <2>1, <2>2, <2>3, <3>3, <3>4 DEF Serial, Current
  <2>7. QED
    BY <1>3, <2>4, <2>5, <2>6
<1>4. CASE Commit(c)
  <2>1. revision' = revision + 1 /\ call'[c].at = "replying"
    BY <1>4 DEF Commit, TypeOK, Call
  <2>2. \A d \in Callers \ {c} : Current(d)'
    BY <1>1, <2>1, CurrentPast DEF Serial
  <2>3. \A a \in adrift' : Linked(a)'
    BY <1>2, <2>1, LinkedPast DEF Serial
  <2>4. time' <= clock'
    BY <1>2, <1>4 DEF Commit, Serial, Current, Linked, Sent
  <2>5. QED
    BY <2>1, <2>2, <2>3, <2>4 DEF Serial, Current
<1>5. QED
  BY <1>3, <1>4 DEF StoreStep

LEMMA LateSerial ==
  ASSUME TypeOK, Serial, LateCommit
  PROVE  Serial'
<1>1. PICK a \in adrift : a.rev = revision /\ revision' = revision + 1
                          /\ time' = a.now
  BY DEF LateCommit
<1>2. time' <= clock'
  BY <1>1 DEF LateCommit, Serial, Linked
<1>3. \A c \in Callers : Current(c)'
  BY <1>1, CurrentPast DEF LateCommit, Serial
<1>4. \A k \in adrift' : Linked(k)'
  BY <1>1, LinkedPast DEF LateCommit, Serial, TypeOK
<1>5. QED
  BY <1>2, <1>3, <1>4 DEF Serial

\* Ending calls leave none to link, and what they leave on the way is linked.
LEMMA EndedSerial ==
  ASSUME TypeOK, Serial, NEW S \in SUBSET Callers,
         \/ Abandoned(S)
         \/ UNCHANGED adrift,
         \A c \in Callers : call'[c] = call[c] \/ call'[c].at = "reading",
         UNCHANGED <<revision, lease, clock, time>>
  PROVE  Serial'
<1>1. clock <= clock' /\ clock' \in Nat
  BY DEF TypeOK
<1>2. \A c \in Callers : Current(c)'
  BY <1>1, CurrentKept DEF Serial, Current
<1>3. ASSUME NEW a \in adrift' PROVE a \in Write /\ Linked(a)
  <2>1. CASE a \in adrift
    BY <2>1 DEF Serial, TypeOK
  <2>2. CASE a \notin adrift
    <3>1. PICK c \in S : Pending(c) /\ a = Sent(c)
      BY <1>3, <2>2 DEF Abandoned
    <3>2. QED
      BY <3>1, SentType DEF Pending, Serial, Current
  <2>3. QED
    BY <2>1, <2>2
<1>4. \A a \in adrift' : Linked(a)'
  BY <1>1, <1>3, LinkedKept
<1>5. QED
  BY <1>2, <1>4 DEF Serial

LEMMA IssueReads ==
  ASSUME TypeOK, NEW c \in Callers, NEW op, NEW gen, Issue(c, op, gen)
  PROVE  \A d \in Callers : call'[d] = call[d] \/ call'[d].at = "reading"
<1>1. call'[c].at = "reading"
  BY DEF Issue, NoCall, TypeOK
<1>2. \A d \in Callers \ {c} : call'[d] = call[d]
  BY DEF Issue, TypeOK
<1>3. QED
  BY <1>1, <1>2

LEMMA WorkerSerial ==
  ASSUME TypeOK, Serial, NEW w \in Workers, WorkerStep(w)
  PROVE  Serial'
<1>1. Main(w) \in Callers /\ Beat(w) \in Callers /\ NoCall.at = "reading"
  BY DEF Main, Beat, Callers, Tasks, NoCall
<1>2. UNCHANGED <<revision, lease, clock, time>>
  BY DEF WorkerStep, Claim, ClaimAnswered, FirstRenewal, Heartbeat, Renewed,
     HeartbeatLost, Check, CheckPasses, CallFails, Leave, Gone
<1>3. CASE Claim(w) \/ FirstRenewal(w) \/ Heartbeat(w) \/ Check(w) \/ Leave(w)
  <2>1. \A c \in Callers : call'[c] = call[c] \/ call'[c].at = "reading"
    BY <1>1, <1>3, IssueReads DEF Claim, FirstRenewal, Heartbeat, Check, Leave
  <2>2. QED
    BY <1>2, <1>3, <2>1, EndedSerial DEF Claim, FirstRenewal, Heartbeat, Check,
       Leave
<1>4. CASE ClaimAnswered(w) \/ Renewed(w) \/ CheckPasses(w)
  <2>1. \A c \in Callers : call'[c] = call[c] \/ call'[c].at = "reading"
    BY <1>1, <1>4 DEF ClaimAnswered, Renewed, CheckPasses, Answers, TypeOK
  <2>2. QED
    BY <1>2, <1>4, <2>1, EndedSerial DEF ClaimAnswered, Renewed, CheckPasses
<1>5. CASE HeartbeatLost(w) \/ CallFails(w) \/ Gone(w)
  <2>1. \A c \in Callers : call'[c] = call[c] \/ call'[c].at = "reading"
    BY <1>1, <1>5 DEF HeartbeatLost, CallFails, Gone, Answers, TypeOK
  <2>2. UNCHANGED adrift \/ \E S \in SUBSET Callers : Abandoned(S)
    BY <1>1, <1>5 DEF HeartbeatLost, CallFails, Gone
  <2>3. QED
    BY <1>2, <2>1, <2>2, EndedSerial
<1>6. QED
  BY <1>3, <1>4, <1>5 DEF WorkerStep

LEMMA SerialStep == TypeOK /\ Serial /\ [Next]_vars => Serial'
<1> SUFFICES ASSUME TypeOK, Serial, [Next]_vars PROVE Serial'
  OBVIOUS
<1>1. CASE UNCHANGED vars \/ Tick
  <2>1. /\ UNCHANGED <<revision, lease, time, call, adrift>>
        /\ clock <= clock' /\ clock' \in Nat
    BY <1>1 DEF vars, Tick, TypeOK
  <2>2. \A c \in Callers : Current(c)'
    BY <2>1, CurrentKept DEF Serial
  <2>3. \A a \in adrift' : Linked(a)'
    BY <2>1, LinkedKept DEF Serial, TypeOK
  <2>4. QED
    BY <2>1, <2>2, <2>3 DEF Serial, TypeOK
<1>2. CASE Elsewhere
  <2>1. revision' = revision + 1 /\ UNCHANGED <<time, clock, call, adrift>>
    BY <1>2 DEF Elsewhere
  <2>2. \A c \in Callers : Current(c)'
    BY <2>1, CurrentPast DEF Serial
  <2>3. \A a \in adrift' : Linked(a)'
    BY <2>1, LinkedPast DEF Serial, TypeOK
  <2>4. QED
    BY <2>1, <2>2, <2>3 DEF Serial
<1>3. QED
  BY <1>1, <1>2, StoreSerial, WorkerSerial, LateSerial DEF Next

THEOREM WritesAreSerial == Spec => []Serial
<1>1. TypeOK /\ Serial /\ [Next]_vars => Serial'
  BY SerialStep
<1>2. QED
  BY <1>1, SerialInit, TypeCorrect, PTL DEF Spec

\* A write whose base is the document is a step of the register.
LEMMA WriteStep ==
  ASSUME TypeOK, NEW a \in Write, Linked(a), a.rev = revision,
         lease' = a.next, time' = a.now
  PROVE  Register!Next
<1>1. time' \in Nat /\ time <= time'
  BY DEF Linked, Write
<1>2. StepOf(lease, lease', time')
  BY DEF Linked
<1>3. QED
  BY <1>1, <1>2 DEF StepOf, Register!Next, Register!Claim, Register!Renew,
     Register!Leave

LEMMA RegisterStep ==
  TypeOK /\ Serial /\ [Next]_vars => [Register!Next]_(Register!vars)
<1> SUFFICES ASSUME TypeOK, Serial, [Next]_vars
             PROVE  [Register!Next]_(Register!vars)
  OBVIOUS
<1>1. ASSUME NEW c \in Callers, Commit(c) PROVE Register!Next
  <2>1. Sent(c) \in Write /\ Linked(Sent(c))
    BY <1>1, SentType DEF Commit, Serial, Current
  <2>2. Sent(c).rev = revision /\ lease' = Sent(c).next /\ time' = Sent(c).now
    BY <1>1 DEF Commit, Sent
  <2>3. QED
    BY <2>1, <2>2, WriteStep
<1>2. ASSUME LateCommit PROVE Register!Next
  <2>1. PICK a \in adrift : a.rev = revision /\ lease' = a.next /\ time' = a.now
    BY <1>2 DEF LateCommit
  <2>2. a \in Write /\ Linked(a)
    BY DEF Serial, TypeOK
  <2>3. QED
    BY <2>1, <2>2, WriteStep
<1>3. CASE \/ \E c \in Callers : Read(c) \/ Change(c) \/ Overtaken(c)
           \/ Elsewhere \/ Tick \/ UNCHANGED vars
  BY <1>3 DEF Read, Change, Overtaken, Elsewhere, Tick, vars, Register!vars
<1>4. CASE \E w \in Workers : WorkerStep(w)
  BY <1>4 DEF WorkerStep, Claim, ClaimAnswered, FirstRenewal, Heartbeat, Renewed,
     HeartbeatLost, Check, CheckPasses, CallFails, Leave, Gone, Register!vars
<1>5. QED
  BY <1>1, <1>2, <1>3, <1>4 DEF Next, StoreStep

\* However many workers race for the document, and whatever answers are late or
\* lost, the lease moves one operation at a time in the order of the server's
\* clock (change_review_scheduler).
THEOREM RegisterIsImplemented == Spec => ImplementsRegister
<1>1. Init => Register!Init
  BY DEF Init, Register!Init
<1>2. QED
  BY <1>1, TypeCorrect, WritesAreSerial, RegisterStep, PTL
     DEF Spec, ImplementsRegister, Register!Spec

-----------------------------------------------------------------------------
(* The inductive invariant                                                 *)

\* What a worker of a phase may be waiting for.
Waits(w) ==
  LET main == call[Main(w)]
      beat == call[Beat(w)]
      phase == worker[w].phase
  IN /\ phase = "idle" => main.op \in {"none", "claim"} /\ beat.op = "none"
     /\ phase = "starting" => main.op \in {"none", "renew"} /\ beat.op = "none"
     /\ phase = "running" => main.op \in {"none", "owns"}
     /\ phase \in {"leaving", "refused"} => main.op = "leave"
     /\ beat.op \in {"none", "renew"}
     /\ main.op \in {"renew", "owns", "leave"} => main.gen = worker[w].gen
     /\ beat.op = "renew" => beat.gen = worker[w].gen
     /\ main.since <= Local /\ beat.since <= Local

\* A write carries what its operation makes of the record it read, and was
\* granted for that reason.
Meant(c) ==
  /\ call[c].at = "writing" =>
       /\ call[c].op # "none" /\ call[c].answer
       /\ Granted(c, call[c].seen, call[c].now)
       /\ call[c].next = After(c, call[c].seen, call[c].now)
       /\ call[c].next # call[c].seen
       /\ call[c].since <= call[c].now
       /\ call[c].rev = revision => call[c].seen = lease
  /\ call[c].op = "claim" /\ call[c].at = "replying" /\ call[c].answer =>
       call[c].next.gen # 0

Shaped ==
  /\ \A w \in Workers : Waits(w)
  /\ \A c \in Callers : Meant(c)
  /\ lease.until <= time + Ttl

\* The generation a worker has, or is about to be told; 0 when there is none.
Claiming(w) ==
  /\ call[Main(w)].op = "claim" /\ call[Main(w)].at = "replying"
  /\ call[Main(w)].answer
Token(w) ==
  IF worker[w].phase # "idle" THEN worker[w].gen
  ELSE IF Claiming(w) THEN call[Main(w)].next.gen ELSE 0

\* A generation is one worker's, and a worker that is gone takes its own along.
Tokens ==
  /\ \A w \in Workers :
       Token(w) <= lease.gen /\ (worker[w].phase # "idle" => Token(w) # 0)
  /\ \A w, v \in Workers : Token(w) = Token(v) /\ Token(w) # 0 => w = v
  /\ \A a \in adrift : a.rev = revision /\ a.next.owner = None =>
       lease.gen # 0 /\ \A w \in Workers : Token(w) # lease.gen

Mine(w, r) == r.owner = OwnerOf[w] /\ r.gen = worker[w].gen
\* Until v, by the slowest clock, the record is w's.
Covered(w, v) ==
  Local + Margin < v => Mine(w, lease) /\ v <= lease.until

\* The deadline a worker follows, and those it is about to learn of.
Covers(w, c) ==
  call[c].op = "renew" =>
    /\ (call[c].at = "timing" /\ Mine(w, call[c].seen)) =>
         Covered(w, call[c].seen.until)
    /\ (call[c].at = "replying" /\ call[c].answer) =>
         Covered(w, call[c].since + Ttl)
Fence(w) ==
  /\ worker[w].phase = "running" => Covered(w, worker[w].until + Margin)
  /\ worker[w].phase \in {"starting", "running"} =>
       Covers(w, Main(w)) /\ Covers(w, Beat(w))
Fenced == \A w \in Workers : Fence(w)

-----------------------------------------------------------------------------
(* Workers and their calls                                                 *)

LEMMA CallersAre ==
  /\ \A w \in Workers : /\ Main(w) \in Callers /\ Beat(w) \in Callers
                        /\ Main(w)[1] = w /\ Beat(w)[1] = w
  /\ \A w, v \in Workers : /\ Main(w) # Beat(v)
                           /\ Main(w) = Main(v) => w = v
                           /\ Beat(w) = Beat(v) => w = v
  /\ \A c \in Callers : \E w \in Workers : c = Main(w) \/ c = Beat(w)
BY DEF Main, Beat, Callers, Tasks

LEMMA NoCallIs ==
  /\ NoCall.op = "none" /\ NoCall.at = "reading" /\ NoCall.since = 0
  /\ NoCall.answer = FALSE
BY DEF NoCall

LEMMA OwnersAre ==
  /\ Ttl \in Nat /\ Margin \in Nat /\ Margin <= Ttl
  /\ \A w \in Workers : OwnerOf[w] \in Owners
  /\ None \notin Owners
BY OwnershipAssumption DEF OwnershipAssumption, Owners

\* What one step of a worker leaves alone.
LEMMA StepOfWorker ==
  ASSUME TypeOK, NEW w \in Workers, WorkerStep(w)
  PROVE  /\ UNCHANGED <<revision, lease, clock, drift, time>>
         /\ \A v \in Workers \ {w} :
              /\ worker'[v] = worker[v]
              /\ call'[Main(v)] = call[Main(v)] /\ call'[Beat(v)] = call[Beat(v)]
<1>1. UNCHANGED <<revision, lease, clock, drift, time>>
  BY DEF WorkerStep, Claim, ClaimAnswered, FirstRenewal, Heartbeat, Renewed,
     HeartbeatLost, Check, CheckPasses, CallFails, Leave, Gone
<1>2. \A v \in Workers \ {w} : worker'[v] = worker[v]
  BY DEF TypeOK, WorkerStep, Claim, ClaimAnswered, FirstRenewal, Heartbeat,
     Renewed, HeartbeatLost, Check, CheckPasses, CallFails, Leave, Gone
<1>3. \A d \in Callers \ {Main(w), Beat(w)} : call'[d] = call[d]
  <2>1. CASE Claim(w) \/ FirstRenewal(w) \/ Heartbeat(w) \/ Check(w) \/ Leave(w)
    BY <2>1, CallersAre DEF TypeOK, Claim, FirstRenewal, Heartbeat, Check, Leave,
       Issue
  <2>2. CASE ClaimAnswered(w) \/ Renewed(w) \/ CheckPasses(w)
    BY <2>2, CallersAre DEF TypeOK, ClaimAnswered, Renewed, CheckPasses, Answers
  <2>3. CASE HeartbeatLost(w) \/ CallFails(w) \/ Gone(w)
    BY <2>3, CallersAre DEF TypeOK, HeartbeatLost, CallFails, Gone, Answers
  <2>4. QED
    BY <2>1, <2>2, <2>3 DEF WorkerStep
<1>4. QED
  BY <1>1, <1>2, <1>3, CallersAre

\* What one step of the store leaves alone.
LEMMA StepOfStore ==
  ASSUME TypeOK, NEW c \in Callers, StoreStep(c)
  PROVE  /\ UNCHANGED <<clock, drift, worker, adrift>>
         /\ \A d \in Callers \ {c} : call'[d] = call[d]
         /\ \A d \in Callers : /\ call'[d].op = call[d].op
                               /\ call'[d].gen = call[d].gen
                               /\ call'[d].since = call[d].since
<1>1. UNCHANGED <<clock, drift, worker, adrift>>
  BY DEF StoreStep, Read, Change, Commit, Overtaken
<1>2. \A d \in Callers \ {c} : call'[d] = call[d]
  BY DEF StoreStep, Read, Change, Commit, Overtaken, TypeOK
<1>3. call'[c].op = call[c].op /\ call'[c].gen = call[c].gen
      /\ call'[c].since = call[c].since
  <2>1. CASE Read(c)
    BY <2>1 DEF Read, TypeOK, Call
  <2>2. CASE Change(c)
    BY <2>2 DEF Change, TypeOK, Call
  <2>3. CASE Commit(c)
    BY <2>3 DEF Commit, TypeOK, Call
  <2>4. CASE Overtaken(c)
    BY <2>4 DEF Overtaken, Reloaded, TypeOK, Call
  <2>5. QED
    BY <2>1, <2>2, <2>3, <2>4 DEF StoreStep
<1>4. QED
  BY <1>1, <1>2, <1>3

LEMMA LocalGrows ==
  ASSUME TypeOK, Tick
  PROVE  Local \in Nat /\ Local' \in Nat /\ Local <= Local'
<1>1. clock \in Nat /\ drift \in Nat /\ drift <= clock /\ clock' = clock + 1
  BY OwnersAre DEF TypeOK, Tick
<1>2. drift' = drift \/ drift' = drift + 1
  BY DEF Tick
<1>3. QED
  BY <1>1, <1>2 DEF Local

-----------------------------------------------------------------------------
(* Shapes                                                                  *)

LEMMA WaitsKept ==
  ASSUME TypeOK, NEW w \in Workers, Waits(w), worker'[w] = worker[w],
         Local \in Nat, Local' \in Nat, Local <= Local',
         \A c \in {Main(w), Beat(w)} :
           /\ call'[c].op = call[c].op /\ call'[c].gen = call[c].gen
           /\ call'[c].since = call[c].since
  PROVE  Waits(w)'
<1>1. call[Main(w)].since \in Nat /\ call[Beat(w)].since \in Nat
  BY CallersAre DEF TypeOK, Call
<1>2. QED
  BY <1>1 DEF Waits

LEMMA MeantKept ==
  ASSUME TypeOK, NEW c \in Callers, Meant(c), Current(c), call'[c] = call[c],
         revision' = revision + 1 \/ UNCHANGED <<revision, lease>>
  PROVE  Meant(c)'
<1>1. call[c].rev \in Nat /\ revision \in Nat
  BY DEF TypeOK, Call
<1>2. call[c].at = "writing" => call[c].rev <= revision
  BY DEF Current, Linked, Sent
<1>3. call'[c].at = "writing" /\ call'[c].rev = revision' =>
        call'[c].seen = lease'
  BY <1>1, <1>2 DEF Meant
<1>4. Granted(c, call[c].seen, call[c].now)' = Granted(c, call[c].seen, call[c].now)
  BY DEF Granted, Holds
<1>5. After(c, call[c].seen, call[c].now)' = After(c, call[c].seen, call[c].now)
  BY DEF After, Granted, Holds
<1>6. QED
  BY <1>3, <1>4, <1>5 DEF Meant

LEMMA MeantReading ==
  ASSUME NEW c \in Callers, call'[c].at = "reading"
  PROVE  Meant(c)'
BY DEF Meant

LEMMA SameGrant ==
  ASSUME NEW c \in Callers, call'[c].op = call[c].op, call'[c].gen = call[c].gen
  PROVE  \A r, now : /\ Granted(c, r, now)' = Granted(c, r, now)
                     /\ After(c, r, now)' = After(c, r, now)
<1>1. \A r, now : Granted(c, r, now)' = Granted(c, r, now)
  BY DEF Granted, Holds
<1>2. QED
  BY <1>1 DEF After

\* A claim that is granted is a new generation.
LEMMA ClaimIsNew ==
  ASSUME NEW c \in Callers, NEW r \in Register!Lease, NEW now \in Nat,
         call[c].op = "claim", Granted(c, r, now)
  PROVE  /\ After(c, r, now) = Register!Claimed(r, OwnerOf[c[1]], now)
         /\ After(c, r, now).gen = r.gen + 1
         /\ After(c, r, now) # r
<1>1. After(c, r, now) = Register!Claimed(r, OwnerOf[c[1]], now)
  BY DEF After
<1>2. QED
  BY <1>1 DEF Register!Claimed, Register!Lease

\* No operation leaves more lease than one period.
LEMMA StepBounded ==
  ASSUME NEW l \in Register!Lease, NEW n, NEW t \in Nat, StepOf(l, n, t)
  PROVE  n.until <= t + Ttl
<1>1. Ttl \in Nat
  BY OwnersAre
<1>2. CASE \E o \in Owners : n = Register!Claimed(l, o, t)
  BY <1>1, <1>2 DEF Register!Claimed
<1>3. CASE n = Register!Renewed(l, t)
  BY <1>1, <1>3 DEF Register!Renewed, Register!Lease
<1>4. CASE n = Register!Left(l)
  BY <1>1, <1>4 DEF Register!Left, Register!Lease
<1>5. QED
  BY <1>2, <1>3, <1>4 DEF StepOf

\* No operation goes back to an earlier generation.
LEMMA StepGrows ==
  ASSUME NEW l \in Register!Lease, NEW n, NEW t, StepOf(l, n, t)
  PROVE  l.gen \in Nat /\ n.gen \in Nat /\ l.gen <= n.gen
<1>1. CASE \E o \in Owners : n = Register!Claimed(l, o, t)
  BY <1>1 DEF Register!Claimed, Register!Lease
<1>2. CASE n = Register!Renewed(l, t)
  BY <1>2 DEF Register!Renewed, Register!Lease
<1>3. CASE n = Register!Left(l)
  BY <1>3 DEF Register!Left, Register!Lease
<1>4. QED
  BY <1>1, <1>2, <1>3 DEF StepOf

LEMMA MeantByStore ==
  ASSUME TypeOK, Serial, Shaped, NEW c \in Callers, StoreStep(c)
  PROVE  Meant(c)'
<1>1. /\ call[c] \in Call /\ call[c].seen \in Register!Lease /\ clock \in Nat
      /\ call[c].now \in Nat /\ call[c].next \in Register!Lease
  BY DEF TypeOK, Call
<1>2. CASE Read(c)
  BY <1>2 DEF Read, Meant, TypeOK, Call
<1>3. CASE Overtaken(c)
  BY <1>3 DEF Overtaken, Reloaded, Meant, TypeOK, Call
<1>4. CASE Change(c)
  <2>1. /\ call'[c].op = call[c].op /\ call'[c].gen = call[c].gen
        /\ call'[c].seen = call[c].seen /\ call'[c].since = call[c].since
        /\ call'[c].now = clock /\ call'[c].rev = call[c].rev
        /\ call'[c].answer = Granted(c, call[c].seen, clock)
        /\ call'[c].next = After(c, call[c].seen, clock)
        /\ call'[c].at = IF call'[c].next = call[c].seen THEN "replying"
                         ELSE "writing"
        /\ call[c].op # "none" /\ call[c].at = "timing"
        /\ UNCHANGED <<revision, lease>>
    BY <1>4 DEF Change, TypeOK, Call
  <2>2. call[c].since <= clock
    <3>1. Local \in Nat /\ Local <= clock
      BY OwnersAre DEF TypeOK, Local
    <3>2. call[c].since \in Nat
      BY DEF TypeOK, Call
    <3>3. call[c].since <= Local
      BY CallersAre DEF Shaped, Waits
    <3>4. QED
      BY <1>1, <3>1, <3>2, <3>3
  <2>3. call[c].rev = revision => call[c].seen = lease
    BY <2>1 DEF Serial, Current
  <2>4. call'[c].next # call[c].seen => Granted(c, call[c].seen, clock)
    BY <2>1 DEF After
  <2>5. call'[c].op = "claim" /\ call'[c].answer => call'[c].next # call[c].seen
    <3>1. call'[c].answer => Granted(c, call[c].seen, clock)
      BY <2>1, Zenon
    <3>2. call[c].op = "claim" /\ Granted(c, call[c].seen, clock) =>
            After(c, call[c].seen, clock) # call[c].seen
      BY <1>1, ClaimIsNew
    <3>3. QED
      BY <2>1, <3>1, <3>2, Zenon
  <2>6. QED
    BY <2>1, <2>2, <2>3, <2>4, <2>5, SameGrant DEF Meant
<1>5. CASE Commit(c)
  <2>1. /\ call'[c].at = "replying" /\ call[c].at = "writing"
        /\ call'[c].op = call[c].op /\ call'[c].next = call[c].next
    BY <1>5 DEF Commit, TypeOK, Call
  <2>2. call[c].op = "claim" => call[c].next.gen = call[c].seen.gen + 1
    BY <1>1, <2>1, ClaimIsNew DEF Shaped, Meant
  <2>3. call[c].seen.gen \in Nat
    BY <1>1 DEF Register!Lease
  <2>4. QED
    BY <2>1, <2>2, <2>3 DEF Meant
<1>6. QED
  BY <1>2, <1>3, <1>4, <1>5 DEF StoreStep

LEMMA StoreShaped ==
  ASSUME TypeOK, Serial, Shaped, NEW c \in Callers, StoreStep(c)
  PROVE  Shaped'
<1>1. revision' = revision + 1 \/ UNCHANGED <<revision, lease>>
  BY DEF StoreStep, Read, Change, Commit, Overtaken
<1>2. \A d \in Callers : Meant(d)'
  BY <1>1, MeantKept, MeantByStore, StepOfStore DEF Shaped, Serial
<1>3. \A w \in Workers : Waits(w)'
  BY WaitsKept, StepOfStore, CallersAre, LocalType DEF Shaped, Local
<1>4. lease'.until <= time' + Ttl
  <2>1. CASE UNCHANGED <<lease, time>>
    BY <2>1 DEF Shaped
  <2>2. CASE Commit(c)
    <3>1. StepOf(lease, lease', time') /\ lease \in Register!Lease /\ time' \in Nat
      BY <2>2 DEF Commit, Serial, Current, Linked, Sent, TypeOK, Call
    <3>2. QED
      BY <3>1, StepBounded
  <2>3. QED
    BY <2>1, <2>2 DEF StoreStep, Read, Change, Overtaken
<1>5. QED
  BY <1>2, <1>3, <1>4 DEF Shaped

LEMMA LateShaped ==
  ASSUME TypeOK, Serial, Shaped, LateCommit
  PROVE  Shaped'
<1>1. PICK a \in adrift : /\ a.rev = revision /\ revision' = revision + 1
                          /\ lease' = a.next /\ time' = a.now
                          /\ UNCHANGED <<clock, drift, worker, call>>
  BY DEF LateCommit
<1>2. \A d \in Callers : Meant(d)'
  BY <1>1, MeantKept DEF Shaped, Serial
<1>3. \A w \in Workers : Waits(w)'
  BY <1>1, WaitsKept, LocalType DEF Shaped, Local
<1>4. lease'.until <= time' + Ttl
  <2>1. StepOf(lease, lease', time') /\ lease \in Register!Lease /\ time' \in Nat
    BY <1>1 DEF Serial, Linked, TypeOK, Write
  <2>2. QED
    BY <2>1, StepBounded
<1>5. QED
  BY <1>2, <1>3, <1>4 DEF Shaped

\* A call of w that is not the one it had before is new, or over.
LEMMA CallsOf ==
  ASSUME TypeOK, NEW w \in Workers, WorkerStep(w)
  PROVE  \A c \in Callers : call'[c] = call[c] \/ call'[c].at = "reading"
<1>1. CASE Claim(w) \/ FirstRenewal(w) \/ Heartbeat(w) \/ Check(w) \/ Leave(w)
  BY <1>1, IssueReads, CallersAre DEF Claim, FirstRenewal, Heartbeat, Check, Leave
<1>2. CASE ClaimAnswered(w) \/ Renewed(w) \/ CheckPasses(w)
  BY <1>2, CallersAre, NoCallIs DEF TypeOK, ClaimAnswered, Renewed, CheckPasses,
     Answers
<1>3. CASE HeartbeatLost(w) \/ CallFails(w) \/ Gone(w)
  BY <1>3, CallersAre, NoCallIs DEF TypeOK, HeartbeatLost, CallFails, Gone,
     Answers
<1>4. QED
  BY <1>1, <1>2, <1>3 DEF WorkerStep

\* A call issued is the caller's only one.
LEMMA IssuedIs ==
  ASSUME TypeOK, NEW c \in Callers, NEW op, NEW gen, Issue(c, op, gen)
  PROVE  /\ call[c].op = "none"
         /\ call'[c].op = op /\ call'[c].gen = gen /\ call'[c].since = Local
         /\ call'[c].at = "reading" /\ call'[c].answer = FALSE
         /\ \A d \in Callers \ {c} : call'[d] = call[d]
<1>1. call'[c] = [NoCall EXCEPT !.op = op, !.gen = gen, !.since = Local]
  BY DEF Issue, TypeOK
<1>2. QED
  BY <1>1 DEF Issue, NoCall, TypeOK

LEMMA AnswersIs ==
  ASSUME TypeOK, NEW c \in Callers, NEW op, NEW yes, Answers(c, op, yes)
  PROVE  /\ call[c].op = op /\ call[c].at = "replying" /\ call[c].answer = yes
         /\ call'[c] = NoCall
         /\ \A d \in Callers \ {c} : call'[d] = call[d]
BY DEF Answers, TypeOK

LEMMA WaitsByWorker ==
  ASSUME TypeOK, NEW w \in Workers, Waits(w), WorkerStep(w)
  PROVE  Waits(w)'
<1>0. /\ Main(w) \in Callers /\ Beat(w) \in Callers /\ Main(w) # Beat(w)
      /\ Local' = Local /\ Local \in Nat /\ worker[w] \in Worker
      /\ call[Main(w)] \in Call /\ call[Beat(w)] \in Call
  BY CallersAre, LocalType, StepOfWorker DEF Local, TypeOK
<1>1. CASE Claim(w)
  <2>1. worker[w].phase = "idle" /\ worker' = worker
    BY <1>1 DEF Claim
  <2>2. /\ call'[Main(w)].op = "claim" /\ call'[Main(w)].since = Local
        /\ call'[Beat(w)] = call[Beat(w)]
    BY <1>0, <1>1, IssuedIs DEF Claim
  <2>3. QED
    BY <1>0, <2>1, <2>2 DEF Waits
<1>2. CASE FirstRenewal(w)
  <2>1. /\ call'[Main(w)].op = "renew" /\ call'[Main(w)].since = Local
        /\ call'[Main(w)].gen = worker[w].gen
        /\ call'[Beat(w)] = call[Beat(w)]
    BY <1>0, <1>2, IssuedIs, ZenonT(60) DEF FirstRenewal
  <2>2. worker' = worker /\ worker[w].phase = "starting"
    BY <1>2 DEF FirstRenewal
  <2>3. QED
    BY <1>0, <2>1, <2>2 DEF Waits
<1>3. CASE Heartbeat(w)
  <2>1. /\ call'[Beat(w)].op = "renew" /\ call'[Beat(w)].since = Local
        /\ call'[Beat(w)].gen = worker[w].gen
        /\ call'[Main(w)] = call[Main(w)]
    BY <1>0, <1>3, IssuedIs, ZenonT(60) DEF Heartbeat
  <2>2. worker' = worker /\ worker[w].phase \in {"running", "leaving"}
    BY <1>3 DEF Heartbeat
  <2>3. QED
    BY <1>0, <2>1, <2>2 DEF Waits
<1>4. CASE Check(w)
  <2>1. /\ call'[Main(w)].op = "owns" /\ call'[Main(w)].since = Local
        /\ call'[Main(w)].gen = worker[w].gen
        /\ call'[Beat(w)] = call[Beat(w)]
    BY <1>0, <1>4, IssuedIs, ZenonT(60) DEF Check
  <2>2. worker' = worker /\ worker[w].phase = "running"
    BY <1>4 DEF Check
  <2>3. QED
    BY <1>0, <2>1, <2>2 DEF Waits
<1>5. CASE Leave(w)
  <2>1. /\ worker[w].phase \in {"starting", "running"}
        /\ worker'[w].gen = worker[w].gen
        /\ worker'[w].phase = IF worker[w].phase = "running" THEN "leaving"
                              ELSE "refused"
    BY <1>5 DEF Leave, TypeOK, Worker
  <2>2. /\ call'[Main(w)].op = "leave" /\ call'[Main(w)].since = Local
        /\ call'[Main(w)].gen = worker[w].gen
        /\ call'[Beat(w)] = call[Beat(w)]
    BY <1>0, <1>5, IssuedIs, ZenonT(60) DEF Leave
  <2>3. QED
    BY <1>0, <2>1, <2>2 DEF Waits
<1>6. CASE ClaimAnswered(w)
  <2>0. call[Main(w)].op = "claim"
    BY <1>6 DEF ClaimAnswered, Answers
  <2>1. worker[w].phase = "idle"
    BY <1>0, <2>0 DEF Waits, Worker, Phases
  <2>2. \/ worker' = worker
        \/ worker'[w].phase = "starting"
    BY <1>6 DEF ClaimAnswered, TypeOK, Absent
  <2>3. call'[Main(w)] = NoCall /\ call'[Beat(w)] = call[Beat(w)]
    BY <1>0, <1>6, AnswersIs DEF ClaimAnswered
  <2>4. QED
    BY <1>0, <2>1, <2>2, <2>3, NoCallIs DEF Waits
<1>7. CASE Renewed(w)
  <2>1. PICK c \in {Main(w), Beat(w)} :
          /\ Answers(c, "renew", TRUE)
          /\ worker' = [worker EXCEPT ![w].until = Until(c),
               ![w].phase = IF @ = "starting" THEN "running" ELSE @]
    BY <1>7 DEF Renewed
  <2>2. /\ worker'[w].gen = worker[w].gen
        /\ worker'[w].phase = IF worker[w].phase = "starting" THEN "running"
                              ELSE worker[w].phase
    BY <2>1 DEF TypeOK, Worker
  <2>3. call'[c] = NoCall /\ call[c].op = "renew"
        /\ \A d \in {Main(w), Beat(w)} \ {c} : call'[d] = call[d]
    <3>1. c \in Callers /\ Answers(c, "renew", TRUE)
      BY <1>0, <2>1
    <3>2. QED
      BY <1>0, <3>1 DEF Answers, TypeOK
  <2>4. CASE c = Main(w)
    BY <1>0, <2>2, <2>3, <2>4, NoCallIs DEF Waits, Worker, Phases
  <2>5. CASE c = Beat(w)
    BY <1>0, <2>2, <2>3, <2>5, NoCallIs DEF Waits, Worker, Phases
  <2>6. QED
    BY <2>4, <2>5
<1>8. CASE HeartbeatLost(w)
  <2>1. /\ worker'[w].gen = worker[w].gen /\ worker'[w].phase = worker[w].phase
        /\ call'[Beat(w)] = NoCall /\ call'[Main(w)] = call[Main(w)]
    BY <1>0, <1>8, AnswersIs DEF HeartbeatLost, TypeOK, Worker
  <2>2. QED
    BY <1>0, <2>1, NoCallIs DEF Waits
<1>9. CASE CheckPasses(w)
  <2>1. /\ worker' = worker /\ call[Main(w)].op = "owns"
        /\ call'[Main(w)] = NoCall /\ call'[Beat(w)] = call[Beat(w)]
    BY <1>0, <1>9, AnswersIs DEF CheckPasses
  <2>2. QED
    BY <1>0, <2>1, NoCallIs DEF Waits
<1>10. CASE CallFails(w)
  <2>1. /\ worker' = worker /\ call[Main(w)].op \in {"claim", "owns"}
        /\ call'[Main(w)] = NoCall /\ call'[Beat(w)] = call[Beat(w)]
    BY <1>0, <1>10 DEF CallFails, TypeOK
  <2>2. QED
    BY <1>0, <2>1, NoCallIs DEF Waits
<1>11. CASE Gone(w)
  <2>1. /\ worker'[w].phase = "idle"
        /\ call'[Main(w)] = NoCall /\ call'[Beat(w)] = NoCall
    BY <1>0, <1>11 DEF Gone, TypeOK, Absent
  <2>2. QED
    BY <1>0, <2>1, NoCallIs DEF Waits
<1>12. QED
  BY <1>1, <1>2, <1>3, <1>4, <1>5, <1>6, <1>7, <1>8, <1>9, <1>10, <1>11
     DEF WorkerStep

LEMMA WorkerShaped ==
  ASSUME TypeOK, Serial, Shaped, NEW w \in Workers, WorkerStep(w)
  PROVE  Shaped'
<1>1. UNCHANGED <<revision, lease, clock, drift, time>>
  BY StepOfWorker
<1>2. \A c \in Callers : Meant(c)'
  BY <1>1, CallsOf, MeantKept, MeantReading DEF Shaped, Serial
<1>3. \A v \in Workers \ {w} : Waits(v)'
  BY <1>1, StepOfWorker, WaitsKept, LocalType, CallersAre DEF Shaped, Local
<1>4. Waits(w)'
  BY WaitsByWorker DEF Shaped
<1>5. QED
  BY <1>1, <1>2, <1>3, <1>4 DEF Shaped

LEMMA ShapedStep == TypeOK /\ Serial /\ Shaped /\ [Next]_vars => Shaped'
<1> SUFFICES ASSUME TypeOK, Serial, Shaped, [Next]_vars PROVE Shaped'
  OBVIOUS
<1>1. CASE Tick \/ UNCHANGED vars
  <2>1. UNCHANGED <<revision, lease, time, worker, call>>
    BY <1>1 DEF Tick, vars
  <2>2. Local \in Nat /\ Local' \in Nat /\ Local <= Local'
    BY <1>1, LocalGrows, LocalType DEF vars, Local
  <2>3. \A w \in Workers : Waits(w)'
    BY <2>1, <2>2, WaitsKept DEF Shaped
  <2>4. \A c \in Callers : Meant(c)'
    BY <2>1, MeantKept DEF Shaped, Serial
  <2>5. QED
    BY <2>1, <2>3, <2>4 DEF Shaped
<1>2. CASE Elsewhere
  <2>1. /\ revision' = revision + 1
        /\ UNCHANGED <<lease, time, worker, call>> /\ Local' = Local
    BY <1>2 DEF Elsewhere, Local
  <2>2. \A w \in Workers : Waits(w)'
    BY <2>1, WaitsKept, LocalType DEF Shaped
  <2>3. \A c \in Callers : Meant(c)'
    BY <2>1, MeantKept DEF Shaped, Serial
  <2>4. QED
    BY <2>1, <2>2, <2>3 DEF Shaped
<1>3. QED
  BY <1>1, <1>2, StoreShaped, LateShaped, WorkerShaped DEF Next

LEMMA ShapedInit == Init => Shaped
<1> SUFFICES ASSUME Init PROVE Shaped
  OBVIOUS
<1>1. \A c \in Callers : call[c] = NoCall
  BY DEF Init
<1>2. \A w \in Workers : Waits(w)
  BY <1>1, CallersAre, NoCallIs, OwnersAre DEF Init, Waits, Absent, Local
<1>3. \A c \in Callers : Meant(c)
  BY <1>1, NoCallIs DEF Meant
<1>4. QED
  BY <1>2, <1>3, OwnersAre DEF Init, Shaped, Register!NoLease

-----------------------------------------------------------------------------
(* Generations                                                             *)

LEMMA TokenType ==
  ASSUME TypeOK, NEW w \in Workers
  PROVE  Token(w) \in Nat
BY CallersAre DEF TypeOK, Token, Worker, Call, Register!Lease

\* While the document stays, a worker keeps its generation or loses it, and
\* what is left on the way takes no living worker's lease.
LEMMA TokensKept ==
  ASSUME TypeOK, Tokens, UNCHANGED <<revision, lease>>,
         \A w \in Workers : /\ Token(w)' \in {Token(w), 0}
                            /\ worker'[w].phase # "idle" => Token(w)' # 0,
         \A a \in adrift' : \/ a \in adrift \/ a.rev # revision
                            \/ a.next.owner # None
                            \/ /\ lease.gen # 0
                               /\ \A w \in Workers : Token(w)' # lease.gen
  PROVE  Tokens'
<1>1. lease.gen \in Nat /\ \A w \in Workers : Token(w) \in Nat
  BY TokenType DEF TypeOK, Register!Lease
<1>2. \A w \in Workers : Token(w)' <= lease'.gen
  BY <1>1 DEF Tokens
<1>3. \A w, v \in Workers : Token(w)' = Token(v)' /\ Token(w)' # 0 => w = v
  BY DEF Tokens
<1>4. ASSUME NEW a \in adrift', a.rev = revision, a.next.owner = None,
             NEW w \in Workers
      PROVE  lease.gen # 0 /\ Token(w)' # lease.gen
  <2>1. CASE a \notin adrift
    BY <1>4, <2>1
  <2>2. CASE a \in adrift /\ Token(w)' = Token(w)
    BY <1>4, <2>2 DEF Tokens
  <2>3. CASE a \in adrift /\ Token(w)' = 0
    BY <1>4, <2>3 DEF Tokens
  <2>4. QED
    BY <2>1, <2>2, <2>3
<1>5. \A a \in adrift' : a.rev = revision /\ a.next.owner = None =>
        lease.gen # 0 /\ \A w \in Workers : Token(w)' # lease.gen
  <2>1. SUFFICES ASSUME NEW a \in adrift', a.rev = revision, a.next.owner = None
                 PROVE  lease.gen # 0 /\ \A w \in Workers : Token(w)' # lease.gen
    OBVIOUS
  <2>2. CASE a \notin adrift
    BY <2>1, <2>2
  <2>3. CASE a \in adrift
    BY <1>4, <2>1, <2>3 DEF Tokens
  <2>4. QED
    BY <2>2, <2>3
<1>6. QED
  BY <1>1, <1>2, <1>3, <1>5 DEF Tokens

\* An operation that leaves the record to nobody is the leaving of its owner.
LEMMA LeavingIs ==
  ASSUME TypeOK, NEW c \in Callers, Meant(c), call[c].at = "writing",
         call[c].next.owner = None
  PROVE  /\ call[c].op = "leave" /\ call[c].seen.gen = call[c].gen
         /\ call[c].seen.owner # None
<1>1. PICK w \in Workers, t \in Tasks : c = <<w, t>>
  BY DEF Callers
<1>2. /\ Granted(c, call[c].seen, call[c].now)
      /\ call[c].next = After(c, call[c].seen, call[c].now)
      /\ call[c].next # call[c].seen /\ call[c].seen \in Register!Lease
  BY DEF Meant, TypeOK, Call
<1>3. OwnerOf[w] # None
  BY OwnersAre
<1>4. call[c].op # "claim"
  BY <1>1, <1>2, <1>3 DEF After, Register!Claimed
<1>5. call[c].seen.owner = OwnerOf[w] /\ call[c].seen.gen = call[c].gen
  BY <1>1, <1>2, <1>4 DEF Granted, Holds
<1>6. call[c].op = "leave"
  BY <1>2, <1>3, <1>4, <1>5 DEF After, Register!Renewed, Register!Lease
<1>7. QED
  BY <1>3, <1>5, <1>6

\* The write a claim commits is a generation nobody has yet.
LEMMA CommitToken ==
  ASSUME TypeOK, Serial, Shaped, NEW c \in Callers, Commit(c), call[c].op = "claim"
  PROVE  /\ lease'.gen = lease.gen + 1 /\ call'[c].next = lease'
         /\ call'[c].at = "replying" /\ call'[c].answer
<1>1. /\ call[c].at = "writing" /\ call[c].rev = revision /\ lease' = call[c].next
      /\ call'[c].next = call[c].next /\ call'[c].at = "replying"
      /\ call'[c].answer = call[c].answer
  BY DEF Commit, TypeOK, Call
<1>2. call[c].answer /\ call[c].seen = lease
      /\ Granted(c, call[c].seen, call[c].now)
      /\ call[c].next = After(c, call[c].seen, call[c].now)
  BY <1>1 DEF Shaped, Meant
<1>3. lease \in Register!Lease /\ call[c].now \in Nat
  BY DEF TypeOK, Call
<1>4. QED
  BY <1>1, <1>2, <1>3, ClaimIsNew

LEMMA StoreTokens ==
  ASSUME TypeOK, Serial, Shaped, Tokens, NEW c \in Callers, StoreStep(c)
  PROVE  Tokens'
<1>0. /\ UNCHANGED <<worker, adrift>>
      /\ \A d \in Callers \ {c} : call'[d] = call[d]
      /\ call'[c].op = call[c].op
  BY StepOfStore
<1>1. lease.gen \in Nat /\ \A w \in Workers : Token(w) \in Nat
  BY TokenType DEF TypeOK, Register!Lease
<1>2. CASE Read(c) \/ Overtaken(c) \/ Change(c)
  <2>1. \A w \in Workers : Token(w)' = Token(w)
    <3>1. call[c].op = "claim" =>
            ~(call[c].at = "replying") /\ ~(call'[c].at = "replying" /\ call'[c].answer)
      <4>1. CASE Read(c)
        BY <4>1 DEF Read, TypeOK, Call
      <4>2. CASE Overtaken(c)
        BY <4>2 DEF Overtaken, Reloaded, TypeOK, Call
      <4>3. CASE Change(c)
        <5>1. /\ call[c].at = "timing" /\ call[c].seen \in Register!Lease
              /\ clock \in Nat
              /\ call'[c].answer = Granted(c, call[c].seen, clock)
              /\ call'[c].at = IF After(c, call[c].seen, clock) = call[c].seen
                               THEN "replying" ELSE "writing"
          BY <4>3 DEF Change, TypeOK, Call
        <5>2. call[c].op = "claim" /\ Granted(c, call[c].seen, clock) =>
                After(c, call[c].seen, clock) # call[c].seen
          BY <5>1, ClaimIsNew
        <5>3. call'[c].answer => Granted(c, call[c].seen, clock)
          BY <5>1, Zenon
        <5>4. call[c].op = "claim" /\ call'[c].answer => call'[c].at = "writing"
          BY <5>1, <5>2, <5>3
        <5>5. QED
          BY <5>1, <5>4
      <4>4. QED
        BY <1>2, <4>1, <4>2, <4>3
    <3>2. \A w \in Workers : Claiming(w)' <=> Claiming(w)
      BY <1>0, <3>1, CallersAre DEF Claiming
    <3>3. \A w \in Workers : Claiming(w) => call'[Main(w)] = call[Main(w)]
      BY <1>0, <3>1, CallersAre DEF Claiming
    <3>4. QED
      BY <1>0, <3>2, <3>3 DEF Token
  <2>2. UNCHANGED <<revision, lease>>
    BY <1>2 DEF Read, Overtaken, Change
  <2>3. QED
    BY <1>0, <2>1, <2>2, TokensKept DEF Tokens
<1>3. CASE Commit(c)
  <2>1. \A a \in adrift' : a.rev # revision'
    BY <1>0, <1>3 DEF Commit, Serial, Linked, TypeOK, Write
  <2>2. lease.gen <= lease'.gen /\ lease'.gen \in Nat
    <3>1. StepOf(lease, lease', time') /\ lease \in Register!Lease
          /\ lease' \in Register!Lease
      BY <1>3, CommitType DEF Commit, Serial, Current, Linked, Sent, TypeOK
    <3>2. QED
      BY <3>1, StepGrows
  <2>3. CASE call[c].op # "claim"
    <3>1. \A w \in Workers : Token(w)' = Token(w)
      BY <1>0, <2>3, CallersAre DEF Token, Claiming
    <3>2. QED
      BY <1>0, <1>1, <2>1, <2>2, <3>1 DEF Tokens
  <2>4. CASE call[c].op = "claim"
    <3>1. PICK u \in Workers : c = Main(u) /\ worker[u].phase = "idle"
      <4>1. PICK u \in Workers : c = Main(u) \/ c = Beat(u)
        BY CallersAre
      <4>2. Waits(u) /\ worker[u].phase \in Phases
        BY DEF Shaped, TypeOK, Worker
      <4>3. QED
        BY <2>4, <4>1, <4>2 DEF Waits, Phases
    <3>2. Token(u)' = lease.gen + 1 /\ lease'.gen = lease.gen + 1
      BY <1>0, <1>3, <2>4, <3>1, CommitToken DEF Token, Claiming
    <3>3. \A w \in Workers \ {u} : Token(w)' = Token(w)
      BY <1>0, <3>1, CallersAre DEF Token, Claiming
    <3>4. \A w \in Workers : Token(w)' <= lease'.gen
      BY <1>1, <3>2, <3>3 DEF Tokens
    <3>5. \A w \in Workers : worker'[w].phase # "idle" => Token(w)' # 0
      BY <1>0, <1>1, <3>2, <3>3 DEF Tokens
    <3>6. \A w, v \in Workers : Token(w)' = Token(v)' /\ Token(w)' # 0 => w = v
      BY <1>1, <3>2, <3>3 DEF Tokens
    <3>7. QED
      BY <2>1, <3>4, <3>5, <3>6 DEF Tokens
  <2>5. QED
    BY <2>3, <2>4
<1>4. QED
  BY <1>2, <1>3 DEF StoreStep

LEMMA LateTokens ==
  ASSUME TypeOK, Serial, Tokens, LateCommit
  PROVE  Tokens'
<1>1. PICK a \in adrift : /\ a.rev = revision /\ revision' = revision + 1
                          /\ lease' = a.next
                          /\ UNCHANGED <<worker, call, adrift>>
  BY DEF LateCommit
<1>2. \A k \in adrift' : k.rev # revision'
  BY <1>1 DEF Serial, Linked, TypeOK, Write
<1>3. lease.gen <= lease'.gen /\ lease'.gen \in Nat /\ lease.gen \in Nat
  <2>1. StepOf(lease, lease', a.now) /\ lease \in Register!Lease
        /\ lease' \in Register!Lease
    BY <1>1, LateCommitType DEF Serial, Linked, TypeOK
  <2>2. QED
    BY <2>1, StepGrows
<1>4. \A w \in Workers : Token(w)' = Token(w) /\ Token(w) \in Nat
  BY <1>1, TokenType DEF Token, Claiming
<1>5. QED
  BY <1>1, <1>2, <1>3, <1>4 DEF Tokens

LEMMA AbandonedIs ==
  ASSUME TypeOK, Shaped, NEW S \in SUBSET Callers, Abandoned(S),
         NEW a \in adrift', a \notin adrift, a.rev = revision, a.next.owner = None
  PROVE  \E c \in S : /\ call[c].op = "leave" /\ call[c].gen = lease.gen
<1>1. PICK c \in S : Pending(c) /\ a = Sent(c)
  BY DEF Abandoned
<1>2. call[c].at = "writing" /\ call[c].next.owner = None /\ call[c].rev = revision
  BY <1>1 DEF Pending, Sent
<1>3. call[c].seen = lease
  BY <1>2 DEF Shaped, Meant
<1>4. QED
  BY <1>2, <1>3, LeavingIs DEF Shaped

LEMMA WorkerTokens ==
  ASSUME TypeOK, Serial, Shaped, Tokens, NEW w \in Workers, WorkerStep(w)
  PROVE  Tokens'
<1>0. /\ Main(w) \in Callers /\ Beat(w) \in Callers /\ Main(w) # Beat(w)
      /\ worker[w] \in Worker /\ Waits(w) /\ worker[w].phase \in Phases
  BY CallersAre DEF TypeOK, Shaped, Worker
<1>1. UNCHANGED <<revision, lease>>
  BY StepOfWorker
<1>2. \A v \in Workers \ {w} :
        Token(v)' = Token(v) /\ (worker'[v].phase # "idle" => Token(v)' # 0)
  <2>1. \A v \in Workers \ {w} : Token(v)' = Token(v)
    BY StepOfWorker DEF Token, Claiming
  <2>2. QED
    BY <2>1, StepOfWorker DEF Tokens
<1>3. ASSUME Token(w)' \in {Token(w), 0}, worker'[w].phase # "idle" => Token(w)' # 0,
             UNCHANGED adrift
      PROVE  Tokens'
  BY <1>1, <1>2, <1>3, TokensKept DEF Tokens
<1>4. CASE Claim(w)
  <2>1. worker[w].phase = "idle" /\ worker' = worker /\ adrift' = adrift
    BY <1>4 DEF Claim
  <2>2. ~Claiming(w) /\ ~Claiming(w)'
    BY <1>0, <1>4, IssuedIs DEF Claim, Claiming
  <2>3. QED
    BY <1>3, <2>1, <2>2 DEF Token
<1>5. CASE FirstRenewal(w) \/ Heartbeat(w) \/ Check(w)
  <2>1. worker[w].phase # "idle" /\ worker' = worker /\ adrift' = adrift
    BY <1>5 DEF FirstRenewal, Heartbeat, Check
  <2>2. QED
    BY <1>3, <2>1 DEF Token, Tokens
<1>6. CASE Leave(w)
  <2>1. /\ worker[w].phase # "idle" /\ worker'[w].phase # "idle"
        /\ worker'[w].gen = worker[w].gen /\ adrift' = adrift
    BY <1>6 DEF Leave, TypeOK, Worker
  <2>2. QED
    BY <1>3, <2>1 DEF Token, Tokens
<1>7. CASE ClaimAnswered(w)
  <2>1. /\ call[Main(w)].op = "claim" /\ call[Main(w)].at = "replying"
        /\ call'[Main(w)] = NoCall /\ adrift' = adrift
    BY <1>0, <1>7, AnswersIs DEF ClaimAnswered
  <2>2. worker[w].phase = "idle"
    BY <1>0, <2>1 DEF Waits, Phases
  <2>3. CASE Answers(Main(w), "claim", FALSE) /\ UNCHANGED worker
    <3>1. ~Claiming(w) /\ ~Claiming(w)'
      BY <1>0, <2>1, <2>3, NoCallIs DEF Claiming, Answers
    <3>2. QED
      BY <1>3, <2>1, <2>2, <2>3, <3>1 DEF Token
  <2>4. CASE Answers(Main(w), "claim", TRUE) /\ worker' = [worker EXCEPT ![w] =
             [Absent EXCEPT !.phase = "starting", !.gen = call[Main(w)].next.gen]]
    <3>1. worker'[w].phase = "starting" /\ worker'[w].gen = call[Main(w)].next.gen
      BY <2>4 DEF TypeOK, Absent
    <3>2. Claiming(w) /\ call[Main(w)].next.gen # 0
      BY <1>0, <2>1, <2>4 DEF Claiming, Answers, Shaped, Meant
    <3>3. QED
      BY <1>3, <2>1, <2>2, <3>1, <3>2 DEF Token
  <2>5. QED
    BY <1>7, <2>3, <2>4 DEF ClaimAnswered
<1>8. CASE Renewed(w)
  <2>1. PICK c \in {Main(w), Beat(w)} :
          /\ Answers(c, "renew", TRUE)
          /\ worker' = [worker EXCEPT ![w].until = Until(c),
               ![w].phase = IF @ = "starting" THEN "running" ELSE @]
    BY <1>8 DEF Renewed
  <2>2. /\ worker'[w].gen = worker[w].gen
        /\ worker'[w].phase = IF worker[w].phase = "starting" THEN "running"
                              ELSE worker[w].phase
    BY <2>1 DEF TypeOK, Worker
  <2>3. worker[w].phase # "idle"
    BY <1>0, <2>1 DEF Waits, Answers
  <2>4. adrift' = adrift
    BY <1>8 DEF Renewed
  <2>5. QED
    BY <1>3, <2>2, <2>3, <2>4 DEF Token, Tokens
<1>9. CASE HeartbeatLost(w)
  <2>1. call[Beat(w)].op # "none"
    BY <1>9 DEF HeartbeatLost, Answers
  <2>2. worker[w].phase # "idle"
    BY <1>0, <2>1 DEF Waits
  <2>3. worker'[w].phase = worker[w].phase /\ worker'[w].gen = worker[w].gen
    BY <1>9 DEF HeartbeatLost, TypeOK, Worker
  <2>4. Token(w)' = Token(w) /\ Token(w) # 0
    BY <2>2, <2>3 DEF Token, Tokens
  <2>5. CASE UNCHANGED adrift
    BY <1>3, <2>4, <2>5
  <2>6. CASE Abandoned({Beat(w)})
    <3>1. \A a \in adrift' : a \in adrift \/ a.rev # revision \/ a.next.owner # None
      BY <1>0, <2>6, AbandonedIs DEF Waits
    <3>2. QED
      BY <1>1, <1>2, <2>4, <3>1, TokensKept
  <2>7. QED
    BY <1>9, <2>5, <2>6 DEF HeartbeatLost
<1>10. CASE CheckPasses(w)
  <2>1. call[Main(w)].op = "owns" /\ worker' = worker /\ adrift' = adrift
    BY <1>10 DEF CheckPasses, Answers
  <2>2. worker[w].phase # "idle"
    BY <1>0, <2>1 DEF Waits
  <2>3. QED
    BY <1>3, <2>1, <2>2 DEF Token, Tokens
<1>11. CASE CallFails(w)
  <2>1. /\ call[Main(w)].op \in {"claim", "owns"} /\ worker' = worker
        /\ call'[Main(w)] = NoCall /\ Abandoned({Main(w)})
    BY <1>0, <1>11 DEF CallFails, TypeOK
  <2>2. \A a \in adrift' : a \in adrift \/ a.rev # revision \/ a.next.owner # None
    BY <1>0, <2>1, AbandonedIs
  <2>3. /\ Token(w)' \in {Token(w), 0}
        /\ worker'[w].phase # "idle" => Token(w)' # 0
    BY <2>1, NoCallIs DEF Token, Claiming, Tokens
  <2>4. QED
    BY <1>1, <1>2, <2>2, <2>3, TokensKept
<1>12. CASE Gone(w)
  <2>1. /\ worker[w].phase # "idle" /\ worker'[w].phase = "idle"
        /\ call'[Main(w)] = NoCall /\ Abandoned({Main(w), Beat(w)})
    BY <1>0, <1>12 DEF Gone, TypeOK, Absent
  <2>2. Token(w)' = 0 /\ Token(w) = worker[w].gen /\ Token(w) # 0
    BY <2>1, NoCallIs DEF Token, Claiming, Tokens
  <2>3. ASSUME NEW a \in adrift', a \notin adrift, a.rev = revision,
               a.next.owner = None
        PROVE  lease.gen # 0 /\ \A v \in Workers : Token(v)' # lease.gen
    <3>1. PICK c \in {Main(w), Beat(w)} :
            call[c].op = "leave" /\ call[c].gen = lease.gen
      BY <1>0, <2>1, <2>3, AbandonedIs
    <3>2. lease.gen = worker[w].gen
      BY <1>0, <3>1 DEF Waits
    <3>3. QED
      BY <1>2, <2>2, <3>2 DEF Tokens
  <2>4. QED
    BY <1>1, <1>2, <2>1, <2>2, <2>3, TokensKept
<1>13. QED
  BY <1>4, <1>5, <1>6, <1>7, <1>8, <1>9, <1>10, <1>11, <1>12 DEF WorkerStep

LEMMA TokensStep ==
  TypeOK /\ Serial /\ Shaped /\ Tokens /\ [Next]_vars => Tokens'
<1> SUFFICES ASSUME TypeOK, Serial, Shaped, Tokens, [Next]_vars PROVE Tokens'
  OBVIOUS
<1>1. CASE Tick \/ UNCHANGED vars
  BY <1>1 DEF Tick, vars, Tokens, Token, Claiming
<1>2. CASE Elsewhere
  <2>1. \A a \in adrift' : a.rev # revision'
    BY <1>2 DEF Elsewhere, Serial, Linked, TypeOK, Write
  <2>2. \A w \in Workers : Token(w)' = Token(w)
    BY <1>2 DEF Elsewhere, Token, Claiming
  <2>3. QED
    BY <1>2, <2>1, <2>2 DEF Elsewhere, Tokens
<1>3. QED
  BY <1>1, <1>2, StoreTokens, WorkerTokens, LateTokens DEF Next

LEMMA TokensInit == Init => Tokens
<1> SUFFICES ASSUME Init PROVE Tokens
  OBVIOUS
<1>1. \A w \in Workers : worker[w].phase = "idle" /\ call[Main(w)] = NoCall
  BY CallersAre DEF Init, Absent
<1>2. \A w \in Workers : Token(w) = 0
  BY <1>1, NoCallIs DEF Token, Claiming
<1>3. QED
  BY <1>1, <1>2 DEF Init, Tokens, Register!NoLease

-----------------------------------------------------------------------------
(* The fence                                                               *)

LEMMA CoveredKept ==
  ASSUME TypeOK, NEW w \in Workers, NEW v \in Nat, lease' = lease,
         worker'[w].gen = worker[w].gen,
         Local \in Nat, Local' \in Nat, Local <= Local', Covered(w, v)
  PROVE  Covered(w, v)'
<1>1. Margin \in Nat
  BY OwnersAre
<1>2. SUFFICES ASSUME Local' + Margin < v
               PROVE  Mine(w, lease)' /\ v <= lease'.until
  BY DEF Covered
<1>3. Local + Margin < v
  BY <1>1, <1>2
<1>4. Mine(w, lease) /\ v <= lease.until
  BY <1>3 DEF Covered
<1>5. QED
  BY <1>4 DEF Mine

\* A write that is not w's leaving cannot take what the fence of w covers.
LEMMA CoveredByWrite ==
  ASSUME TypeOK, Shaped, NEW w \in Workers, NEW v \in Nat, NEW t \in Nat,
         time <= t, t <= clock, StepOf(lease, lease', t),
         lease'.owner = None => worker[w].gen # lease.gen,
         UNCHANGED <<clock, drift, worker>>, Covered(w, v)
  PROVE  Covered(w, v)'
<1>1. /\ lease \in Register!Lease /\ lease.until \in Nat /\ clock \in Nat
      /\ drift \in Nat /\ drift <= Margin /\ Margin \in Nat /\ Ttl \in Nat
      /\ time \in Nat /\ drift <= clock
  BY OwnersAre DEF TypeOK, Register!Lease
<1>2. Local' = Local /\ Local \in Nat /\ clock = Local + drift
  BY <1>1 DEF Local
<1>3. SUFFICES ASSUME Local + Margin < v, Mine(w, lease), v <= lease.until
               PROVE  Mine(w, lease') /\ v <= lease'.until
  BY <1>2 DEF Covered, Mine
<1>4. t < lease.until
  BY <1>1, <1>2, <1>3
<1>5. lease.owner # None
  BY <1>3, OwnersAre DEF Mine
<1>6. ~Register!Free(lease, t)
  BY <1>1, <1>4, <1>5 DEF Register!Free
<1>7. lease' # Register!Left(lease)
  BY <1>1, <1>3 DEF Register!Left, Mine, Register!Lease
<1>8. lease' = Register!Renewed(lease, t)
  BY <1>6, <1>7 DEF StepOf
<1>9. /\ lease'.owner = lease.owner /\ lease'.gen = lease.gen
      /\ lease'.until = t + Ttl
  BY <1>1, <1>8 DEF Register!Renewed, Register!Lease
<1>10. lease.until <= t + Ttl
  BY <1>1 DEF Shaped
<1>11. QED
  BY <1>1, <1>3, <1>9, <1>10 DEF Mine

LEMMA CoveredType ==
  ASSUME TypeOK, NEW w \in Workers
  PROVE  /\ worker[w].until + Margin \in Nat
         /\ \A c \in Callers : /\ call[c].seen.until \in Nat
                               /\ call[c].since + Ttl \in Nat
BY OwnersAre DEF TypeOK, Worker, Call, Register!Lease

\* A call still covers w after a step that keeps what is covered.
LEMMA CoversKept ==
  ASSUME TypeOK, NEW w \in Workers, NEW c \in Callers,
         worker'[w].gen = worker[w].gen,
         \A v \in Nat : Covered(w, v) => Covered(w, v)',
         Covers(w, c), call'[c] = call[c] \/ call'[c].at = "reading"
  PROVE  Covers(w, c)'
<1>1. CASE call'[c].at = "reading"
  BY <1>1 DEF Covers
<1>2. CASE call'[c] = call[c]
  <2>1. call[c].seen.until \in Nat /\ call[c].since + Ttl \in Nat
    BY CoveredType
  <2>2. Covered(w, call[c].seen.until) =>
          (Local' + Margin < call[c].seen.until =>
             Mine(w, lease)' /\ call[c].seen.until <= lease'.until)
    BY <2>1 DEF Covered
  <2>3. Covered(w, call[c].since + Ttl) =>
          (Local' + Margin < call[c].since + Ttl =>
             Mine(w, lease)' /\ call[c].since + Ttl <= lease'.until)
    BY <2>1 DEF Covered
  <2>4. Mine(w, call[c].seen)' => Mine(w, call[c].seen)
    BY <1>2 DEF Mine
  <2>5. QED
    BY <1>2, <2>2, <2>3, <2>4 DEF Covers, Covered
<1>3. QED
  BY <1>1, <1>2

LEMMA FenceKept ==
  ASSUME TypeOK, NEW w \in Workers, Fence(w),
         worker'[w].phase \in {"starting", "running"} =>
           /\ worker'[w].phase = worker[w].phase
           /\ worker'[w].gen = worker[w].gen
           /\ worker'[w].until = worker[w].until
           /\ \A v \in Nat : Covered(w, v) => Covered(w, v)',
         \A c \in {Main(w), Beat(w)} : call'[c] = call[c] \/ call'[c].at = "reading"
  PROVE  Fence(w)'
<1>1. ASSUME worker'[w].phase \in {"starting", "running"}
      PROVE  Covers(w, Main(w))' /\ Covers(w, Beat(w))'
  BY <1>1, CoversKept, CallersAre DEF Fence
<1>2. ASSUME worker'[w].phase = "running"
      PROVE  Covered(w, worker[w].until + Margin)'
  <2>1. /\ worker[w].until + Margin \in Nat
        /\ Covered(w, worker[w].until + Margin)
        /\ worker'[w].until = worker[w].until
    BY <1>2, CoveredType DEF Fence
  <2>2. Local' + Margin < worker[w].until + Margin =>
          Mine(w, lease)' /\ worker[w].until + Margin <= lease'.until
    BY <1>2, <2>1 DEF Covered
  <2>3. QED
    BY <2>1, <2>2 DEF Covered
<1>3. QED
  BY <1>1, <1>2 DEF Fence

\* No write of another worker, and none of a worker that is gone, takes the
\* lease of a worker that goes on.
LEMMA CommitLeaves ==
  ASSUME TypeOK, Serial, Shaped, Tokens, NEW c \in Callers, Commit(c),
         NEW w \in Workers, worker[w].phase \in {"starting", "running"},
         lease'.owner = None
  PROVE  worker[w].gen # lease.gen
<1>1. call[c].at = "writing" /\ call[c].next.owner = None /\ call[c].seen = lease
  BY DEF Commit, Shaped, Meant
<1>2. call[c].op = "leave" /\ call[c].gen = lease.gen
  BY <1>1, LeavingIs DEF Shaped
<1>3. PICK u \in Workers : c = Main(u) \/ c = Beat(u)
  BY CallersAre
<1>4. Waits(u) /\ worker[u].phase \in Phases
  BY DEF Shaped, TypeOK, Worker
<1>5. /\ worker[u].gen = lease.gen /\ worker[u].phase \in {"leaving", "refused"}
  BY <1>2, <1>3, <1>4 DEF Waits, Phases
<1>6. Token(u) = lease.gen /\ Token(u) # 0 /\ Token(w) = worker[w].gen
  BY <1>5 DEF Token, Tokens
<1>7. QED
  BY <1>5, <1>6 DEF Tokens

LEMMA StoreCovered ==
  ASSUME TypeOK, Serial, Shaped, Tokens, NEW c \in Callers, StoreStep(c),
         NEW w \in Workers, worker[w].phase \in {"starting", "running"},
         NEW v \in Nat, Covered(w, v)
  PROVE  Covered(w, v)'
<1>1. UNCHANGED <<clock, drift, worker>>
  BY StepOfStore
<1>2. CASE lease' = lease
  BY <1>1, <1>2, LocalType, CoveredKept DEF Local
<1>3. CASE Commit(c)
  <2>1. /\ call[c].now \in Nat /\ time <= call[c].now /\ call[c].now <= clock
        /\ StepOf(lease, lease', call[c].now)
    BY <1>3 DEF Commit, Serial, Current, Linked, Sent, TypeOK, Call
  <2>2. QED
    BY <1>1, <1>3, <2>1, CommitLeaves, CoveredByWrite
<1>4. QED
  BY <1>2, <1>3 DEF StoreStep, Read, Change, Overtaken

LEMMA LateCovered ==
  ASSUME TypeOK, Serial, Shaped, Tokens, LateCommit,
         NEW w \in Workers, worker[w].phase \in {"starting", "running"},
         NEW v \in Nat, Covered(w, v)
  PROVE  Covered(w, v)'
<1>1. PICK a \in adrift : /\ a.rev = revision /\ lease' = a.next
                          /\ UNCHANGED <<clock, drift, worker>>
  BY DEF LateCommit
<1>2. /\ a.now \in Nat /\ time <= a.now /\ a.now <= clock
      /\ StepOf(lease, lease', a.now)
  BY <1>1 DEF Serial, Linked, TypeOK, Write
<1>3. lease'.owner = None => worker[w].gen # lease.gen
  BY <1>1 DEF Tokens, Token
<1>4. QED
  BY <1>1, <1>2, <1>3, CoveredByWrite

\* A renewal that was granted covers a whole period from where it began.
LEMMA RenewalCovers ==
  ASSUME TypeOK, Serial, Shaped, Fenced, NEW w \in Workers,
         worker[w].phase \in {"starting", "running"},
         NEW c \in {Main(w), Beat(w)}, StoreStep(c), call[c].op = "renew",
         \A v \in Nat : Covered(w, v) => Covered(w, v)'
  PROVE  Covers(w, c)'
<1>0. /\ c \in Callers /\ c[1] = w /\ call[c].gen = worker[w].gen
      /\ call[c] \in Call /\ worker' = worker
      /\ Ttl \in Nat /\ call[c].since \in Nat /\ call[c].since + Ttl \in Nat
      /\ call[c].seen \in Register!Lease /\ call[c].seen.until \in Nat
  BY CallersAre, StepOfStore, OwnersAre DEF Shaped, Waits, TypeOK, Call,
     Register!Lease
<1>1. CASE Read(c)
  <2>1. call'[c].at = "timing" /\ call'[c].seen = lease /\ lease' = lease
    BY <1>0, <1>1 DEF Read, TypeOK, Call
  <2>2. lease.until <= lease.until
    BY DEF TypeOK, Register!Lease
  <2>3. QED
    BY <2>1, <2>2 DEF Covers, Covered
<1>2. CASE Overtaken(c)
  <2>1. call'[c].at \in {"reading", "failed"}
    BY <1>0, <1>2 DEF Overtaken, Reloaded, TypeOK, Call
  <2>2. QED
    BY <2>1 DEF Covers
<1>3. CASE Change(c)
  <2>1. /\ call'[c].since = call[c].since /\ call[c].at = "timing"
        /\ call'[c].answer = Granted(c, call[c].seen, clock)
        /\ call'[c].at = IF After(c, call[c].seen, clock) = call[c].seen
                         THEN "replying" ELSE "writing"
    BY <1>0, <1>3 DEF Change, TypeOK, Call
  <2>2. SUFFICES ASSUME call'[c].at = "replying", call'[c].answer
                 PROVE  Covered(w, call[c].since + Ttl)'
    BY <2>1 DEF Covers, Covered
  <2>3. Granted(c, call[c].seen, clock)
    BY <2>1, <2>2, Zenon
  <2>4. Mine(w, call[c].seen)
    BY <1>0, <2>3 DEF Granted, Holds, Mine
  <2>5. call[c].seen = Register!Renewed(call[c].seen, clock)
    BY <2>1, <2>2, <2>3 DEF After
  <2>6. call[c].seen.until = clock + Ttl
    BY <1>0, <2>5 DEF Register!Renewed, Register!Lease
  <2>7. call[c].since <= Local /\ Local <= clock /\ Local \in Nat /\ clock \in Nat
    BY LocalType, OwnersAre DEF Shaped, Waits, Local, TypeOK
  <2>8. call[c].since + Ttl <= call[c].seen.until
    BY <1>0, <2>6, <2>7
  <2>9. Covered(w, call[c].seen.until)
    BY <1>0, <2>1, <2>4 DEF Fenced, Fence, Covers
  <2>10. Local' + Margin < call[c].seen.until =>
           Mine(w, lease)' /\ call[c].seen.until <= lease'.until
    BY <1>0, <2>9 DEF Covered
  <2>11. Local' \in Nat /\ Margin \in Nat /\ lease'.until \in Nat
    BY <1>3, <2>7, OwnersAre, ChangeType DEF Change, Local, TypeOK, Register!Lease
  <2>12. QED
    BY <1>0, <2>1, <2>8, <2>10, <2>11 DEF Covered
<1>4. CASE Commit(c)
  <2>1. /\ call[c].at = "writing" /\ lease' = call[c].next
        /\ call'[c].since = call[c].since /\ call'[c].at = "replying"
        /\ call[c].rev = revision /\ call[c].now \in Nat
    BY <1>0, <1>4 DEF Commit, TypeOK, Call
  <2>2. /\ Granted(c, call[c].seen, call[c].now)
        /\ lease' = After(c, call[c].seen, call[c].now)
        /\ call[c].since <= call[c].now
    BY <1>0, <2>1 DEF Shaped, Meant
  <2>3. Mine(w, call[c].seen)
    BY <1>0, <2>2 DEF Granted, Holds, Mine
  <2>4. lease' = Register!Renewed(call[c].seen, call[c].now)
    BY <1>0, <2>2 DEF After
  <2>5. /\ lease'.owner = call[c].seen.owner /\ lease'.gen = call[c].seen.gen
        /\ lease'.until = call[c].now + Ttl
    BY <1>0, <2>4 DEF Register!Renewed, Register!Lease
  <2>6. Mine(w, lease)'
    BY <1>0, <2>3, <2>5 DEF Mine
  <2>7. call[c].since + Ttl <= lease'.until
    BY <1>0, <2>1, <2>2, <2>5
  <2>8. QED
    BY <2>1, <2>6, <2>7 DEF Covers, Covered
<1>5. QED
  BY <1>1, <1>2, <1>3, <1>4 DEF StoreStep

LEMMA StoreFenced ==
  ASSUME TypeOK, Serial, Shaped, Tokens, Fenced, NEW c \in Callers, StoreStep(c)
  PROVE  Fenced'
<1> SUFFICES ASSUME NEW w \in Workers PROVE Fence(w)'
  BY DEF Fenced, Fence
<1>1. /\ worker' = worker /\ \A d \in Callers \ {c} : call'[d] = call[d]
      /\ call'[c].op = call[c].op
  BY StepOfStore
<1>2. CASE worker[w].phase \notin {"starting", "running"}
  BY <1>1, <1>2 DEF Fence
<1>3. CASE worker[w].phase \in {"starting", "running"}
  <2>1. \A v \in Nat : Covered(w, v) => Covered(w, v)'
    BY <1>3, StoreCovered
  <2>2. ASSUME NEW d \in {Main(w), Beat(w)} PROVE Covers(w, d)'
    <3>1. d \in Callers /\ Covers(w, d)
      BY <1>3, CallersAre DEF Fenced, Fence
    <3>2. CASE d # c
      BY <1>1, <2>1, <3>1, <3>2, CoversKept
    <3>3. CASE d = c /\ call[c].op = "renew"
      BY <1>3, <2>1, <3>3, RenewalCovers
    <3>4. CASE d = c /\ call[c].op # "renew"
      BY <1>1, <3>4 DEF Covers
    <3>5. QED
      BY <3>2, <3>3, <3>4
  <2>3. worker'[w].phase = "running" => Covered(w, worker[w].until + Margin)'
    <3>1. SUFFICES ASSUME worker[w].phase = "running"
                   PROVE  Covered(w, worker[w].until + Margin)'
      BY <1>1
    <3>2. /\ worker[w].until + Margin \in Nat
          /\ Covered(w, worker[w].until + Margin)
      BY <3>1, CoveredType DEF Fenced, Fence
    <3>3. Local' + Margin < worker[w].until + Margin =>
            Mine(w, lease)' /\ worker[w].until + Margin <= lease'.until
      BY <2>1, <3>2 DEF Covered
    <3>4. QED
      BY <1>1, <3>3 DEF Covered
  <2>4. QED
    BY <2>2, <2>3 DEF Fence
<1>4. QED
  BY <1>2, <1>3

LEMMA LateFenced ==
  ASSUME TypeOK, Serial, Shaped, Tokens, Fenced, LateCommit
  PROVE  Fenced'
<1> SUFFICES ASSUME NEW w \in Workers PROVE Fence(w)'
  BY DEF Fenced, Fence
<1>1. UNCHANGED <<worker, call>>
  BY DEF LateCommit
<1>2. worker[w].phase \in {"starting", "running"} =>
        \A v \in Nat : Covered(w, v) => Covered(w, v)'
  BY LateCovered
<1>3. QED
  BY <1>1, <1>2, FenceKept DEF Fenced

LEMMA TickFenced ==
  ASSUME TypeOK, Fenced, Tick \/ Elsewhere \/ UNCHANGED vars
  PROVE  Fenced'
<1> SUFFICES ASSUME NEW w \in Workers PROVE Fence(w)'
  BY DEF Fenced, Fence
<1>1. UNCHANGED <<lease, worker, call>>
  BY DEF Tick, Elsewhere, vars
<1>2. Local \in Nat /\ Local' \in Nat /\ Local <= Local'
  BY LocalGrows, LocalType DEF vars, Elsewhere, Local
<1>3. \A v \in Nat : Covered(w, v) => Covered(w, v)'
  BY <1>1, <1>2, CoveredKept
<1>4. QED
  BY <1>1, <1>3, FenceKept DEF Fenced

LEMMA FenceByWorker ==
  ASSUME TypeOK, Serial, Shaped, Tokens, Fenced, NEW w \in Workers, WorkerStep(w)
  PROVE  Fence(w)'
<1>0. /\ Main(w) \in Callers /\ Beat(w) \in Callers /\ Main(w) # Beat(w)
      /\ worker[w] \in Worker /\ Waits(w) /\ Fence(w) /\ worker[w].phase \in Phases
  BY CallersAre DEF TypeOK, Shaped, Worker, Fenced
<1>1. /\ UNCHANGED <<revision, lease, clock, drift, time>>
      /\ Local' = Local /\ Local \in Nat
  BY StepOfWorker, LocalType DEF Local
<1>2. worker'[w].gen = worker[w].gen =>
        \A v \in Nat : Covered(w, v) => Covered(w, v)'
  BY <1>1, CoveredKept
<1>3. \A c \in {Main(w), Beat(w)} : call'[c] = call[c] \/ call'[c].at = "reading"
  BY <1>0, CallsOf
<1>4. ASSUME worker'[w].phase \in {"starting", "running"} =>
               /\ worker'[w].phase = worker[w].phase
               /\ worker'[w].gen = worker[w].gen
               /\ worker'[w].until = worker[w].until
      PROVE  Fence(w)'
  BY <1>0, <1>2, <1>3, <1>4, FenceKept
<1>6. CASE Claim(w) \/ FirstRenewal(w) \/ Heartbeat(w) \/ Check(w)
           \/ CheckPasses(w) \/ CallFails(w)
  <2>1. worker' = worker
    BY <1>6 DEF Claim, FirstRenewal, Heartbeat, Check, CheckPasses, CallFails
  <2>2. QED
    BY <1>4, <2>1
<1>7. CASE Leave(w) \/ Gone(w)
  <2>1. worker'[w].phase \notin {"starting", "running"}
    BY <1>7 DEF Leave, Gone, TypeOK, Worker, Absent
  <2>2. QED
    BY <1>4, <2>1
<1>8. CASE HeartbeatLost(w)
  <2>1. /\ worker'[w].phase = worker[w].phase /\ worker'[w].gen = worker[w].gen
        /\ worker'[w].until = worker[w].until
    BY <1>8 DEF HeartbeatLost, TypeOK, Worker
  <2>2. QED
    BY <1>4, <2>1
<1>9. CASE ClaimAnswered(w)
  <2>1. call[Main(w)].op = "claim" /\ call'[Main(w)] = NoCall
        /\ call'[Beat(w)] = call[Beat(w)]
    BY <1>0, <1>9, AnswersIs DEF ClaimAnswered
  <2>2. call[Beat(w)].op = "none" /\ worker[w].phase = "idle"
    BY <1>0, <2>1 DEF Waits, Phases
  <2>3. worker'[w].phase # "running"
    BY <1>9, <2>2 DEF ClaimAnswered, TypeOK, Absent
  <2>4. QED
    BY <2>1, <2>2, <2>3, NoCallIs DEF Fence, Covers
<1>10. CASE Renewed(w)
  <2>1. PICK c \in {Main(w), Beat(w)} :
          /\ Answers(c, "renew", TRUE)
          /\ worker' = [worker EXCEPT ![w].until = Until(c),
               ![w].phase = IF @ = "starting" THEN "running" ELSE @]
    BY <1>10 DEF Renewed
  <2>2. /\ worker'[w].gen = worker[w].gen /\ worker'[w].until = Until(c)
        /\ worker'[w].phase = IF worker[w].phase = "starting" THEN "running"
                              ELSE worker[w].phase
    BY <2>1 DEF TypeOK, Worker
  <2>3. /\ call[c].op = "renew" /\ call[c].at = "replying" /\ call[c].answer
        /\ call'[c] = NoCall
        /\ \A d \in {Main(w), Beat(w)} \ {c} : call'[d] = call[d]
    <3>1. c \in Callers
      BY <1>0
    <3>2. QED
      BY <1>0, <2>1, <3>1 DEF Answers, TypeOK
  <2>4. \A d \in {Main(w), Beat(w)} : d = c \/ worker'[w].phase # "running"
                                      \/ call[d].op # "renew" \/ Covers(w, d)'
    <3>1. SUFFICES ASSUME NEW d \in {Main(w), Beat(w)}, d # c,
                          worker'[w].phase = "running", call[d].op = "renew"
                   PROVE  Covers(w, d)'
      OBVIOUS
    <3>2. worker[w].phase = "starting" => d = Main(w) /\ c = Main(w)
      BY <1>0, <2>3, <3>1 DEF Waits
    <3>3. worker[w].phase = "running"
      BY <2>2, <3>1, <3>2
    <3>4. Covers(w, d) /\ d \in Callers /\ call'[d] = call[d]
      BY <1>0, <2>3, <3>1, <3>3 DEF Fence
    <3>5. QED
      BY <1>2, <2>2, <3>4, CoversKept
  <2>5. worker'[w].phase = "running" => Covered(w, worker[w].until + Margin)'
    <3>1. SUFFICES ASSUME worker'[w].phase = "running"
                   PROVE  Covered(w, worker[w].until + Margin)'
      OBVIOUS
    <3>2. worker[w].phase \in {"starting", "running"}
      BY <2>2, <3>1
    <3>3. Covered(w, call[c].since + Ttl)
      BY <1>0, <2>3, <3>2 DEF Fence, Covers
    <3>4. c \in Callers /\ call[c].since \in Nat /\ call[c].since + Ttl \in Nat
      BY <1>0, CoveredType DEF TypeOK, Call
    <3>5. Until(c) + Margin = call[c].since + Ttl
      BY <3>4, OwnersAre DEF Until
    <3>6. Local' + Margin < call[c].since + Ttl =>
            Mine(w, lease)' /\ call[c].since + Ttl <= lease'.until
      BY <1>2, <2>2, <3>3, <3>4 DEF Covered
    <3>7. QED
      BY <2>2, <3>5, <3>6 DEF Covered
  <2>6. worker'[w].phase # "starting"
    BY <2>2
  <2>7. \A d \in {Main(w), Beat(w)} : worker'[w].phase = "running" => Covers(w, d)'
    <3>1. Covers(w, c)'
      BY <2>3, NoCallIs DEF Covers
    <3>2. \A d \in {Main(w), Beat(w)} \ {c} : call[d].op # "renew" => Covers(w, d)'
      BY <2>3 DEF Covers
    <3>3. QED
      BY <2>4, <3>1, <3>2
  <2>8. QED
    BY <2>5, <2>6, <2>7 DEF Fence
<1>11. QED
  BY <1>6, <1>7, <1>8, <1>9, <1>10 DEF WorkerStep

LEMMA WorkerFenced ==
  ASSUME TypeOK, Serial, Shaped, Tokens, Fenced, NEW w \in Workers, WorkerStep(w)
  PROVE  Fenced'
<1>1. lease' = lease /\ Local' = Local /\ Local \in Nat
  BY StepOfWorker, LocalType DEF Local
<1>2. ASSUME NEW u \in Workers \ {w} PROVE Fence(u)'
  <2>1. worker'[u] = worker[u]
        /\ call'[Main(u)] = call[Main(u)] /\ call'[Beat(u)] = call[Beat(u)]
    BY StepOfWorker
  <2>2. \A v \in Nat : Covered(u, v) => Covered(u, v)'
    BY <1>1, <2>1, CoveredKept
  <2>3. QED
    BY <2>1, <2>2, FenceKept DEF Fenced
<1>3. QED
  BY <1>2, FenceByWorker DEF Fenced, Fence

LEMMA FencedStep ==
  TypeOK /\ Serial /\ Shaped /\ Tokens /\ Fenced /\ [Next]_vars => Fenced'
BY StoreFenced, LateFenced, TickFenced, WorkerFenced DEF Next

LEMMA FencedInit == Init => Fenced
<1> SUFFICES ASSUME Init, NEW w \in Workers PROVE worker[w].phase = "idle"
  BY DEF Fenced, Fence
<1>1. QED
  BY DEF Init, Absent

-----------------------------------------------------------------------------
(* Theorems                                                                *)

Guarded == Shaped /\ Tokens /\ Fenced

THEOREM GuardedHolds == Spec => []Guarded
<1>1. Init => Guarded
  BY ShapedInit, TokensInit, FencedInit DEF Guarded
<1>2. TypeOK /\ Serial /\ Guarded /\ [Next]_vars => Guarded'
  BY ShapedStep, TokensStep, FencedStep DEF Guarded
<1>3. QED
  BY <1>1, <1>2, TypeCorrect, WritesAreSerial, PTL DEF Spec

\* A worker whose local fence holds is the owner in the document.
LEMMA OwnerByFence ==
  ASSUME TypeOK, Fenced, NEW w \in Workers, worker[w].phase = "running",
         LocallyValid(w)
  PROVE  Owns(w)
<1>1. /\ clock \in Nat /\ drift \in Nat /\ drift <= clock /\ drift <= Margin
      /\ Margin \in Nat /\ worker[w].until \in Nat /\ lease.until \in Nat
  BY OwnersAre DEF TypeOK, Worker, Register!Lease
<1>2. Local + Margin < worker[w].until + Margin
  BY <1>1 DEF LocallyValid, Local
<1>3. Mine(w, lease) /\ worker[w].until + Margin <= lease.until
  BY <1>2 DEF Fenced, Fence, Covered
<1>4. clock < lease.until
  BY <1>1, <1>2, <1>3 DEF Local
<1>5. QED
  BY <1>3, <1>4 DEF Owns, Mine

\* Whatever calls are on their way and however late they are answered, a worker
\* stops itself before the document can make another one the owner
\* (conservative_owner_deadline, spawn_review_heartbeat).
THEOREM FenceIsInsideLease == Spec => []FenceInsideLease
<1>1. TypeOK /\ Guarded => FenceInsideLease
  BY OwnerByFence DEF Guarded, FenceInsideLease
<1>2. QED
  BY <1>1, TypeCorrect, GuardedHolds, PTL

\* What follows the check before a forge write or a model call is the owner's
\* work (check_owner_after_await).
THEOREM CheckedIsOwner == Spec => CheckedMeansOwner
<1>1. ASSUME TypeOK, Guarded, NEW w \in Workers, CheckPasses(w) PROVE Owns(w)
  <2>1. call[Main(w)].op = "owns" /\ LocallyValid(w)
    BY <1>1 DEF CheckPasses, Answers, StillValid
  <2>2. Waits(w) /\ worker[w].phase \in Phases
    BY <1>1 DEF Guarded, Shaped, TypeOK, Worker
  <2>3. worker[w].phase = "running"
    BY <2>1, <2>2 DEF Waits, Phases
  <2>4. QED
    BY <1>1, <2>1, <2>3, OwnerByFence DEF Guarded
<1>2. TypeOK /\ Guarded /\ [Next]_vars =>
        [\A w \in Workers : CheckPasses(w) => Owns(w)]_vars
  BY <1>1
<1>3. QED
  BY <1>2, TypeCorrect, GuardedHolds, PTL DEF Spec, CheckedMeansOwner

==============================================================================

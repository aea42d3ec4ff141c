------------------------- MODULE WorkerSerialProofs --------------------------
(***************************************************************************)
(* At-least-once delivery of the worker that has one permit and is never   *)
(* cancelled, for logs of every length and any number of crashes.          *)
(***************************************************************************)
EXTENDS WorkerProofs

\* The conditions under which the code keeps the promise: the group has an
\* offset, no record is rejected on the claim goroutine, one permit, no
\* rebalance or shutdown, and no provider that gives up at a deadline.  Without
\* any of the last four, a later offset can overtake an undecided delivery.
Serial ==
  /\ FirstOffsets = {0}
  /\ Payloads \subseteq {"valid"}
  /\ Concurrency = 1
  /\ ~Graceful
  /\ "deadline" \notin Results

-----------------------------------------------------------------------------
(* The invariant                                                           *)

\* No context is cancelled and no provider gives up.
Undisturbed ==
  /\ done = {} /\ phase \in {"idle", "open"}
  /\ \A r \in Records : kind[r] = "valid" /\ result[r] # "deadline"

\* Where one delivery is: goroutines belong to the open session, the claim
\* goroutine carries the record before position, and all that lies between the
\* mark and position has been handed over.
Placed(r) ==
  /\ pc[r] \in EP!Active => Current(r)
  /\ pc[r] \in EP!HandlerStages => pc[r] \in {"parse", "acquire"} /\ r[2] + 1 = position
  /\ r[1] > session => pc[r] = "new"
  /\ Current(r) => /\ pc[r] # "dead"
                   /\ pc[r] # "new" => r[2] < position
                   /\ mark <= r[2] /\ r[2] < position => pc[r] # "new"

\* Everything handed over below n came to an outcome.
Safe(n) == \A r \in Records : r[2] < n /\ pc[r] # "new" => Settled(r[2])

SerialInv ==
  /\ Undisturbed
  /\ \A r \in Records : Placed(r)
  /\ committed >= 0 /\ Safe(committed)
  /\ phase # "idle" => 0 <= mark /\ mark <= position /\ Safe(mark)

\* The facts about the composed system that the steps below use.
Base == WorkerInv /\ EP!DeliveryInv /\ MarkInv

LEMMA BaseTypes ==
  ASSUME Base
  PROVE  /\ EP!TypeOK /\ EP!PermitsAccounted
         /\ position \in Nat /\ session \in Nat /\ mark \in Int /\ committed \in Int
         /\ logEnd \in Nat
         /\ \A r \in Records : r[1] \in Nat /\ r[2] \in Nat /\ r = <<r[1], r[2]>>
         /\ EP!DeliveryInv
BY WorkerAssumption
   DEF Base, WorkerInv, EP!PermitInv, ConsumerInv, ConsumerTypes, NoOffset,
       Records, Sessions, Offsets

\* What a step of a goroutine is, seen from the worker.
LEMMA GoroutineStep ==
  ASSUME Base, NEW r \in Records, EngineStep(r) \/ TimerFires(r)
  PROVE  /\ EP!CodeStep(r) \/ EP!TimerFires(r)
         /\ UNCHANGED consumerVars
         /\ pc[r] \in EP!Active /\ pc'[r] \in EP!Active \union {"end"}
         /\ \A q \in Records : q # r => pc'[q] = pc[q]
<1>1. EP!CodeStep(r) \/ EP!TimerFires(r)
  BY SameActions, CodeStepWider, LateStepWider DEF EngineStep, TimerFires, EP!CodeStep
<1>2. UNCHANGED consumerVars
  BY DEF EngineStep, TimerFires
<1> QED
  BY <1>1, <1>2, BaseTypes, EngineInstance, EP!StepStages, EP!StepTouchesOne DEF EP!Untouched

-----------------------------------------------------------------------------
(* Steps                                                                   *)

LEMMA UndisturbedStep ==
  ASSUME Serial, Base, Undisturbed, [Next]_vars
  PROVE  Undisturbed'
<1> USE DEF Serial, Undisturbed
<1>1. CASE UNCHANGED <<done, phase, kind, result>>
  BY <1>1
<1>2. CASE Join
  BY <1>2 DEF Join, engineVars
<1>3. CASE ConsumeClaim
  BY <1>3 DEF ConsumeClaim, E!HandleRecord
<1>4. CASE Exit \/ Crash
  <2>1. UNCHANGED <<done, kind, result>> /\ phase' \in {"idle", "open"}
    BY <1>4 DEF Exit, Crash, Die, E!Crash, engineVars
  <2> QED
    BY <2>1
<1>5. ASSUME NEW r \in Records, EngineStep(r) \/ TimerFires(r)
      PROVE  Undisturbed'
  <2>1. EP!CodeStep(r) \/ EP!TimerFires(r)
    BY <1>5, GoroutineStep
  <2>2. UNCHANGED <<done, kind, phase>>
    BY <1>5, <2>1, GoroutineStep
       DEF consumerVars, EP!CodeStep, EP!TimerFires, EP!ParseAndValidate, EP!RejectStatus,
           EP!RejectDLQ, EP!RejectCommit, EP!Acquire, EP!AcquireFails, EP!StartCancelled,
           EP!Start, EP!BeginAttempt, EP!Send, EP!SentStatus, EP!FailStatus, EP!FailDLQ,
           EP!Commit, EP!RetryAtOnce, EP!BeginWait, EP!WaitCancelled, EP!Release
  <2>3. EP!Send(r) \/ UNCHANGED result
    BY <2>1
       DEF EP!CodeStep, EP!TimerFires, EP!ParseAndValidate, EP!RejectStatus,
           EP!RejectDLQ, EP!RejectCommit, EP!Acquire, EP!AcquireFails, EP!StartCancelled,
           EP!Start, EP!BeginAttempt, EP!SentStatus, EP!FailStatus, EP!FailDLQ,
           EP!Commit, EP!RetryAtOnce, EP!BeginWait, EP!WaitCancelled, EP!Release
  <2>4. \A q \in Records : result'[q] # "deadline"
    BY <2>3, BaseTypes DEF EP!Send, EP!TypeOK
  <2> QED
    BY <2>2, <2>4
<1> QED
  BY <1>1, <1>2, <1>3, <1>4, <1>5
     DEF Next, vars, engineVars, consumerVars, Produce, Rebalance, Shutdown, Release,
         CloseProducer, AutoCommit

\* A goroutine keeps its place.
LEMMA PlacedGoroutine ==
  ASSUME Base, Undisturbed, \A q \in Records : Placed(q),
         NEW r \in Records, EngineStep(r) \/ TimerFires(r),
         mark' \in Int /\ mark' >= mark,
         NEW q \in Records
  PROVE  Placed(q)'
<1>1. UNCHANGED <<session, phase, position>>
  BY GoroutineStep DEF consumerVars
<1>2. Current(q)' <=> Current(q)
  BY <1>1 DEF Current
<1>3. CASE q # r
  <2>1. pc'[q] = pc[q]
    BY <1>3, GoroutineStep
  <2> QED
    BY <1>1, <1>2, <2>1, BaseTypes DEF Placed
<1>4. CASE q = r
  <2>1. /\ pc[r] \in EP!Active /\ pc'[r] \in EP!Active \union {"end"}
        /\ EP!CodeStep(r) \/ EP!TimerFires(r)
    BY GoroutineStep
  <2>2. pc'[r] # "new" /\ pc'[r] # "dead" /\ pc[r] # "new"
    BY <2>1 DEF EP!Active, EP!HandlerStages, EP!LoopStages
  <2>3. pc'[r] \in EP!HandlerStages => pc'[r] = "acquire" /\ pc[r] = "parse"
    <3>1. ~EP!Cancelled(r) /\ kind[r] = "valid"
      BY DEF Undisturbed, EP!Cancelled
    <3>2. pc[r] \in EP!HandlerStages => pc[r] \in {"parse", "acquire"}
      BY DEF Placed
    <3>3. pc[r] \in EP!Stages
      BY BaseTypes DEF EP!TypeOK
    <3>4. pc \in [Records -> EP!Stages]
      BY BaseTypes DEF EP!TypeOK
    <3>5. CASE EP!ParseAndValidate(r)
      BY <3>1, <3>4, <3>5 DEF EP!ParseAndValidate, EP!Goto
    <3>6. CASE EP!RejectStatus(r) \/ EP!RejectDLQ(r)
      BY <3>2, <3>6 DEF EP!RejectStatus, EP!RejectDLQ, EP!Goto, EP!HandlerStages
    <3>7. CASE EP!Send(r)
      BY <3>4, <3>7, EngineInstance DEF EP!Send, EP!Goto, EP!AfterSend, EP!AllResults, EP!HandlerStages
    <3>8. CASE ~(EP!ParseAndValidate(r) \/ EP!RejectStatus(r) \/ EP!RejectDLQ(r) \/ EP!Send(r))
      BY <2>1, <3>4, <3>8
         DEF EP!CodeStep, EP!TimerFires, EP!Goto, EP!HandlerStages,
             EP!RejectCommit, EP!Acquire, EP!AcquireFails, EP!StartCancelled,
             EP!Start, EP!BeginAttempt, EP!SentStatus, EP!FailStatus, EP!FailDLQ,
             EP!Commit, EP!RetryAtOnce, EP!BeginWait, EP!WaitCancelled, EP!Release
    <3> QED
      BY <3>5, <3>6, <3>7, <3>8
  <2>4. Current(r) /\ r[2] < position /\ ~(r[1] > session)
    BY <2>1, <2>2 DEF Placed
  <2>5. pc[r] = "parse" => r[2] + 1 = position
    BY DEF Placed, EP!HandlerStages
  <2> QED
    BY <1>1, <1>2, <1>4, <2>2, <2>3, <2>4, <2>5 DEF Placed
<1> QED
  BY <1>3, <1>4

\* The record that ConsumeClaim hands over is the next one.
LEMMA PlacedConsume ==
  ASSUME Base, Undisturbed, \A q \in Records : Placed(q), ConsumeClaim, NEW q \in Records
  PROVE  Placed(q)'
<1> DEFINE r == <<session, position>>
<1>1. r \in Records /\ E!HandleRecord(r) /\ phase # "idle"
  BY ConsumedIsRecord DEF Base, WorkerInv, ConsumeClaim
<1>2. /\ pc[r] = "new" /\ pc' = [pc EXCEPT ![r] = "parse"]
      /\ \A p \in Records : p[1] = session => pc[p] \notin EP!HandlerStages
  BY <1>1 DEF Undisturbed, E!HandleRecord, E!Goto, ClaimOf, SessionOf, E!HandlerStages, EP!HandlerStages
<1>3. UNCHANGED <<session, phase, mark>> /\ position' = position + 1
  BY DEF ConsumeClaim, offsetVars
<1>4. Current(q)' <=> Current(q)
  BY <1>3 DEF Current
<1>5. CASE q # r
  <2>1. pc'[q] = pc[q]
    BY <1>1, <1>2, <1>5, BaseTypes DEF EP!TypeOK
  <2>2. pc[q] \notin EP!HandlerStages
    BY <1>2 DEF Placed, Current, EP!Active
  <2>3. Current(q) => q[2] # position
    BY <1>5, BaseTypes DEF Current
  <2> QED
    BY <1>3, <1>4, <2>1, <2>2, <2>3, BaseTypes DEF Placed
<1>6. CASE q = r
  <2>1. pc'[q] = "parse"
    BY <1>1, <1>2, <1>6, BaseTypes DEF EP!TypeOK
  <2>2. Current(q) /\ q[1] = session /\ q[2] = position
    BY <1>1, <1>6 DEF Current
  <2> QED
    BY <1>3, <1>4, <2>1, <2>2, BaseTypes DEF Placed
<1> QED
  BY <1>5, <1>6

\* A new session starts with nothing handed over.
LEMMA PlacedJoin ==
  ASSUME Base, Undisturbed, \A q \in Records : Placed(q), Join, committed >= 0, NEW q \in Records
  PROVE  Placed(q)'
<1>1. /\ phase = "idle" /\ session' = session + 1 /\ phase' = "open" /\ pc' = pc
      /\ position' = committed /\ mark' = committed
  BY BaseTypes DEF Join, engineVars, NoOffset
<1>2. pc[q] \notin EP!Active /\ pc[q] \notin EP!HandlerStages
  BY <1>1 DEF Placed, Current, EP!Active
<1>3. Current(q)' => pc[q] = "new"
  BY <1>1, BaseTypes DEF Placed, Current
<1> QED
  BY <1>1, <1>2, <1>3, BaseTypes DEF Placed

\* Every goroutine of the engine ends with the process.
LEMMA PlacedDie ==
  ASSUME Base, \A q \in Records : Placed(q), Die, phase' = "idle", session' = session,
         NEW q \in Records
  PROVE  Placed(q)'
<1>1. pc'[q] \notin EP!Active
  BY BaseTypes, NoneSurvives
<1>2. pc[q] = "new" => pc'[q] = "new"
  BY BaseTypes DEF Die, E!Crash, engineVars, E!Active, E!HandlerStages, E!LoopStages
<1> QED
  BY <1>1, <1>2 DEF Placed, Current, EP!Active

LEMMA PlacedStep ==
  ASSUME Serial, Base, SerialInv, [Next]_vars, NEW q \in Records
  PROVE  Placed(q)'
<1>0. Undisturbed /\ \A p \in Records : Placed(p)
  BY DEF SerialInv
<1>1. CASE UNCHANGED <<pc, session, phase, position, mark>>
  BY <1>0, <1>1 DEF Placed, Current
<1>2. CASE Join
  BY <1>0, <1>2, PlacedJoin DEF SerialInv
<1>3. CASE ConsumeClaim
  BY <1>0, <1>3, PlacedConsume
<1>4. CASE Exit \/ Crash
  <2>1. phase' = "idle"
    BY <1>4 DEF Exit, Crash, Base, WorkerInv, ConsumerInv
  <2> QED
    BY <1>0, <1>4, <2>1, PlacedDie DEF Exit, Crash
<1>5. ASSUME NEW r \in Records, EngineStep(r) \/ TimerFires(r)
      PROVE  Placed(q)'
  <2>1. mark' \in Int /\ mark' >= mark
    BY <1>5, CommitMovesForward DEF Base, MarkInv, EngineStep, TimerFires, offsetVars
  <2> QED
    BY <1>0, <1>5, <2>1, PlacedGoroutine
<1> QED
  BY <1>1, <1>2, <1>3, <1>4, <1>5
     DEF Next, vars, engineVars, offsetVars, consumerVars, Produce, Rebalance, Shutdown, Release,
         CloseProducer, AutoCommit, Serial, Undisturbed, SerialInv

-----------------------------------------------------------------------------
(* What a commit acknowledges                                              *)

\* A record of the open session that left the engine came to an outcome.
LEMMA EndedIsSettled ==
  ASSUME Base, Undisturbed, NEW q \in Records, pc[q] = "end"
  PROVE  Settled(q[2])
<1>1. ~EP!Cancelled(q) /\ result[q] # "deadline"
  BY DEF Undisturbed, EP!Cancelled
<1>2. result[q] = "ok" \/ dlq[q] # {}
  BY <1>1, BaseTypes DEF EP!DeliveryInv, EP!Decision
<1> QED
  BY <1>2 DEF Settled, Deliveries

\* When a record is committed, everything before it that was handed over is
\* settled: with one permit its predecessors have left the loop.
LEMMA CommitIsSafe ==
  ASSUME Serial, Base, SerialInv, NEW r \in Records, CommitsNow(r)
  PROVE  Safe(mark') /\ mark' >= 0 /\ mark' <= position
<1>1. /\ pc[r] \in {"commit", "rejectCommit"} /\ Current(r) /\ mark' = r[2] + 1
      /\ Placed(r) /\ Undisturbed /\ Safe(mark)
  BY DEF CommitsNow, SerialInv, Current
<1>2. pc[r] = "commit" /\ r[2] < position
  BY <1>1 DEF Placed, EP!HandlerStages
<1>3. Settled(r[2])
  <2>1. result[r] = "ok" \/ dlq[r] # {}
    BY <1>2, BaseTypes DEF EP!DeliveryInv, EP!Decision
  <2> QED
    BY <2>1 DEF Settled, Deliveries
<1>4. ASSUME NEW o \in Offsets, mark <= o, o < r[2]
      PROVE  Settled(o)
  <2> DEFINE q == <<session, o>>
  <2>1. q \in Records /\ q[1] = session /\ q[2] = o /\ Current(q)
    BY <1>1 DEF Base, WorkerInv, ConsumerInv, Records, Current
  <2>2. Placed(q)
    BY <2>1 DEF SerialInv
  <2>3. pc[q] \notin {"new", "dead"} \union EP!HandlerStages
    BY <1>2, <1>4, <2>1, <2>2, BaseTypes DEF Placed, Offsets
  <2>4. pc[q] \notin EP!LoopStages
    <3>1. q # r /\ pc[r] \in EP!LoopStages
      BY <1>2, <1>4, <2>1, BaseTypes DEF EP!LoopStages
    <3> QED
      BY <2>1, <3>1, EngineInstance, EP!OneInFlight DEF Serial, Base, WorkerInv
  <2>5. pc[q] = "end"
    BY <2>1, <2>3, <2>4, BaseTypes DEF EP!TypeOK, EP!Stages
  <2> QED
    BY <1>1, <2>1, <2>5, EndedIsSettled
<1>5. ASSUME NEW q \in Records, q[2] < mark', pc[q] # "new"
      PROVE  Settled(q[2])
  <2>1. CASE q[2] < mark
    BY <1>1, <1>5, <2>1 DEF Safe
  <2>2. CASE q[2] = r[2]
    BY <1>3, <2>2
  <2>3. CASE mark <= q[2] /\ q[2] < r[2]
    BY <1>4, <2>3 DEF Records
  <2> QED
    BY <1>1, <1>5, <2>1, <2>2, <2>3, BaseTypes
<1> QED
  BY <1>1, <1>2, <1>5, BaseTypes DEF Safe

\* Where the step hands over a record, it is one that no mark acknowledges.
LEMMA SafeStays ==
  ASSUME Base, SerialInv, [Next]_vars, NEW n \in Int, Safe(n),
         ConsumeClaim => n <= position
  PROVE  Safe(n)'
<1> SUFFICES ASSUME NEW q \in Records, q[2] < n, pc'[q] # "new"
             PROVE  Settled(q[2])'
  BY DEF Safe
<1>1. pc[q] # "new"
  <2>1. CASE ConsumeClaim
    <3>1. E!HandleRecord(<<session, position>>) /\ <<session, position>> \in Records
      BY <2>1, ConsumedIsRecord DEF Base, WorkerInv, ConsumeClaim
    <3>2. q # <<session, position>>
      BY <2>1, BaseTypes
    <3> QED
      BY <3>1, <3>2, BaseTypes DEF E!HandleRecord, E!Goto, EP!TypeOK
  <2>2. CASE Die
    BY <2>2, BaseTypes DEF Die, E!Crash, engineVars, E!Active, E!HandlerStages, E!LoopStages
  <2>3. ASSUME NEW r \in Records, EngineStep(r) \/ TimerFires(r)
        PROVE  pc[q] # "new"
    BY <2>3, GoroutineStep DEF EP!Active, EP!HandlerStages, EP!LoopStages
  <2>4. CASE UNCHANGED pc
    BY <2>4
  <2> QED
    BY <2>1, <2>2, <2>3, <2>4
       DEF Next, vars, engineVars, Produce, Join, Rebalance, Shutdown, EndSession, Release,
           CloseProducer, Exit, Crash, AutoCommit, E!Cancel
<1> QED
  BY <1>1, SettledStays DEF Safe, Base

LEMMA SerialStep ==
  ASSUME Serial, Base, SerialInv, [Next]_vars
  PROVE  SerialInv'
<1>1. Undisturbed'
  BY UndisturbedStep DEF SerialInv
<1>2. \A q \in Records : Placed(q)'
  BY PlacedStep
<1>3. /\ mark' \in Int /\ committed' \in Int /\ committed' >= committed
      /\ phase # "idle" => committed <= mark
  BY MarkStep DEF Base, MarkInv
<1>4. Join \/ position' = position \/ position' = position + 1
  BY DEF Next, vars, consumerVars, Produce, ConsumeClaim, Rebalance, Shutdown, EndSession,
         Release, CloseProducer, Exit, Crash, AutoCommit, EngineStep, TimerFires
<1>5. phase' # "idle" => Join \/ phase # "idle"
  BY DEF Next, vars, consumerVars, Produce, ConsumeClaim, Rebalance, Shutdown, EndSession,
         Release, CloseProducer, Exit, Crash, AutoCommit, EngineStep, TimerFires
<1>6. CASE Join
  <2>1. mark' = committed /\ committed' = committed /\ position' = committed
    BY <1>6 DEF Join, SerialInv, NoOffset
  <2>2. PICK n \in Int : n = committed
    BY BaseTypes
  <2>3. Safe(n)'
    BY <1>6, <2>2, SafeStays DEF SerialInv, Join, ConsumeClaim
  <2> QED
    BY <1>1, <1>2, <2>1, <2>2, <2>3 DEF SerialInv, Safe
<1>7. CASE ~Join /\ phase # "idle"
  <2>1. Safe(mark') /\ 0 <= mark' /\ mark' <= position
    BY <1>3, <1>7, OffsetSources, CommitIsSafe, BaseTypes DEF SerialInv, Base
  <2>2. committed' = committed \/ committed' = mark'
    BY OffsetSources DEF Base
  <2>3. Safe(committed') /\ 0 <= committed' /\ committed' <= position
    BY <1>3, <1>7, <2>1, <2>2, BaseTypes DEF SerialInv
  <2>4. PICK m \in Int, c \in Int : m = mark' /\ c = committed'
    BY <1>3
  <2>5. Safe(m)' /\ Safe(c)'
    BY <2>1, <2>3, <2>4, SafeStays
  <2>6. mark' <= position'
    BY <1>3, <1>4, <1>7, <2>1, BaseTypes
  <2> QED
    BY <1>1, <1>2, <2>1, <2>3, <2>4, <2>5, <2>6 DEF SerialInv, Safe
<1>8. CASE phase = "idle" /\ phase' = "idle"
  <2>1. committed' = committed
    BY <1>8, OffsetSources DEF Base
  <2>2. PICK c \in Int : c = committed
    BY BaseTypes
  <2>3. ~ConsumeClaim
    BY <1>8 DEF ConsumeClaim
  <2>4. Safe(c)'
    BY <2>2, <2>3, SafeStays DEF SerialInv
  <2> QED
    BY <1>1, <1>2, <1>8, <2>1, <2>2, <2>4 DEF SerialInv, Safe
<1> QED
  BY <1>5, <1>6, <1>7, <1>8

LEMMA SerialAlways == ASSUME Serial PROVE Spec => [](SerialInv /\ Base)
<1>1. Init => MarkInv /\ SerialInv
  <2> SUFFICES ASSUME Init PROVE MarkInv /\ SerialInv
    OBVIOUS
  <2>1. mark = NoOffset /\ committed = 0 /\ session = 0 /\ phase = "idle" /\ done = {}
    BY DEF Init, E!Init, Serial
  <2>2. \A r \in Records : pc[r] = "new" /\ kind[r] = "valid" /\ result[r] = "none"
    BY DEF Init, E!Init, Serial
  <2>3. Undisturbed
    BY <2>1, <2>2 DEF Undisturbed
  <2>4. \A r \in Records : Placed(r)
    BY <2>1, <2>2 DEF Placed, Current, EP!Active, EP!HandlerStages, EP!LoopStages
  <2> QED
    BY <2>1, <2>2, <2>3, <2>4 DEF SerialInv, MarkInv, Safe, NoOffset
<1>2. SerialInv /\ Base /\ [Next]_vars => SerialInv' /\ MarkInv'
  BY SerialStep, MarkStep DEF Base
<1>3. Spec => []EP!DeliveryInv
  BY EngineHoldsInWorker, PTL
<1> QED
  BY <1>1, <1>2, <1>3, WorkerInvInit, WorkerInvStep, PTL DEF Spec, Base

\* At-least-once: whatever the group's offset acknowledges was handed over and
\* came to an outcome, is being worked on, or was never handed over.
THEOREM NothingLostWhenSerial == ASSUME Serial PROVE Spec => []NothingLost
<1>1. SerialInv => NothingLost
  BY DEF SerialInv, Safe, NothingLost, Lost, Deliveries
<1> QED
  BY <1>1, SerialAlways, PTL

\* A later session hands over again whatever an earlier one left undecided.
THEOREM DeferredIsRedeliveredWhenSerial == ASSUME Serial PROVE Spec => []DeferredIsRedelivered
<1>1. SerialInv /\ Base => DeferredIsRedelivered
  <2> SUFFICES ASSUME SerialInv, Base, NEW r \in Records, r[1] < session, phase = "open",
                      pc[r] \in {"end", "dead"}, ~Settled(r[2]), r[2] < position
               PROVE  \E q \in Deliveries(r[2]) : q[1] = session /\ pc[q] # "new"
    BY BaseTypes DEF DeferredIsRedelivered
  <2> DEFINE q == <<session, r[2]>>
  <2>1. q \in Deliveries(r[2]) /\ q[1] = session /\ q[2] = r[2] /\ q \in Records /\ Current(q)
    BY DEF Base, WorkerInv, ConsumerInv, Records, Deliveries, Current
  <2>2. mark <= r[2]
    BY BaseTypes DEF SerialInv, Safe
  <2>3. pc[q] # "new"
    BY <2>1, <2>2 DEF SerialInv, Placed
  <2> QED
    BY <2>1, <2>3
<1> QED
  BY <1>1, SerialAlways, PTL
=============================================================================

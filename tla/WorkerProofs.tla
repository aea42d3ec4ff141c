---------------------------- MODULE WorkerProofs -----------------------------
(***************************************************************************)
(* Theorems about Worker for logs of every length and any number of        *)
(* sessions, crashes and refused offset commits.                           *)
(***************************************************************************)
EXTENDS Worker, FiniteSetTheorems, TLAPS

\* The engine, its theorems included, when a publish may or may not be
\* acknowledged: the worker takes its steps before and after the producer is
\* closed.
EP == INSTANCE EngineRefinementProofs WITH Acks <- BOOLEAN

LEMMA MaxOfTwo ==
  ASSUME NEW a \in Int, NEW b \in Int
  PROVE  Max({a, b}) \in {a, b} /\ Max({a, b}) >= a /\ Max({a, b}) >= b
<1>1. \E x \in {a, b} : \A y \in {a, b} : x >= y
  OBVIOUS
<1> QED
  BY <1>1 DEF Max

\* The offset stored by the broker is behind the mark of the session that is
\* open or draining; every flush therefore moves it forward.
MarkInv ==
  /\ mark \in Int /\ committed \in Int
  /\ phase # "idle" => committed <= mark

\* What a commit of the engine does to the offsets.
LEMMA CommitMovesForward ==
  ASSUME MarkInv, NEW r \in Records, ConsumerCommit(r)
  PROVE  /\ mark' \in Int /\ committed' \in Int
         /\ mark' >= mark /\ committed' >= committed
         /\ phase # "idle" => committed' <= mark'
<1>1. r[2] \in Int
  BY DEF Records, Offsets, Sessions
<1>2. CASE ~Current(r)
  BY <1>2 DEF ConsumerCommit, MarkInv, offsetVars
<1>3. CASE Current(r)
  <2>1. mark' \in Int /\ mark' >= mark
    <3>1. mark \in Int /\ r[2] + 1 \in Int
      BY <1>1 DEF MarkInv
    <3>2. mark' = Max({mark, r[2] + 1})
      BY Zenon, <1>3 DEF ConsumerCommit, MarkMessage
    <3> QED
      BY <3>1, <3>2, MaxOfTwo
  <2>2. committed' = mark' \/ committed' = committed
    BY <1>3 DEF ConsumerCommit, Flush
  <2>3. committed <= mark
    BY <1>3 DEF Current, MarkInv
  <2> QED
    BY <2>1, <2>2, <2>3 DEF MarkInv
<1> QED
  BY <1>2, <1>3

LEMMA MarkStep ==
  ASSUME MarkInv, [Next]_vars
  PROVE  MarkInv' /\ committed' >= committed
<1>1. ASSUME UNCHANGED offsetVars, phase # "idle" \/ phase' = "idle"
      PROVE  MarkInv' /\ committed' >= committed
  BY <1>1 DEF MarkInv, offsetVars
<1>2. ASSUME phase # "idle", mark' = mark, Flush(mark)
      PROVE  MarkInv' /\ committed' >= committed
  BY <1>2 DEF MarkInv, Flush
<1>3. CASE UNCHANGED vars
  BY <1>1, <1>3 DEF vars, consumerVars
<1>4. CASE Produce
  BY <1>1, <1>4 DEF Produce
<1>5. CASE Join
  BY <1>5 DEF Join, MarkInv
<1>6. CASE ConsumeClaim
  BY <1>1, <1>6 DEF ConsumeClaim
<1>7. ASSUME EndSession
      PROVE  MarkInv' /\ committed' >= committed
  BY <1>1, <1>7 DEF EndSession
<1>8. CASE Rebalance
  BY <1>7, <1>8 DEF Rebalance
<1>9. CASE Shutdown
  BY <1>1, <1>7, <1>9 DEF Shutdown
<1>10. CASE Release
  <2>1. phase = "draining" /\ phase' = "idle" /\ mark' = mark
    BY <1>10 DEF Release
  <2>2. Flush(mark) \/ UNCHANGED <<committed, flushFailures>>
    BY <1>10 DEF Release
  <2> QED
    BY <1>1, <1>2, <2>1, <2>2 DEF offsetVars
<1>11. CASE CloseProducer
  BY <1>1, <1>11 DEF CloseProducer
<1>12. CASE Exit
  BY <1>1, <1>12 DEF Exit
<1>13. CASE Crash
  BY <1>1, <1>13 DEF Crash
<1>14. CASE AutoCommit
  BY <1>2, <1>14 DEF AutoCommit
<1>15. ASSUME NEW r \in Records, EngineStep(r)
       PROVE  MarkInv' /\ committed' >= committed
  <2>1. CASE ConsumerCommit(r) /\ UNCHANGED consumerVars
    BY <2>1, CommitMovesForward DEF MarkInv, consumerVars
  <2>2. CASE UNCHANGED <<offsetVars, consumerVars>>
    BY <1>1, <2>2 DEF consumerVars
  <2> QED
    BY <1>15, <2>1, <2>2 DEF EngineStep
<1>16. ASSUME NEW r \in Records, TimerFires(r)
       PROVE  MarkInv' /\ committed' >= committed
  BY <1>1, <1>16 DEF TimerFires, consumerVars
<1> QED
  BY <1>3, <1>4, <1>5, <1>6, <1>8, <1>9, <1>10, <1>11, <1>12, <1>13, <1>14, <1>15, <1>16 DEF Next

\* The offset of the group never moves back, whichever sessions, rebalances,
\* crashes, late goroutines and refused commits there are.
THEOREM OffsetNeverRewindsAlways == Spec => OffsetNeverRewinds
<1>1. Init => MarkInv
  BY WorkerAssumption DEF Init, MarkInv, NoOffset
<1>2. MarkInv /\ [Next]_vars => MarkInv'
  BY MarkStep
<1>3. MarkInv /\ [Next]_vars => [committed' >= committed]_vars
  BY MarkStep
<1> QED
  BY <1>1, <1>2, <1>3, PTL DEF Spec, OffsetNeverRewinds

-----------------------------------------------------------------------------
(* The engine inside the worker                                            *)

\* The assumptions of the engine hold for the deliveries of a partition.
LEMMA EngineInstance ==
  /\ EP!ConfigAccepted
  /\ EP!IsFiniteSet(Records)
  /\ SessionOf \in [Records -> Sessions]
  /\ ClaimOf \in [Records -> Claims]
  /\ Results \subseteq EP!AllResults
  /\ Delays \subseteq {"zero", "positive"}
<1>1. IsFiniteSet(Sessions) /\ IsFiniteSet(Offsets)
  BY WorkerAssumption, FS_Interval DEF Sessions, Offsets
<1>2. EP!IsFiniteSet(Records)
  <2>1. IsFiniteSet(Sessions \X Offsets)
    BY Zenon, <1>1, FS_Product
  <2> QED
    BY Zenon, <2>1 DEF Records, EP!IsFiniteSet, IsFiniteSet
<1>3. SessionOf \in [Records -> Sessions]
  BY DEF SessionOf, Records
<1> QED
  BY <1>2, <1>3, EngineAssumption
     DEF ClaimOf, Claims, EP!ConfigAccepted, E!ConfigAccepted, EP!AllResults, E!AllResults

\* The actions that publish nothing are those of EP.
LEMMA SameActions ==
  ASSUME NEW r
  PROVE  /\ E!HandleRecord(r) => EP!HandleRecord(r)
         /\ E!TimerFires(r) => EP!TimerFires(r)
         /\ E!RejectCommit(r) => EP!RejectCommit(r)
         /\ E!Commit(r) => EP!Commit(r)
         /\ E!Crash => EP!Crash
         /\ \A s : E!Cancel(s) => EP!Cancel(s)
BY Zenon
   DEF E!HandleRecord, EP!HandleRecord, E!TimerFires, EP!TimerFires,
       E!RejectCommit, EP!RejectCommit, E!Commit, EP!Commit, E!Crash, EP!Crash,
       E!Cancel, EP!Cancel, E!Goto, EP!Goto, E!HandlerStages, EP!HandlerStages,
       E!CommitRecord, EP!CommitRecord, E!Active, EP!Active, E!LoopStages, EP!LoopStages

\* A publish has one of the outcomes that EP allows, before and after the
\* producer is closed.
LEMMA PublishWider ==
  ASSUME NEW r, NEW type, NEW n
  PROVE  /\ E!PublishStatus(r, type, n) => EP!PublishStatus(r, type, n)
         /\ Late!PublishStatus(r, type, n) => EP!PublishStatus(r, type, n)
         /\ E!PublishDLQ(r, type, n) => EP!PublishDLQ(r, type, n)
         /\ Late!PublishDLQ(r, type, n) => EP!PublishDLQ(r, type, n)
BY EngineAssumption
   DEF E!PublishStatus, EP!PublishStatus, Late!PublishStatus,
       E!PublishDLQ, EP!PublishDLQ, Late!PublishDLQ

\* Every step of a goroutine is one of EP.
LEMMA CodeStepWider ==
  ASSUME NEW r, E!CodeStep(r)
  PROVE  EP!CodeStep(r)
<1> USE
   DEF E!Goto, EP!Goto, E!CommitRecord, EP!CommitRecord, E!Cancelled, EP!Cancelled, E!AfterSend,
       EP!AfterSend, E!FailureType, EP!FailureType
<1>1. /\ E!ParseAndValidate(r) => EP!ParseAndValidate(r)
      /\ E!RejectCommit(r) => EP!RejectCommit(r)
      /\ E!Acquire(r) => EP!Acquire(r)
      /\ E!AcquireFails(r) => EP!AcquireFails(r)
  BY Zenon
     DEF E!ParseAndValidate, EP!ParseAndValidate, E!RejectCommit, EP!RejectCommit, E!Acquire,
         EP!Acquire, E!AcquireFails, EP!AcquireFails
<1>2. /\ E!StartCancelled(r) => EP!StartCancelled(r)
      /\ E!Send(r) => EP!Send(r)
      /\ E!Commit(r) => EP!Commit(r)
  BY Zenon DEF E!StartCancelled, EP!StartCancelled, E!Send, EP!Send, E!Commit, EP!Commit
<1>3. /\ E!RetryAtOnce(r) => EP!RetryAtOnce(r)
      /\ E!BeginWait(r) => EP!BeginWait(r)
      /\ E!WaitCancelled(r) => EP!WaitCancelled(r)
      /\ E!Release(r) => EP!Release(r)
  BY Zenon
     DEF E!RetryAtOnce, EP!RetryAtOnce, E!BeginWait, EP!BeginWait, E!WaitCancelled,
         EP!WaitCancelled, E!Release, EP!Release
<1>4. /\ E!RejectStatus(r) => EP!RejectStatus(r)
      /\ E!Start(r) => EP!Start(r)
      /\ E!BeginAttempt(r) => EP!BeginAttempt(r)
      /\ E!SentStatus(r) => EP!SentStatus(r)
      /\ E!FailStatus(r) => EP!FailStatus(r)
  BY Zenon, PublishWider
     DEF E!RejectStatus, EP!RejectStatus, E!Start, EP!Start, E!BeginAttempt, EP!BeginAttempt,
         E!SentStatus, EP!SentStatus, E!FailStatus, EP!FailStatus
<1>5. /\ E!RejectDLQ(r) => EP!RejectDLQ(r)
      /\ E!FailDLQ(r) => EP!FailDLQ(r)
  BY Zenon, PublishWider DEF E!RejectDLQ, EP!RejectDLQ, E!FailDLQ, EP!FailDLQ
<1> QED
  BY Zenon, <1>1, <1>2, <1>3, <1>4, <1>5 DEF E!CodeStep, EP!CodeStep

\* Likewise once the producer is closed.
LEMMA LateStepWider ==
  ASSUME NEW r, Late!CodeStep(r)
  PROVE  EP!CodeStep(r)
<1> USE
   DEF Late!Goto, EP!Goto, Late!CommitRecord, EP!CommitRecord, Late!Cancelled, EP!Cancelled,
       Late!AfterSend, EP!AfterSend, Late!FailureType, EP!FailureType
<1>1. /\ Late!ParseAndValidate(r) => EP!ParseAndValidate(r)
      /\ Late!RejectCommit(r) => EP!RejectCommit(r)
      /\ Late!Acquire(r) => EP!Acquire(r)
      /\ Late!AcquireFails(r) => EP!AcquireFails(r)
  BY Zenon
     DEF Late!ParseAndValidate, EP!ParseAndValidate, Late!RejectCommit, EP!RejectCommit,
         Late!Acquire, EP!Acquire, Late!AcquireFails, EP!AcquireFails
<1>2. /\ Late!StartCancelled(r) => EP!StartCancelled(r)
      /\ Late!Send(r) => EP!Send(r)
      /\ Late!Commit(r) => EP!Commit(r)
  BY Zenon DEF Late!StartCancelled, EP!StartCancelled, Late!Send, EP!Send, Late!Commit, EP!Commit
<1>3. /\ Late!RetryAtOnce(r) => EP!RetryAtOnce(r)
      /\ Late!BeginWait(r) => EP!BeginWait(r)
      /\ Late!WaitCancelled(r) => EP!WaitCancelled(r)
      /\ Late!Release(r) => EP!Release(r)
  BY Zenon
     DEF Late!RetryAtOnce, EP!RetryAtOnce, Late!BeginWait, EP!BeginWait, Late!WaitCancelled,
         EP!WaitCancelled, Late!Release, EP!Release
<1>4. /\ Late!RejectStatus(r) => EP!RejectStatus(r)
      /\ Late!Start(r) => EP!Start(r)
      /\ Late!BeginAttempt(r) => EP!BeginAttempt(r)
      /\ Late!SentStatus(r) => EP!SentStatus(r)
      /\ Late!FailStatus(r) => EP!FailStatus(r)
  BY Zenon, PublishWider
     DEF Late!RejectStatus, EP!RejectStatus, Late!Start, EP!Start, Late!BeginAttempt,
         EP!BeginAttempt, Late!SentStatus, EP!SentStatus, Late!FailStatus, EP!FailStatus
<1>5. /\ Late!RejectDLQ(r) => EP!RejectDLQ(r)
      /\ Late!FailDLQ(r) => EP!FailDLQ(r)
  BY Zenon, PublishWider DEF Late!RejectDLQ, EP!RejectDLQ, Late!FailDLQ, EP!FailDLQ
<1> QED
  BY Zenon, <1>1, <1>2, <1>3, <1>4, <1>5 DEF Late!CodeStep, EP!CodeStep

-----------------------------------------------------------------------------
(* Types of the consumer; the worker implements the engine                 *)

\* The state of the consumer alone.
ConsumerTypes ==
  /\ logEnd \in 0..LogLen /\ session \in 0..MaxSessions
  /\ phase \in {"idle", "open", "draining"}
  /\ position \in 0..logEnd /\ buffered \in 0..logEnd
  /\ mark \in NoOffset..logEnd /\ committed \in NoOffset..logEnd
  /\ ready \in BOOLEAN /\ closing \in BOOLEAN /\ producerClosed \in BOOLEAN
  /\ crashes \in 0..MaxCrashes /\ flushFailures \in 0..MaxFlushFailures

\* A session that is open or draining has a number; the producer is closed
\* only when no session is left; the engine holds only what was produced.
Handed(r) == pc[r] # "new" => r[2] < logEnd

ConsumerInv ==
  /\ ConsumerTypes
  /\ phase # "idle" => session \in Sessions
  /\ producerClosed => closing /\ phase = "idle"
  /\ \A r \in Records : Handed(r)

WorkerInv == EP!PermitInv /\ ConsumerInv

\* What ConsumeClaim hands over is a delivery of the session.
LEMMA ConsumedIsRecord ==
  ASSUME ConsumerInv, ConsumeClaim
  PROVE  <<session, position>> \in Records /\ position < logEnd
<1>1. /\ position \in Int /\ buffered \in Int /\ logEnd \in Int
      /\ buffered <= logEnd /\ logEnd <= LogLen /\ position >= 0
  BY WorkerAssumption DEF ConsumerInv, ConsumerTypes
<1>2. phase # "idle" /\ position < logEnd
  BY <1>1 DEF ConsumeClaim
<1> QED
  BY <1>1, <1>2, WorkerAssumption DEF ConsumerInv, Records, Offsets

\* Every step of the worker is a step of the engine or leaves it alone.
LEMMA WorkerStepsEngine ==
  ASSUME ConsumerInv, [Next]_vars
  PROVE  [EP!Next]_engineVars
<1>1. CASE UNCHANGED vars
  BY <1>1 DEF vars
<1>2. CASE Produce \/ Join \/ Release \/ CloseProducer \/ AutoCommit
  BY <1>2 DEF Produce, Join, Release, CloseProducer, AutoCommit
<1>3. CASE ConsumeClaim
  <2>1. E!HandleRecord(<<session, position>>)
    BY <1>3 DEF ConsumeClaim
  <2> QED
    BY <1>3, <2>1, ConsumedIsRecord, SameActions DEF EP!Next
<1>4. ASSUME EndSession
      PROVE  [EP!Next]_engineVars
  <2>1. E!Cancel(session) /\ session \in Sessions
    BY <1>4 DEF EndSession, ConsumerInv
  <2> QED
    BY <2>1, SameActions DEF EP!Next
<1>5. CASE Rebalance \/ Shutdown
  BY <1>4, <1>5 DEF Rebalance, Shutdown
<1>6. CASE Exit \/ Crash
  <2>1. E!Crash \/ UNCHANGED engineVars
    BY <1>6 DEF Exit, Crash, Die
  <2> QED
    BY <2>1, SameActions DEF EP!Next
<1>7. ASSUME NEW r \in Records, EngineStep(r) \/ TimerFires(r)
      PROVE  [EP!Next]_engineVars
  <2>1. EP!CodeStep(r) \/ EP!TimerFires(r)
    BY <1>7, SameActions, CodeStepWider, LateStepWider DEF EngineStep, TimerFires, EP!CodeStep
  <2> QED
    BY <2>1 DEF EP!Next
<1> QED
  BY <1>1, <1>2, <1>3, <1>5, <1>6, <1>7 DEF Next

LEMMA FlushTypes ==
  ASSUME ConsumerTypes, NEW m \in NoOffset..logEnd, Flush(m)
  PROVE  committed' \in NoOffset..logEnd /\ flushFailures' \in 0..MaxFlushFailures
BY WorkerAssumption DEF Flush, ConsumerTypes

\* A commit marks an offset of the log.
LEMMA CommitTypes ==
  ASSUME ConsumerTypes, NEW r \in Records, r[2] < logEnd, ConsumerCommit(r)
  PROVE  /\ mark' \in NoOffset..logEnd /\ committed' \in NoOffset..logEnd
         /\ flushFailures' \in 0..MaxFlushFailures
<1>1. CASE ~Current(r)
  BY <1>1 DEF ConsumerCommit, offsetVars, ConsumerTypes
<1>2. CASE Current(r)
  <2>1. r[2] + 1 \in Int /\ r[2] + 1 >= 0 /\ r[2] + 1 <= logEnd /\ mark \in Int
    BY WorkerAssumption DEF Records, Offsets, ConsumerTypes, NoOffset
  <2>2. mark' = Max({mark, r[2] + 1})
    BY Zenon, <1>2 DEF ConsumerCommit, MarkMessage
  <2>3. mark' \in NoOffset..logEnd
    <3>1. mark \in NoOffset..logEnd /\ r[2] + 1 \in NoOffset..logEnd
      BY <2>1, WorkerAssumption DEF ConsumerTypes, NoOffset
    <3>2. mark' = mark \/ mark' = r[2] + 1
      BY <2>1, <2>2, MaxOfTwo
    <3> QED
      BY <3>1, <3>2
  <2>4. Flush(mark') \/ UNCHANGED <<committed, flushFailures>>
    BY <1>2 DEF ConsumerCommit
  <2> QED
    BY <2>3, <2>4, FlushTypes DEF ConsumerTypes
<1> QED
  BY <1>1, <1>2

LEMMA ConsumerTypesStep ==
  ASSUME ConsumerInv, [Next]_vars
  PROVE  ConsumerTypes'
<1> USE WorkerAssumption DEF ConsumerInv, ConsumerTypes, NoOffset
<1>1. CASE UNCHANGED vars
  BY <1>1 DEF vars, offsetVars, consumerVars
<1>2. CASE Produce
  BY <1>2 DEF Produce, offsetVars
<1>3. CASE Join
  BY <1>3 DEF Join
<1>4. CASE ConsumeClaim
  BY <1>4, ConsumedIsRecord DEF ConsumeClaim, offsetVars
<1>5. ASSUME EndSession, closing' \in BOOLEAN
      PROVE  ConsumerTypes'
  BY <1>5 DEF EndSession, offsetVars
<1>6. CASE Rebalance
  BY <1>5, <1>6 DEF Rebalance
<1>7. CASE Shutdown
  BY <1>5, <1>7 DEF Shutdown, offsetVars
<1>8. CASE Release
  <2>1. /\ phase' = "idle" /\ ready' = FALSE
        /\ UNCHANGED <<mark, logEnd, session, position, buffered, closing, producerClosed, crashes>>
        /\ Flush(mark) \/ UNCHANGED <<committed, flushFailures>>
    BY <1>8 DEF Release
  <2> QED
    BY <2>1, FlushTypes
<1>9. CASE CloseProducer \/ Exit
  BY <1>9 DEF CloseProducer, Exit, offsetVars
<1>10. CASE Crash
  <2>1. crashes' \in 0..MaxCrashes
    BY <1>10 DEF Crash
  <2>2. /\ phase' = "idle" /\ ready' = FALSE /\ closing' = FALSE /\ producerClosed' = FALSE
        /\ UNCHANGED <<mark, committed, flushFailures, logEnd, session, position, buffered>>
    BY <1>10 DEF Crash, offsetVars
  <2> QED
    BY <2>1, <2>2
<1>11. CASE AutoCommit
  <2>1. UNCHANGED <<mark, consumerVars>> /\ Flush(mark)
    BY <1>11 DEF AutoCommit
  <2> QED
    BY <2>1, FlushTypes DEF consumerVars
<1>12. ASSUME NEW r \in Records, EngineStep(r) \/ TimerFires(r)
       PROVE  ConsumerTypes'
  <2>1. CASE UNCHANGED <<offsetVars, consumerVars>>
    BY <2>1 DEF offsetVars, consumerVars
  <2>2. CASE (E!RejectCommit(r) \/ E!Commit(r)) /\ ConsumerCommit(r) /\ UNCHANGED consumerVars
    <3>1. r[2] < logEnd
      BY <2>2 DEF E!RejectCommit, E!Commit, E!Goto, Handed
    <3> QED
      BY <2>2, <3>1, CommitTypes DEF consumerVars
  <2> QED
    BY <1>12, <2>1, <2>2 DEF EngineStep, TimerFires
<1> QED
  BY <1>1, <1>2, <1>3, <1>4, <1>6, <1>7, <1>8, <1>9, <1>10, <1>11, <1>12 DEF Next
LEMMA SessionInvStep ==
  ASSUME ConsumerInv, [Next]_vars
  PROVE  /\ phase' # "idle" => session' \in Sessions
         /\ producerClosed' => closing' /\ phase' = "idle"
<1> USE WorkerAssumption DEF ConsumerInv, ConsumerTypes, Sessions
<1>1. CASE UNCHANGED <<phase, session, closing, producerClosed>>
  BY <1>1
<1>2. CASE Join
  BY <1>2 DEF Join
<1>3. ASSUME EndSession, closing => closing'
      PROVE  /\ phase' # "idle" => session' \in Sessions
             /\ producerClosed' => closing' /\ phase' = "idle"
  BY <1>3 DEF EndSession
<1>4. CASE Rebalance
  BY <1>3, <1>4 DEF Rebalance
<1>5. CASE Shutdown
  BY <1>3, <1>5 DEF Shutdown
<1>6. CASE Release
  BY <1>6 DEF Release
<1>7. CASE CloseProducer
  BY <1>7 DEF CloseProducer
<1>8. CASE Exit \/ Crash
  BY <1>8 DEF Exit, Crash
<1>9. UNCHANGED <<phase, session, closing, producerClosed>>
        \/ Join \/ Rebalance \/ Shutdown \/ Release \/ CloseProducer \/ Exit \/ Crash
  BY DEF Next, vars, consumerVars, Produce, ConsumeClaim, AutoCommit, EngineStep, TimerFires
<1> QED
  BY <1>1, <1>2, <1>4, <1>5, <1>6, <1>7, <1>8, <1>9

LEMMA HandedStep ==
  ASSUME WorkerInv, [Next]_vars, NEW q \in Records
  PROVE  Handed(q)'
<1>1. pc \in [Records -> EP!Stages]
  BY DEF WorkerInv, EP!PermitInv, EP!TypeOK
<1>2. logEnd' >= logEnd /\ logEnd \in Int /\ logEnd' \in Int /\ q[2] \in Int
  <2>1. logEnd' = logEnd \/ logEnd' = logEnd + 1
    BY DEF Next, vars, consumerVars, Produce, Join, ConsumeClaim, Rebalance, Shutdown, EndSession,
           Release, CloseProducer, Exit, Crash, AutoCommit, EngineStep, TimerFires
  <2> QED
    BY <2>1, WorkerAssumption DEF WorkerInv, ConsumerInv, ConsumerTypes, Records, Offsets
<1>3. pc'[q] # "new" => pc[q] # "new" \/ q[2] < logEnd
  <2>1. CASE ConsumeClaim
    <3>1. EP!HandleRecord(<<session, position>>)
      BY <2>1, SameActions DEF ConsumeClaim
    <3> QED
      BY <1>1, <2>1, <3>1, ConsumedIsRecord DEF EP!HandleRecord, EP!Goto, WorkerInv
  <2>2. CASE \E r \in Records : EngineStep(r) \/ TimerFires(r)
    <3>1. PICK r \in Records : EP!CodeStep(r) \/ EP!TimerFires(r)
      BY <2>2, SameActions, CodeStepWider, LateStepWider DEF EngineStep, TimerFires, EP!CodeStep
    <3>2. q # r => pc'[q] = pc[q]
      BY <3>1, EngineInstance, EP!StepTouchesOne DEF EP!Untouched, WorkerInv, EP!PermitInv
    <3>3. pc[r] \in EP!Active
      BY <3>1, EngineInstance, EP!StepStages DEF WorkerInv, EP!PermitInv
    <3> QED
      BY <3>2, <3>3 DEF EP!Active, EP!HandlerStages, EP!LoopStages
  <2>3. CASE Exit \/ Crash
    <3>1. E!Crash \/ UNCHANGED engineVars
      BY <2>3 DEF Exit, Crash, Die
    <3> QED
      BY <3>1, <1>1 DEF E!Crash, E!Active, E!HandlerStages, E!LoopStages, engineVars
  <2>4. CASE UNCHANGED pc
    BY <2>4
  <2> QED
    BY <2>1, <2>2, <2>3, <2>4
       DEF Next, vars, engineVars, Produce, Join, Rebalance, Shutdown, EndSession, Release,
           CloseProducer, AutoCommit, E!Cancel
<1> QED
  BY <1>2, <1>3 DEF WorkerInv, ConsumerInv, Handed

LEMMA WorkerInvStep == WorkerInv /\ [Next]_vars => WorkerInv'
<1> SUFFICES ASSUME WorkerInv, [Next]_vars PROVE WorkerInv'
  OBVIOUS
<1>1. EP!PermitInv'
  BY WorkerStepsEngine, EngineInstance, EP!NextPermitInv DEF WorkerInv, engineVars, EP!vars
<1>2. ConsumerInv'
  BY ConsumerTypesStep, SessionInvStep, HandedStep DEF WorkerInv, ConsumerInv
<1> QED
  BY <1>1, <1>2 DEF WorkerInv

LEMMA WorkerInvInit == Init => WorkerInv
<1> SUFFICES ASSUME Init PROVE WorkerInv
  OBVIOUS
<1>1. EP!Init
  BY DEF Init, E!Init, EP!Init, E!Kinds, EP!Kinds
<1>2. EP!PermitInv
  BY <1>1, EngineInstance, EP!InitPermitInv
<1>3. ConsumerInv
  <2>1. /\ committed \in NoOffset..logEnd /\ mark \in NoOffset..logEnd
        /\ logEnd \in 0..LogLen /\ session \in 0..MaxSessions
        /\ position \in 0..logEnd /\ buffered \in 0..logEnd
        /\ crashes \in 0..MaxCrashes /\ flushFailures \in 0..MaxFlushFailures
    BY WorkerAssumption DEF Init, NoOffset
  <2>2. ConsumerTypes
    BY <2>1 DEF Init, ConsumerTypes
  <2>3. \A r \in Records : pc[r] = "new"
    BY DEF Init, E!Init
  <2> QED
    BY <2>2, <2>3 DEF Init, ConsumerInv, Handed
<1> QED
  BY <1>2, <1>3 DEF WorkerInv

\* The worker implements the engine: sessions, rebalances, shutdowns and the
\* consumer's commits let the engine do nothing that it could not do alone.
THEOREM WorkerImplementsEngine == Spec => EP!Spec
<1>1. Init => EP!Init
  BY DEF Init, E!Init, EP!Init, E!Kinds, EP!Kinds
<1>2. WorkerInv /\ [Next]_vars => [EP!Next]_EP!vars
  BY WorkerStepsEngine DEF WorkerInv, engineVars, EP!vars
<1> QED
  BY <1>1, <1>2, WorkerInvInit, WorkerInvStep, PTL DEF Spec, EP!Spec

\* Hence what was proved of the engine holds of the worker: permits, outcomes,
\* dead letters and the status topic over all sessions, restarts and crashes.
THEOREM EngineHoldsInWorker ==
  Spec => [](/\ EP!PermitsAccounted /\ EP!DeliveryInv /\ EP!OutcomeBeforeCommit
             /\ EP!DeadLetterHonest /\ EP!SingleOutcome /\ EP!StatusOrdered
             /\ EP!DeferredLeavesNoTrace)
<1>1. EP!Spec => []EP!PermitsAccounted
  BY EngineInstance, EP!PermitsAccountedAlways
<1>2. EP!Spec => []EP!DeliveryInv
  BY EngineInstance, EP!DeliveryInvAlways
<1>3. EP!Spec => []EP!OutcomeBeforeCommit
  BY EngineInstance, EP!OutcomeBeforeCommitAlways
<1>4. EP!Spec => []EP!DeadLetterHonest
  BY EngineInstance, EP!DeadLetterHonestAlways
<1>5. EP!Spec => []EP!SingleOutcome
  BY EngineInstance, EP!SingleOutcomeAlways
<1>6. EP!Spec => []EP!StatusOrdered
  BY EngineInstance, EP!StatusOrderedAlways
<1>7. EP!Spec => []EP!DeferredLeavesNoTrace
  BY EngineInstance, EP!DeferredLeavesNoTraceAlways
<1> QED
  BY WorkerImplementsEngine, <1>1, <1>2, <1>3, <1>4, <1>5, <1>6, <1>7, PTL

\* And the worker keeps the promise of Delivery for every delivery it makes.
THEOREM WorkerImplementsDelivery == Spec => EP!ImplementsDelivery
<1>1. EP!Spec => EP!ImplementsDelivery
  BY EngineInstance, EP!EngineImplementsDelivery
<1> QED
  BY WorkerImplementsEngine, <1>1, PTL

\* Types of the composed system: every offset stays within the log, whichever
\* sessions, late goroutines and refused commits move it.
THEOREM WorkerTypeCorrect == Spec => []TypeOK
<1>1. WorkerInv => TypeOK
  BY DEF WorkerInv, ConsumerInv, ConsumerTypes, TypeOK, EP!PermitInv, EP!TypeOK, E!TypeOK,
         EP!Kinds, E!Kinds, EP!Stages, E!Stages, EP!HandlerStages, E!HandlerStages,
         EP!LoopStages, E!LoopStages, EP!AllResults, E!AllResults, EP!Events, E!Events,
         EP!EventTypes, E!EventTypes, EP!DeadLetters, E!DeadLetters,
         EP!FailureTypes, E!FailureTypes
<1> QED
  BY <1>1, WorkerInvInit, WorkerInvStep, PTL DEF Spec

-----------------------------------------------------------------------------
(* What the offset of the group acknowledges                               *)

\* The step commits delivery r through the consumer of the current session.
CommitsNow(r) ==
  /\ Current(r) /\ ~producerClosed
  /\ pc[r] \in {"commit", "rejectCommit"}
  /\ mark' = r[2] + 1

\* Where the mark and the group's offset come from in one step.
LEMMA OffsetSources ==
  ASSUME WorkerInv, [Next]_vars
  PROVE  /\ mark' \in {mark, committed} \/ \E r \in Records : CommitsNow(r)
         /\ committed' = committed \/ (committed' = mark' /\ phase # "idle")
<1>1. CASE UNCHANGED <<mark, committed>>
  BY <1>1
<1>2. CASE Join
  BY <1>2 DEF Join
<1>3. CASE Release \/ AutoCommit
  BY <1>3 DEF Release, AutoCommit, Flush
<1>4. ASSUME NEW r \in Records, E!RejectCommit(r) \/ E!Commit(r), ConsumerCommit(r), Current(r)
      PROVE  /\ mark' = mark \/ CommitsNow(r)
             /\ committed' = committed \/ (committed' = mark' /\ phase # "idle")
  <2>1. committed' = committed \/ (committed' = mark' /\ phase # "idle")
    BY <1>4 DEF ConsumerCommit, Flush, Current
  <2>2. mark' = Max({mark, r[2] + 1})
    BY Zenon, <1>4 DEF ConsumerCommit, MarkMessage
  <2>3. mark \in Int /\ r[2] + 1 \in Int
    BY WorkerAssumption DEF WorkerInv, ConsumerInv, ConsumerTypes, NoOffset, Records, Offsets
  <2>4. mark' = mark \/ mark' = r[2] + 1
    BY <2>2, <2>3, MaxOfTwo
  <2>5. ~producerClosed /\ pc[r] \in {"commit", "rejectCommit"}
    BY <1>4 DEF E!RejectCommit, E!Commit, E!Goto, WorkerInv, ConsumerInv, Current
  <2> QED
    BY <1>4, <2>1, <2>4, <2>5 DEF CommitsNow
<1>5. ASSUME NEW r \in Records, EngineStep(r) \/ TimerFires(r)
      PROVE  \/ UNCHANGED <<mark, committed>>
             \/ (E!RejectCommit(r) \/ E!Commit(r)) /\ ConsumerCommit(r) /\ Current(r)
  BY <1>5 DEF EngineStep, TimerFires, ConsumerCommit, offsetVars
<1>6. \/ UNCHANGED <<mark, committed>> \/ Join \/ Release \/ AutoCommit
      \/ \E r \in Records : EngineStep(r) \/ TimerFires(r)
  BY DEF Next, vars, offsetVars, Produce, ConsumeClaim, Rebalance, Shutdown, EndSession,
         CloseProducer, Exit, Crash
<1> QED
  BY <1>1, <1>2, <1>3, <1>4, <1>5, <1>6

\* The offset after a settled message: the mark and the group's offset alike.
SettledInv ==
  /\ mark > 0 => Settled(mark - 1)
  /\ committed > 0 => Settled(committed - 1)

\* An outcome is never taken back.
LEMMA SettledStays ==
  ASSUME WorkerInv, EP!DeliveryInv, [Next]_vars, NEW o, Settled(o)
  PROVE  Settled(o)'
<1>1. PICK r \in Records : r[2] = o /\ (result[r] = "ok" \/ dlq[r] # {})
  BY DEF Settled, Deliveries
<1>2. (result[r] = "ok" => result'[r] = "ok") /\ dlq[r] \subseteq dlq'[r]
  BY WorkerStepsEngine, EngineInstance, EP!OutcomeKept
     DEF WorkerInv, EP!PermitInv, engineVars, EP!vars
<1> QED
  BY <1>1, <1>2 DEF Settled, Deliveries

LEMMA SettledStep == WorkerInv /\ EP!DeliveryInv /\ SettledInv /\ [Next]_vars => SettledInv'
<1> SUFFICES ASSUME WorkerInv, EP!DeliveryInv, SettledInv, [Next]_vars
             PROVE  SettledInv'
  OBVIOUS
<1>1. mark' > 0 => Settled(mark' - 1)
  <2>1. ASSUME NEW r \in Records, CommitsNow(r)
        PROVE  Settled(mark' - 1)
    <3>1. mark' - 1 = r[2]
      BY <2>1 DEF CommitsNow, Records, Offsets
    <3>2. result[r] = "ok" \/ dlq[r] # {}
      BY <2>1 DEF CommitsNow, EP!DeliveryInv, EP!Decision
    <3> QED
      BY <3>1, <3>2 DEF Settled, Deliveries
  <2> QED
    BY <2>1, OffsetSources DEF SettledInv
<1>2. committed' > 0 => Settled(committed' - 1)
  BY <1>1, OffsetSources DEF SettledInv
<1>3. \A o : Settled(o) => Settled(o)'
  BY SettledStays
<1> QED
  BY <1>1, <1>2, <1>3 DEF SettledInv

\* The group resumes after a message that came to an outcome, whichever late
\* goroutines, cancelled sessions and refused commits preceded.
THEOREM ResumesAfterSettledAlways == Spec => []ResumesAfterSettled
<1>1. Init => SettledInv
  <2>1. Init => mark = NoOffset /\ (committed = NoOffset \/ committed = 0)
    BY WorkerAssumption DEF Init
  <2> QED
    BY <2>1 DEF SettledInv, NoOffset
<1>2. SettledInv => ResumesAfterSettled
  BY DEF SettledInv, ResumesAfterSettled
<1>3. Spec => []EP!DeliveryInv
  BY EngineHoldsInWorker, PTL
<1> QED
  BY <1>1, <1>2, <1>3, SettledStep, WorkerInvInit, WorkerInvStep, PTL DEF Spec

-----------------------------------------------------------------------------
(* The order of the defers in main                                         *)

AllStored(r) == \A d \in dlq[r] : d.stored

\* While the producer is open and the brokers acknowledge what they are sent,
\* what a running goroutine has dead-lettered is stored.
StoredInv == ~producerClosed => \A r \in Records : pc[r] \in EP!Active => AllStored(r)

\* With Acks = {TRUE} a goroutine of the open producer publishes nothing that
\* is not stored.
LEMMA OpenPublishes ==
  ASSUME EP!TypeOK, Acks = {TRUE}, NEW r \in Records, E!CodeStep(r), AllStored(r)
  PROVE  AllStored(r)'
<1> USE DEF AllStored
<1>1. CASE E!RejectDLQ(r) \/ E!FailDLQ(r)
  <2>1. \E type, n : E!PublishDLQ(r, type, n)
    BY Zenon, <1>1 DEF E!RejectDLQ, E!FailDLQ
  <2>2. PICK d : dlq' = [dlq EXCEPT ![r] = @ \union {d}] /\ d.stored
    BY <2>1 DEF E!PublishDLQ
  <2> QED
    BY <2>2 DEF EP!TypeOK
<1>2. CASE UNCHANGED dlq
  BY <1>2
<1> QED
  BY <1>1, <1>2
     DEF E!CodeStep, E!ParseAndValidate, E!RejectStatus, E!RejectCommit, E!Acquire,
         E!AcquireFails, E!StartCancelled, E!Start, E!BeginAttempt, E!Send, E!SentStatus,
         E!FailStatus, E!Commit, E!RetryAtOnce, E!BeginWait, E!WaitCancelled, E!Release

\* The process ends with every goroutine of the engine.
LEMMA NoneSurvives ==
  ASSUME EP!TypeOK, Die, NEW q \in Records
  PROVE  pc'[q] \notin EP!Active
BY DEF EP!TypeOK, Die, E!Crash, engineVars, E!Active, E!HandlerStages, E!LoopStages,
       EP!Active, EP!HandlerStages, EP!LoopStages

LEMMA StoredStep ==
  ASSUME WorkerInv, EP!DeliveryInv, StoredInv, Acks = {TRUE}, [Next]_vars
  PROVE  StoredInv'
<1> SUFFICES ASSUME ~producerClosed', NEW q \in Records, pc'[q] \in EP!Active
             PROVE  AllStored(q)'
  BY DEF StoredInv
<1>0. EP!TypeOK
  BY DEF WorkerInv, EP!PermitInv
<1>1. CASE Exit \/ Crash
  BY <1>0, <1>1, NoneSurvives DEF Exit, Crash
<1>2. ASSUME UNCHANGED producerClosed
      PROVE  pc[q] \in EP!Active => AllStored(q)
  BY <1>2 DEF StoredInv
<1>3. CASE UNCHANGED <<pc, dlq, producerClosed>>
  BY <1>2, <1>3 DEF AllStored
<1>4. CASE ConsumeClaim
  <2>1. E!HandleRecord(<<session, position>>) /\ <<session, position>> \in Records
    BY <1>4, ConsumedIsRecord DEF ConsumeClaim, WorkerInv
  <2>2. pc[<<session, position>>] = "new" /\ dlq' = dlq
    BY <2>1 DEF E!HandleRecord, E!Goto
  <2>3. dlq[<<session, position>>] = {}
    BY <2>1, <2>2 DEF EP!DeliveryInv, EP!Decision, EP!OpenStages
  <2>4. q # <<session, position>> => pc'[q] = pc[q]
    BY <1>0, <2>1 DEF E!HandleRecord, E!Goto, EP!TypeOK
  <2>5. UNCHANGED producerClosed
    BY <1>4 DEF ConsumeClaim
  <2> QED
    BY <1>2, <2>2, <2>3, <2>4, <2>5 DEF AllStored
<1>5. ASSUME NEW r \in Records, EngineStep(r) \/ TimerFires(r)
      PROVE  AllStored(q)'
  <2>1. UNCHANGED producerClosed
    BY <1>5 DEF EngineStep, TimerFires, consumerVars
  <2>2. EP!CodeStep(r) \/ EP!TimerFires(r)
    BY <1>5, SameActions, CodeStepWider, LateStepWider DEF EngineStep, TimerFires, EP!CodeStep
  <2>3. CASE q # r
    <3>1. pc'[q] = pc[q] /\ dlq'[q] = dlq[q]
      BY <1>0, <2>2, <2>3, EngineInstance, EP!StepTouchesOne DEF EP!Untouched
    <3> QED
      BY <1>2, <2>1, <3>1 DEF AllStored
  <2>4. CASE q = r
    <3>1. AllStored(r)
      BY <1>0, <1>2, <2>1, <2>2, <2>4, EngineInstance, EP!StepStages
    <3>2. E!CodeStep(r) \/ UNCHANGED dlq
      BY <1>5, <2>1 DEF EngineStep, TimerFires, E!TimerFires, E!RejectCommit, E!Commit
    <3> QED
      BY <1>0, <2>4, <3>1, <3>2, OpenPublishes DEF AllStored
  <2> QED
    BY <2>3, <2>4
<1>6. \/ UNCHANGED <<pc, dlq, producerClosed>> \/ CloseProducer \/ ConsumeClaim \/ Exit \/ Crash
      \/ \E r \in Records : EngineStep(r) \/ TimerFires(r)
  BY DEF Next, vars, engineVars, consumerVars, Produce, Join, Rebalance, Shutdown, EndSession,
         Release, AutoCommit, E!Cancel
<1> QED
  BY <1>1, <1>3, <1>4, <1>5, <1>6 DEF CloseProducer

\* The message at offset o was sent, or its dead letter is in the DLQ topic.
Kept(o) == \E r \in Deliveries(o) : result[r] = "ok" \/ \E d \in dlq[r] : d.stored

KeptInv ==
  /\ mark > 0 => Kept(mark - 1)
  /\ committed > 0 => Kept(committed - 1)

LEMMA KeptStays ==
  ASSUME WorkerInv, EP!DeliveryInv, [Next]_vars, NEW o, Kept(o)
  PROVE  Kept(o)'
<1>1. PICK r \in Records : r[2] = o /\ (result[r] = "ok" \/ \E d \in dlq[r] : d.stored)
  BY DEF Kept, Deliveries
<1>2. (result[r] = "ok" => result'[r] = "ok") /\ dlq[r] \subseteq dlq'[r]
  BY WorkerStepsEngine, EngineInstance, EP!OutcomeKept
     DEF WorkerInv, EP!PermitInv, engineVars, EP!vars
<1> QED
  BY <1>1, <1>2 DEF Kept, Deliveries

LEMMA KeptStep ==
  ASSUME WorkerInv, EP!DeliveryInv, StoredInv, KeptInv, [Next]_vars
  PROVE  KeptInv'
<1>1. mark' > 0 => Kept(mark' - 1)
  <2>1. ASSUME NEW r \in Records, CommitsNow(r)
        PROVE  Kept(mark' - 1)
    <3>1. mark' - 1 = r[2]
      BY <2>1 DEF CommitsNow, Records, Offsets
    <3>2. result[r] = "ok" \/ dlq[r] # {}
      BY <2>1 DEF CommitsNow, EP!DeliveryInv, EP!Decision
    <3>3. AllStored(r)
      BY <2>1 DEF CommitsNow, StoredInv, EP!Active, EP!HandlerStages, EP!LoopStages
    <3> QED
      BY <3>1, <3>2, <3>3 DEF Kept, Deliveries, AllStored
  <2> QED
    BY <2>1, OffsetSources DEF KeptInv
<1>2. committed' > 0 => Kept(committed' - 1)
  BY <1>1, OffsetSources DEF KeptInv
<1>3. \A o : Kept(o) => Kept(o)'
  BY KeptStays
<1> QED
  BY <1>1, <1>2, <1>3 DEF KeptInv

\* Because main closes the consumer before the producer, the offset the group
\* resumes from never acknowledges a message whose only dead letter was refused
\* by a closed producer.
THEOREM StoredBeforeOffsetAlways == Spec => []StoredBeforeOffset
<1> DEFINE Inv == Acks = {TRUE} => StoredInv /\ KeptInv
<1>1. Init => Inv
  <2>1. Init => mark = NoOffset /\ (committed = NoOffset \/ committed = 0)
    BY WorkerAssumption DEF Init
  <2>2. Init => StoredInv
    BY DEF Init, E!Init, StoredInv, EP!Active, EP!HandlerStages, EP!LoopStages
  <2> QED
    BY <2>1, <2>2 DEF KeptInv, NoOffset
<1>2. WorkerInv /\ EP!DeliveryInv /\ Inv /\ [Next]_vars => Inv'
  BY StoredStep, KeptStep
<1>3. Inv => StoredBeforeOffset
  BY DEF KeptInv, Kept, StoredBeforeOffset
<1>4. Spec => []EP!DeliveryInv
  BY EngineHoldsInWorker, PTL
<1> HIDE DEF Inv
<1> QED
  BY <1>1, <1>2, <1>3, <1>4, WorkerInvInit, WorkerInvStep, PTL DEF Spec
=============================================================================

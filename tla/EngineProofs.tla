---------------------------- MODULE EngineProofs ----------------------------
(***************************************************************************)
(* Safety of the engine for every set of records, sessions and claims,     *)
(* every retry budget and every concurrency that NewEngine accepts.        *)
(***************************************************************************)
EXTENDS EngineRefinement, FiniteSetTheorems, TLAPS

-----------------------------------------------------------------------------
(* Types and permits                                                       *)

\* The permits are typed by the accounting: a release never exceeds the weight
\* of the semaphore because the releasing record is itself in flight.
PermitInv == TypeOK /\ PermitsAccounted

LEMMA InFlightFinite ==
  /\ IsFiniteSet(InFlight)
  /\ Cardinality(InFlight) \in Nat
<1>1. IsFiniteSet(InFlight)
  BY RecordAssumption, FS_Subset DEF InFlight
<1> QED
  BY <1>1, FS_CardinalityType

\* A step that keeps permits and moves no record into or out of the loop.
LEMMA PermitsKept ==
  ASSUME PermitsAccounted, permits' = permits, InFlight' = InFlight
  PROVE  PermitsAccounted'
BY DEF PermitsAccounted

LEMMA InitPermitInv == Init => PermitInv
<1> SUFFICES ASSUME Init PROVE PermitInv
  OBVIOUS
<1>1. InFlight = {}
  BY DEF Init, InFlight, LoopStages
<1>2. Cardinality(InFlight) = 0
  BY <1>1, FS_EmptySet
<1>3. PermitsAccounted
  BY <1>2, ConfigAssumption DEF Init, PermitsAccounted, ConfigAccepted
<1>4. TypeOK
  BY ConfigAssumption DEF Init, TypeOK, ConfigAccepted, Stages
<1> QED
  BY <1>3, <1>4 DEF PermitInv

\* Moving one record inside the loop, or outside of it, moves no permit.
LEMMA SameSide ==
  ASSUME TypeOK, NEW r \in Records, NEW to,
         pc' = [pc EXCEPT ![r] = to],
         pc[r] \in LoopStages <=> to \in LoopStages
  PROVE  InFlight' = InFlight
BY DEF TypeOK, InFlight

LEMMA AcquirePermit ==
  ASSUME PermitInv, NEW r \in Records, Acquire(r)
  PROVE  PermitInv'
<1>1. InFlight' = InFlight \union {r} /\ r \notin InFlight
  BY DEF PermitInv, TypeOK, Acquire, Goto, InFlight, LoopStages
<1>2. Cardinality(InFlight') = Cardinality(InFlight) + 1
  BY <1>1, InFlightFinite, FS_AddElement
<1>3. permits \in 1..Concurrency /\ permits' = permits - 1
  BY ConfigAssumption DEF PermitInv, TypeOK, Acquire, ConfigAccepted
<1>4. PermitsAccounted'
  BY <1>2, <1>3, InFlightFinite, ConfigAssumption
     DEF PermitInv, PermitsAccounted, ConfigAccepted
<1>5. TypeOK'
  BY <1>3, ConfigAssumption
     DEF PermitInv, TypeOK, Acquire, Goto, Stages, LoopStages, ConfigAccepted
<1> QED
  BY <1>4, <1>5 DEF PermitInv

LEMMA ReleasePermit ==
  ASSUME PermitInv, NEW r \in Records, Release(r)
  PROVE  PermitInv'
<1>1. InFlight' = InFlight \ {r} /\ r \in InFlight
  BY DEF PermitInv, TypeOK, Release, Goto, InFlight, LoopStages
<1>2. Cardinality(InFlight') = Cardinality(InFlight) - 1
  BY <1>1, InFlightFinite, FS_RemoveElement
<1>3. Cardinality(InFlight) >= 1
  <2>1. Cardinality(InFlight) # 0
    BY <1>1, InFlightFinite, FS_EmptySet
  <2> QED
    BY <2>1, InFlightFinite
<1>4. permits \in Nat /\ permits' = permits + 1
  BY DEF PermitInv, TypeOK, Release
<1>5. PermitsAccounted' /\ permits' \in 0..Concurrency
  BY <1>2, <1>3, <1>4, InFlightFinite, ConfigAssumption
     DEF PermitInv, PermitsAccounted, ConfigAccepted
<1>6. TypeOK'
  BY <1>5 DEF PermitInv, TypeOK, Release, Goto, Stages
<1> QED
  BY <1>5, <1>6 DEF PermitInv

\* A crash loses the goroutines and the semaphore together.
LEMMA CrashPermit ==
  ASSUME PermitInv, Crash
  PROVE  PermitInv'
<1>1. InFlight' = {}
  BY DEF PermitInv, TypeOK, Crash, InFlight, Active, LoopStages, HandlerStages
<1>2. Cardinality(InFlight') = 0
  BY <1>1, FS_EmptySet
<1>3. PermitsAccounted'
  BY <1>2, ConfigAssumption DEF Crash, PermitsAccounted, ConfigAccepted
<1>4. TypeOK'
  BY ConfigAssumption DEF PermitInv, TypeOK, Crash, Stages, ConfigAccepted
<1> QED
  BY <1>3, <1>4 DEF PermitInv

\* Every other step of a record: permits and loop membership stay as they are.
LEMMA OtherStepPermit ==
  ASSUME PermitInv, NEW r \in Records,
         HandleRecord(r) \/ (CodeStep(r) /\ ~Acquire(r) /\ ~Release(r)) \/ TimerFires(r)
  PROVE  PermitInv'
<1> USE DEF PermitInv, Goto
<1> SUFFICES TypeOK' /\ InFlight' = InFlight /\ permits' = permits
  BY PermitsKept
<1>1. CASE HandleRecord(r)
  <2>1. InFlight' = InFlight
    BY <1>1, SameSide DEF HandleRecord, LoopStages
  <2>2. TypeOK'
    BY <1>1 DEF HandleRecord, TypeOK, Stages, HandlerStages, LoopStages
  <2> QED
    BY <1>1, <2>1, <2>2 DEF HandleRecord
<1>2. CASE ParseAndValidate(r)
  <2>1. InFlight' = InFlight
    BY <1>2, SameSide DEF ParseAndValidate, LoopStages
  <2>2. TypeOK'
    BY <1>2 DEF ParseAndValidate, TypeOK, Stages, HandlerStages, LoopStages
  <2> QED
    BY <1>2, <2>1, <2>2 DEF ParseAndValidate
<1>3. CASE RejectStatus(r)
  <2>1. InFlight' = InFlight
    BY <1>3, SameSide DEF RejectStatus, LoopStages
  <2>2. TypeOK'
    BY <1>3, EnvironmentAssumption DEF RejectStatus, TypeOK, Stages, HandlerStages, LoopStages, PublishStatus, Events, EventTypes
  <2> QED
    BY <1>3, <2>1, <2>2 DEF RejectStatus
<1>4. CASE RejectDLQ(r)
  <2>1. InFlight' = InFlight
    BY <1>4, SameSide DEF RejectDLQ, LoopStages
  <2>2. TypeOK'
    BY <1>4, EnvironmentAssumption DEF RejectDLQ, TypeOK, Stages, HandlerStages, LoopStages, PublishDLQ, DeadLetters, FailureTypes
  <2> QED
    BY <1>4, <2>1, <2>2 DEF RejectDLQ
<1>5. CASE RejectCommit(r)
  <2>1. InFlight' = InFlight
    BY <1>5, SameSide DEF RejectCommit, LoopStages
  <2>2. TypeOK'
    BY <1>5 DEF RejectCommit, TypeOK, Stages, HandlerStages, LoopStages, CommitRecord
  <2> QED
    BY <1>5, <2>1, <2>2 DEF RejectCommit
<1>6. CASE AcquireFails(r)
  <2>1. InFlight' = InFlight
    BY <1>6, SameSide DEF AcquireFails, LoopStages
  <2>2. TypeOK'
    BY <1>6 DEF AcquireFails, TypeOK, Stages, HandlerStages, LoopStages
  <2> QED
    BY <1>6, <2>1, <2>2 DEF AcquireFails
<1>7. CASE StartCancelled(r)
  <2>1. InFlight' = InFlight
    BY <1>7, SameSide DEF StartCancelled, LoopStages
  <2>2. TypeOK'
    BY <1>7 DEF StartCancelled, TypeOK, Stages, HandlerStages, LoopStages
  <2> QED
    BY <1>7, <2>1, <2>2 DEF StartCancelled
<1>8. CASE Start(r)
  <2>1. InFlight' = InFlight
    BY <1>8, SameSide DEF Start, LoopStages
  <2>2. TypeOK'
    BY <1>8, EnvironmentAssumption DEF Start, TypeOK, Stages, HandlerStages, LoopStages, PublishStatus, Events, EventTypes
  <2> QED
    BY <1>8, <2>1, <2>2 DEF Start
<1>9. CASE BeginAttempt(r)
  <2>1. InFlight' = InFlight
    BY <1>9, SameSide DEF BeginAttempt, LoopStages
  <2>2. TypeOK'
    BY <1>9, EnvironmentAssumption DEF BeginAttempt, TypeOK, Stages, HandlerStages, LoopStages, PublishStatus, Events, EventTypes
  <2> QED
    BY <1>9, <2>1, <2>2 DEF BeginAttempt
<1>10. CASE Send(r)
  <2>1. InFlight' = InFlight
    BY <1>10, SameSide, EnvironmentAssumption DEF Send, LoopStages, AfterSend, AllResults
  <2>2. TypeOK'
    BY <1>10, EnvironmentAssumption DEF Send, TypeOK, Stages, HandlerStages, LoopStages, AfterSend, AllResults
  <2> QED
    BY <1>10, <2>1, <2>2 DEF Send
<1>11. CASE SentStatus(r)
  <2>1. InFlight' = InFlight
    BY <1>11, SameSide DEF SentStatus, LoopStages
  <2>2. TypeOK'
    BY <1>11, EnvironmentAssumption DEF SentStatus, TypeOK, Stages, HandlerStages, LoopStages, PublishStatus, Events, EventTypes
  <2> QED
    BY <1>11, <2>1, <2>2 DEF SentStatus
<1>12. CASE FailStatus(r)
  <2>1. InFlight' = InFlight
    BY <1>12, SameSide DEF FailStatus, LoopStages
  <2>2. TypeOK'
    BY <1>12, EnvironmentAssumption DEF FailStatus, TypeOK, Stages, HandlerStages, LoopStages, PublishStatus, Events, EventTypes
  <2> QED
    BY <1>12, <2>1, <2>2 DEF FailStatus
<1>13. CASE FailDLQ(r)
  <2>1. InFlight' = InFlight
    BY <1>13, SameSide DEF FailDLQ, LoopStages
  <2>2. TypeOK'
    BY <1>13, EnvironmentAssumption DEF FailDLQ, TypeOK, Stages, HandlerStages, LoopStages, PublishDLQ, DeadLetters, FailureTypes, FailureType
  <2> QED
    BY <1>13, <2>1, <2>2 DEF FailDLQ
<1>14. CASE Commit(r)
  <2>1. InFlight' = InFlight
    BY <1>14, SameSide DEF Commit, LoopStages
  <2>2. TypeOK'
    BY <1>14 DEF Commit, TypeOK, Stages, HandlerStages, LoopStages, CommitRecord
  <2> QED
    BY <1>14, <2>1, <2>2 DEF Commit
<1>15. CASE RetryAtOnce(r)
  <2>1. InFlight' = InFlight
    BY <1>15, SameSide DEF RetryAtOnce, LoopStages
  <2>2. TypeOK'
    BY <1>15 DEF RetryAtOnce, TypeOK, Stages, HandlerStages, LoopStages
  <2> QED
    BY <1>15, <2>1, <2>2 DEF RetryAtOnce
<1>16. CASE BeginWait(r)
  <2>1. InFlight' = InFlight
    BY <1>16, SameSide DEF BeginWait, LoopStages
  <2>2. TypeOK'
    BY <1>16 DEF BeginWait, TypeOK, Stages, HandlerStages, LoopStages
  <2> QED
    BY <1>16, <2>1, <2>2 DEF BeginWait
<1>17. CASE TimerFires(r)
  <2>1. InFlight' = InFlight
    BY <1>17, SameSide DEF TimerFires, LoopStages
  <2>2. TypeOK'
    BY <1>17 DEF TimerFires, TypeOK, Stages, HandlerStages, LoopStages
  <2> QED
    BY <1>17, <2>1, <2>2 DEF TimerFires
<1>18. CASE WaitCancelled(r)
  <2>1. InFlight' = InFlight
    BY <1>18, SameSide DEF WaitCancelled, LoopStages
  <2>2. TypeOK'
    BY <1>18 DEF WaitCancelled, TypeOK, Stages, HandlerStages, LoopStages
  <2> QED
    BY <1>18, <2>1, <2>2 DEF WaitCancelled
<1> QED
  BY <1>1, <1>2, <1>3, <1>4, <1>5, <1>6, <1>7, <1>8, <1>9, <1>10, <1>11, <1>12, <1>13, <1>14, <1>15, <1>16, <1>17, <1>18
     DEF CodeStep

LEMMA NextPermitInv == PermitInv /\ [Next]_vars => PermitInv'
<1> SUFFICES ASSUME PermitInv, [Next]_vars PROVE PermitInv'
  OBVIOUS
<1>1. CASE \E r \in Records : HandleRecord(r) \/ CodeStep(r) \/ TimerFires(r)
  BY <1>1, AcquirePermit, ReleasePermit, OtherStepPermit
<1>2. CASE \E s \in Sessions : Cancel(s)
  BY <1>2 DEF Cancel, PermitInv, PermitsAccounted, TypeOK, InFlight
<1>3. CASE Crash
  BY <1>3, CrashPermit
<1>4. CASE UNCHANGED vars
  BY <1>4 DEF vars, PermitInv, PermitsAccounted, TypeOK, InFlight
<1> QED
  BY <1>1, <1>2, <1>3, <1>4 DEF Next

\* TypeOK for every instance, the bound 0..Concurrency of permits included.
THEOREM TypeCorrect == Spec => []TypeOK
<1>1. PermitInv => TypeOK
  BY DEF PermitInv
<1> QED
  BY <1>1, InitPermitInv, NextPermitInv, PTL DEF Spec

\* The semaphore bounds the records in flight and no return path, cancellation
\* or crash leaks a permit or releases one twice.
THEOREM PermitsAccountedAlways == Spec => []PermitsAccounted
<1>1. PermitInv => PermitsAccounted
  BY DEF PermitInv
<1> QED
  BY <1>1, InitPermitInv, NextPermitInv, PTL DEF Spec

\* WORKER_CONCURRENCY is the most records that are ever in flight.
THEOREM ConcurrencyBound == Spec => [](Cardinality(InFlight) <= Concurrency)
<1>1. PermitInv => Cardinality(InFlight) <= Concurrency
  BY InFlightFinite, ConfigAssumption DEF PermitInv, TypeOK, PermitsAccounted, ConfigAccepted
<1> QED
  BY <1>1, InitPermitInv, NextPermitInv, PTL DEF Spec

-----------------------------------------------------------------------------
(* Outcomes, dead letters and commits                                      *)

Facts(r) == Progress(r) /\ Decision(r) /\ Honest(r)

\* A record is untouched by the steps of the others.
Untouched(q) ==
  /\ pc'[q] = pc[q] /\ attempt'[q] = attempt[q] /\ result'[q] = result[q]
  /\ sends'[q] = sends[q] /\ dlq'[q] = dlq[q] /\ commits'[q] = commits[q]
  /\ status'[q] = status[q]

LEMMA UntouchedFacts ==
  ASSUME NEW q \in Records, Facts(q), Untouched(q), done \subseteq done'
  PROVE  Facts(q)'
<1>1. Progress(q)'
  BY DEF Facts, Untouched, Progress
<1>2. Decision(q)'
  BY DEF Facts, Untouched, Decision, Cancelled
<1>3. Honest(q)'
  BY DEF Facts, Untouched, Honest
<1> QED
  BY <1>1, <1>2, <1>3 DEF Facts

\* A step of the code, of the claim or of the timer is a step of one record.
LEMMA StepTouchesOne ==
  ASSUME TypeOK, NEW r \in Records, HandleRecord(r) \/ CodeStep(r) \/ TimerFires(r),
         NEW q \in Records, q # r
  PROVE  Untouched(q) /\ done \subseteq done'
BY DEF TypeOK, Untouched, Goto, HandleRecord, CodeStep, TimerFires,
       ParseAndValidate, RejectStatus, RejectDLQ, RejectCommit, Acquire, AcquireFails,
       StartCancelled, Start, BeginAttempt, Send, SentStatus, FailStatus, FailDLQ, Commit,
       RetryAtOnce, BeginWait, WaitCancelled, Release, PublishStatus, PublishDLQ, CommitRecord

LEMMA StepFacts ==
  ASSUME TypeOK, NEW r \in Records, Facts(r),
         HandleRecord(r) \/ CodeStep(r) \/ TimerFires(r)
  PROVE  Facts(r)'
<1> USE ConfigAssumption DEF Facts, Goto, TypeOK, ConfigAccepted
<1>1. CASE HandleRecord(r)
  <2>1. Progress(r)'
    BY <1>1 DEF HandleRecord, Progress, HandlerStages
  <2>2. Decision(r)'
    BY <1>1 DEF HandleRecord, Progress, Decision, OpenStages, HandlerStages, Cancelled
  <2>3. Honest(r)'
    BY <1>1 DEF HandleRecord, Progress, Decision, Honest, OpenStages, HandlerStages
  <2> QED
    BY <2>1, <2>2, <2>3
<1>2. CASE ParseAndValidate(r)
  <2>1. Progress(r)'
    BY <1>2 DEF ParseAndValidate, Progress, HandlerStages
  <2>2. Decision(r)'
    BY <1>2 DEF ParseAndValidate, Progress, Decision, OpenStages, HandlerStages, Cancelled
  <2>3. Honest(r)'
    BY <1>2 DEF ParseAndValidate, Progress, Decision, Honest, OpenStages, HandlerStages
  <2> QED
    BY <2>1, <2>2, <2>3
<1>3. CASE RejectStatus(r)
  <2>1. Progress(r)'
    BY <1>3 DEF RejectStatus, Progress, HandlerStages
  <2>2. Decision(r)'
    BY <1>3 DEF RejectStatus, Progress, Decision, OpenStages, HandlerStages, Cancelled
  <2>3. Honest(r)'
    BY <1>3 DEF RejectStatus, Progress, Decision, Honest, OpenStages, HandlerStages
  <2> QED
    BY <2>1, <2>2, <2>3
<1>4. CASE RejectDLQ(r)
  <2>1. PICK ack \in Acks : dlq'[r] = {[type |-> "validation", attempts |-> 0, stored |-> ack]}
    BY <1>4 DEF RejectDLQ, PublishDLQ, Decision, OpenStages
  <2>2. Progress(r)'
    BY <1>4 DEF RejectDLQ, Progress, HandlerStages
  <2>3. Decision(r)'
    <3>1. dlq'[r] # {} /\ \A d, e \in dlq'[r] : d = e
      BY <2>1
    <3>2. /\ pc'[r] = "rejectCommit" /\ commits'[r] = 0
          /\ result'[r] = result[r] /\ result[r] # "ok"
      BY <1>4 DEF RejectDLQ, Decision, OpenStages
    <3> QED
      BY <3>1, <3>2 DEF Decision, OpenStages
  <2>4. Honest(r)'
    <3>1. sends'[r] = 0 /\ result'[r] = "none"
      BY <1>4 DEF RejectDLQ, Progress, HandlerStages
    <3> QED
      BY <2>1, <3>1 DEF Honest
  <2> QED
    BY <2>2, <2>3, <2>4
<1>5. CASE RejectCommit(r)
  <2>1. Progress(r)'
    BY <1>5 DEF RejectCommit, Progress, HandlerStages, CommitRecord
  <2>2. Decision(r)'
    BY <1>5 DEF RejectCommit, Progress, Decision, OpenStages, HandlerStages, Cancelled, CommitRecord
  <2>3. Honest(r)'
    BY <1>5 DEF RejectCommit, Progress, Decision, Honest, OpenStages, HandlerStages, CommitRecord
  <2> QED
    BY <2>1, <2>2, <2>3
<1>6. CASE Acquire(r)
  <2>1. Progress(r)'
    BY <1>6 DEF Acquire, Progress, HandlerStages
  <2>2. Decision(r)'
    BY <1>6 DEF Acquire, Progress, Decision, OpenStages, HandlerStages, Cancelled
  <2>3. Honest(r)'
    BY <1>6 DEF Acquire, Progress, Decision, Honest, OpenStages, HandlerStages
  <2> QED
    BY <2>1, <2>2, <2>3
<1>7. CASE AcquireFails(r)
  <2>1. Progress(r)'
    BY <1>7 DEF AcquireFails, Progress, HandlerStages
  <2>2. Decision(r)'
    BY <1>7 DEF AcquireFails, Progress, Decision, OpenStages, HandlerStages, Cancelled
  <2>3. Honest(r)'
    BY <1>7 DEF AcquireFails, Progress, Decision, Honest, OpenStages, HandlerStages
  <2> QED
    BY <2>1, <2>2, <2>3
<1>8. CASE StartCancelled(r)
  <2>1. Progress(r)'
    BY <1>8 DEF StartCancelled, Progress, HandlerStages
  <2>2. Decision(r)'
    BY <1>8 DEF StartCancelled, Progress, Decision, OpenStages, HandlerStages, Cancelled
  <2>3. Honest(r)'
    BY <1>8 DEF StartCancelled, Progress, Decision, Honest, OpenStages, HandlerStages
  <2> QED
    BY <2>1, <2>2, <2>3
<1>9. CASE Start(r)
  <2>1. Progress(r)'
    BY <1>9 DEF Start, Progress, HandlerStages
  <2>2. Decision(r)'
    BY <1>9 DEF Start, Progress, Decision, OpenStages, HandlerStages, Cancelled
  <2>3. Honest(r)'
    BY <1>9 DEF Start, Progress, Decision, Honest, OpenStages, HandlerStages
  <2> QED
    BY <2>1, <2>2, <2>3
<1>10. CASE BeginAttempt(r)
  <2>1. Progress(r)'
    BY <1>10 DEF BeginAttempt, Progress, HandlerStages
  <2>2. Decision(r)'
    BY <1>10 DEF BeginAttempt, Progress, Decision, OpenStages, HandlerStages, Cancelled
  <2>3. Honest(r)'
    BY <1>10 DEF BeginAttempt, Progress, Decision, Honest, OpenStages, HandlerStages
  <2> QED
    BY <2>1, <2>2, <2>3
<1>11. CASE Send(r)
  <2>1. Progress(r)'
    BY <1>11, EnvironmentAssumption DEF Send, Progress, HandlerStages, AfterSend, AllResults
  <2>2. Decision(r)'
    BY <1>11, EnvironmentAssumption DEF Send, Progress, Decision, OpenStages, HandlerStages, Cancelled, AfterSend, AllResults
  <2>3. Honest(r)'
    BY <1>11, EnvironmentAssumption DEF Send, Progress, Decision, Honest, OpenStages, HandlerStages, AfterSend, AllResults
  <2> QED
    BY <2>1, <2>2, <2>3
<1>12. CASE SentStatus(r)
  <2>1. Progress(r)'
    BY <1>12 DEF SentStatus, Progress, HandlerStages
  <2>2. Decision(r)'
    BY <1>12 DEF SentStatus, Progress, Decision, OpenStages, HandlerStages, Cancelled
  <2>3. Honest(r)'
    BY <1>12 DEF SentStatus, Progress, Decision, Honest, OpenStages, HandlerStages
  <2> QED
    BY <2>1, <2>2, <2>3
<1>13. CASE FailStatus(r)
  <2>1. Progress(r)'
    BY <1>13 DEF FailStatus, Progress, HandlerStages
  <2>2. Decision(r)'
    BY <1>13 DEF FailStatus, Progress, Decision, OpenStages, HandlerStages, Cancelled
  <2>3. Honest(r)'
    BY <1>13 DEF FailStatus, Progress, Decision, Honest, OpenStages, HandlerStages
  <2> QED
    BY <2>1, <2>2, <2>3
<1>14. CASE FailDLQ(r)
  <2>1. PICK ack \in Acks : dlq'[r] = {[type |-> FailureType(result[r]), attempts |-> attempt[r], stored |-> ack]}
    BY <1>14 DEF FailDLQ, PublishDLQ, Decision, OpenStages
  <2>2. Progress(r)'
    BY <1>14 DEF FailDLQ, Progress, HandlerStages
  <2>3. Decision(r)'
    <3>1. dlq'[r] # {} /\ \A d, e \in dlq'[r] : d = e
      BY <2>1
    <3>2. /\ pc'[r] = "commit" /\ commits'[r] = 0
          /\ result'[r] = result[r] /\ result[r] # "ok"
      BY <1>14 DEF FailDLQ, Decision, OpenStages
    <3> QED
      BY <3>1, <3>2 DEF Decision, OpenStages
  <2>4. Honest(r)'
    <3>1. /\ sends'[r] = sends[r] /\ result'[r] = result[r]
          /\ attempt[r] = sends[r] /\ sends[r] \in Nat /\ sends[r] >= 1
          /\ \/ result[r] = "permanent"
             \/ result[r] \in {"transient", "unknown"} /\ sends[r] = MaxAttempts
      BY <1>14 DEF FailDLQ, Progress
    <3>2. FailureType(result[r]) = result[r] /\ result[r] # "validation" /\ sends[r] # 0
      BY <3>1 DEF FailureType
    <3> QED
      BY <2>1, <3>1, <3>2 DEF Honest
  <2> QED
    BY <2>2, <2>3, <2>4
<1>15. CASE Commit(r)
  <2>1. Progress(r)'
    BY <1>15 DEF Commit, Progress, HandlerStages, CommitRecord
  <2>2. Decision(r)'
    BY <1>15 DEF Commit, Progress, Decision, OpenStages, HandlerStages, Cancelled, CommitRecord
  <2>3. Honest(r)'
    BY <1>15 DEF Commit, Progress, Decision, Honest, OpenStages, HandlerStages, CommitRecord
  <2> QED
    BY <2>1, <2>2, <2>3
<1>16. CASE RetryAtOnce(r)
  <2>1. Progress(r)'
    BY <1>16 DEF RetryAtOnce, Progress, HandlerStages
  <2>2. Decision(r)'
    BY <1>16 DEF RetryAtOnce, Progress, Decision, OpenStages, HandlerStages, Cancelled
  <2>3. Honest(r)'
    BY <1>16 DEF RetryAtOnce, Progress, Decision, Honest, OpenStages, HandlerStages
  <2> QED
    BY <2>1, <2>2, <2>3
<1>17. CASE BeginWait(r)
  <2>1. Progress(r)'
    BY <1>17 DEF BeginWait, Progress, HandlerStages
  <2>2. Decision(r)'
    BY <1>17 DEF BeginWait, Progress, Decision, OpenStages, HandlerStages, Cancelled
  <2>3. Honest(r)'
    BY <1>17 DEF BeginWait, Progress, Decision, Honest, OpenStages, HandlerStages
  <2> QED
    BY <2>1, <2>2, <2>3
<1>18. CASE WaitCancelled(r)
  <2>1. Progress(r)'
    BY <1>18 DEF WaitCancelled, Progress, HandlerStages
  <2>2. Decision(r)'
    BY <1>18 DEF WaitCancelled, Progress, Decision, OpenStages, HandlerStages, Cancelled
  <2>3. Honest(r)'
    BY <1>18 DEF WaitCancelled, Progress, Decision, Honest, OpenStages, HandlerStages
  <2> QED
    BY <2>1, <2>2, <2>3
<1>19. CASE Release(r)
  <2>1. Progress(r)'
    BY <1>19 DEF Release, Progress, HandlerStages
  <2>2. Decision(r)'
    BY <1>19 DEF Release, Progress, Decision, OpenStages, HandlerStages, Cancelled
  <2>3. Honest(r)'
    BY <1>19 DEF Release, Progress, Decision, Honest, OpenStages, HandlerStages
  <2> QED
    BY <2>1, <2>2, <2>3
<1>20. CASE TimerFires(r)
  <2>1. Progress(r)'
    BY <1>20 DEF TimerFires, Progress, HandlerStages
  <2>2. Decision(r)'
    BY <1>20 DEF TimerFires, Progress, Decision, OpenStages, HandlerStages, Cancelled
  <2>3. Honest(r)'
    BY <1>20 DEF TimerFires, Progress, Decision, Honest, OpenStages, HandlerStages
  <2> QED
    BY <2>1, <2>2, <2>3
<1> QED
  BY <1>1, <1>2, <1>3, <1>4, <1>5, <1>6, <1>7, <1>8, <1>9, <1>10, <1>11, <1>12, <1>13, <1>14, <1>15, <1>16, <1>17, <1>18, <1>19, <1>20
     DEF CodeStep

LEMMA CrashFacts ==
  ASSUME TypeOK, NEW r \in Records, Facts(r), Crash
  PROVE  Facts(r)'
<1>1. /\ attempt'[r] = attempt[r] /\ result'[r] = result[r] /\ sends'[r] = sends[r]
      /\ dlq'[r] = dlq[r] /\ commits'[r] = commits[r] /\ done' = done
  BY DEF Crash
<1>2. pc'[r] = pc[r] \/ pc'[r] = "dead"
  BY DEF TypeOK, Crash
<1>3. Progress(r)'
  BY <1>1, <1>2 DEF Facts, Progress, HandlerStages
<1>4. Decision(r)'
  BY <1>1, <1>2 DEF Facts, Decision, OpenStages, Cancelled
<1>5. Honest(r)'
  BY <1>1 DEF Facts, Honest
<1> QED
  BY <1>3, <1>4, <1>5 DEF Facts

LEMMA InitDeliveryInv == Init => DeliveryInv
BY ConfigAssumption
   DEF Init, DeliveryInv, Progress, Decision, Honest, HandlerStages, OpenStages, ConfigAccepted

LEMMA NextDeliveryInv == TypeOK /\ DeliveryInv /\ [Next]_vars => DeliveryInv'
<1> SUFFICES ASSUME TypeOK, DeliveryInv, [Next]_vars,
                    NEW q \in Records
             PROVE  Facts(q)'
  BY DEF DeliveryInv, Facts
<1>1. Facts(q)
  BY DEF DeliveryInv, Facts
<1>2. ASSUME NEW r \in Records, HandleRecord(r) \/ CodeStep(r) \/ TimerFires(r)
      PROVE  Facts(q)'
  <2>1. CASE q = r
    BY <1>1, <1>2, <2>1, StepFacts
  <2>2. CASE q # r
    BY <1>1, <1>2, <2>2, StepTouchesOne, UntouchedFacts
  <2> QED
    BY <2>1, <2>2
<1>3. CASE \E s \in Sessions : Cancel(s)
  BY <1>1, <1>3, UntouchedFacts DEF Cancel, Untouched
<1>4. CASE Crash
  BY <1>1, <1>4, CrashFacts
<1>5. CASE UNCHANGED vars
  BY <1>1, <1>5, UntouchedFacts DEF vars, Untouched
<1> QED
  BY <1>2, <1>3, <1>4, <1>5 DEF Next

\* The inductive invariant of the stages.
THEOREM DeliveryInvAlways == Spec => []DeliveryInv
BY TypeCorrect, InitDeliveryInv, NextDeliveryInv, PTL DEF Spec

\* No offset is committed while the outcome of its delivery is open, whatever
\* fails, is cancelled or crashes in between.
THEOREM OutcomeBeforeCommitAlways == Spec => []OutcomeBeforeCommit
<1>1. TypeOK /\ DeliveryInv => OutcomeBeforeCommit
  BY DEF DeliveryInv, Decision, OutcomeBeforeCommit, TypeOK
<1> QED
  BY <1>1, TypeCorrect, DeliveryInvAlways, PTL

\* attempts and failure_type of every dead letter agree with what the
\* provider saw, for every retry budget.
THEOREM DeadLetterHonestAlways == Spec => []DeadLetterHonest
<1>1. DeliveryInv => DeadLetterHonest
  BY DEF DeliveryInv, DeadLetterHonest
<1> QED
  BY <1>1, DeliveryInvAlways, PTL

\* The retry budget bounds the calls of the provider in one delivery, and a
\* call is made only while the delivery is open.
THEOREM SendOnlyWhileOpenAlways == Spec => SendOnlyWhileOpen
<1>1. TypeOK /\ DeliveryInv /\ [Next]_vars =>
        [\A r \in Records :
           sends'[r] # sends[r] => /\ result[r] \in {"none", "transient", "unknown"}
                                   /\ sends[r] < MaxAttempts
                                   /\ commits[r] = 0]_vars
  <2> SUFFICES ASSUME TypeOK, DeliveryInv, Next,
                      NEW q \in Records, sends'[q] # sends[q]
               PROVE  /\ result[q] \in {"none", "transient", "unknown"}
                      /\ sends[q] < MaxAttempts
                      /\ commits[q] = 0
    OBVIOUS
  <2>1. PICK r \in Records : HandleRecord(r) \/ CodeStep(r) \/ TimerFires(r)
    BY DEF Next, Cancel, Crash
  <2>2. q = r
    BY <2>1, StepTouchesOne DEF Untouched
  <2>3. pc[q] = "send"
    BY <2>1, <2>2 DEF HandleRecord, CodeStep, TimerFires, Goto,
         ParseAndValidate, RejectStatus, RejectDLQ, RejectCommit, Acquire, AcquireFails,
         StartCancelled, Start, BeginAttempt, Send, SentStatus, FailStatus, FailDLQ, Commit,
         RetryAtOnce, BeginWait, WaitCancelled, Release
  <2> QED
    BY <2>3, ConfigAssumption
       DEF DeliveryInv, Progress, Decision, OpenStages, TypeOK, ConfigAccepted
<1> QED
  BY <1>1, TypeCorrect, DeliveryInvAlways, PTL DEF Spec, SendOnlyWhileOpen

-----------------------------------------------------------------------------
(* Steps as the modules that compose the engine see them                   *)

\* A goroutine that takes a step is active before it and never new after it.
LEMMA StepStages ==
  ASSUME TypeOK, NEW r \in Records, CodeStep(r) \/ TimerFires(r)
  PROVE  pc[r] \in Active /\ pc'[r] \in Active \union {"end"}
<1> USE DEF TypeOK, Goto, Active, HandlerStages, LoopStages
<1>1. CASE ParseAndValidate(r) \/ RejectStatus(r) \/ RejectDLQ(r) \/ RejectCommit(r)
             \/ Acquire(r) \/ AcquireFails(r)
  BY <1>1 DEF ParseAndValidate, RejectStatus, RejectDLQ, RejectCommit, Acquire, AcquireFails
<1>2. CASE StartCancelled(r) \/ Start(r) \/ BeginAttempt(r) \/ SentStatus(r) \/ FailStatus(r)
  BY <1>2 DEF StartCancelled, Start, BeginAttempt, SentStatus, FailStatus
<1>3. CASE Send(r)
  BY <1>3, EnvironmentAssumption DEF Send, AfterSend, AllResults
<1>4. CASE FailDLQ(r) \/ Commit(r) \/ RetryAtOnce(r) \/ BeginWait(r)
             \/ TimerFires(r) \/ WaitCancelled(r) \/ Release(r)
  BY <1>4 DEF FailDLQ, Commit, RetryAtOnce, BeginWait, TimerFires, WaitCancelled, Release
<1> QED
  BY <1>1, <1>2, <1>3, <1>4 DEF CodeStep

\* A semaphore of one permit makes processRecord a critical section.
LEMMA OneInFlight ==
  ASSUME PermitInv, Concurrency = 1, NEW q \in Records, NEW r \in Records,
         pc[q] \in LoopStages, pc[r] \in LoopStages
  PROVE  q = r
<1> SUFFICES ASSUME q # r PROVE FALSE
  OBVIOUS
<1>1. {q, r} \subseteq InFlight
  BY DEF InFlight
<1>2. IsFiniteSet({q}) /\ Cardinality({q}) = 1 /\ {q, r} = {q} \union {r}
  BY FS_Singleton
<1>3. Cardinality({q, r}) = 2
  BY <1>2, FS_AddElement
<1>4. Cardinality({q, r}) <= Cardinality(InFlight)
  BY <1>1, InFlightFinite, FS_Subset
<1> QED
  BY <1>3, <1>4, InFlightFinite DEF PermitInv, TypeOK, PermitsAccounted

\* Whatever happens, a delivery that was sent stays sent and a dead letter is
\* never taken back.
LEMMA OutcomeKept ==
  ASSUME TypeOK, DeliveryInv, [Next]_vars, NEW q \in Records
  PROVE  (result[q] = "ok" => result'[q] = "ok") /\ dlq[q] \subseteq dlq'[q]
<1>1. ASSUME NEW r \in Records, HandleRecord(r) \/ CodeStep(r) \/ TimerFires(r)
      PROVE  (result[q] = "ok" => result'[q] = "ok") /\ dlq[q] \subseteq dlq'[q]
  <2>1. CASE q # r
    BY <1>1, <2>1, StepTouchesOne DEF Untouched
  <2>2. CASE q = r /\ Send(r)
    BY <2>2 DEF Send, Goto, DeliveryInv, Progress
  <2>3. CASE q = r /\ (RejectDLQ(r) \/ FailDLQ(r))
    BY <2>3 DEF RejectDLQ, FailDLQ, PublishDLQ, TypeOK
  <2>4. CASE result' = result /\ dlq' = dlq
    BY <2>4
  <2> QED
    BY <1>1, <2>1, <2>2, <2>3, <2>4
       DEF HandleRecord, CodeStep, TimerFires, ParseAndValidate, RejectStatus, RejectCommit,
           Acquire, AcquireFails, StartCancelled, Start, BeginAttempt, SentStatus, FailStatus,
           Commit, RetryAtOnce, BeginWait, WaitCancelled, Release
<1> QED
  BY <1>1 DEF Next, Cancel, Crash, vars

-----------------------------------------------------------------------------
(* The status topic                                                        *)

Final(e) == e.type \in {"sent", "failed"}

\* What the status topic may already show of one delivery at every stage.
Log(r) ==
  /\ Ascending(status[r])
  /\ \A i \in 1..Len(status[r]) :
       /\ pc[r] \notin {"new", "parse", "acquire", "start", "rejectStatus"}
       /\ pc[r] = "attempt" => ~Final(status[r][i]) /\ Rank(status[r][i]) < attempt[r]
       /\ pc[r] \in {"send", "backoff", "waiting", "sentStatus", "failStatus"} =>
            ~Final(status[r][i]) /\ Rank(status[r][i]) <= attempt[r]
       /\ pc[r] \in {"release", "end"} /\ commits[r] = 0 => ~Final(status[r][i])
       /\ status[r][i].type = "sent" => result[r] = "ok"

LogInv == \A r \in Records : Log(r)

LEMMA RankType == \A e \in Events : Rank(e) \in Nat
BY ConfigAssumption DEF Rank, Events, EventTypes, ConfigAccepted

LEMMA AppendAscending ==
  ASSUME NEW log \in Seq(Events), NEW e \in Events, Ascending(log),
         \A i \in 1..Len(log) : Rank(log[i]) < Rank(e)
  PROVE  Ascending(Append(log, e))
<1> SUFFICES ASSUME NEW i \in 1..Len(Append(log, e)), NEW j \in 1..Len(Append(log, e)), i < j
             PROVE  Rank(Append(log, e)[i]) < Rank(Append(log, e)[j])
  BY DEF Ascending
<1>1. i \in 1..Len(log) /\ Append(log, e)[i] = log[i]
  OBVIOUS
<1>2. CASE j \in 1..Len(log)
  BY <1>1, <1>2 DEF Ascending
<1>3. CASE j = Len(log) + 1
  BY <1>1, <1>3
<1> QED
  BY <1>2, <1>3

\* A step that publishes the event e, or loses it, from stage `from` to `to`.
LEMMA PublishKeepsLog ==
  ASSUME TypeOK, NEW r \in Records, Log(r),
         NEW type \in EventTypes, NEW n \in Nat, NEW to,
         PublishStatus(r, type, n),
         pc' = [pc EXCEPT ![r] = to],
         result'[r] = result[r],
         \A i \in 1..Len(status[r]) : Rank(status[r][i]) < Rank([type |-> type, attempt |-> n]),
         type = "sent" => result[r] = "ok",
         to \in {"attempt", "send", "failDLQ", "commit", "rejectDLQ"},
         to = "attempt" => type = "queued" /\ attempt'[r] = 1 /\ n = 0,
         to = "send" => type = "attempt" /\ attempt'[r] = n,
         to \in {"attempt", "send"} => \A i \in 1..Len(status[r]) : ~Final(status[r][i])
  PROVE  Log(r)'
<1> DEFINE e == [type |-> type, attempt |-> n]
<1>1. e \in Events /\ Rank(e) \in Nat
  BY RankType DEF Events
<1>2. status[r] \in Seq(Events)
  BY DEF TypeOK
<1>3. \A i \in 1..Len(status[r]) : status[r][i] \in Events /\ Rank(status[r][i]) \in Nat
  BY <1>2, RankType
<1>4. pc'[r] = to
  BY DEF TypeOK
<1>5. status'[r] = status[r] \/ status'[r] = Append(status[r], e)
  BY DEF PublishStatus, TypeOK
<1>6. to = "attempt" => Rank(e) = 0
  BY DEF Rank
<1>7. to = "send" => Rank(e) = n
  BY DEF Rank
<1>8. CASE status'[r] = status[r]
  BY <1>1, <1>3, <1>4, <1>6, <1>7, <1>8 DEF Log
<1>9. CASE status'[r] = Append(status[r], e)
  <2>1. Ascending(status'[r])
    BY <1>1, <1>2, <1>9, AppendAscending DEF Log
  <2>2. to \in {"attempt", "send"} => ~Final(e)
    BY DEF Final
  <2>3. \A i \in 1..Len(status'[r]) : status'[r][i] = e \/ (i \in 1..Len(status[r]) /\ status'[r][i] = status[r][i])
    BY <1>2, <1>9
  <2> QED
    BY <1>1, <1>3, <1>4, <1>6, <1>7, <2>1, <2>2, <2>3 DEF Log
<1> QED
  BY <1>5, <1>8, <1>9

\* A step that publishes nothing.
LEMMA SilentKeepsLog ==
  ASSUME NEW r \in Records, TypeOK, Facts(r), Log(r),
         \/ HandleRecord(r) \/ ParseAndValidate(r) \/ RejectDLQ(r) \/ RejectCommit(r)
         \/ Acquire(r) \/ AcquireFails(r) \/ StartCancelled(r) \/ FailDLQ(r) \/ Commit(r)
         \/ RetryAtOnce(r) \/ BeginWait(r) \/ TimerFires(r) \/ WaitCancelled(r) \/ Release(r)
  PROVE  Log(r)'
<1>1. status' = status
  BY DEF HandleRecord, ParseAndValidate, RejectDLQ, RejectCommit, Acquire, AcquireFails,
         StartCancelled, FailDLQ, Commit, RetryAtOnce, BeginWait, TimerFires, WaitCancelled, Release
<1>2. \A i \in 1..Len(status[r]) : status[r][i] \in Events /\ Rank(status[r][i]) \in Nat
  BY RankType DEF TypeOK
<1> USE <1>1, <1>2 DEF Facts, Log, Goto, TypeOK
<1>3. CASE HandleRecord(r) \/ ParseAndValidate(r) \/ Acquire(r) \/ AcquireFails(r) \/ StartCancelled(r)
  BY <1>3 DEF HandleRecord, ParseAndValidate, Acquire, AcquireFails, StartCancelled
<1>4. CASE RejectDLQ(r) \/ FailDLQ(r)
  BY <1>4 DEF RejectDLQ, FailDLQ
<1>5. CASE RejectCommit(r) \/ Commit(r)
  BY <1>5 DEF RejectCommit, Commit, CommitRecord
<1>6. CASE RetryAtOnce(r) \/ TimerFires(r)
  BY <1>6 DEF RetryAtOnce, TimerFires
<1>7. CASE BeginWait(r) \/ WaitCancelled(r) \/ Release(r)
  BY <1>7 DEF BeginWait, WaitCancelled, Release
<1> QED
  BY <1>3, <1>4, <1>5, <1>6, <1>7

LEMMA StepLog ==
  ASSUME TypeOK, NEW r \in Records, Facts(r), Log(r),
         HandleRecord(r) \/ CodeStep(r) \/ TimerFires(r)
  PROVE  Log(r)'
<1>0. \A i \in 1..Len(status[r]) : status[r][i] \in Events /\ Rank(status[r][i]) \in Nat
  BY RankType DEF TypeOK
<1> USE ConfigAssumption DEF Facts, Goto, TypeOK, ConfigAccepted, EventTypes
<1>1. CASE RejectStatus(r)
  <2>1. \A i \in 1..Len(status[r]) : FALSE
    BY <1>1 DEF RejectStatus, Log
  <2>2. PublishStatus(r, "failed", 0) /\ pc' = [pc EXCEPT ![r] = "rejectDLQ"] /\ result' = result
    BY <1>1 DEF RejectStatus
  <2> QED
    BY <2>1, <2>2, PublishKeepsLog
<1>2. CASE Start(r)
  <2>1. \A i \in 1..Len(status[r]) : FALSE
    BY <1>2 DEF Start, Log
  <2>2. /\ PublishStatus(r, "queued", 0) /\ pc' = [pc EXCEPT ![r] = "attempt"]
        /\ result' = result /\ attempt'[r] = 1
    BY <1>2 DEF Start
  <2> QED
    BY <2>1, <2>2, PublishKeepsLog
<1>3. CASE BeginAttempt(r)
  <2>1. \A i \in 1..Len(status[r]) : ~Final(status[r][i]) /\ Rank(status[r][i]) < attempt[r]
    BY <1>3 DEF BeginAttempt, Log
  <2>2. /\ PublishStatus(r, "attempt", attempt[r]) /\ pc' = [pc EXCEPT ![r] = "send"]
        /\ result' = result /\ attempt'[r] = attempt[r] /\ attempt[r] \in Nat
    BY <1>3 DEF BeginAttempt
  <2>3. Rank([type |-> "attempt", attempt |-> attempt[r]]) = attempt[r]
    BY DEF Rank
  <2> QED
    BY <2>1, <2>2, <2>3, PublishKeepsLog
<1>4. CASE Send(r)
  <2>1. PICK res \in Results : /\ pc[r] = "send" /\ pc' = [pc EXCEPT ![r] = AfterSend(r, res)]
                               /\ UNCHANGED <<attempt, status, commits>>
    BY <1>4 DEF Send
  <2>2. \A i \in 1..Len(status[r]) :
          ~Final(status[r][i]) /\ Rank(status[r][i]) <= attempt[r] /\ status[r][i].type # "sent"
    BY <2>1 DEF Log, Final
  <2>3. AfterSend(r, res) \in {"sentStatus", "release", "failStatus", "backoff"}
    BY EnvironmentAssumption DEF AfterSend, AllResults
  <2> QED
    BY <2>1, <2>2, <2>3 DEF Log
<1>5. CASE SentStatus(r)
  <2>1. /\ \A i \in 1..Len(status[r]) : Rank(status[r][i]) <= attempt[r]
        /\ attempt[r] \in Nat /\ attempt[r] <= MaxAttempts /\ result[r] = "ok"
    BY <1>5 DEF SentStatus, Log, Progress
  <2>2. /\ PublishStatus(r, "sent", attempt[r]) /\ pc' = [pc EXCEPT ![r] = "commit"]
        /\ result' = result
    BY <1>5 DEF SentStatus
  <2>3. \A i \in 1..Len(status[r]) :
          Rank(status[r][i]) < Rank([type |-> "sent", attempt |-> attempt[r]])
    <3>1. Rank([type |-> "sent", attempt |-> attempt[r]]) = MaxAttempts + 1
      BY DEF Rank
    <3>2. MaxAttempts \in Nat
      OBVIOUS
    <3> HIDE DEF TypeOK, Facts
    <3> QED
      BY <1>0, <2>1, <3>1, <3>2
  <2> QED
    BY <2>1, <2>2, <2>3, PublishKeepsLog
<1>6. CASE FailStatus(r)
  <2>1. /\ \A i \in 1..Len(status[r]) : Rank(status[r][i]) <= attempt[r]
        /\ attempt[r] \in Nat /\ attempt[r] <= MaxAttempts
    BY <1>6 DEF FailStatus, Log, Progress
  <2>2. /\ PublishStatus(r, "failed", attempt[r]) /\ pc' = [pc EXCEPT ![r] = "failDLQ"]
        /\ result' = result
    BY <1>6 DEF FailStatus
  <2>3. \A i \in 1..Len(status[r]) :
          Rank(status[r][i]) < Rank([type |-> "failed", attempt |-> attempt[r]])
    <3>1. Rank([type |-> "failed", attempt |-> attempt[r]]) = MaxAttempts + 1
      BY DEF Rank
    <3>2. MaxAttempts \in Nat
      OBVIOUS
    <3> HIDE DEF TypeOK, Facts
    <3> QED
      BY <1>0, <2>1, <3>1, <3>2
  <2> QED
    BY <2>1, <2>2, <2>3, PublishKeepsLog
<1> QED
  BY <1>1, <1>2, <1>3, <1>4, <1>5, <1>6, SilentKeepsLog DEF CodeStep

LEMMA UntouchedLog ==
  ASSUME NEW q \in Records, Log(q), Untouched(q)
  PROVE  Log(q)'
BY DEF Untouched, Log, Ascending, Rank, Final

LEMMA NextLogInv == TypeOK /\ DeliveryInv /\ LogInv /\ [Next]_vars => LogInv'
<1> SUFFICES ASSUME TypeOK, DeliveryInv, LogInv, [Next]_vars, NEW q \in Records
             PROVE  Log(q)'
  BY DEF LogInv
<1>1. Facts(q) /\ Log(q)
  BY DEF DeliveryInv, Facts, LogInv
<1>2. ASSUME NEW r \in Records, HandleRecord(r) \/ CodeStep(r) \/ TimerFires(r)
      PROVE  Log(q)'
  BY <1>1, <1>2, StepLog, StepTouchesOne, UntouchedLog
<1>3. CASE (\E s \in Sessions : Cancel(s)) \/ UNCHANGED vars
  BY <1>1, <1>3, UntouchedLog DEF Cancel, vars, Untouched
<1>4. CASE Crash
  <2>1. status' = status /\ result' = result /\ commits' = commits /\ attempt' = attempt
    BY <1>4 DEF Crash
  <2>2. pc'[q] = pc[q] \/ pc'[q] = "dead"
    BY <1>4 DEF Crash, TypeOK
  <2>3. pc'[q] = "dead" => pc[q] \in Active \/ pc[q] = "dead"
    BY <1>4 DEF Crash, TypeOK
  <2> QED
    BY <1>1, <2>1, <2>2, <2>3 DEF Log
<1> QED
  BY <1>2, <1>3, <1>4 DEF Next

\* The status log of every delivery fits the stage its control is in: the
\* inductive invariant behind the order of the published events.
THEOREM LogInvAlways == Spec => []LogInv
<1>1. Init => LogInv
  BY DEF Init, LogInv, Log, Ascending
<1> QED
  BY <1>1, NextLogInv, TypeCorrect, DeliveryInvAlways, PTL DEF Spec

\* Whatever status events are lost, a consumer of the status topic never sees
\* the events of one delivery out of order or anything after the final one.
THEOREM StatusOrderedAlways == Spec => []StatusOrdered
<1>1. LogInv => StatusOrdered
  BY DEF LogInv, Log, StatusOrdered
<1> QED
  BY <1>1, LogInvAlways, PTL

\* Never two outcomes: at most one dead letter, and none for what was sent.
THEOREM SingleOutcomeAlways == Spec => []SingleOutcome
<1>1. DeliveryInv /\ LogInv => SingleOutcome
  BY DEF DeliveryInv, Decision, LogInv, Log, SingleOutcome
<1> QED
  BY <1>1, DeliveryInvAlways, LogInvAlways, PTL

\* A deferred delivery was interrupted, and left nothing behind that the
\* redelivery of its record would contradict.
THEOREM DeferredLeavesNoTraceAlways == Spec => []DeferredLeavesNoTrace
<1>1. TypeOK /\ DeliveryInv /\ LogInv => DeferredLeavesNoTrace
  <2> SUFFICES ASSUME TypeOK, DeliveryInv, LogInv, NEW r \in Records,
                      pc[r] = "end", commits[r] = 0
               PROVE  /\ Cancelled(r) \/ result[r] = "deadline"
                      /\ dlq[r] = {} /\ result[r] # "ok"
                      /\ \A i \in 1..Len(status[r]) : status[r][i].type \in {"queued", "attempt"}
    BY DEF DeferredLeavesNoTrace
  <2>1. \A i \in 1..Len(status[r]) : status[r][i].type \in {"queued", "attempt"}
    <3>1. \A i \in 1..Len(status[r]) : status[r][i] \in Events /\ ~Final(status[r][i])
      BY DEF LogInv, Log, TypeOK
    <3> QED
      BY <3>1 DEF Final, Events, EventTypes
  <2> QED
    BY <2>1 DEF DeliveryInv, Decision
<1> QED
  BY <1>1, TypeCorrect, DeliveryInvAlways, LogInvAlways, PTL

\* Once committed, a delivery publishes, sends and commits nothing more.
THEOREM QuietAfterCommitAlways == Spec => QuietAfterCommit
<1>1. TypeOK /\ DeliveryInv /\ [Next]_vars =>
        [\A r \in Records :
           commits[r] > 0 => /\ status'[r] = status[r] /\ dlq'[r] = dlq[r]
                             /\ sends'[r] = sends[r] /\ commits'[r] = commits[r]]_vars
  <2> SUFFICES ASSUME TypeOK, DeliveryInv, Next, NEW q \in Records, commits[q] > 0
               PROVE  /\ status'[q] = status[q] /\ dlq'[q] = dlq[q]
                      /\ sends'[q] = sends[q] /\ commits'[q] = commits[q]
    OBVIOUS
  <2>1. pc[q] \in {"release", "end", "dead"}
    <3>1. pc[q] \in Stages /\ commits[q] # 0
      BY DEF TypeOK
    <3>2. pc[q] \notin OpenStages \union {"sentStatus", "commit", "rejectCommit"}
      BY <3>1 DEF DeliveryInv, Decision
    <3> QED
      BY <3>1, <3>2 DEF Stages, HandlerStages, LoopStages, OpenStages
  <2>2. ASSUME NEW r \in Records, HandleRecord(r) \/ CodeStep(r) \/ TimerFires(r)
        PROVE  /\ status'[q] = status[q] /\ dlq'[q] = dlq[q]
               /\ sends'[q] = sends[q] /\ commits'[q] = commits[q]
    <3>1. CASE q # r
      BY <2>2, <3>1, StepTouchesOne DEF Untouched
    <3>2. CASE q = r
      <4>1. Release(q)
        BY <2>1, <2>2, <3>2 DEF HandleRecord, CodeStep, TimerFires, Goto,
           ParseAndValidate, RejectStatus, RejectDLQ, RejectCommit, Acquire, AcquireFails,
           StartCancelled, Start, BeginAttempt, Send, SentStatus, FailStatus, FailDLQ, Commit,
           RetryAtOnce, BeginWait, WaitCancelled
      <4> QED
        BY <4>1 DEF Release
    <3> QED
      BY <3>1, <3>2
  <2> QED
    BY <2>2 DEF Next, Cancel, Crash
<1> QED
  BY <1>1, TypeCorrect, DeliveryInvAlways, PTL DEF Spec, QuietAfterCommit
=============================================================================

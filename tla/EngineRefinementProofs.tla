----------------------- MODULE EngineRefinementProofs -----------------------
(* The engine implements Delivery, for every value of the constants.       *)
EXTENDS EngineProofs

\* What one step of a record means for the abstract delivery.
Same(r)     == Outcome(r)' = Outcome(r) /\ commits'[r] = commits[r]
TakenUp(r)  == Outcome(r) = "pending" /\ Outcome(r)' = "open" /\ commits'[r] = commits[r]
Resolved(r) == Outcome(r) = "open" /\ Outcome(r)' \in D!Outcomes /\ commits'[r] = commits[r]
Dropped(r)  == Outcome(r) = "open" /\ Outcome(r)' = "abandoned" /\ commits'[r] = commits[r]
Acked(r)    == /\ Outcome(r) \in D!Outcomes /\ Outcome(r)' = Outcome(r)
               /\ commits[r] = 0 /\ commits'[r] = 1

LEMMA OutcomeOfStep ==
  ASSUME TypeOK, NEW r \in Records, Facts(r),
         HandleRecord(r) \/ CodeStep(r) \/ TimerFires(r)
  PROVE  Same(r) \/ TakenUp(r) \/ Resolved(r) \/ Dropped(r) \/ Acked(r)
<1> USE DEF Facts, Goto, TypeOK, Outcome, Progress, Decision, OpenStages, HandlerStages
<1>1. CASE HandleRecord(r)
  <2>1. TakenUp(r)
    BY <1>1 DEF HandleRecord, TakenUp
  <2> QED
    BY <2>1
<1>2. CASE ParseAndValidate(r) \/ RejectStatus(r) \/ Acquire(r) \/ Start(r) \/ BeginAttempt(r)
  <2>1. Same(r)
    BY <1>2 DEF Same, ParseAndValidate, RejectStatus, Acquire, Start, BeginAttempt
  <2> QED
    BY <2>1
<1>3. CASE SentStatus(r) \/ FailStatus(r) \/ RetryAtOnce(r) \/ BeginWait(r) \/ TimerFires(r) \/ Release(r)
  <2>1. Same(r)
    BY <1>3 DEF Same, SentStatus, FailStatus, RetryAtOnce, BeginWait, TimerFires, Release
  <2> QED
    BY <2>1
<1>4. CASE AcquireFails(r) \/ StartCancelled(r) \/ WaitCancelled(r)
  <2>1. Dropped(r)
    BY <1>4 DEF Dropped, AcquireFails, StartCancelled, WaitCancelled
  <2> QED
    BY <2>1
<1>5. CASE Send(r)
  <2>1. PICK res \in Results :
          /\ Goto(r, "send", AfterSend(r, res)) /\ result' = [result EXCEPT ![r] = res]
          /\ UNCHANGED <<dlq, commits>>
    BY <1>5 DEF Send
  <2>2. Outcome(r) = "open" /\ dlq[r] = {}
    BY <2>1
  <2>3. CASE res = "ok"
    BY <2>1, <2>2, <2>3 DEF Resolved, D!Outcomes
  <2>4. CASE res \in {"cancelled", "deadline"}
    BY <2>1, <2>2, <2>4 DEF Dropped, AfterSend
  <2>5. CASE res \in {"permanent", "transient", "unknown"}
    <3>1. result'[r] = res /\ dlq' = dlq /\ commits' = commits /\ pc'[r] = AfterSend(r, res)
      BY <2>1
    <3>2. pc'[r] \in {"failStatus", "backoff"}
      BY <2>5, <3>1 DEF AfterSend
    <3>3. result'[r] # "ok" /\ dlq'[r] = {}
      BY <2>2, <2>5, <3>1
    <3>4. Outcome(r)' = "open"
      BY ONLY <3>2, <3>3 DEF Outcome
    <3> QED
      BY ONLY <2>2, <3>1, <3>4 DEF Same
  <2> QED
    BY <2>3, <2>4, <2>5, EnvironmentAssumption DEF AllResults
<1>6. CASE RejectDLQ(r) \/ FailDLQ(r)
  <2>1. PICK type, n : PublishDLQ(r, type, n)
    BY <1>6 DEF RejectDLQ, FailDLQ
  <2>2. pc[r] \in {"rejectDLQ", "failDLQ"} /\ result' = result /\ commits' = commits
    BY <1>6 DEF RejectDLQ, FailDLQ
  <2>3. result[r] # "ok" /\ dlq[r] = {} /\ dlq'[r] # {}
    BY <2>1, <2>2 DEF PublishDLQ
  <2>4. Outcome(r) = "open"
    BY ONLY <2>2, <2>3 DEF Outcome
  <2>5. Outcome(r)' = "deadLettered"
    BY ONLY <2>2, <2>3 DEF Outcome
  <2>6. Resolved(r)
    BY ONLY <2>2, <2>4, <2>5 DEF Resolved, D!Outcomes
  <2> QED
    BY <2>6
<1>7. CASE RejectCommit(r) \/ Commit(r)
  <2>1. Acked(r)
    BY <1>7 DEF RejectCommit, Commit, CommitRecord, Acked, D!Outcomes
  <2> QED
    BY <2>1
<1> QED
  BY <1>1, <1>2, <1>3, <1>4, <1>5, <1>6, <1>7 DEF CodeStep

LEMMA OutcomeUntouched ==
  ASSUME NEW q \in Records, Untouched(q)
  PROVE  Same(q)
BY DEF Untouched, Same, Outcome

LEMMA RecordStepRefines ==
  ASSUME TypeOK, DeliveryInv, NEW r \in Records,
         HandleRecord(r) \/ CodeStep(r) \/ TimerFires(r)
  PROVE  D!Next \/ UNCHANGED <<AbstractState, AbstractAcked>>
<1>1. Facts(r)
  BY DEF DeliveryInv, Facts
<1>2. \A q \in Records : q # r => Same(q)
  BY StepTouchesOne, OutcomeUntouched
<1>3. AbstractState' = [AbstractState EXCEPT ![r] = Outcome(r)']
  BY <1>2 DEF AbstractState, Same
<1>4. ASSUME commits'[r] = commits[r]
      PROVE  AbstractAcked' = AbstractAcked
  BY <1>2, <1>4 DEF AbstractAcked, Same
<1>5. CASE Same(r)
  <2>1. AbstractState' = AbstractState
    BY <1>3, <1>5 DEF AbstractState, Same
  <2> QED
    BY <1>4, <1>5, <2>1 DEF Same
<1>6. CASE TakenUp(r)
  <2>1. D!TakeUp(r)
    BY <1>3, <1>4, <1>6 DEF TakenUp, D!TakeUp, AbstractState, AbstractAcked
  <2> QED
    BY <2>1 DEF D!Next
<1>7. CASE Resolved(r)
  <2>1. D!Resolve(r)
    BY <1>3, <1>4, <1>7 DEF Resolved, D!Resolve, AbstractState, AbstractAcked
  <2> QED
    BY <2>1 DEF D!Next
<1>8. CASE Dropped(r)
  <2>1. {r} \in SUBSET {q \in Records : AbstractState[q] = "open"}
    BY <1>8 DEF Dropped, AbstractState
  <2>2. AbstractState' = [q \in Records |-> IF q \in {r} THEN "abandoned" ELSE AbstractState[q]]
    BY <1>3, <1>8 DEF Dropped, AbstractState
  <2>3. D!Abandon
    BY <1>4, <1>8, <2>1, <2>2 DEF Dropped, D!Abandon, AbstractState, AbstractAcked
  <2> QED
    BY <2>3 DEF D!Next
<1>9. CASE Acked(r)
  <2>1. AbstractState' = AbstractState
    BY <1>3, <1>9 DEF AbstractState, Acked
  <2>2. AbstractAcked' = AbstractAcked \union {r} /\ r \notin AbstractAcked
    BY <1>2, <1>9 DEF AbstractAcked, Acked, Same
  <2>3. D!Ack(r)
    BY <1>9, <2>1, <2>2 DEF Acked, D!Ack, AbstractState, AbstractAcked
  <2> QED
    BY <2>3 DEF D!Next
<1> QED
  BY <1>1, <1>5, <1>6, <1>7, <1>8, <1>9, OutcomeOfStep

LEMMA CrashRefines ==
  ASSUME TypeOK, DeliveryInv, Crash
  PROVE  D!Next \/ UNCHANGED <<AbstractState, AbstractAcked>>
<1> DEFINE S == {q \in Records : pc[q] \in Active /\ Outcome(q) = "open"}
<1>1. S \in SUBSET {q \in Records : AbstractState[q] = "open"}
  BY DEF AbstractState
<1>2. \A q \in Records : Outcome(q)' = IF q \in S THEN "abandoned" ELSE Outcome(q)
  <2> SUFFICES ASSUME NEW q \in Records
               PROVE  Outcome(q)' = IF q \in S THEN "abandoned" ELSE Outcome(q)
    OBVIOUS
  <2>1. result'[q] = result[q] /\ dlq'[q] = dlq[q]
    BY DEF Crash
  <2>2. CASE pc[q] \in Active
    BY <2>1, <2>2 DEF Crash, Outcome, Active, HandlerStages, LoopStages
  <2>3. CASE pc[q] \notin Active
    BY <2>1, <2>3 DEF Crash, Outcome
  <2> QED
    BY <2>2, <2>3
<1>3. AbstractState' = [q \in Records |-> IF q \in S THEN "abandoned" ELSE AbstractState[q]]
  BY <1>2 DEF AbstractState
<1>4. AbstractAcked' = AbstractAcked
  BY DEF Crash, AbstractAcked
<1>5. D!Abandon
  BY <1>1, <1>3, <1>4 DEF D!Abandon, AbstractState, AbstractAcked
<1> QED
  BY <1>5 DEF D!Next

\* Taken up once, at most one outcome, acknowledged only after an outcome: the
\* engine keeps the promise of Delivery with every interleaving and failure.
THEOREM EngineImplementsDelivery == Spec => ImplementsDelivery
<1>1. Init => D!Init
  BY DEF Init, D!Init, Outcome, AbstractState, AbstractAcked
<1>2. TypeOK /\ DeliveryInv /\ [Next]_vars
      => [D!Next]_<<AbstractState, AbstractAcked>>
  <2> SUFFICES ASSUME TypeOK, DeliveryInv, [Next]_vars
               PROVE  D!Next \/ UNCHANGED <<AbstractState, AbstractAcked>>
    OBVIOUS
  <2>1. CASE \E r \in Records : HandleRecord(r) \/ CodeStep(r) \/ TimerFires(r)
    BY <2>1, RecordStepRefines
  <2>2. CASE (\E s \in Sessions : Cancel(s)) \/ UNCHANGED vars
    BY <2>2 DEF Cancel, vars, AbstractState, AbstractAcked, Outcome
  <2>3. CASE Crash
    BY <2>3, CrashRefines
  <2> QED
    BY <2>1, <2>2, <2>3 DEF Next
<1> QED
  BY <1>1, <1>2, TypeCorrect, DeliveryInvAlways, PTL
     DEF Spec, ImplementsDelivery, D!Spec
=============================================================================

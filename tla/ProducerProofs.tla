--------------------------- MODULE ProducerProofs ----------------------------
(***************************************************************************)
(* Theorems about Producer for any number of callers, any channel buffer   *)
(* and any history of the brokers.                                         *)
(***************************************************************************)
EXTENDS Producer, TLAPS

\* One lemma per group of actions: each keeps the types, hence every channel
\* within its buffer.
LEMMA PublishTypes ==
  ASSUME TypeOK, \/ \E c \in Callers : SendMessage(c) \/ StoreSync(c)
                 \/ PublishAsync \/ PublishAsyncLate \/ Transmit \/ Report
  PROVE  TypeOK'
<1> USE ProducerAssumption DEF TypeOK, Results, Answer, Outcomes
<1>1. CASE \E c \in Callers : SendMessage(c)
  BY <1>1 DEF SendMessage
<1>2. CASE \E c \in Callers : StoreSync(c)
  BY <1>2 DEF StoreSync
<1>3. CASE PublishAsync
  <2>1. UNCHANGED <<up, flips, sync, watcher, logger, flight, successes, errors, stage>>
    BY <1>3 DEF PublishAsync
  <2>2. ready' \in BOOLEAN
    BY Zenon, <1>3 DEF PublishAsync
  <2>3. input' \in 0..Buffer
    BY <1>3 DEF PublishAsync
  <2> QED
    BY <2>1, <2>2, <2>3
<1>4. CASE PublishAsyncLate
  BY <1>4 DEF PublishAsyncLate
<1>5. CASE Transmit
  BY <1>5 DEF Transmit
<1>6. CASE Report
  BY <1>6 DEF Report
<1> QED
  BY <1>1, <1>2, <1>3, <1>4, <1>5, <1>6

LEMMA BackgroundTypes ==
  ASSUME TypeOK, \/ Tick \/ StoreRefresh \/ StopWatcher
                 \/ ReceiveError \/ StoreError \/ StopLogger
  PROVE  TypeOK'
<1> USE ProducerAssumption DEF TypeOK, Results, Answer, Outcomes
<1>1. CASE Tick \/ StoreRefresh \/ StopWatcher
  BY <1>1 DEF Tick, StoreRefresh, StopWatcher
<1>2. CASE ReceiveError
  BY <1>2 DEF ReceiveError
<1>3. CASE StoreError \/ StopLogger
  BY <1>3 DEF StoreError, StopLogger
<1> QED
  BY <1>1, <1>2, <1>3

LEMMA CloseTypes ==
  ASSUME TypeOK, CloseStopCh \/ JoinBackground \/ DrainResults \/ CloseClients \/ Flip
  PROVE  TypeOK'
<1> USE ProducerAssumption DEF TypeOK, Results
<1>1. CASE CloseStopCh \/ JoinBackground \/ CloseClients
  BY <1>1 DEF CloseStopCh, JoinBackground, CloseClients
<1>2. CASE DrainResults
  BY <1>2 DEF DrainResults
<1>3. CASE Flip
  BY <1>3 DEF Flip
<1> QED
  BY <1>1, <1>2, <1>3

\* Types, and with them the bound of every channel: the drop branch of
\* PublishAsync and the blocking of the pipeline keep each within its buffer.
LEMMA ProducerTypeCorrect == Spec => []TypeOK
<1>1. Init => TypeOK
  BY ProducerAssumption DEF Init, TypeOK, Results
<1>2. TypeOK /\ [Next]_vars => TypeOK'
  <2> SUFFICES ASSUME TypeOK, [Next]_vars PROVE TypeOK'
    OBVIOUS
  <2>1. CASE UNCHANGED vars
    BY <2>1 DEF vars, TypeOK
  <2> QED
    BY <2>1, PublishTypes, BackgroundTypes, CloseTypes DEF Next
<1> QED
  BY <1>1, <1>2, PTL DEF Spec

\* wg.Wait has joined both background goroutines once Close drains.
Joined == stage \in {"draining", "closed"} => watcher = "stopped" /\ logger = "stopped"

LEMMA JoinedStep == Joined /\ [Next]_vars => Joined'
<1> SUFFICES ASSUME Joined, [Next]_vars PROVE Joined'
  OBVIOUS
<1> USE DEF Joined, Results
<1>1. CASE UNCHANGED vars
  BY <1>1 DEF vars
<1>2. CASE \E c \in Callers : SendMessage(c) \/ StoreSync(c)
  BY <1>2 DEF SendMessage, StoreSync
<1>3. CASE PublishAsync \/ PublishAsyncLate \/ Transmit \/ Report
  BY <1>3 DEF PublishAsync, PublishAsyncLate, Transmit, Report
<1>4. CASE Tick \/ StoreRefresh \/ StopWatcher
  BY <1>4 DEF Tick, StoreRefresh, StopWatcher
<1>5. CASE ReceiveError \/ StoreError \/ StopLogger
  BY <1>5 DEF ReceiveError, StoreError, StopLogger
<1>6. CASE CloseStopCh \/ JoinBackground \/ DrainResults \/ CloseClients \/ Flip
  BY <1>6 DEF CloseStopCh, JoinBackground, DrainResults, CloseClients, Flip
<1> QED
  BY <1>1, <1>2, <1>3, <1>4, <1>5, <1>6 DEF Next

\* After wg.Wait readiness is raised by acknowledged publishes alone: neither
\* watchMetadata nor consumeAsyncErrors stores a result it still carried.
THEOREM NoLateReadinessAlways == Spec => NoLateReadiness
<1>1. Init => Joined
  BY DEF Init, Joined
<1>2. TypeOK /\ Joined /\ [Next]_vars =>
        [(stage \in {"draining", "closed"} /\ ready' /\ ~ready)
           => (\E c \in Callers : sync[c] = "ok" /\ sync'[c] = "idle")]_vars
  <2> SUFFICES ASSUME TypeOK, Joined, Next, stage \in {"draining", "closed"}, ready', ~ready
               PROVE  \E c \in Callers : sync[c] = "ok" /\ sync'[c] = "idle"
    OBVIOUS
  <2>1. watcher = "stopped" /\ logger = "stopped" /\ stage # "open"
    BY DEF Joined
  <2>2. ~StoreRefresh /\ ~PublishAsync /\ ~PublishAsyncLate
    BY <2>1 DEF StoreRefresh, PublishAsync, PublishAsyncLate, Results
  <2>3. \E c \in Callers : StoreSync(c)
    BY <2>2 DEF Next, SendMessage, Transmit, Report, Tick, StopWatcher, ReceiveError, StoreError,
                StopLogger, CloseStopCh, JoinBackground, DrainResults, CloseClients, Flip
  <2> QED
    BY <2>3 DEF StoreSync, TypeOK
<1> QED
  BY <1>1, <1>2, JoinedStep, ProducerTypeCorrect, PTL DEF Spec, NoLateReadiness
=============================================================================

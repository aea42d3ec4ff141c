------------------------------ MODULE Producer ------------------------------
(***************************************************************************)
(* The Kafka producer (internal/kafka/producer/producer.go): synchronous   *)
(* publishing, the asynchronous pipeline, the readiness flag that four     *)
(* kinds of goroutine write, and Close.                                    *)
(*                                                                         *)
(* A goroutine learns the result of its Kafka call in one step and stores  *)
(* the flag in a later one: the results of two goroutines can be stored in *)
(* the order opposite to the one they were obtained in.                    *)
(***************************************************************************)
EXTENDS Naturals

CONSTANTS
  Callers,   \* goroutines that call PublishSync
  Buffer,    \* ChannelBufferSize of the asynchronous producer's channels
  MaxFlips   \* bound: changes of the brokers' state

ASSUME ProducerAssumption == Buffer \in Nat \ {0} /\ MaxFlips \in Nat

VARIABLES
  up,        \* whether the brokers answer (external)
  flips,     \* counter of the bound MaxFlips
  ready,     \* Producer.ready
  sync,      \* of a caller: "idle", or the result its PublishSync has to store
  watcher,   \* watchMetadata: "waiting", the result it has to store, "stopped"
  logger,    \* consumeAsyncErrors: "waiting", "failed" (to store), "stopped"
  input,     \* messages in the asynchronous producer's input channel
  flight,    \* the message the pipeline has sent: "none", or its result
  successes, errors, \* messages in its result channels
  stage      \* of Close: "open", "stopping", "draining", "closed"; or "panicked"

vars == <<up, flips, ready, sync, watcher, logger, input, flight,
          successes, errors, stage>>

Results == {"ok",      \* acknowledged
            "failed",  \* no broker answers
            "refused"} \* the brokers are up, the message is at fault: its size, its topic

\* A metadata refresh; a message.
Answer   == IF up THEN "ok" ELSE "failed"
Outcomes == IF up THEN {"ok", "refused"} ELSE {"failed"}

-----------------------------------------------------------------------------
(* Slips that the properties below must notice; each stands in for the     *)
(* definition named in its comment when the checks are themselves checked. *)

\* StoreRefresh with only the failures stored.
StoreRefreshFailure ==
  /\ watcher \in Results
  /\ ready' = (ready /\ watcher = "ok")
  /\ watcher' = "waiting"
  /\ UNCHANGED <<up, flips, sync, logger, input, flight, successes, errors, stage>>

\* StoreError with the error logged and the flag left alone.
LogErrorOnly ==
  /\ logger = "failed"
  /\ logger' = "waiting"
  /\ UNCHANGED <<up, flips, ready, sync, watcher, input, flight, successes, errors, stage>>

\* StopLogger when the loop ranges over the errors until they are closed.
RangeOverErrors ==
  /\ logger = "waiting" /\ stage = "closed"
  /\ logger' = "stopped"
  /\ UNCHANGED <<up, flips, ready, sync, watcher, input, flight, successes, errors, stage>>

\* JoinBackground with watchMetadata not counted in the wait group.
JoinLoggerOnly ==
  /\ stage = "stopping" /\ logger = "stopped"
  /\ stage' = "draining"
  /\ UNCHANGED <<up, flips, ready, sync, watcher, logger, input, flight, successes, errors>>

-----------------------------------------------------------------------------
(* Publishing                                                              *)

\* SendMessage returns when the broker has acknowledged the message or the
\* retries are used up, at once if the message is at fault or after Close.
SendMessage(c) ==
  /\ sync[c] = "idle" /\ stage # "panicked"
  /\ \E outcome \in IF stage = "closed" THEN {"failed"} ELSE Outcomes :
       sync' = [sync EXCEPT ![c] = outcome]
  /\ UNCHANGED <<up, flips, ready, watcher, logger, input, flight, successes, errors, stage>>

\* Any error clears the flag.
StoreSync(c) ==
  /\ sync[c] \in Results /\ stage # "panicked"
  /\ ready' = (sync[c] = "ok")
  /\ sync' = [sync EXCEPT ![c] = "idle"]
  /\ UNCHANGED <<up, flips, watcher, logger, input, flight, successes, errors, stage>>

\* The default branch of the select is taken when the channel is full.
PublishAsync ==
  /\ stage \in {"open", "stopping"}
  /\ IF input < Buffer THEN input' = input + 1 /\ UNCHANGED ready
                       ELSE ready' = FALSE /\ UNCHANGED input
  /\ UNCHANGED <<up, flips, sync, watcher, logger, flight, successes, errors, stage>>

Drained == input + successes + errors = 0 /\ flight = "none"

\* The pipeline that closes waits only for what it has accepted before (external):
\* a later message is refused, or finds the channel full of such.  In the end the
\* channel is closed, and to send on it panics; PublishAsync knows nothing of it.
PublishAsyncLate ==
  /\ \/ stage = "draining" /\ ready' \in {ready, FALSE} /\ UNCHANGED stage
     \/ /\ stage = "closed" \/ (stage = "draining" /\ Drained)
        /\ stage' = "panicked" /\ UNCHANGED ready
  /\ UNCHANGED <<up, flips, sync, watcher, logger, input, flight, successes, errors>>

-----------------------------------------------------------------------------
(* The asynchronous pipeline (external)                                    *)

Transmit ==
  /\ input > 0 /\ flight = "none"
  /\ input' = input - 1
  /\ flight' \in Outcomes
  /\ UNCHANGED <<up, flips, ready, sync, watcher, logger, successes, errors, stage>>

\* Return.Successes and Return.Errors are set: the pipeline blocks on a full
\* result channel.
Report ==
  /\ \/ flight = "ok" /\ successes < Buffer /\ successes' = successes + 1 /\ UNCHANGED errors
     \/ flight \in {"failed", "refused"} /\ errors < Buffer /\ errors' = errors + 1 /\ UNCHANGED successes
  /\ flight' = "none"
  /\ UNCHANGED <<up, flips, ready, sync, watcher, logger, input, stage>>

-----------------------------------------------------------------------------
(* Background goroutines                                                   *)

\* watchMetadata: when both are ready, the select takes the tick or the stop.
Tick ==
  /\ watcher = "waiting"
  /\ watcher' = Answer
  /\ UNCHANGED <<up, flips, ready, sync, logger, input, flight, successes, errors, stage>>

StoreRefresh ==
  /\ watcher \in Results
  /\ ready' = (watcher = "ok")
  /\ watcher' = "waiting"
  /\ UNCHANGED <<up, flips, sync, logger, input, flight, successes, errors, stage>>

StopWatcher ==
  /\ watcher = "waiting" /\ stage # "open"
  /\ watcher' = "stopped"
  /\ UNCHANGED <<up, flips, ready, sync, logger, input, flight, successes, errors, stage>>

\* consumeAsyncErrors reads the errors; nobody reads the successes.
ReceiveError ==
  /\ logger = "waiting" /\ errors > 0
  /\ errors' = errors - 1
  /\ logger' = "failed"
  /\ UNCHANGED <<up, flips, ready, sync, watcher, input, flight, successes, stage>>

StoreError ==
  /\ logger = "failed"
  /\ ready' = FALSE
  /\ logger' = "waiting"
  /\ UNCHANGED <<up, flips, sync, watcher, input, flight, successes, errors, stage>>

StopLogger ==
  /\ logger = "waiting" /\ stage # "open"
  /\ logger' = "stopped"
  /\ UNCHANGED <<up, flips, ready, sync, watcher, input, flight, successes, errors, stage>>

-----------------------------------------------------------------------------
(* Close                                                                   *)

\* close(stopCh)
CloseStopCh ==
  /\ stage = "open"
  /\ stage' = "stopping"
  /\ UNCHANGED <<up, flips, ready, sync, watcher, logger, input, flight, successes, errors>>

\* wg.Wait()
JoinBackground ==
  /\ stage = "stopping" /\ watcher = "stopped" /\ logger = "stopped"
  /\ stage' = "draining"
  /\ UNCHANGED <<up, flips, ready, sync, watcher, logger, input, flight, successes, errors>>

\* asyncProducer.Close reads both result channels itself until the pipeline is
\* empty (external).
DrainResults ==
  /\ stage = "draining" /\ successes + errors > 0
  /\ successes' = 0 /\ errors' = 0
  /\ UNCHANGED <<up, flips, ready, sync, watcher, logger, input, flight, stage>>

\* The asynchronous producer is empty; the synchronous one and the client close.
CloseClients ==
  /\ stage = "draining" /\ Drained
  /\ stage' = "closed"
  /\ UNCHANGED <<up, flips, ready, sync, watcher, logger, input, flight, successes, errors>>

-----------------------------------------------------------------------------

\* The brokers go away or come back (external).
Flip ==
  /\ flips < MaxFlips
  /\ flips' = flips + 1
  /\ up' = ~up
  /\ UNCHANGED <<ready, sync, watcher, logger, input, flight, successes, errors, stage>>

\* New: the first refresh decides the flag; then the goroutines start.
Init ==
  /\ up \in BOOLEAN /\ flips = 0
  /\ ready = up
  /\ sync = [c \in Callers |-> "idle"]
  /\ watcher = "waiting" /\ logger = "waiting"
  /\ input = 0 /\ flight = "none" /\ successes = 0 /\ errors = 0
  /\ stage = "open"

Next ==
  \/ \E c \in Callers : SendMessage(c) \/ StoreSync(c)
  \/ PublishAsync \/ PublishAsyncLate \/ Transmit \/ Report
  \/ Tick \/ StoreRefresh \/ StopWatcher \/ ReceiveError \/ StoreError \/ StopLogger
  \/ CloseStopCh \/ JoinBackground \/ DrainResults \/ CloseClients
  \/ Flip

Spec == Init /\ [][Next]_vars

\* Goroutines and the pipeline run; the ticker ticks; a select that finds
\* stopCh closed again and again takes that branch some time (it chooses at
\* random), hence strong fairness of the two stops.
Fairness ==
  /\ \A c \in Callers : WF_vars(StoreSync(c))
  /\ WF_vars(Transmit) /\ WF_vars(Report)
  /\ WF_vars(Tick) /\ WF_vars(StoreRefresh) /\ SF_vars(StopWatcher)
  /\ WF_vars(ReceiveError) /\ WF_vars(StoreError) /\ SF_vars(StopLogger)
  /\ WF_vars(JoinBackground) /\ WF_vars(DrainResults) /\ WF_vars(CloseClients)

FairSpec == Spec /\ Fairness

-----------------------------------------------------------------------------

\* Types; no channel holds more than its buffer.
TypeOK ==
  /\ up \in BOOLEAN /\ ready \in BOOLEAN
  /\ flips \in 0..MaxFlips
  /\ sync \in [Callers -> {"idle"} \union Results]
  /\ watcher \in {"waiting", "stopped"} \union Results
  /\ logger \in {"waiting", "failed", "stopped"}
  /\ input \in 0..Buffer /\ successes \in 0..Buffer /\ errors \in 0..Buffer
  /\ flight \in {"none"} \union Results
  /\ stage \in {"open", "stopping", "draining", "closed", "panicked"}

\* No background goroutine outlives wg.Wait: once Close drains, readiness can
\* only be raised by a publish that the brokers acknowledged before.
NoLateReadiness ==
  [][(stage \in {"draining", "closed"} /\ ready' /\ ~ready)
       => (\E c \in Callers : sync[c] = "ok" /\ sync'[c] = "idle")]_vars

\* Until Close is called the flag follows the brokers, whatever stale results the
\* callers, the watcher and the error logger store on the way: it keeps being raised
\* while they are up, for good once no message is refused and the input has room,
\* and stays down when they are down.
ReadinessConverges ==
  /\ <>[](up /\ stage = "open") => []<>ready
  /\ <>[](/\ up /\ stage = "open" /\ input < Buffer
         /\ flight # "refused" /\ \A c \in Callers : sync[c] # "refused") => <>[]ready
  /\ <>[](~up /\ stage = "open") => <>[]~ready

\* producer.go:199: "IsReady indicates whether the producer has successfully refreshed
\* metadata recently": with the brokers up every refresh succeeds.
ReadyMeansRefreshed == <>[](up /\ stage = "open") => <>[]ready

\* Close returns, even when the pipeline is stuck on a full result channel; only the
\* panic of a late publisher is before it.
CloseReturns == (stage # "open") ~> (stage \in {"closed", "panicked"})

\* producer.go:167: "Errors are surfaced via the producer error channel and logged".
ErrorsSurface == (errors > 0) ~> (~ready \/ stage # "open")
=============================================================================

------------------------------- MODULE Worker -------------------------------
(***************************************************************************)
(* A worker process (cmd/<channel>-worker): the consumer                   *)
(* (internal/kafka/consumer/consumer.go) feeding one partition to the      *)
(* engine, over successive group sessions, restarts and crashes.           *)
(*                                                                         *)
(* The partition is an immutable log of offsets 0..logEnd-1.  A delivery   *)
(* is a pair <<session, offset>>, and the engine is the module Engine on   *)
(* that set of deliveries.  What the consumer group library and the broker *)
(* do (offsets marked, flushed and fetched, claims opened and drained) is  *)
(* external and modelled from how consumer.go relies on it.                *)
(***************************************************************************)
EXTENDS Integers, Sequences, FiniteSets, FiniteSetsExt

CONSTANTS
  LogLen,       \* bound: messages ever produced
  MaxSessions,  \* bound: group sessions, over all restarts
  MaxCrashes,   \* bound: crashes of the process
  MaxFlushFailures, \* bound: offset commits the broker refuses
  Payloads,     \* kinds of payload that are produced
  FirstOffsets, \* the group's committed offset at the start, NoOffset if none
  CommitOnAck,  \* COMMIT_ON_SUCCESS_ONLY
  Graceful,     \* whether sessions are cancelled (rebalance, shutdown) at all
  MaxAttempts, Concurrency, Results, Delays, Acks  \* see Engine

NoOffset == -1

Offsets  == 0 .. LogLen - 1
Sessions == 1 .. MaxSessions
Records  == Sessions \X Offsets

SessionOf == [r \in Records |-> r[1]]
\* One partition: a session has one claim goroutine.
Claims    == Sessions
ClaimOf   == SessionOf

ASSUME WorkerAssumption ==
  /\ LogLen \in Nat /\ MaxSessions \in Nat /\ MaxCrashes \in Nat /\ MaxFlushFailures \in Nat
  /\ FirstOffsets \subseteq {NoOffset, 0}
  /\ CommitOnAck \in BOOLEAN /\ Graceful \in BOOLEAN

VARIABLES
  kind, pc, attempt, result, permits, done, sends, status, dlq, commits,
  logEnd,     \* messages in the partition
  session,    \* number of the current or last session
  phase,      \* of the session: "idle" (none), "open", "draining" (cancelled)
  position,   \* next offset the claim hands over
  buffered,   \* end of what the claim's channel still delivers when draining
  mark,       \* offset marked in the session, NoOffset if none
  committed,  \* offset of the group stored by the broker
  ready,      \* Consumer.ready
  closing,    \* Close has been called and the process has not ended yet
  producerClosed,  \* the producer is closed and the process has not ended yet
  crashes, flushFailures  \* counters of the bounds

engineVars   == <<kind, pc, attempt, result, permits, done, sends, status, dlq, commits>>
offsetVars   == <<mark, committed, flushFailures>>
consumerVars == <<logEnd, session, phase, position, buffered, ready, closing, producerClosed, crashes>>
vars         == <<engineVars, offsetVars, consumerVars>>

E == INSTANCE Engine

\* NewEngine accepts the configuration; the collaborators keep to their types.
ASSUME EngineAssumption ==
  /\ E!ConfigAccepted
  /\ Results \subseteq E!AllResults
  /\ Delays \subseteq {"zero", "positive"}
  /\ Acks \subseteq BOOLEAN

\* The engine once the producer is closed: no publish is acknowledged.
Late == INSTANCE Engine WITH Acks <- {FALSE}

Current(r) == r[1] = session /\ phase # "idle"

\* The claim goroutine of the session is not inside the handler.
ClaimIdle == \A o \in Offsets : pc[<<session, o>>] \notin E!HandlerStages

-----------------------------------------------------------------------------
(* Slips that the properties below must notice; each stands in for the     *)
(* definition named in its comment when the checks are themselves checked. *)

\* MarkMessage with the offset after the next one.
MarkTooFar(o) == mark' = Max({mark, o + 2})

\* ConsumerCommit with the offset committed directly, past the mark.
CommitPastMark(r) ==
  IF Current(r)
  THEN committed' = r[2] + 1 /\ UNCHANGED <<mark, flushFailures>>
  ELSE UNCHANGED offsetVars

\* AutoCommit with its flag inverted.
AutoCommitInverted ==
  /\ CommitOnAck /\ phase # "idle" /\ mark # committed
  /\ committed' = mark
  /\ UNCHANGED <<mark, flushFailures, engineVars, consumerVars>>

\* Join at the end of the log whether or not the group has an offset.
JoinNewest ==
  /\ phase = "idle" /\ ~closing /\ session < MaxSessions
  /\ session' = session + 1
  /\ phase' = "open"
  /\ position' = logEnd
  /\ mark' = committed
  /\ ready' = TRUE
  /\ UNCHANGED <<engineVars, logEnd, buffered, committed, closing, producerClosed, crashes, flushFailures>>

\* ConsumeClaim with the offset committed on receipt.
ConsumeCommitting ==
  /\ \/ phase = "open" /\ position < logEnd
     \/ phase = "draining" /\ position < buffered
  /\ E!HandleRecord(<<session, position>>)
  /\ position' = position + 1
  /\ mark' = position + 1 /\ committed' = position + 1
  /\ UNCHANGED <<flushFailures, logEnd, session, phase, buffered, ready, closing, producerClosed, crashes>>

\* Shutdown with the context of Consume not cancelled.
ShutdownUncancelled ==
  /\ Graceful /\ ~closing
  /\ closing' = TRUE
  /\ UNCHANGED <<engineVars, offsetVars, logEnd, session, phase, position, buffered, ready, producerClosed, crashes>>

\* CloseProducer while the claim of the session still drains.
CloseProducerFirst ==
  /\ closing /\ ~producerClosed
  /\ producerClosed' = TRUE
  /\ UNCHANGED <<engineVars, offsetVars, logEnd, session, phase, position, buffered, ready, closing, crashes>>

-----------------------------------------------------------------------------
(* Offsets (external: consumer group session and broker)                   *)

\* MarkMessage keeps the highest offset.
MarkMessage(o) == mark' = Max({mark, o + 1})

\* Flushing the marked offset acknowledges every offset below it.  An error
\* is only reported on the errors channel, where consumeErrors logs it.
Flush(m) ==
  \/ committed' = m /\ UNCHANGED flushFailures
  \/ /\ flushFailures < MaxFlushFailures
     /\ flushFailures' = flushFailures + 1
     /\ UNCHANGED committed

\* Consumer.Commit: mark, then flush if the consumer commits on every record.
\* The partition managers of a released session are gone: both are no-ops.
ConsumerCommit(r) ==
  IF Current(r)
  THEN /\ MarkMessage(r[2])
       /\ IF CommitOnAck THEN Flush(mark') ELSE UNCHANGED <<committed, flushFailures>>
  ELSE UNCHANGED offsetVars

\* The library's timer, when the consumer does not commit on every record.
AutoCommit ==
  /\ ~CommitOnAck /\ phase # "idle" /\ mark # committed
  /\ Flush(mark)
  /\ UNCHANGED <<mark, engineVars, consumerVars>>

-----------------------------------------------------------------------------
(* The consumer                                                            *)

Produce ==
  /\ logEnd < LogLen
  /\ logEnd' = logEnd + 1
  /\ UNCHANGED <<engineVars, offsetVars, session, phase, position, buffered, ready, closing, producerClosed, crashes>>

\* Consume joins the group; Setup runs and the claim starts where the group's
\* offset is, or at the end of the log if there is none (OffsetNewest).
Join ==
  /\ phase = "idle" /\ ~closing /\ session < MaxSessions
  /\ session' = session + 1
  /\ phase' = "open"
  /\ position' = IF committed = NoOffset THEN logEnd ELSE committed
  /\ mark' = committed
  /\ ready' = TRUE
  /\ UNCHANGED <<engineVars, logEnd, buffered, committed, closing, producerClosed, crashes, flushFailures>>

\* ConsumeClaim: the next message of the claim enters the handler.  It ranges
\* over the channel to its end and never looks at the context of the session.
ConsumeClaim ==
  /\ \/ phase = "open" /\ position < logEnd
     \/ phase = "draining" /\ position < buffered
  /\ E!HandleRecord(<<session, position>>)
  /\ position' = position + 1
  /\ UNCHANGED <<offsetVars, logEnd, session, phase, buffered, ready, closing, producerClosed, crashes>>

\* The context of the session is cancelled; the channel of the claim is closed
\* but keeps what had been fetched into it.
EndSession ==
  /\ phase = "open"
  /\ E!Cancel(session)
  /\ phase' = "draining"
  /\ buffered' \in position .. logEnd
  /\ UNCHANGED <<offsetVars, logEnd, session, position, ready, producerClosed, crashes>>

\* A rebalance, an expired session or a lost claim.
Rebalance == Graceful /\ EndSession /\ UNCHANGED closing

\* main cancels the context of Consume on a signal and calls Close.
Shutdown ==
  /\ Graceful /\ ~closing
  /\ closing' = TRUE
  /\ \/ EndSession
     \/ /\ phase # "open"
        /\ UNCHANGED <<engineVars, offsetVars, logEnd, session, phase, position, buffered, ready, producerClosed, crashes>>

\* ConsumeClaim has returned: Cleanup runs and the offsets are closed.  The
\* goroutines of the engine are not waited for.
Release ==
  /\ phase = "draining" /\ position = buffered /\ ClaimIdle
  /\ phase' = "idle"
  /\ ready' = FALSE
  /\ IF ~CommitOnAck /\ mark # committed THEN Flush(mark) ELSE UNCHANGED <<committed, flushFailures>>
  /\ UNCHANGED <<engineVars, mark, logEnd, session, position, buffered, closing, producerClosed, crashes>>

\* The process is gone with every goroutine of the engine.
Die == IF \E r \in Records : pc[r] \in E!Active THEN E!Crash ELSE UNCHANGED engineVars

\* The deferred Close of the producer runs after that of the consumer, which
\* waits until the group's session is released.
CloseProducer ==
  /\ closing /\ phase = "idle" /\ ~producerClosed
  /\ producerClosed' = TRUE
  /\ UNCHANGED <<engineVars, offsetVars, logEnd, session, phase, position, buffered, ready, closing, crashes>>

\* main returns; goroutines of the engine die unfinished.  One that publishes
\* through the closed producer gets an error or panics, which ends the process
\* just as well.
Exit ==
  /\ producerClosed
  /\ Die
  /\ closing' = FALSE /\ producerClosed' = FALSE
  /\ UNCHANGED <<offsetVars, logEnd, session, phase, position, buffered, ready, crashes>>

Crash ==
  /\ crashes < MaxCrashes
  /\ crashes' = crashes + 1
  /\ Die
  /\ phase' = "idle" /\ ready' = FALSE /\ closing' = FALSE /\ producerClosed' = FALSE
  /\ UNCHANGED <<offsetVars, logEnd, session, position, buffered>>

-----------------------------------------------------------------------------

\* A step of the engine; its commits go through the consumer.
EngineStep(r) ==
  \/ (E!RejectCommit(r) \/ E!Commit(r)) /\ ConsumerCommit(r) /\ UNCHANGED consumerVars
  \/ /\ IF producerClosed THEN Late!CodeStep(r) ELSE E!CodeStep(r)
     /\ commits' = commits /\ UNCHANGED <<offsetVars, consumerVars>>

TimerFires(r) == E!TimerFires(r) /\ UNCHANGED <<offsetVars, consumerVars>>

Init ==
  /\ E!Init
  /\ \A r \in Records : kind[r] \in Payloads /\ kind[r] = kind[<<1, r[2]>>]
  /\ logEnd \in {0, 1} /\ logEnd <= LogLen
  /\ session = 0 /\ phase = "idle" /\ position = 0 /\ buffered = 0
  /\ mark = NoOffset /\ committed \in FirstOffsets
  /\ ready = FALSE /\ closing = FALSE /\ producerClosed = FALSE /\ crashes = 0 /\ flushFailures = 0

Next ==
  \/ Produce \/ Join \/ ConsumeClaim \/ Rebalance \/ Shutdown \/ Release \/ CloseProducer
  \/ Exit \/ Crash \/ AutoCommit
  \/ \E r \in Records : EngineStep(r) \/ TimerFires(r)

Spec == Init /\ [][Next]_vars

\* Running goroutines, the library's and the kernel's included, keep running.
\* Producers, rebalances, signals and crashes are not fair.
ConsumerFairness ==
  /\ WF_vars(Join) /\ WF_vars(ConsumeClaim) /\ WF_vars(Release) /\ WF_vars(CloseProducer)
  /\ WF_vars(Exit) /\ WF_vars(AutoCommit)
  /\ \A r \in Records : WF_vars(EngineStep(r))

\* As in the engine, nothing may depend on the timer of a cancelled record.
TimerFairness == \A r \in Records : WF_vars(TimerFires(r) /\ ~E!Cancelled(r))

FairSpec == Spec /\ ConsumerFairness /\ TimerFairness

-----------------------------------------------------------------------------
(* Invariants                                                              *)

\* Types; offsets stay within the log and the counters within their bounds.
TypeOK ==
  /\ E!TypeOK
  /\ logEnd \in 0..LogLen /\ session \in 0..MaxSessions
  /\ phase \in {"idle", "open", "draining"}
  /\ position \in 0..logEnd /\ buffered \in 0..logEnd
  /\ mark \in NoOffset..logEnd /\ committed \in NoOffset..logEnd
  /\ ready \in BOOLEAN /\ closing \in BOOLEAN /\ producerClosed \in BOOLEAN
  /\ crashes \in 0..MaxCrashes /\ flushFailures \in 0..MaxFlushFailures

Deliveries(o) == {r \in Records : r[2] = o}

\* Some delivery of the message came to an outcome.
Settled(o) == \E r \in Deliveries(o) : result[r] = "ok" \/ dlq[r] # {}

Ongoing(o) == \E r \in Deliveries(o) : pc[r] \in E!Active

\* A session the consumer does not belong to any more, or a process that died,
\* may still run its handlers to the end, but the offset the group resumes
\* from is the one after a message that some delivery brought to an outcome.
ResumesAfterSettled == committed > 0 => Settled(committed - 1)

\* The order of the defers in main: while the brokers take what they are sent,
\* closing the producer under running goroutines loses no outcome.  Whatever
\* the group's offset acknowledges was sent or is stored in the DLQ topic.
StoredBeforeOffset ==
  Acks = {TRUE} /\ committed > 0 =>
    \E r \in Deliveries(committed - 1) : result[r] = "ok" \/ \E d \in dlq[r] : d.stored

\* The message was handed over, nobody works on it, and the group's offset is
\* beyond it although no delivery brought it to an outcome.
Lost(o) ==
  /\ \E r \in Deliveries(o) : pc[r] # "new"
  /\ ~Settled(o) /\ ~Ongoing(o)
  /\ committed > o

\* design_1.1.md:41 "at-least-once delivery"; design_1.0.md:543 "Manual commit
\* only after final handling (success or DLQ)".
NothingLost == \A o \in Offsets : ~Lost(o)

\* design_1.1.md:280 "the record will be reprocessed": a later session starts
\* no later than at a message that was handed over without an outcome.
DeferredIsRedelivered ==
  \A r \in Records :
    r[1] < session /\ phase = "open" /\ pc[r] \in {"end", "dead"} /\ ~Settled(r[2]) /\ ~Ongoing(r[2])
      => r[2] >= position \/ \E q \in Deliveries(r[2]) : q[1] = session /\ pc[q] # "new"

-----------------------------------------------------------------------------
(* Action and liveness properties                                          *)

\* The group's offset never moves back, although several sessions and the
\* late goroutines of earlier ones commit through the same consumer.
OffsetNeverRewinds == [][committed' >= committed]_vars

\* A session that stays up brings the group's offset to the end of the log:
\* no backlog, blocked permit or retry holds it up for ever.
CatchesUp == <>[](phase = "open") => <>[](committed = logEnd)

\* Shutdown ends without waiting for any retry timer: the drained claim cannot
\* block on the semaphore because the cancelled context fails Acquire.
ShutdownEnds == closing ~> ~closing

\* Every record handed to the engine leaves it, over all sessions: no claim or
\* goroutine waits for ever for a permit, a timer or another record.
RecordsDrain == E!Drains

\* A cancelled context ends the wait for a retry before its timer fires.
WaitIsCancelled == E!CancelEndsWait
=============================================================================

------------------------------- MODULE Engine -------------------------------
(***************************************************************************)
(* The worker engine (internal/worker/engine.go).                          *)
(*                                                                         *)
(* A record is one delivery of a Kafka message.  Its claim goroutine calls *)
(* HandleRecord, which rejects the record or acquires a permit of the      *)
(* semaphore and spawns processRecord; from then on the record has a       *)
(* goroutine of its own.  pc[r] is the place where that record's control   *)
(* is; every call that other goroutines, Kafka or the provider can observe *)
(* is a step of its own, so that the records interleave between any two.   *)
(*                                                                         *)
(* Publishing never stops the control flow: an error of the publisher is   *)
(* logged and dropped (engine.go:473, 517), so it is the choice of an      *)
(* element of Acks that only the published data depend on.                 *)
(***************************************************************************)
EXTENDS Naturals, Sequences, FiniteSets

CONSTANTS
  Records,      \* deliveries
  Sessions,     \* consumer sessions; each owns the context of its deliveries
  Claims,       \* claim goroutines: each hands over its records one by one
  SessionOf,    \* [Records -> Sessions]
  ClaimOf,      \* [Records -> Claims]
  MaxAttempts,  \* Config.MaxAttempts
  Concurrency,  \* Config.WorkerConcurrency
  Results,      \* what Adapter.Send can return
  Delays,       \* what computeBackoff can return: "zero" or "positive"
  Acks          \* outcomes of a synchronous publish: TRUE = stored by Kafka

AllResults == {"ok", "permanent", "transient", "unknown", "deadline", "cancelled"}

\* NewEngine refuses any other configuration.
ConfigAccepted ==
  /\ MaxAttempts \in Nat /\ MaxAttempts >= 1
  /\ Concurrency \in Nat /\ Concurrency >= 1

ASSUME ConfigAssumption == ConfigAccepted
ASSUME RecordAssumption ==
  /\ IsFiniteSet(Records)
  /\ SessionOf \in [Records -> Sessions]
  /\ ClaimOf \in [Records -> Claims]
ASSUME EnvironmentAssumption ==
  /\ Results \subseteq AllResults
  /\ Delays \subseteq {"zero", "positive"}
  /\ Acks \subseteq BOOLEAN

VARIABLES
  kind,     \* what the payload of a record is
  pc,       \* where the control of a record is
  attempt,  \* the local variable of processRecord
  result,   \* what the last Send returned
  permits,  \* free permits of the semaphore
  done,     \* sessions whose context is cancelled
  sends,    \* history: calls of Adapter.Send
  status,   \* history: status events stored in the status topic
  dlq,      \* history: dead-letter records published, stored or not
  commits   \* history: calls of Committer.Commit

vars == <<kind, pc, attempt, result, permits, done, sends, status, dlq, commits>>

Kinds == {"valid", "invalid", "oversize"}

\* Inside HandleRecord, on the claim's goroutine.
HandlerStages == {"parse", "rejectStatus", "rejectDLQ", "rejectCommit", "acquire"}

\* Inside processRecord, holding a permit.
LoopStages == {"start", "attempt", "send", "sentStatus", "failStatus", "failDLQ",
               "commit", "backoff", "waiting", "release"}

Stages == {"new", "end", "dead"} \union HandlerStages \union LoopStages

Active == HandlerStages \union LoopStages

InFlight == {r \in Records : pc[r] \in LoopStages}

EventTypes == {"queued", "attempt", "sent", "failed"}
Events     == [type : EventTypes, attempt : Nat]

FailureTypes == {"validation", "permanent", "transient", "unknown"}
DeadLetters  == [type : FailureTypes, attempts : Nat, stored : BOOLEAN]

Cancelled(r) == SessionOf[r] \in done

-----------------------------------------------------------------------------
(* The collaborators the engine calls.                                     *)

\* publishStatus: the event reaches the topic or its error is logged.
PublishStatus(r, type, n) ==
  \E ack \in Acks :
    status' = IF ack THEN [status EXCEPT ![r] = Append(@, [type |-> type, attempt |-> n])]
                     ELSE status

\* publishDLQ: likewise; the call itself is remembered in both cases.
PublishDLQ(r, type, n) ==
  \E ack \in Acks :
    dlq' = [dlq EXCEPT ![r] = @ \union {[type |-> type, attempts |-> n, stored |-> ack]}]

\* commitRecord: the error of the committer is logged and dropped.
CommitRecord(r) == commits' = [commits EXCEPT ![r] = @ + 1]

Goto(r, from, to) == pc[r] = from /\ pc' = [pc EXCEPT ![r] = to]

-----------------------------------------------------------------------------
(* Slips that the properties below must notice: each stands in for the      *)
(* definition named in its comment when the checks are themselves checked. *)

\* AfterSend with one attempt too many.
OneAttemptMore(r, res) ==
  CASE res = "ok" -> "sentStatus"
    [] res \in {"cancelled", "deadline"} -> "release"
    [] res = "permanent" -> "failStatus"
    [] res \in {"transient", "unknown"} ->
         IF attempt[r] > MaxAttempts THEN "failStatus" ELSE "backoff"

\* AfterSend with an interrupted call committed.
CommitInterrupted(r, res) ==
  CASE res = "ok" -> "sentStatus"
    [] res \in {"cancelled", "deadline"} -> "commit"
    [] res = "permanent" -> "failStatus"
    [] res \in {"transient", "unknown"} ->
         IF attempt[r] >= MaxAttempts THEN "failStatus" ELSE "backoff"

\* RejectStatus with the commit before the dead letter.
RejectCommitsFirst(r) ==
  /\ Goto(r, "rejectStatus", "rejectDLQ")
  /\ PublishStatus(r, "failed", 0)
  /\ CommitRecord(r)
  /\ UNCHANGED <<kind, attempt, result, permits, done, sends, dlq>>

\* AcquireFails as the refusal of a TryAcquire, with no look at the context.
TryAcquireFails(r) ==
  /\ Cancelled(r) \/ permits = 0
  /\ Goto(r, "acquire", "end")
  /\ UNCHANGED <<kind, attempt, result, permits, done, sends, status, dlq, commits>>

\* AcquireFails with a permit given back that was never taken.
AcquireFailsReleasing(r) ==
  /\ Cancelled(r)
  /\ Goto(r, "acquire", "end")
  /\ permits' = permits + 1
  /\ UNCHANGED <<kind, attempt, result, done, sends, status, dlq, commits>>

\* FailureType with unknown errors counted as transient.
UnknownIsTransient(res) == IF res = "permanent" THEN res ELSE "transient"

\* StartCancelled before the deferred release is registered.
StartCancelledLeaks(r) ==
  /\ Cancelled(r)
  /\ Goto(r, "start", "end")
  /\ UNCHANGED <<kind, attempt, result, permits, done, sends, status, dlq, commits>>

\* Start with the attempts counted from 0.
StartAtZero(r) ==
  /\ ~Cancelled(r)
  /\ Goto(r, "start", "attempt")
  /\ PublishStatus(r, "queued", 0)
  /\ UNCHANGED <<kind, attempt, result, permits, done, sends, dlq, commits>>

\* SentStatus without the return after it.
SentFallsThrough(r) ==
  /\ Goto(r, "sentStatus", "failStatus")
  /\ PublishStatus(r, "sent", attempt[r])
  /\ UNCHANGED <<kind, attempt, result, permits, done, sends, dlq, commits>>

\* RetryAtOnce with the attempt not counted.
RetryUncounted(r) ==
  /\ "zero" \in Delays
  /\ Goto(r, "backoff", "attempt")
  /\ UNCHANGED <<kind, attempt, result, permits, done, sends, status, dlq, commits>>

\* WaitCancelled when the wait is a time.Sleep.
SleepsThrough(r) == FALSE

\* Release forgotten.
ReleaseForgotten(r) ==
  /\ Goto(r, "release", "end")
  /\ UNCHANGED <<kind, attempt, result, permits, done, sends, status, dlq, commits>>

-----------------------------------------------------------------------------
(* HandleRecord                                                            *)

\* The claim goroutine enters the handler; the size guard comes first.
HandleRecord(r) ==
  /\ \A q \in Records : ClaimOf[q] = ClaimOf[r] => pc[q] \notin HandlerStages
  /\ Goto(r, "new", IF kind[r] = "oversize" THEN "rejectStatus" ELSE "parse")
  /\ UNCHANGED <<kind, attempt, result, permits, done, sends, status, dlq, commits>>

\* All three validators return ctx.Err() before they look at the payload, and
\* the engine treats every validator error alike.
ParseAndValidate(r) ==
  /\ Goto(r, "parse", IF Cancelled(r) \/ kind[r] = "invalid" THEN "rejectStatus" ELSE "acquire")
  /\ UNCHANGED <<kind, attempt, result, permits, done, sends, status, dlq, commits>>

RejectStatus(r) ==
  /\ Goto(r, "rejectStatus", "rejectDLQ")
  /\ PublishStatus(r, "failed", 0)
  /\ UNCHANGED <<kind, attempt, result, permits, done, sends, dlq, commits>>

RejectDLQ(r) ==
  /\ Goto(r, "rejectDLQ", "rejectCommit")
  /\ PublishDLQ(r, "validation", 0)
  /\ UNCHANGED <<kind, attempt, result, permits, done, sends, status, commits>>

RejectCommit(r) ==
  /\ Goto(r, "rejectCommit", "end")
  /\ CommitRecord(r)
  /\ UNCHANGED <<kind, attempt, result, permits, done, sends, status, dlq>>

\* semaphore.Acquire fails whenever the context is done, even with a free permit.
Acquire(r) ==
  /\ permits > 0 /\ ~Cancelled(r)
  /\ Goto(r, "acquire", "start")
  /\ permits' = permits - 1
  /\ UNCHANGED <<kind, attempt, result, done, sends, status, dlq, commits>>

AcquireFails(r) ==
  /\ Cancelled(r)
  /\ Goto(r, "acquire", "end")
  /\ UNCHANGED <<kind, attempt, result, permits, done, sends, status, dlq, commits>>

-----------------------------------------------------------------------------
(* processRecord                                                           *)

\* The failure type of the dead letter written when the loop gives up.
FailureType(res) ==
  IF res \in {"permanent", "transient"} THEN res ELSE "unknown"

\* The context may be cancelled between Acquire and the goroutine's first step.
StartCancelled(r) ==
  /\ Cancelled(r)
  /\ Goto(r, "start", "release")
  /\ UNCHANGED <<kind, attempt, result, permits, done, sends, status, dlq, commits>>

Start(r) ==
  /\ ~Cancelled(r)
  /\ Goto(r, "start", "attempt")
  /\ PublishStatus(r, "queued", 0)
  /\ attempt' = [attempt EXCEPT ![r] = 1]
  /\ UNCHANGED <<kind, result, permits, done, sends, dlq, commits>>

BeginAttempt(r) ==
  /\ Goto(r, "attempt", "send")
  /\ PublishStatus(r, "attempt", attempt[r])
  /\ UNCHANGED <<kind, attempt, result, permits, done, sends, dlq, commits>>

\* Where the loop goes after Send returned res.
AfterSend(r, res) ==
  CASE res = "ok" -> "sentStatus"
    [] res \in {"cancelled", "deadline"} -> "release"
    [] res = "permanent" -> "failStatus"
    [] res \in {"transient", "unknown"} ->
         IF attempt[r] >= MaxAttempts THEN "failStatus" ELSE "backoff"

\* The adapter reports context.Canceled only if the context is cancelled; a
\* DeadlineExceeded may come from a timeout of its own.
Send(r) ==
  \E res \in Results :
    /\ res = "cancelled" => Cancelled(r)
    /\ Goto(r, "send", AfterSend(r, res))
    /\ result' = [result EXCEPT ![r] = res]
    /\ sends' = [sends EXCEPT ![r] = @ + 1]
    /\ UNCHANGED <<kind, attempt, permits, done, status, dlq, commits>>

SentStatus(r) ==
  /\ Goto(r, "sentStatus", "commit")
  /\ PublishStatus(r, "sent", attempt[r])
  /\ UNCHANGED <<kind, attempt, result, permits, done, sends, dlq, commits>>

FailStatus(r) ==
  /\ Goto(r, "failStatus", "failDLQ")
  /\ PublishStatus(r, "failed", attempt[r])
  /\ UNCHANGED <<kind, attempt, result, permits, done, sends, dlq, commits>>

FailDLQ(r) ==
  /\ Goto(r, "failDLQ", "commit")
  /\ PublishDLQ(r, FailureType(result[r]), attempt[r])
  /\ UNCHANGED <<kind, attempt, result, permits, done, sends, status, commits>>

Commit(r) ==
  /\ Goto(r, "commit", "release")
  /\ CommitRecord(r)
  /\ UNCHANGED <<kind, attempt, result, permits, done, sends, status, dlq>>

\* wait(ctx, 0) returns true without a look at the context.
RetryAtOnce(r) ==
  /\ "zero" \in Delays
  /\ Goto(r, "backoff", "attempt")
  /\ attempt' = [attempt EXCEPT ![r] = @ + 1]
  /\ UNCHANGED <<kind, result, permits, done, sends, status, dlq, commits>>

BeginWait(r) ==
  /\ "positive" \in Delays
  /\ Goto(r, "backoff", "waiting")
  /\ UNCHANGED <<kind, attempt, result, permits, done, sends, status, dlq, commits>>

\* The select of wait may take the timer's branch although the context is done.
TimerFires(r) ==
  /\ Goto(r, "waiting", "attempt")
  /\ attempt' = [attempt EXCEPT ![r] = @ + 1]
  /\ UNCHANGED <<kind, result, permits, done, sends, status, dlq, commits>>

WaitCancelled(r) ==
  /\ Cancelled(r)
  /\ Goto(r, "waiting", "release")
  /\ UNCHANGED <<kind, attempt, result, permits, done, sends, status, dlq, commits>>

\* The deferred semaphore.Release(1), on every return of processRecord.
Release(r) ==
  /\ Goto(r, "release", "end")
  /\ permits' = permits + 1
  /\ UNCHANGED <<kind, attempt, result, done, sends, status, dlq, commits>>

-----------------------------------------------------------------------------
(* The environment                                                         *)

\* A rebalance, a shutdown or a lost claim cancels the context of a session.
Cancel(s) ==
  /\ s \notin done
  /\ done' = done \union {s}
  /\ UNCHANGED <<kind, pc, attempt, result, permits, sends, status, dlq, commits>>

\* The process dies; what is in Kafka stays, every goroutine is gone, and a
\* new process starts with a fresh semaphore.
Crash ==
  /\ \E r \in Records : pc[r] \in Active
  /\ pc' = [r \in Records |-> IF pc[r] \in Active THEN "dead" ELSE pc[r]]
  /\ permits' = Concurrency
  /\ UNCHANGED <<kind, attempt, result, done, sends, status, dlq, commits>>

-----------------------------------------------------------------------------

Init ==
  /\ kind \in [Records -> Kinds]
  /\ pc = [r \in Records |-> "new"]
  /\ attempt = [r \in Records |-> 0]
  /\ result = [r \in Records |-> "none"]
  /\ permits = Concurrency
  /\ done = {}
  /\ sends = [r \in Records |-> 0]
  /\ status = [r \in Records |-> <<>>]
  /\ dlq = [r \in Records |-> {}]
  /\ commits = [r \in Records |-> 0]

\* What the goroutine that carries r does, the timer of wait left out.
CodeStep(r) ==
  \/ ParseAndValidate(r) \/ RejectStatus(r) \/ RejectDLQ(r) \/ RejectCommit(r)
  \/ Acquire(r) \/ AcquireFails(r)
  \/ StartCancelled(r) \/ Start(r) \/ BeginAttempt(r) \/ Send(r)
  \/ SentStatus(r) \/ FailStatus(r) \/ FailDLQ(r) \/ Commit(r)
  \/ RetryAtOnce(r) \/ BeginWait(r) \/ WaitCancelled(r) \/ Release(r)

Next ==
  \/ \E r \in Records : HandleRecord(r) \/ CodeStep(r) \/ TimerFires(r)
  \/ \E s \in Sessions : Cancel(s)
  \/ Crash

Spec == Init /\ [][Next]_vars

\* The Go scheduler runs every runnable goroutine; calls of the adapter and of
\* the producer return.  An armed timer fires, but nothing may depend on it
\* once the context of the record is cancelled.
CodeFairness  == \A r \in Records : WF_vars(CodeStep(r))
TimerFairness == \A r \in Records : WF_vars(TimerFires(r) /\ ~Cancelled(r))

FairSpec == Spec /\ CodeFairness /\ TimerFairness

-----------------------------------------------------------------------------
(* Invariants                                                              *)

\* Types; the permits stay within the size of the semaphore.
TypeOK ==
  /\ kind \in [Records -> Kinds]
  /\ pc \in [Records -> Stages]
  /\ attempt \in [Records -> Nat]
  /\ result \in [Records -> AllResults \union {"none"}]
  /\ permits \in 0..Concurrency
  /\ done \in SUBSET Sessions
  /\ sends \in [Records -> Nat]
  /\ status \in [Records -> Seq(Events)]
  /\ dlq \in [Records -> SUBSET DeadLetters]
  /\ commits \in [Records -> Nat]

\* Every permit is either free or held by exactly one running processRecord,
\* over all the returns of the loop, cancellations and crashes: never more
\* than WORKER_CONCURRENCY records are in flight and no permit leaks.
PermitsAccounted == permits + Cardinality(InFlight) = Concurrency

\* The place of an event in the life of a delivery.
Rank(e) ==
  CASE e.type = "queued" -> 0
    [] e.type = "attempt" -> e.attempt
    [] e.type \in {"sent", "failed"} -> MaxAttempts + 1

\* Whatever events are lost, the status topic shows a delivery as queued, then
\* attempts in ascending order, then at most one final event and nothing more.
Ascending(log) == \A i, j \in 1..Len(log) : i < j => Rank(log[i]) < Rank(log[j])

StatusOrdered == \A r \in Records : Ascending(status[r])

\* A record is committed at most once per delivery, and only when its outcome
\* is decided: the provider took it, or the DLQ publisher was called for it.
OutcomeBeforeCommit ==
  \A r \in Records :
    commits[r] > 0 => commits[r] = 1 /\ (result[r] = "ok" \/ dlq[r] # {})

\* The dead letter tells the truth about the delivery: attempts is the number
\* of calls the provider saw, validation means it saw none, permanent means the
\* last call said so, transient and unknown mean that the budget is used up.
Honest(r) ==
  \A d \in dlq[r] :
    /\ d.attempts = sends[r]
    /\ d.type = "validation" <=> sends[r] = 0
    /\ d.type = "permanent"  <=> result[r] = "permanent"
    /\ d.type = "unknown"    <=> result[r] = "unknown"
    /\ d.type \in {"transient", "unknown"} => sends[r] = MaxAttempts

\* Every dead letter tells the truth about its delivery.
DeadLetterHonest == \A r \in Records : Honest(r)

\* A delivery that ends uncommitted was interrupted (its context is cancelled
\* or its adapter hit a deadline), and it leaves neither a dead letter nor a
\* final status behind that a redelivery would contradict.
DeferredLeavesNoTrace ==
  \A r \in Records :
    pc[r] = "end" /\ commits[r] = 0 =>
      /\ Cancelled(r) \/ result[r] = "deadline"
      /\ dlq[r] = {} /\ result[r] # "ok"
      /\ \A i \in 1..Len(status[r]) : status[r][i].type \in {"queued", "attempt"}

\* Two dead letters for one delivery would make a replay send twice; a dead
\* letter of a message that was sent would make a replay send again.
SingleOutcome ==
  \A r \in Records :
    /\ \A d, e \in dlq[r] : d = e
    /\ dlq[r] # {} => result[r] # "ok"
    /\ \A i \in 1..Len(status[r]) : status[r][i].type = "sent" => dlq[r] = {}

\* Stages in which nothing is decided about the delivery yet.
OpenStages == {"new", "parse", "rejectStatus", "rejectDLQ", "acquire", "start", "attempt",
               "send", "failStatus", "failDLQ", "backoff", "waiting"}

\* How far the attempts of one delivery are at every stage of the loop.
Progress(r) ==
  /\ sends[r] <= MaxAttempts
  /\ pc[r] \in {"new", "start"} \union HandlerStages =>
       attempt[r] = 0 /\ sends[r] = 0 /\ result[r] = "none"
  /\ pc[r] \in {"attempt", "send"} =>
       /\ attempt[r] = sends[r] + 1 /\ attempt[r] <= MaxAttempts
       /\ result[r] \in {"none", "transient", "unknown"}
  /\ pc[r] \in {"backoff", "waiting"} =>
       /\ attempt[r] = sends[r] /\ attempt[r] < MaxAttempts
       /\ result[r] \in {"transient", "unknown"}
  /\ pc[r] = "sentStatus" => result[r] = "ok" /\ attempt[r] = sends[r] /\ sends[r] >= 1
  /\ pc[r] \in {"failStatus", "failDLQ"} =>
       /\ attempt[r] = sends[r] /\ sends[r] >= 1
       /\ result[r] = "permanent" \/ (result[r] \in {"transient", "unknown"} /\ sends[r] = MaxAttempts)

\* What has been decided about one delivery at every stage.
Decision(r) ==
  /\ pc[r] \in OpenStages => commits[r] = 0 /\ dlq[r] = {} /\ result[r] # "ok"
  /\ pc[r] = "sentStatus" => commits[r] = 0 /\ dlq[r] = {}
  /\ pc[r] \in {"commit", "rejectCommit"} =>
       commits[r] = 0 /\ (dlq[r] = {} <=> result[r] = "ok")
  /\ commits[r] # 0 => commits[r] = 1 /\ (dlq[r] = {} <=> result[r] = "ok")
  /\ pc[r] \in {"release", "end"} /\ commits[r] = 0 =>
       /\ dlq[r] = {} /\ result[r] # "ok"
       /\ Cancelled(r) \/ result[r] = "deadline"
  /\ dlq[r] # {} => result[r] # "ok"
  /\ \A d, e \in dlq[r] : d = e

\* The inductive invariant from which the invariants above about outcomes and
\* dead letters follow: together they describe every stage of the control.
DeliveryInv == \A r \in Records : Progress(r) /\ Decision(r) /\ Honest(r)

-----------------------------------------------------------------------------
(* Action properties                                                       *)

\* The provider is called again only after an answer that asks for a retry,
\* within the budget, and never for a committed record.
SendOnlyWhileOpen ==
  [][\A r \in Records :
       sends'[r] # sends[r] => /\ result[r] \in {"none", "transient", "unknown"}
                               /\ sends[r] < MaxAttempts
                               /\ commits[r] = 0]_vars

\* The commit is the last thing a delivery does that anybody can see.
QuietAfterCommit ==
  [][\A r \in Records :
       commits[r] > 0 => /\ status'[r] = status[r] /\ dlq'[r] = dlq[r]
                         /\ sends'[r] = sends[r] /\ commits'[r] = commits[r]]_vars

-----------------------------------------------------------------------------
(* Liveness                                                                *)

\* Every record handed to the engine leaves it (a crash apart, in which it
\* leaves with the process): no goroutine, claim or permit is blocked for ever.
Drains == \A r \in Records : pc[r] \in Active ~> pc[r] \in {"end", "dead"}

\* A cancelled context ends the wait for a retry although its timer never
\* fires, so that shutdown is not delayed by the backoff.
CancelEndsWait ==
  \A r \in Records : pc[r] = "waiting" /\ Cancelled(r) ~> pc[r] # "waiting"

-----------------------------------------------------------------------------
(* What the documents say and the code does not do                         *)

\* README.md:409: "use synchronous Kafka writes to guarantee durability before
\* offsets are committed".
DurableBeforeCommit ==
  \A r \in Records :
    commits[r] > 0 => result[r] = "ok" \/ \E d \in dlq[r] : d.stored

\* README.md:226, of the dead letter's field attempts: "| `attempts` | Yes | integer |
\* >=1 |".
AttemptsAtLeastOne == \A r \in Records : \A d \in dlq[r] : d.attempts >= 1

\* design_1.1.md:280: "The loop stops early if the context is cancelled; the
\* record will be reprocessed": a valid record is committed only if it was sent,
\* refused for good or tried as often as the configuration allows.
CancelledIsReprocessed ==
  \A r \in Records :
    kind[r] = "valid" /\ commits[r] > 0 =>
      result[r] \in {"ok", "permanent"} \/ sends[r] = MaxAttempts
=============================================================================

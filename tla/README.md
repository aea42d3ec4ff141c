# A verification project for the messaging service

TLA+ models, TLC checks and TLAPS proofs for the worker service in `src/`: three
processes (email, SMS, WhatsApp) that read requests from Kafka, send them through
a provider with retries, publish their life cycle to a status topic and their
failures to a dead-letter topic (DLQ), and acknowledge offsets.

Run everything from this directory: `tlc -workers 2 -config X.cfg M` checks a
run, `tlapm M.tla` a proof module. `PROJECT.json` lists the runs, the source lines
of every definition, the mutants that each property must notice, the hazards, the
findings and the theorems.

## 1. The system

| Component | State | Operations | Talks to |
|---|---|---|---|
| worker engine (`internal/worker/engine.go`) | a weighted semaphore; per record: attempt, last error | `HandleRecord`, `processRecord` (publish, send, back off, dead-letter, commit) | validator, adapter, publishers, committer; spawned by the claim's goroutine |
| retry delay (`engine.go`) | random source under a mutex | `computeBackoff`, `fullJitter`, `wait` | engine |
| consumer (`internal/kafka/consumer`) | group session, mark of the partition, `ready`, `committed` flag per record | `Consume`, `Setup`, `ConsumeClaim`, `Cleanup`, `Commit`, `Close` | consumer group library, engine through the bridge |
| bridge (`internal/worker/kafka_*.go`) | none | wraps a consumer record, binds its commit | consumer, engine |
| worker process (`cmd/*-worker/main.go`) | signal context | start-up, shutdown, closes in reverse order | everything |
| producer (`internal/kafka/producer`) | `ready`, stop channel, two background goroutines, the library's pipeline | `PublishSync`, `PublishAsync`, `watchMetadata`, `consumeAsyncErrors`, `Close` | brokers; called by the publishers |
| publishers (`internal/kafka/publisher`) | none | encode and publish a status event or a dead letter | producer |
| adapters (`internal/adapters/*`) | none | build a payload, classify a failure into a status and an error class | engine, provider |
| Twilio providers (`internal/providers/{sms,whatsapp}`) | recipient loop, last code and status | one HTTP request per recipient | Twilio |
| SMTP provider (`internal/providers/email`) | one SMTP transaction | `Send`, `deliver` | SMTP server |
| mock providers | random source; the email mock counts failures per message under a mutex | `Send` | adapter |
| validators, validation helpers | none | decode, set defaults, normalise addresses and metadata, check limits | engine |
| configuration (`internal/config`) | none | `Load`: read every setting, collect all errors | mains |
| provider factory, logger | none after start-up | choose a backend and construct it; parse the level | mains |
| models, health stub | none | records of events; empty | publishers |

What is hard here, and what correctness means for it (the full list, at its
lines, is under `hazards` in `PROJECT.json`):

* **The engine** runs one goroutine per record. A permit is taken on one
  goroutine and released on another over many return paths; the outcome of a
  delivery is a series of separate calls (status, dead letter, commit), any of
  which may fail, be overtaken by another record, by a cancellation or by a crash.
  Correct means: no permit leaks, no commit before an outcome, at most one outcome,
  a dead letter that says what happened, a status topic in order, nothing
  left behind by a deferred delivery.
* **The consumer** acknowledges offsets, and Kafka reads an offset as everything
  below it, while records finish out of order, sessions end under
  running goroutines and commits may fail. Correct means: offsets never move back,
  nothing is skipped without an outcome, the backlog is consumed.
* **The worker process** must shut down without waiting for retry timers although
  its claim may be blocked on the semaphore.
* **The producer** has one readiness flag written by four kinds of goroutine with
  results that may be stale, and a `Close` that must order the ends of goroutines,
  pipeline and clients.
* **Adapters and providers** decide from codes and texts whether a failure costs
  the message its remaining attempts, and a partial failure of a recipient list is
  retried as a whole. The email mock's failure count is shared by all deliveries of
  a message.
* **A request's way to the wire** leads through three components that each have
  their own idea of recipients and of key names, over Go maps whose iteration order
  differs each time. Correct means: whoever the request names is reached once, in
  every order of the maps, and neither metadata nor Kafka headers replace the sender,
  the recipients or the text (which fails for keys like `to_`, section 6, 6).
* **Start-up** checks the same settings in `Load`, in the factory, in constructors
  and in `NewEngine`, over some fifty values that may be missing, blank, unreadable or
  out of range, and converts seconds to durations that may wrap. Correct means: a
  worker that runs does what was written, and one that does not run has a cause.

## 2. Modules

```
 Delivery          what the engine promises about a delivery (abstract)
    ^ refined by
 Engine            internal/worker/engine.go
    |-- EngineRefinement         the mapping from Engine to Delivery
    |-- EngineProofs, EngineRefinementProofs      theorems
    |-- Worker     Engine + consumer + bridge + shutdown, over sessions and restarts
    |      |-- WorkerProofs, WorkerSerialProofs     theorems
    |-- Dispatch   Engine + Adapters + providers, real and mock
           |-- DispatchProofs    theorems
 Adapters          classification of failures (operators)
 Requests          validator, payload and wire format of a request
 Backoff           the retry delay on machine integers
    |-- Startup    configuration, main, provider factory; the delays of a worker
           |-- StartupProofs     theorems
 Producer          the Kafka producer
    |-- ProducerProofs           theorems
 MC*               instances for TLC; MCAdapters composes Adapters and Requests
    |-- AdaptersProofs           theorems about MCAdapters for any requests
```

**Engine.** `pc[r]` is the place of a record's control. The stages in
`HandlerStages` run on the claim's goroutine (one record at a time per claim), those
in `LoopStages` in `processRecord`, holding a permit. A step is one call that
someone else can observe, or one decision: `HandleRecord` (size guard),
`ParseAndValidate`, `RejectStatus/DLQ/Commit`, `Acquire`/`AcquireFails`,
`Start`/`StartCancelled`, `BeginAttempt`, `Send`, `SentStatus`,
`FailStatus`, `FailDLQ`, `Commit`, `RetryAtOnce`, `BeginWait`, `TimerFires`,
`WaitCancelled`, `Release`. The context of a record is that of its session:
`Cancel(s)` may happen at any time. `Crash` kills every goroutine and restores the
semaphore. `status`, `dlq`, `sends` and `commits` are histories of what the outside
has seen. Publishing errors are logged and dropped in the code, so a publish
chooses an element of `Acks` on which only the stored data depend. `Results` are the
kinds of answer the engine tells apart (`errors.Is` on `ErrPermanent`, `ErrTransient`
and the two context errors, anything else is `unknown`); a `cancelled` answer
needs a cancelled context.

**Delivery.** A delivery is taken up, resolved as sent or dead-lettered, or
abandoned, and acknowledged at most once and only when resolved.
`EngineRefinement` computes that state from the engine's variables.

**Worker.** One partition is a log `0..logEnd-1`; a delivery is `<<session, offset>>`
and the engine is instantiated on those, so late goroutines of an earlier session
run beside the next session. `ConsumerCommit` is `Consumer.Commit`: mark the offset,
flush the mark when `COMMIT_ON_SUCCESS_ONLY` is set; both do nothing for a session
that has been released. `Join`, `ConsumeClaim`, `EndSession` (by `Rebalance` or
`Shutdown`), `Release` (`Cleanup`), `Exit` and `Crash` are the life of a session and
of the process. When a session is cancelled, the claim's channel is closed but still
yields what had been fetched: `buffered` is chosen, and `ConsumeClaim` drains it
because the loop never looks at the context. Offsets marked and flushed, the
automatic commit and the claim's channel belong to the library and are `external`.
After a signal, the deferred calls of `main` run in order: `Close` of the consumer waits
for the release of the session, then `CloseProducer` closes the producer, then `Exit`.
Goroutines of the engine that are late run on; once `producerClosed` holds they are
steps of `Late`, the engine whose publishes are never acknowledged. `FirstOffsets` says
whether the group has committed before: a group without an offset joins at the end of
the log, so that messages produced earlier are skipped, which is what the consumer asks
for (`OffsetNewest`).

**Dispatch.** The engine's `Send` in detail: for SMS and WhatsApp the loop over the
recipients with one request each and the return on the first error, for email the
one transaction for all. A request may be accepted, accepted with the confirmation
lost, refused, throttled, fail without arriving, or be cut by the cancelled context
(arriving or not). The error is classified by `Adapters` from the response the
provider returns with it, including the code kept from the previous recipient, and from
its text. That text quotes the network or the server: `ErrorsOf` lets it hold "invalid",
as an outage's "invalid argument" does, or name any SMTP code; only that of a context
error is fixed. `said` remembers whether the last text reads like a rejection.
With `backend = "mock"` the message itself chooses the answer (`scenario`, and for email
a number of first attempts that fail). `remaining` is the map `failureState` of the
email mock, which two deliveries of one message share and a restart forgets. Only the
email mock goes on under a done context, when the message asks for no latency.

**Adapters.** `Status` is the provider status in the event, `Class` the error class
the engine acts on, for each channel, from the Twilio code, the words found in the
status text, the HTTP or SMTP code and the words found in the error text.
`MCAdapters` enumerates the failed calls that the repository's providers can report. The
SMTP provider's error quotes the server's reply, so its text may name a code other than
the response's.

**Requests.** The steps `Validate`, `BuildPayload` and `Prepare` take a request from the
consumer to the SMTP envelope and header or to the parameters of the HTTP requests. An
address is its normalised form with the way it was written; a metadata key is its words,
what separates them, a separator at its edge, its case and surrounding spaces; a value is a
text with a size. The filter of the Twilio providers (`Reserved`) compares the whole key, and
`ParamName` strips separators at the edge afterwards, so that `to_` is not filtered and
becomes `To`. A
loop over a Go map is `Sweep`, which takes the order of iteration as a parameter, and the
steps choose the order. `Metadata` (`ValidateMetadata`), `MessageHeader`
(`buildMessage`) and `Params` (the Twilio form) are such loops; `Trimmed`, `HeaderNames` and
`ParamNames` say which keys each keeps and what it calls them.

**Backoff.** `ComputeBackoff` on integers of `Width` bits. The conversion of an
out-of-range float to a duration depends on the platform (least integer on amd64,
nearest on arm64), and `int64(max) + 1` wraps; `Int63n` panics on a
non-positive argument.

**Startup.** `main` as a chain of stages: `Load`, `NewLogger`, `NewKafka`, `NewProvider`,
`NewEngine`, each of which goes on or ends the process, and then `RetryRecord`, the retries
of `Backoff` with the delays that were configured. An environment gives each setting a form
(unset, blank, number, flag, text, list) and a value; `Value` is what the getters of
`config.go` make of it, `LoadErrors` what `Load` complains about, over all settings at
once. `ProviderAccepts` and `EngineAccepts` are the later checks, `Duration` the conversion
of seconds that wraps around. Settings that no worker acts on (`BACKOFF_STRATEGY`,
`BACKOFF_JITTER`, `PROVIDER_TIMEOUT_SECONDS`, those of the health check) are read and
checked like the others.

**Producer.** A goroutine learns the outcome of its Kafka call in one step and stores
the readiness flag in a later one. The asynchronous pipeline, the successes that
nobody reads, the watcher, the error logger and the stages of `Close` are separate
actors. `Flip` changes whether the brokers answer. Brokers that are up still refuse a
message that is at fault itself (`refused`: too large, no such topic), which clears the flag
like any other error. `PublishAsync` has no guard against a closed producer:
`PublishAsyncLate` is a publisher that comes during or after `Close`, which in the end sends
on a closed channel and panics.

The three mains, the two Twilio providers and the adapters are near copies of each
other. One definition stands for all copies; `map` in `PROJECT.json` names one of
them for each definition, and the definitions differ by channel only where the
copies do (`ThrottlingCodes`, `SMSTextStatus`/`WhatsAppTextStatus`, `Batch`).

Most modules have a section of "slips": variants of its definitions with one
plausible mistake each. They are not part of the model; replacing a definition by
its slip must make TLC find the property named in `PROJECT.json` violated.

## 3. Runs

| Run | Instance | Shows |
|---|---|---|
| `engine_safety` | 2 records in 2 claims and 2 sessions, 1 permit, 2 attempts, all results, delays and acks | all engine invariants, action properties, and `ImplementsDelivery` (3.4 M states) |
| `worker_offsets` | log of 2, 2 sessions, 1 crash, 1 failed flush, 2 permits, rebalance and shutdown, group new or not | `OffsetNeverRewinds`, `ResumesAfterSettled`, `StoredBeforeOffset` |
| `worker_serial` | log of 3, 2 sessions, 1 crash, 1 failed flush, 1 permit, no cancellation | `NothingLost`, `DeferredIsRedelivered` |
| `worker_live` | log of 2, 2 sessions, 1 failed flush, 1 permit, retries, automatic commit, fairness | `CatchesUp`, `ShutdownEnds`, `RecordsDrain`, `WaitIsCancelled` |
| `backoff` | about 1200 environments, 3 channels, 9-bit durations of 2 units per second, 12 attempts, both platforms | `StartsAsConfigured`, `RefusedForCause`, `DelayWithinLimit`, `JitterIsFull` |
| `adapters` | every code class and every combination of words, 3 channels; families of requests with every order of the maps | `StatusAgrees`, `OverloadIsRetried`; `AcceptedReachesAll`, `OwnFieldsKept`, `MapOrderHarmless` |
| `producer` | 2 callers, refused messages, late publishers, buffers of 2, 2 changes of the brokers, fairness | `NoLateReadiness`, `ReadinessConverges`, `ErrorsSurface`, `CloseReturns` |
| `dispatch` | 3 channels, real and mock, 2 deliveries of one message, 2 permits, 3 recipients, 2 attempts, all answers and texts, 0..2 failures asked for | `SentReachesAll`, `CopiesBounded`, `PermanentHasReason`, `MockRecovers` |
| `durable_before_commit`, `cancelled_is_reprocessed`, `overtaken`, `cut_call` | smallest instances | one documented promise each that the code does not keep (section 6, 1 to 4) |
| by hand: `MCEngine_AttemptsAtLeastOne.cfg`, `MCAdapters_disguised.cfg`, `MCAdapters_contradiction.cfg`, `MCProducer_refreshed.cfg` | smallest instances | four more (section 6, 5 to 8); not listed in `PROJECT.json` |

The runs switch off the deadlock check because all of these systems may come to
rest: records are finite, the log ends, the producer is closed.

Bounds. Two records suffice to make one wait for the other's permit, overtake
it, or survive into the next session; three offsets and two sessions let a lower
offset be acknowledged by a higher one and be looked for afterwards. Two attempts
give a first, a retried and a last attempt; the theorems of section 5 remove this
bound, and those on records and permits, for the engine. One crash and one failed
flush per behaviour allow every placement of each. In `backoff` nine bits
of two units per second overflow in `Duration` (bases of 130 s, caps of 128 s) and in the
product within the twelve attempts; the theorems of section 5 remove the width, the
attempts and the choice of environments. The environments are all selections of providers
with every credential in turn missing and each kind of port, one required setting missing
at a time, and the numbers of the retries at their edges. In `producer` a buffer of two is the
smallest that is neither empty nor full; two changes of the brokers let a stale
result of either value be stored after a newer one. In `dispatch` three
recipients give a first, a middle and a last one; two deliveries of one message are in the retry loop
at the same time and share the mock's count, and two asked failures against two attempts make it matter whether the count
survives a delivery. In `adapters` lists go one beyond their limit of two, and the keys
are chosen so that two to four of them are normalised to one name, by trimming, by
canonical case or by joining words; `to_`, `-to`, `To_`, `from_` and `-body` have a separator
at the edge. The theorems of section 5 remove these bounds.

`worker_offsets` uses a `VIEW` that leaves out `status`, `sends` and `commits`: no step reads
them, and the properties of that run other than their types do not either.
`worker_live` sets `Acks = {FALSE}`: whether a publish is acknowledged changes stored data
only, never control.

## 4. Fairness

`Engine` and `Worker` assume weak fairness of each record's code (`CodeStep`,
`EngineStep`): the scheduler runs every runnable goroutine, and calls of the adapter
and the producer return. (An SMTP server that stops answering violates the
latter: the connection has no deadline. This is a hazard without a property.)
Timers are weakly fair only while the record is not cancelled, so that
`ShutdownEnds` and `WaitIsCancelled` may not rest on a timer that happens to fire.
The consumer's own steps (`Join`, `ConsumeClaim`, `Release`, `AutoCommit`, `CloseProducer`,
`Exit`) are weakly fair: they run on goroutines that nothing else blocks.
Weak fairness of `Acquire` is enough because the set of records is finite: each
holder releases in the end and there are no endless newcomers; the semaphore itself
is first in, first out. Producers of messages, rebalances, signals, crashes and
failures of a flush are not fair, and nothing depends on them.
In `Producer` the two `select` statements that see the stop channel closed choose
at random among the ready branches, hence strong fairness of `StopWatcher` and
`StopLogger`; everything else is weakly fair.

`CatchesUp` is conditional on a session that stays open, `ReadinessConverges` on
brokers that stop changing and a producer that is not closed. With brokers that stay up the
flag is raised again and again; that it stays raised needs that no message is refused any
more and that the asynchronous input has room, since any failed publish clears it
(`ReadyMeansRefreshed` is the same without these conditions, and fails). With brokers that stay
away it stays down unconditionally. Callers need not publish: the watcher alone settles the
flag.

## 5. Proofs

`EngineProofs` and `EngineRefinementProofs` prove, for all finite sets of records,
all sessions, claims and retry budgets `>= 1`, and any number of permits `>= 1`:

* `TypeCorrect`, `PermitsAccountedAlways`, `ConcurrencyBound`: `TypeOK` and
  `PermitsAccounted` are inductive together; a permit moves exactly when a record
  enters or leaves the set `InFlight`, and the cardinality lemmas `AcquirePermit` and
  `ReleasePermit` turn that into arithmetic.
* `DeliveryInvAlways`: the inductive invariant. `OutcomeBeforeCommit` alone is not
  inductive: it does not say that a record at stage `commit` has an outcome, nor that
  one in the loop has no dead letter yet. `Progress` gives, at each stage, the attempt,
  the calls so far and the last answer; `Decision` what has been decided; `Honest`
  what the dead letter says. From it follow `OutcomeBeforeCommitAlways`,
  `DeadLetterHonestAlways` and `SendOnlyWhileOpenAlways`.
* `LogInvAlways`: what the status topic may already show at each stage; from it
  `StatusOrderedAlways`, `SingleOutcomeAlways`, `DeferredLeavesNoTraceAlways`, and with
  the invariants `QuietAfterCommitAlways`.
* `EngineImplementsDelivery`: each step of the engine, mapped by `EngineRefinement`,
  is a step of `Delivery` or a stutter.

Each step of `Next` touches one record (`StepTouchesOne`) or is a crash, so the
proofs look at one record at a time. The assumptions are those `Engine` states:
`ConfigAssumption` (what `NewEngine` checks), `RecordAssumption` (finite set of
records, typed session and claim functions) and `EnvironmentAssumption`. The same
`TypeOK`, `DeliveryInv` and properties are checked by `engine_safety`.

`StartupProofs` proves, for all environments whose settings are written as
`EnvironmentAssumption` says (a number is an integer, a text is not empty, only the brokers
are a list), every channel, platform, width of a duration and number of units per second:

* `RefusedForCauseAlways`, from `StageInv` (after `Load`, the configuration is what the
  getters make of the environment, without errors). `Understood`, `Selected` and
  `ConstructorAccepts` compare the checks of `Load` with those of the constructors.
* `StartsAsConfiguredAlways`, with `BuiltInv` (what each stage has handed on) and
  `DurationFits` (the conversion is exact for what fits).
* `DelayWithinLimitAlways` and `JitterIsFullAlways`, with `DelayInv`. `CappedDelay` is the
  algorithm for one attempt. That a power of two is positive is taken from the
  cardinality of a power set (`Power`), because the arithmetic of the prover stops at
  exponentiation.

`WorkerProofs` is about logs of every length and any number of sessions, crashes, rebalances
and refused commits:

* `WorkerImplementsEngine`: each step of a worker is a step of the engine over the
  deliveries `<<session, offset>>` or leaves the engine's variables alone. By it, and by
  instantiating the theorems of `EngineRefinementProofs`, `EngineHoldsInWorker` and
  `WorkerImplementsDelivery` carry over what was proved of the engine. `WorkerTypeCorrect`
  adds the types of offsets, sessions and the bounds between them.
* `OffsetNeverRewindsAlways` needs `MarkInv`: while a session is open or draining, the
  group's offset is not beyond its mark, and every flush stores the mark.
* `ResumesAfterSettledAlways`: not inductive, since a mark becomes the group's offset later.
  `SettledInv` says that mark and offset both lie behind a message with an outcome;
  that a record at its commit has one comes from `DeliveryInv` of the engine, that an
  outcome is never taken back from `OutcomeKept`.
* `StoredBeforeOffsetAlways`: with acknowledging brokers, what is marked is stored as
  well. `StoredInv` says that while the producer is open every delivery under way has
  stored what it published; `WorkerInv` that the producer is closed only when no session is
  left, and then `Consumer.Commit` changes nothing.

`WorkerSerialProofs` proves `NothingLostWhenSerial` and `DeferredIsRedeliveredWhenSerial`
under `Serial`: a group with an offset, valid payloads, one permit, no rebalance or shutdown
and no provider that gives up at a deadline. These are the constants of `worker_serial`, for
logs of every length and any number of crashes, refused flushes and attempts. The
hypotheses are not a matter of convenience: without any of the last four a later offset
overtakes an undecided delivery (section 6, 3, for the permits). `SerialInv` places every
delivery: the claim goroutine carries the record before `position`, what lies between
the mark and `position` was handed over, and everything handed over below the mark, or below
the group's offset, came to an outcome.

`DispatchProofs` is about any lists of recipients, budgets, scenarios of mocks and
channels:

* `DispatchImplementsEngine`: the providers do nothing that an arbitrary `Send` may not do.
  `DispatchTypeCorrect` has the types, with `LoopInv` for the loop over the recipients.
* `SentReachesAllAlways` and `CopiesBoundedAlways`, from `CopiesInv`: the number of copies
  of each recipient against `next`, `open` and `attempt`, for the call that runs and for those that
  have ended.
* `PermanentHasReasonAlways`, from `ReasonInv`: a call that is judged permanent ends with a
  refusal, or with an outage or SMTP throttling whose text reads like one; a throttled
  Twilio request and a cut call are never judged so. It needs every entry of the tables in
  `Adapters`, the code that a later recipient inherits and every text of `ErrorsOf`.
* `MockRecoversAlways`, from `BudgetsInv` and `CountInv`: the failed calls of all deliveries of
  one message and what `remaining` has left add up. That is a statement about a sum
  over a set (`MapThenSumSet`); `TotalIsSum` and `TotalGrows` prove what such a sum is and how
  it changes when one term does.

`ProducerProofs` proves the action property `NoLateReadinessAlways` for any set of callers and
size of the buffers: behind `wg.Wait` watcher and error logger have stopped, so that only the
publishes of callers can raise readiness. It rests on the lemma `ProducerTypeCorrect`.

`AdaptersProofs` is about any set of requests whose channels, lists and maps are what
`InputsAssumption` says (finite maps, keys with the five parts), any limits and every order
of iteration:

* `SweepResult` and `UniqueResult` say what the two loops compute. `SweepsAgree` follows:
  two orders of one map give the same names, and the same value for every name that one key
  alone is written to.
* `RequestInv` says what each step has left behind; by it `MapOrderHarmlessAlways`,
  `AcceptedReachesAllAlways` (with `AcceptedHasRecipients`: nothing the validator accepts is
  refused by the provider) and `OwnFieldsKeptAlways`. Both need `NoneProtected`: a key that
  passes the filter of the Twilio providers and is written to To, From or Body is a
  `Disguised` one, in lower case with a separator at its edge. `Brought` says that such a key
  comes from the metadata or the Kafka headers of the request.
* `StatusAgreesAlways` and `OverloadIsRetriedAlways`, for every response and error that
  satisfies `Reported`, which only asks that the channel exists and that the codes of response
  and text are integers; the two need not be equal. The exceptions of `StatusAgrees` are part
  of the statement: `TextContradicts`, and an SMS whose text alone decides.

Sums and loops are folds, and the library's induction theorems take an operator as a
parameter, which no prover here can instantiate. The lemmas about folds go round it: the
recursive function of a fold exists because there is no least number of elements without
one (`NatMinimum`, from the well-foundedness of `<`), and a statement about every prefix holds because
there is no first prefix without it.

The assumptions on constants are those the modules state and every run evaluates:
`WorkerAssumption`, `DispatchAssumption`, `ProducerAssumption`, `InputsAssumption`, and for modules that
instantiate the engine `EngineAssumption`, which hands on what `NewEngine` checks.

With this every invariant and every safety property of an action that a passing run checks is
also a theorem. Only model-checked: liveness (`CatchesUp`, `ShutdownEnds`, `RecordsDrain`, `WaitIsCancelled`,
`ReadinessConverges`, `CloseReturns`, `ErrorsSurface`), since leads-to under fairness and ENABLED are
out of the proof system's reach, and the runs that refute a sentence of the documents.

## 6. Where the documents and the code disagree

1. `durable_before_commit`: README.md:409 promises durability before offsets are
   committed; an error of the DLQ publish is dropped (`engine.go:517`) and the offset is
   committed.
2. `cancelled_is_reprocessed`: design_1.1.md:280 says a cancelled record will be
   reprocessed; a valid record that reaches the validator after the cancellation is
   dead-lettered as a validation failure and committed (`engine.go:266`).
3. `overtaken`: at-least-once (design_1.1.md:41) and "manual commit only after final
   handling" (design_1.0.md:543); with more than one permit, the commit of a later
   record acknowledges an earlier one in flight (`consumer.go:185`), and a crash loses it.
   `worker_serial` shows that one permit and no cancellation restore the promise.
4. `cut_call`: the adapters flatten the provider's error (`common/errors.go:20`), so
   the engine's branch for a cancelled call (`engine.go:361`) is never taken with a real
   adapter; on the last attempt a call cut by shutdown is dead-lettered.

The next four are shown in the same way, by a configuration of their own that TLC must find
violated (`tlc -config X.cfg M`, with `MCEngine`, `MCAdapters`, `MCAdapters`, `MCProducer`):

5. `MCEngine_AttemptsAtLeastOne.cfg`: README.md:226 wants at least 1 in `attempts` of a dead
   letter; those of validation failures carry 0 (`engine.go:290`).
6. `MCAdapters_disguised.cfg`, `PerRecipient`: design_1.1.md:308 describes a loop per
   recipient; a metadata or Kafka key `to_` or `-to` passes the filter (`sms/twilio_provider.go:201`), is normalised to
   `To` (`:326`) and redirects every request of the loop. `from_` and `-body` replace sender
   and text in the same way; `AcceptedReachesAll` and `OwnFieldsKept` show that no other keys
   do.
7. `MCAdapters_contradiction.cfg`, `RateLimitedIsTransient`: design_1.0.md:427 returns
   `rate_limited` together with `ErrTransient`; the status is decided by the response's code, the class by the code in the
   error's text (`email/adapter.go:197`, `:213`). A server that says `421 ... smtp 530` costs
   the message its attempts under the status `rate_limited`.
8. `MCProducer_refreshed.cfg`, `ReadyMeansRefreshed`: `producer.go:199` explains the flag by
   metadata refreshes; any failed publish clears it too (`producer.go:149`), so that a caller with messages that are
   too large keeps it from settling while every refresh succeeds.

Seen while modelling, without a run: a failed flush of an offset is not retried
before the process exits (design_1.0.md:544); the SMS adapter reports `unknown`
or `rate_limited` for errors whose text makes them permanent (`sms/adapter.go:242`
against `:277`), unlike WhatsApp; an outage whose text holds "invalid" is a permanent
failure for both (`sms/adapter.go:277`), so that it costs the message its attempts;
`PublishAsync` panics after `Close`.

Exceptions that `OwnFieldsKept` names: the keys of 6, metadata `media_url`, which is sent to
Twilio as `MediaUrl` for every kind of body, and an email without a subject, which takes that
of a Kafka header.

## 7. Plan

Done, in this order: Engine with its invariants and refinement, their proofs,
Worker, Backoff, Producer, Adapters, Dispatch; then Startup with its proofs, Requests,
the mock providers, the closing of the producer under late goroutines and new groups
in Worker, and the proof about offsets.

Then the proofs about Worker, its serial configuration, Dispatch, Producer and the two
sides of the adapters; then keys with separators at the edge, error texts that quote a
server or the network, refused messages and late publishers, in models and proofs.

Next, most important first:

1. The safety parts of the liveness properties that can be stated without fairness: what a
   drained claim or a closed producer leaves enabled.
2. Several partitions with claims in parallel, which share the permits but no offset.

Not modelled:

* health: an empty package in this version.
* `ParseRFC3339`, `EnsureMaxBytes`, `EnsureMaxRunes`, `ValidateHTTPURL` and
  `ValidateTemplateID` in `validation.go`: no worker calls them.
* Encoding of events and dead letters, the texts and codes that are only copied into status
  events, URL encoding, MIME layout, logging: pure input and output without a decision
  that the properties tell apart. The `whatsapp:` prefix of addresses is part of the address.
* The steps of the SMTP dialogue (connect, TLS, AUTH, MAIL, RCPT, DATA) are one request
  whose outcome is any of the answers; a server that stops answering has no deadline, which
  the fairness of `Send` excludes and the hazards name.
* `Consume` stores `c.cancel` without a lock while `Close` reads it: in the mains both run
  so that the context passed to `Consume` is cancelled as well, and nothing depends on
  which of the two ends the session.
* The reading of `.env` files: it fills in what is unset before `Load` looks.
* Log levels other than the named ones (`zerolog` also parses numbers).

------------------------------ MODULE Dispatch ------------------------------
(***************************************************************************)
(* The engine with the real adapters and providers in place of an          *)
(* arbitrary Send: the Twilio providers (internal/providers/{sms,whatsapp} *)
(* /twilio_provider.go) send one HTTP request per recipient and stop at    *)
(* the first error; the SMTP provider (providers/email/smtp_provider.go)   *)
(* hands the message over to all recipients in one transaction.  The       *)
(* engine then retries the whole list.  The mock providers answer as the   *)
(* message itself asks them to.                                            *)
(***************************************************************************)
EXTENDS Integers, Sequences, FiniteSets, FiniteSetsExt, Adapters

CONSTANTS
  Served,      \* the channels to check: one worker serves one of them
  Recipients,  \* length of a message's list of recipients
  Answers,     \* what can become of a request of a real provider
  Backends,    \* subset of {"real", "mock"}
  Messages, MessageOf, \* records that deliver one message share its MessageID
  Failures,    \* values of the header that makes the first attempts fail
  Records, Sessions, Claims, SessionOf, ClaimOf,
  MaxAttempts, Concurrency, Delays, Acks  \* see Engine

AllAnswers == {"accepted",   \* the recipients get the message, the provider says so
               "lost",       \* the recipients get it, the confirmation is lost
               "down",       \* nothing arrives: refused connection, time-out
               "refused",    \* the provider rejects the recipient
               "throttled",  \* the provider is overloaded
               "cut"}        \* the context is cancelled during the request

ASSUME DispatchAssumption ==
  /\ Served \subseteq Channels
  /\ Recipients \in Nat \ {0}
  /\ Answers \subseteq AllAnswers
  /\ Backends \subseteq {"real", "mock"}
  /\ MessageOf \in [Records -> Messages] /\ Failures \subseteq Nat

\* What a message can ask of a mock provider; "other" is any other word.
Scenarios == {"success", "permanent", "transient", "timeout", "other"}

Unseen == -1

VARIABLES
  channel,  \* the channel of this worker, fixed
  backend,  \* its provider, fixed
  scenario, failures, \* what each message asks of a mock, fixed
  remaining,  \* failureState of the mock email provider, Unseen if no entry
  kind, pc, attempt, result, permits, done, sends, status, dlq, commits,
  next,    \* the recipient the loop of Send has come to
  open,    \* whether a request is under way
  copies,  \* external: messages each recipient got
  last,    \* history: what became of the last request
  said     \* history: whether the text of its error reads like a rejection

engineVars   == <<kind, pc, attempt, result, permits, done, sends, status, dlq, commits>>
wiring       == <<channel, backend, scenario, failures>>
providerVars == <<wiring, remaining, next, open, copies, last, said>>
vars         == <<engineVars, providerVars>>

E == INSTANCE Engine WITH Results <- {"ok", "permanent", "transient"}

\* NewEngine accepts the configuration; the collaborators keep to their types.
ASSUME EngineAssumption ==
  /\ E!ConfigAccepted
  /\ IsFiniteSet(Records)
  /\ SessionOf \in [Records -> Sessions] /\ ClaimOf \in [Records -> Claims]
  /\ Delays \subseteq {"zero", "positive"} /\ Acks \subseteq BOOLEAN

List == 1 .. Recipients

\* Batch with the last recipient (a BCC) left out of the envelope.
BatchShort(r) == IF channel = "email" THEN 1 .. (Recipients - 1) ELSE {next[r]}

\* The recipients of one request.
Batch(r) == IF channel = "email" THEN List ELSE {next[r]}

Deliver(r) == copies' = [copies EXCEPT ![r] = [i \in List |-> IF i \in Batch(r) THEN @[i] + 1 ELSE @[i]]]

-----------------------------------------------------------------------------
(* What the provider returns to its adapter                                *)

\* The code of the response: the one of this request, or else the one of the
\* previous recipient, which the loop keeps.
ResponseCode(r, answer) ==
  CASE answer = "refused"   -> IF channel = "email" THEN 550 ELSE 400
    [] answer = "throttled" -> IF channel = "email" THEN 451 ELSE 429
    [] answer \in {"lost", "down", "cut"} -> IF channel # "email" /\ next[r] > 1 THEN 201 ELSE 0

RawOf(r, answer) ==
  [twilio |-> IF answer = "refused" /\ channel # "email" THEN 21211 ELSE 0,
   text   |-> "plain",
   code   |-> ResponseCode(r, answer)]

\* The text quotes what the network or the server says, in whatever words; that
\* of a context error is fixed and has none of those the adapters look for.
ErrorsOf(answer) ==
  [hints   : IF channel = "email" \/ answer = "cut" THEN {{}} ELSE {{}, {"invalid"}},
   smtp    : IF channel = "email" /\ answer # "cut" THEN {NoCode, 451, 550} ELSE {NoCode},
   expired : {answer = "cut"}]

SaysRejected(error) == "invalid" \in error.hints \/ IsPermanentCode(error.smtp)

\* Send returns: the engine gets its result and the next call of Send starts
\* with the first recipient again.
Return(r, res, answer, rejected) ==
  /\ E!Send(r) /\ result'[r] = res
  /\ next' = [next EXCEPT ![r] = 1]
  /\ open' = [open EXCEPT ![r] = FALSE]
  /\ last' = [last EXCEPT ![r] = answer]
  /\ said' = [said EXCEPT ![r] = rejected]
  /\ UNCHANGED wiring

ReturnError(r, raw, error, answer) ==
  Return(r, Class(channel, raw, error), answer, SaysRejected(error))

Fail(r, answer) == \E error \in ErrorsOf(answer) : ReturnError(r, RawOf(r, answer), error, answer)

-----------------------------------------------------------------------------
(* Send                                                                    *)

\* A request starts, or the latency of a mock.  Under a done context only the
\* mock email provider goes on, when the message asks for no latency.
Request(r) ==
  /\ pc[r] = "send" /\ ~open[r]
  /\ E!Cancelled(r) => backend = "mock" /\ channel = "email"
  /\ open' = [open EXCEPT ![r] = TRUE]
  /\ UNCHANGED <<engineVars, wiring, remaining, next, copies, last, said>>

\* The other providers start nothing under a done context.
RequestCancelled(r) ==
  /\ pc[r] = "send" /\ ~open[r] /\ E!Cancelled(r)
  /\ Fail(r, "cut")
  /\ UNCHANGED <<remaining, copies>>

\* The request of a real provider is under way.
Underway(r) == backend = "real" /\ open[r]

\* AcceptOne without the end of the list.
AcceptBeyond(r) ==
  /\ Underway(r) /\ "accepted" \in Answers
  /\ channel # "email"
  /\ Deliver(r)
  /\ next' = [next EXCEPT ![r] = @ + 1]
  /\ open' = [open EXCEPT ![r] = FALSE]
  /\ last' = [last EXCEPT ![r] = "accepted"]
  /\ UNCHANGED <<engineVars, wiring, remaining, said>>

\* A recipient accepts and more recipients follow.
AcceptOne(r) ==
  /\ Underway(r) /\ "accepted" \in Answers
  /\ channel # "email" /\ next[r] < Recipients
  /\ Deliver(r)
  /\ next' = [next EXCEPT ![r] = @ + 1]
  /\ open' = [open EXCEPT ![r] = FALSE]
  /\ last' = [last EXCEPT ![r] = "accepted"]
  /\ UNCHANGED <<engineVars, wiring, remaining, said>>

\* The last one accepts.  The SMTP provider still returns ctx.Err().
AcceptLast(r) ==
  /\ Underway(r) /\ "accepted" \in Answers
  /\ channel = "email" \/ next[r] = Recipients
  /\ Deliver(r)
  /\ IF channel = "email" /\ E!Cancelled(r) THEN Fail(r, "cut") ELSE Return(r, "ok", "accepted", FALSE)
  /\ UNCHANGED remaining

\* RequestFails with the error of a recipient logged and the loop continued.
RequestSkips(r) ==
  /\ Underway(r) /\ next[r] < Recipients
  /\ next' = [next EXCEPT ![r] = @ + 1]
  /\ open' = [open EXCEPT ![r] = FALSE]
  /\ last' = [last EXCEPT ![r] = "refused"]
  /\ UNCHANGED <<engineVars, wiring, remaining, copies, said>>

\* The loop stops at the first error and leaves the rest of the list alone.
RequestFails(r) ==
  /\ Underway(r)
  /\ \E answer \in Answers \ {"accepted"} :
       /\ answer = "cut" => E!Cancelled(r)
       /\ \/ answer \in {"lost", "cut"} /\ Deliver(r)
          \/ answer # "lost" /\ UNCHANGED copies
       /\ Fail(r, answer)
  /\ UNCHANGED remaining

-----------------------------------------------------------------------------
(* The mock providers                                                      *)

\* What a mock returns: its raw response and its error.  Only the mock email
\* provider repeats the code in the error and treats any other word as success.
MockRaw(asked) ==
  CASE asked = "permanent" -> [twilio |-> 0, text |-> IF channel = "email" THEN "plain" ELSE asked, code |-> 550]
    [] asked = "transient" -> [twilio |-> 0, text |-> IF channel = "email" THEN "plain" ELSE asked,
                               code |-> IF channel = "email" THEN 451 ELSE 429]
    [] asked = "timeout"   -> IF channel = "email" THEN NoRaw ELSE [twilio |-> 0, text |-> "plain", code |-> 200]
    [] asked = "other"     -> [twilio |-> 0, text |-> "plain", code |-> 200]

MockError(asked) ==
  [hints   |-> IF channel = "email" THEN {}
               ELSE CASE asked = "permanent" -> {"invalid"} [] asked = "timeout" -> {"timeout"} [] OTHER -> {},
   smtp    |-> IF channel = "email" /\ asked \in {"permanent", "transient"} THEN MockRaw(asked).code ELSE NoCode,
   expired |-> channel = "email" /\ asked = "timeout"]

MockFails(r, asked) ==
  /\ ReturnError(r, MockRaw(asked), MockError(asked),
                 CASE asked = "permanent" -> "refused" [] asked = "transient" -> "throttled" [] OTHER -> "down")
  /\ UNCHANGED copies

\* Failures a message may still consume.
Left(m) == IF remaining[m] = Unseen THEN failures[m] ELSE remaining[m]

\* ConsumeFailure with the count not written back.
ConsumeNothing(m) == Left(m) > 0 /\ UNCHANGED remaining

\* consumeFailureAttempt returns true; the count belongs to the MessageID, and
\* redeliveries and concurrent deliveries of a message share it.
ConsumeFailure(m) ==
  Left(m) > 0 /\ remaining' = [remaining EXCEPT ![m] = Left(m) - 1]

Succeeding(r) ==
  scenario[MessageOf[r]] = "success" \/ (channel = "email" /\ scenario[MessageOf[r]] = "other")

\* The latency is over.
MockAnswers(r) ==
  /\ backend = "mock" /\ open[r]
  /\ LET m == MessageOf[r]
     IN  IF ~Succeeding(r) THEN MockFails(r, scenario[m]) /\ UNCHANGED remaining
         ELSE \/ ConsumeFailure(m) /\ MockFails(r, "transient")
              \/ /\ Left(m) = 0
                 /\ copies' = [copies EXCEPT ![r] = [i \in List |-> @[i] + 1]]
                 /\ Return(r, "ok", "accepted", FALSE)
                 /\ UNCHANGED remaining

\* The context is done before the latency, or the wait of "timeout", is over.
MockCancelled(r) ==
  /\ backend = "mock" /\ open[r] /\ E!Cancelled(r)
  /\ Fail(r, "cut")
  /\ UNCHANGED <<remaining, copies>>

-----------------------------------------------------------------------------

Init ==
  /\ channel \in Served /\ backend \in Backends
  /\ scenario \in [Messages -> Scenarios] /\ failures \in [Messages -> Failures]
  /\ backend = "real" => \A m \in Messages : scenario[m] = "success"
  /\ \A m \in Messages : failures[m] > 0 => backend = "mock" /\ channel = "email" /\ scenario[m] = "success"
  /\ remaining = [m \in Messages |-> Unseen]
  /\ E!Init
  /\ \A r \in Records : kind[r] = "valid"
  /\ next = [r \in Records |-> 1]
  /\ open = [r \in Records |-> FALSE]
  /\ copies = [r \in Records |-> [i \in List |-> 0]]
  /\ last = [r \in Records |-> "none"] /\ said = [r \in Records |-> FALSE]

Crash ==
  /\ E!Crash
  /\ next' = [r \in Records |-> 1] /\ open' = [r \in Records |-> FALSE]
  /\ remaining' = [m \in Messages |-> Unseen]
  /\ UNCHANGED <<wiring, copies, last, said>>

\* Every step of the engine but Send.
EngineStep(r) ==
  /\ E!HandleRecord(r) \/ E!CodeStep(r) \/ E!TimerFires(r)
  /\ sends' = sends
  /\ UNCHANGED providerVars

Next ==
  \/ \E r \in Records : EngineStep(r) \/ Request(r) \/ RequestCancelled(r)
                          \/ AcceptOne(r) \/ AcceptLast(r) \/ RequestFails(r)
                          \/ MockAnswers(r) \/ MockCancelled(r)
  \/ \E s \in Sessions : E!Cancel(s) /\ UNCHANGED providerVars
  \/ Crash

Spec == Init /\ [][Next]_vars

-----------------------------------------------------------------------------

\* Types; the loop over the recipients stays within the list.
TypeOK ==
  /\ E!TypeOK /\ channel \in Channels /\ backend \in Backends
  /\ scenario \in [Messages -> Scenarios] /\ failures \in [Messages -> Failures]
  /\ remaining \in [Messages -> Nat \union {Unseen}]
  /\ next \in [Records -> List]
  /\ open \in [Records -> BOOLEAN]
  /\ copies \in [Records -> [List -> Nat]]
  /\ last \in [Records -> AllAnswers \union {"none"}] /\ said \in [Records -> BOOLEAN]

\* A message reported and committed as sent has reached every recipient of the
\* list, whatever attempts it took: no error of one recipient is swallowed.
SentReachesAll ==
  \A r \in Records : result[r] = "ok" => \A i \in List : copies[r][i] >= 1

\* No recipient gets more copies than there were attempts, and an earlier one
\* never fewer than a later one: only a retry of the engine duplicates.
CopiesBounded ==
  \A r \in Records :
    /\ \A i \in List : copies[r][i] <= attempt[r]
    /\ \A i, j \in List : i < j => copies[r][i] >= copies[r][j]

\* A request failed with the answer, and its error reads like a rejection or not.
LikeRejection(answer, rejected) ==
  \/ answer = "refused"
  \/ rejected /\ answer \in {"lost", "down"}
  \/ rejected /\ answer = "throttled" /\ channel = "email"

\* A message goes to the DLQ as a permanent failure, with attempts left, only
\* because its last request was rejected or because the text of the error reads
\* as if it were, as that of an outage may ("invalid argument").  A cancellation
\* is never read so, nor a Twilio request that was throttled.
PermanentHasReason ==
  \A r \in Records : \A d \in dlq[r] : d.type = "permanent" => LikeRejection(last[r], said[r])

\* The mock email provider keeps its count across attempts, redeliveries and
\* concurrent deliveries: a message that asks for n failures fails n times, not
\* per delivery and not for ever.  It is sent after n failed calls, and dead-
\* lettered only if n uses up the budget or its context was cancelled.
MockRecovers ==
  backend = "mock" /\ channel = "email" =>
    \A r \in Records :
      LET m == MessageOf[r]
      IN  scenario[m] = "success" =>
            /\ dlq[r] # {} => failures[m] >= MaxAttempts \/ E!Cancelled(r)
            /\ result[r] = "ok" =>
                 MapThenSumSet(LAMBDA q : sends[q], {q \in Records : MessageOf[q] = m}) > failures[m]

\* design_1.1.md:280: "The loop stops early if the context is cancelled; the
\* record will be reprocessed": a call that the shutdown cut short leaves the
\* record uncommitted.
CutIsReprocessed ==
  \A r \in Records : last[r] = "cut" => dlq[r] = {} /\ commits[r] = 0
=============================================================================

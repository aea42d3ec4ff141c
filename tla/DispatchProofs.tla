--------------------------- MODULE DispatchProofs ---------------------------
(***************************************************************************)
(* Theorems about Dispatch for every number of recipients, attempts and    *)
(* concurrent deliveries, and whatever the providers answer.               *)
(***************************************************************************)
EXTENDS Dispatch, FiniteSetTheorems, WellFoundedInduction, TLAPS

\* The engine, its theorems included, with the results of the adapters.
EP == INSTANCE EngineRefinementProofs WITH Results <- {"ok", "permanent", "transient"}

\* The assumptions of the engine hold.
LEMMA EngineInstance ==
  /\ EP!ConfigAccepted
  /\ EP!IsFiniteSet(Records)
  /\ SessionOf \in [Records -> Sessions]
  /\ ClaimOf \in [Records -> Claims]
  /\ {"ok", "permanent", "transient"} \subseteq EP!AllResults
  /\ Delays \subseteq {"zero", "positive"}
  /\ Acks \subseteq BOOLEAN
<1>1. EP!IsFiniteSet(Records)
  BY Zenon, EngineAssumption DEF EP!IsFiniteSet, IsFiniteSet
<1> QED
  BY <1>1, EngineAssumption DEF EP!ConfigAccepted, E!ConfigAccepted, EP!AllResults

-----------------------------------------------------------------------------
(* The engine inside the dispatch                                          *)

\* The engine's part of each step is one of EP.
LEMMA SameEngine ==
  ASSUME NEW r
  PROVE  /\ E!HandleRecord(r) => EP!HandleRecord(r)
         /\ E!CodeStep(r) => EP!CodeStep(r)
         /\ E!TimerFires(r) => EP!TimerFires(r)
         /\ E!Send(r) => EP!Send(r)
         /\ E!Cancelled(r) <=> EP!Cancelled(r)
<1> USE DEF E!Goto, EP!Goto, E!Cancelled, EP!Cancelled
<1>1. /\ E!HandleRecord(r) => EP!HandleRecord(r)
      /\ E!TimerFires(r) => EP!TimerFires(r)
      /\ E!Send(r) => EP!Send(r)
  BY Zenon
     DEF E!HandleRecord, EP!HandleRecord, E!HandlerStages, EP!HandlerStages,
         E!TimerFires, EP!TimerFires, E!Send, EP!Send, E!AfterSend, EP!AfterSend
<1>2. /\ E!ParseAndValidate(r) => EP!ParseAndValidate(r)
      /\ E!RejectStatus(r) => EP!RejectStatus(r)
      /\ E!RejectDLQ(r) => EP!RejectDLQ(r)
      /\ E!RejectCommit(r) => EP!RejectCommit(r)
      /\ E!Acquire(r) => EP!Acquire(r)
      /\ E!AcquireFails(r) => EP!AcquireFails(r)
  BY Zenon
     DEF E!ParseAndValidate, EP!ParseAndValidate, E!RejectStatus, EP!RejectStatus,
         E!PublishStatus, EP!PublishStatus, E!RejectDLQ, EP!RejectDLQ,
         E!PublishDLQ, EP!PublishDLQ, E!RejectCommit, EP!RejectCommit,
         E!CommitRecord, EP!CommitRecord, E!Acquire, EP!Acquire,
         E!AcquireFails, EP!AcquireFails
<1>3. /\ E!StartCancelled(r) => EP!StartCancelled(r)
      /\ E!Start(r) => EP!Start(r)
      /\ E!BeginAttempt(r) => EP!BeginAttempt(r)
      /\ E!SentStatus(r) => EP!SentStatus(r)
      /\ E!FailStatus(r) => EP!FailStatus(r)
      /\ E!FailDLQ(r) => EP!FailDLQ(r)
      /\ E!Commit(r) => EP!Commit(r)
  BY Zenon
     DEF E!StartCancelled, EP!StartCancelled, E!Start, EP!Start,
         E!BeginAttempt, EP!BeginAttempt, E!SentStatus, EP!SentStatus,
         E!FailStatus, EP!FailStatus, E!FailDLQ, EP!FailDLQ, E!Commit, EP!Commit,
         E!PublishStatus, EP!PublishStatus, E!PublishDLQ, EP!PublishDLQ,
         E!FailureType, EP!FailureType, E!CommitRecord, EP!CommitRecord
<1>4. /\ E!RetryAtOnce(r) => EP!RetryAtOnce(r)
      /\ E!BeginWait(r) => EP!BeginWait(r)
      /\ E!WaitCancelled(r) => EP!WaitCancelled(r)
      /\ E!Release(r) => EP!Release(r)
  BY Zenon
     DEF E!RetryAtOnce, EP!RetryAtOnce, E!BeginWait, EP!BeginWait,
         E!WaitCancelled, EP!WaitCancelled, E!Release, EP!Release
<1>5. E!CodeStep(r) => EP!CodeStep(r)
  BY Zenon, <1>1, <1>2, <1>3, <1>4 DEF E!CodeStep, EP!CodeStep
<1> QED
  BY Zenon, <1>1, <1>5

LEMMA SameEnvironment ==
  /\ \A s : E!Cancel(s) => EP!Cancel(s)
  /\ E!Crash => EP!Crash
BY Zenon
   DEF E!Cancel, EP!Cancel, E!Crash, EP!Crash, E!Active, EP!Active,
       E!HandlerStages, EP!HandlerStages, E!LoopStages, EP!LoopStages

\* A call of Send goes on: the loop over the recipients or the latency.
Ongoing(r) == Request(r) \/ AcceptOne(r)

\* A call of Send returns.
Returning(r) ==
  RequestCancelled(r) \/ AcceptLast(r) \/ RequestFails(r) \/ MockAnswers(r) \/ MockCancelled(r)

LEMMA ReturningSends ==
  ASSUME NEW r, Returning(r)
  PROVE  \E res, answer, rejected : Return(r, res, answer, rejected)
BY DEF Returning, RequestCancelled, AcceptLast, RequestFails, MockAnswers, MockCancelled,
       MockFails, Fail, ReturnError

LEMMA DispatchStepsEngine == [Next]_vars => [EP!Next]_engineVars
<1> SUFFICES ASSUME [Next]_vars PROVE [EP!Next]_engineVars
  OBVIOUS
<1>1. CASE UNCHANGED vars
  BY <1>1 DEF vars
<1>2. ASSUME NEW r \in Records, EngineStep(r)
      PROVE  EP!Next
  BY Zenon, <1>2, SameEngine DEF EngineStep, EP!Next
<1>3. ASSUME NEW r \in Records, Ongoing(r)
      PROVE  UNCHANGED engineVars
  BY <1>3 DEF Ongoing, Request, AcceptOne
<1>4. ASSUME NEW r \in Records, Returning(r)
      PROVE  EP!Next
  <2>1. EP!Send(r)
    BY <1>4, ReturningSends, SameEngine DEF Return
  <2> QED
    BY <2>1 DEF EP!Next, EP!CodeStep
<1>5. ASSUME NEW s \in Sessions, E!Cancel(s)
      PROVE  EP!Next
  BY Zenon, <1>5, SameEnvironment DEF EP!Next
<1>6. CASE Crash
  BY Zenon, <1>6, SameEnvironment DEF Crash, EP!Next
<1> QED
  BY <1>1, <1>2, <1>3, <1>4, <1>5, <1>6 DEF Next, Ongoing, Returning

\* With the real adapters and providers the engine does nothing that it could
\* not do with an arbitrary Send.
THEOREM DispatchImplementsEngine == Spec => EP!Spec
<1>1. Init => EP!Init
  BY DEF Init, E!Init, EP!Init, E!Kinds, EP!Kinds
<1>2. [Next]_vars => [EP!Next]_EP!vars
  BY DispatchStepsEngine DEF engineVars, EP!vars
<1> QED
  BY <1>1, <1>2, PTL DEF Spec, EP!Spec

-----------------------------------------------------------------------------
(* What one step does                                                      *)

\* The steps of the engine outside Send: they count an attempt only on the way
\* to the stage "attempt", call nobody, and write a dead letter only where the
\* handler rejects the record or the loop gives it up.
LEMMA EngineMoves ==
  ASSUME EP!TypeOK, EP!DeliveryInv, NEW r \in Records, EngineStep(r), NEW q \in Records
  PROVE  /\ result' = result /\ sends' = sends /\ done' = done /\ kind' = kind
         /\ attempt'[q] \in Nat /\ attempt'[q] >= attempt[q]
         /\ pc[q] = "send" <=> pc'[q] = "send" /\ pc[q] # "attempt"
         /\ pc'[q] \in {"attempt", "send"} =>
              \/ pc[q] \in {"attempt", "send"} /\ attempt'[q] = attempt[q]
              \/ pc'[q] = "attempt" /\ attempt'[q] = attempt[q] + 1
         /\ dlq'[q] # dlq[q] => pc[q] \in {"rejectDLQ", "failDLQ"}
         /\ pc'[q] \in {"rejectStatus", "rejectDLQ"} =>
              pc[q] = "rejectStatus" \/ kind[q] # "valid" \/ EP!Cancelled(q) \/ pc[q] = "rejectDLQ"
         /\ pc'[q] \in EP!LoopStages => pc[q] \in EP!LoopStages \/ sends[q] = 0
<1> USE DEF EP!Goto, EP!TypeOK, EP!LoopStages
<1>1. sends' = sends /\ (EP!HandleRecord(r) \/ EP!CodeStep(r) \/ EP!TimerFires(r))
  BY Zenon, SameEngine DEF EngineStep
<1>2. ~EP!Send(r)
  BY <1>1 DEF EP!Send
<1>3. CASE EP!HandleRecord(r) \/ EP!ParseAndValidate(r) \/ EP!RejectStatus(r)
  BY <1>3 DEF EP!HandleRecord, EP!ParseAndValidate, EP!RejectStatus
<1>4. CASE EP!RejectDLQ(r) \/ EP!RejectCommit(r) \/ EP!AcquireFails(r)
  BY <1>4 DEF EP!RejectDLQ, EP!PublishDLQ, EP!RejectCommit, EP!AcquireFails
<1>5. CASE EP!Acquire(r) \/ EP!Start(r)
  <2>1. attempt[r] = 0 /\ sends[r] = 0
    BY <1>5 DEF EP!Acquire, EP!Start, EP!DeliveryInv, EP!Progress, EP!HandlerStages
  <2> QED
    BY <1>5, <2>1 DEF EP!Acquire, EP!Start
<1>6. CASE EP!StartCancelled(r) \/ EP!BeginAttempt(r) \/ EP!SentStatus(r) \/ EP!FailStatus(r)
  BY <1>6 DEF EP!StartCancelled, EP!BeginAttempt, EP!SentStatus, EP!FailStatus
<1>7. CASE EP!FailDLQ(r) \/ EP!Commit(r) \/ EP!RetryAtOnce(r) \/ EP!BeginWait(r)
  BY <1>7 DEF EP!FailDLQ, EP!PublishDLQ, EP!Commit, EP!RetryAtOnce, EP!BeginWait
<1>8. CASE EP!TimerFires(r) \/ EP!WaitCancelled(r) \/ EP!Release(r)
  BY <1>8 DEF EP!TimerFires, EP!WaitCancelled, EP!Release
<1> QED
  BY <1>1, <1>2, <1>3, <1>4, <1>5, <1>6, <1>7, <1>8 DEF EP!CodeStep

\* A return of Send leaves the loop of its record at most for the wait.
LEMMA ReturnMoves ==
  ASSUME EP!TypeOK, NEW r \in Records, NEW res, NEW answer, NEW rejected, Return(r, res, answer, rejected)
  PROVE  /\ pc[r] = "send" /\ pc'[r] \in {"sentStatus", "failStatus", "backoff"}
         /\ res \in {"ok", "permanent", "transient"}
         /\ result' = [result EXCEPT ![r] = res]
         /\ sends' = [sends EXCEPT ![r] = @ + 1]
         /\ \A q \in Records : q # r => pc'[q] = pc[q]
         /\ UNCHANGED <<attempt, done, kind, dlq, commits>>
<1>1. EP!Send(r) /\ result'[r] = res
  BY SameEngine DEF Return
<1> QED
  BY <1>1 DEF EP!Send, EP!Goto, EP!AfterSend, EP!TypeOK

\* The adapters know two classes.
LEMMA TwoClasses == \A ch, raw, error : Class(ch, raw, error) \in {"permanent", "transient"}
BY DEF Class, EmailClass, TwilioClass

-----------------------------------------------------------------------------
(* Types of the provider                                                   *)

WiringTypes ==
  /\ channel \in Channels /\ backend \in Backends
  /\ scenario \in [Messages -> Scenarios] /\ failures \in [Messages -> Failures]

ProviderTypes ==
  /\ remaining \in [Messages -> Nat \union {Unseen}]
  /\ \A m \in Messages : remaining[m] # Unseen => remaining[m] <= failures[m]
  /\ next \in [Records -> List] /\ open \in [Records -> BOOLEAN]
  /\ copies \in [Records -> [List -> Nat]]
  /\ last \in [Records -> AllAnswers \union {"none"}] /\ said \in [Records -> BOOLEAN]

\* Outside Send the loop is at its start and no request is under way; only the
\* Twilio providers have a loop.
LoopInv(r) ==
  /\ pc[r] # "send" => next[r] = 1 /\ ~open[r]
  /\ channel = "email" \/ backend = "mock" => next[r] = 1

LocalInv == WiringTypes /\ ProviderTypes /\ \A r \in Records : LoopInv(r)

\* What the mock is remembered to have answered.
MockAnswer(asked) ==
  CASE asked = "permanent" -> "refused" [] asked = "transient" -> "throttled" [] OTHER -> "down"

LEMMA MockAnswerOf ==
  ASSUME NEW asked
  PROVE  /\ MockAnswer(asked) \in AllAnswers
         /\ asked = "permanent" => MockAnswer(asked) = "refused"
BY Zenon DEF MockAnswer, AllAnswers

LEMMA MockFailsReturns ==
  ASSUME NEW r, NEW asked, MockFails(r, asked)
  PROVE  Return(r, Class(channel, MockRaw(asked), MockError(asked)), MockAnswer(asked),
                SaysRejected(MockError(asked)))
BY Zenon DEF MockFails, MockAnswer, ReturnError

LEMMA SaysBoolean == \A error : SaysRejected(error) \in BOOLEAN
BY DEF SaysRejected, IsPermanentCode

\* A failure is judged as permanent when the provider rejects the recipient, or
\* when no code decides and the text of the error reads so.
LEMMA RealPermanent ==
  ASSUME NEW r, NEW answer \in AllAnswers \ {"accepted"}, NEW error \in ErrorsOf(answer),
         Class(channel, RawOf(r, answer), error) = "permanent"
  PROVE  LikeRejection(answer, SaysRejected(error))
<1> SUFFICES ASSUME answer # "refused" PROVE LikeRejection(answer, SaysRejected(error))
  BY DEF LikeRejection
<1>1. \/ RawOf(r, answer).code \in {0, 201, 429}
      \/ channel = "email" /\ RawOf(r, answer).code = 451
  BY DEF RawOf, ResponseCode, AllAnswers
<1>2. /\ RawOf(r, answer).twilio = 0 /\ RawOf(r, answer).text = "plain"
      /\ answer = "cut" => error.hints = {} /\ error.smtp = NoCode
  BY DEF RawOf, ErrorsOf
<1>3. ~IsPermanentCode(RawOf(r, answer).code) /\ ~IsPermanentCode(NoCode)
  BY <1>1 DEF IsPermanentCode, NoCode
<1>4. answer \in {"lost", "down", "throttled", "cut"}
  BY DEF AllAnswers
<1>5. CASE channel = "email"
  <2>1. IsPermanentCode(error.smtp)
    BY <1>3, <1>5 DEF Class, EmailClass
  <2>2. answer # "cut"
    BY <1>2, <1>3, <2>1
  <2> QED
    BY <1>4, <1>5, <2>1, <2>2 DEF LikeRejection, SaysRejected
<1>6. CASE channel # "email"
  <2>1. /\ HttpVerdict(RawOf(r, answer).code) \in {"undecided", "rate_limited"}
        /\ answer = "throttled" => HttpVerdict(RawOf(r, answer).code) = "rate_limited"
    <3>1. HttpVerdict(429) = "rate_limited" /\ \A code \in {0, 201} : HttpVerdict(code) = "undecided"
      BY DEF HttpVerdict
    <3>2. answer = "throttled" => RawOf(r, answer).code = 429
      BY <1>6 DEF RawOf, ResponseCode
    <3> QED
      BY <1>1, <1>6, <3>1, <3>2
  <2>2. TwilioVerdict(channel, RawOf(r, answer)) = HttpVerdict(RawOf(r, answer).code)
    BY <1>2 DEF TwilioVerdict, RejectingCodes, ThrottlingCodes
  <2>3. answer # "throttled" /\ "invalid" \in error.hints
    BY <1>6, <2>1, <2>2 DEF Class, TwilioClass
  <2>4. answer # "cut"
    BY <1>2, <2>3
  <2> QED
    BY <1>4, <2>3, <2>4 DEF LikeRejection, SaysRejected
<1> QED
  BY <1>5, <1>6

\* The mocks answer for good only when asked to.
LEMMA MockPermanent ==
  ASSUME NEW asked \in {"permanent", "transient", "timeout", "other"},
         asked = "other" => channel # "email",
         Class(channel, MockRaw(asked), MockError(asked)) = "permanent"
  PROVE  asked = "permanent"
<1> SUFFICES ASSUME asked \in {"transient", "timeout", "other"} PROVE FALSE
  OBVIOUS
<1>1. CASE channel = "email"
  <2>1. MockError(asked).smtp \in {451, NoCode} /\ MockRaw(asked).code \in {451, NoCode}
    BY <1>1 DEF MockError, MockRaw, NoRaw, NoCode
  <2> QED
    BY <1>1, <2>1 DEF Class, EmailClass, IsPermanentCode, NoCode
<1>2. CASE channel # "email"
  <2>1. "invalid" \notin MockError(asked).hints
    <3>1. MockError(asked).hints =
            CASE asked = "permanent" -> {"invalid"} [] asked = "timeout" -> {"timeout"} [] OTHER -> {}
      BY Zenon, <1>2 DEF MockError
    <3>2. MockError(asked).hints \in {{"timeout"}, {}}
      BY Zenon, <3>1
    <3> QED
      BY <3>2
  <2>2. \/ MockRaw(asked) = [twilio |-> 0, text |-> "transient", code |-> 429]
        \/ MockRaw(asked) = [twilio |-> 0, text |-> "plain", code |-> 200]
    BY <1>2 DEF MockRaw
  <2>3. TwilioVerdict(channel, MockRaw(asked)) \in {"undecided", "rate_limited"}
    BY <2>2 DEF TwilioVerdict, RejectingCodes, ThrottlingCodes, HttpVerdict
  <2> QED
    BY <1>2, <2>1, <2>3 DEF Class, TwilioClass
<1> QED
  BY <1>1, <1>2

\* What a call of Send can have done when it returns res: the copies it handed
\* over, the count of the mock, the answer it goes by.
Returned(r, res, answer, rejected) ==
  /\ Return(r, res, answer, rejected) /\ answer \in AllAnswers /\ rejected \in BOOLEAN
  /\ \/ res # "ok" /\ copies' = copies
     \/ res # "ok" /\ Deliver(r)
     \/ res = "ok" /\ Deliver(r) /\ (channel = "email" \/ next[r] = Recipients)
     \/ /\ res = "ok" /\ backend = "mock" /\ Left(MessageOf[r]) = 0
        /\ copies' = [copies EXCEPT ![r] = [i \in List |-> @[i] + 1]]
  /\ res = "permanent" => LikeRejection(answer, rejected)
  /\ \/ remaining' = remaining
     \/ ConsumeFailure(MessageOf[r]) /\ backend = "mock"
  /\ backend = "mock" /\ channel = "email" /\ scenario[MessageOf[r]] = "success" =>
       \/ res = "ok" /\ Left(MessageOf[r]) = 0
       \/ res = "transient" /\ ConsumeFailure(MessageOf[r])
       \/ res = "transient" /\ EP!Cancelled(r)

\* A call that ends under a done context is transient.
LEMMA CutIsTransient ==
  ASSUME NEW r, Fail(r, "cut")
  PROVE  \E rejected \in BOOLEAN : Return(r, "transient", "cut", rejected)
<1>1. PICK error \in ErrorsOf("cut") : ReturnError(r, RawOf(r, "cut"), error, "cut")
  BY DEF Fail
<1>2. ~LikeRejection("cut", SaysRejected(error))
  BY DEF LikeRejection
<1>3. Class(channel, RawOf(r, "cut"), error) = "transient"
  BY <1>2, RealPermanent, TwoClasses DEF AllAnswers
<1> QED
  BY <1>1, <1>3, SaysBoolean DEF ReturnError

LEMMA ReturningReturned ==
  ASSUME NEW r \in Records, LocalInv, Returning(r)
  PROVE  \E res, answer, rejected : Returned(r, res, answer, rejected)
<1>1. ASSUME Fail(r, "cut"), E!Cancelled(r), UNCHANGED <<remaining, copies>>
      PROVE  \E rejected : Returned(r, "transient", "cut", rejected)
  <2>1. PICK rejected \in BOOLEAN : Return(r, "transient", "cut", rejected)
    BY <1>1, CutIsTransient
  <2>2. Returned(r, "transient", "cut", rejected)
    BY <1>1, <2>1, SameEngine DEF Returned, AllAnswers
  <2> QED
    BY <2>2
<1>2. CASE RequestCancelled(r) \/ MockCancelled(r)
  BY <1>1, <1>2 DEF RequestCancelled, MockCancelled
<1>3. CASE AcceptLast(r)
  <2>1. CASE channel = "email" /\ E!Cancelled(r)
    <3>1. PICK rejected \in BOOLEAN : Return(r, "transient", "cut", rejected)
      BY <1>3, <2>1, CutIsTransient DEF AcceptLast
    <3>2. Returned(r, "transient", "cut", rejected)
      BY <1>3, <2>1, <3>1, SameEngine DEF AcceptLast, Returned, AllAnswers
    <3> QED
      BY <3>2
  <2>2. CASE ~(channel = "email" /\ E!Cancelled(r))
    <3>1. Returned(r, "ok", "accepted", FALSE)
      BY <1>3, <2>2 DEF AcceptLast, Returned, AllAnswers, Underway
    <3> QED
      BY <3>1
  <2> QED
    BY <2>1, <2>2
<1>4. CASE RequestFails(r)
  <2>1. PICK answer \in Answers \ {"accepted"} :
          /\ Deliver(r) \/ UNCHANGED copies
          /\ Fail(r, answer)
    BY <1>4 DEF RequestFails
  <2>2. answer \in AllAnswers \ {"accepted"} /\ backend = "real" /\ remaining' = remaining
    BY <1>4, DispatchAssumption DEF RequestFails, Underway
  <2> PICK error \in ErrorsOf(answer) : ReturnError(r, RawOf(r, answer), error, answer)
    BY <2>1 DEF Fail
  <2> DEFINE res == Class(channel, RawOf(r, answer), error)
             rejected == SaysRejected(error)
  <2>3. /\ res \in {"permanent", "transient"} /\ rejected \in BOOLEAN
        /\ res = "permanent" => LikeRejection(answer, rejected)
    BY <2>2, TwoClasses, SaysBoolean, RealPermanent
  <2>4. Return(r, res, answer, rejected)
    BY DEF ReturnError
  <2> HIDE DEF res, rejected
  <2>5. Returned(r, res, answer, rejected)
    BY <2>1, <2>2, <2>3, <2>4 DEF Returned
  <2> QED
    BY <2>5
<1>5. CASE MockAnswers(r)
  <2> DEFINE m == MessageOf[r]
  <2>1. backend = "mock" /\ m \in Messages
    BY <1>5, DispatchAssumption DEF MockAnswers
  <2>2. ASSUME NEW asked \in {"permanent", "transient", "timeout", "other"},
               asked = "other" => channel # "email", MockFails(r, asked),
               \/ remaining' = remaining /\ ~Succeeding(r)
               \/ asked = "transient" /\ ConsumeFailure(m)
        PROVE  \E res, answer, rejected : Returned(r, res, answer, rejected)
    <3> DEFINE res == Class(channel, MockRaw(asked), MockError(asked))
               rejected == SaysRejected(MockError(asked))
    <3>1. Return(r, res, MockAnswer(asked), rejected) /\ copies' = copies
      BY <2>2, MockFailsReturns DEF MockFails
    <3>2. res \in {"permanent", "transient"}
      BY TwoClasses
    <3>3. res = "permanent" => asked = "permanent"
      BY <2>2, MockPermanent
    <3>4. /\ MockAnswer(asked) \in AllAnswers /\ rejected \in BOOLEAN
          /\ asked = "permanent" => LikeRejection(MockAnswer(asked), rejected)
      BY MockAnswerOf, SaysBoolean DEF LikeRejection
    <3> HIDE DEF res, rejected
    <3>5. Returned(r, res, MockAnswer(asked), rejected)
      BY <2>1, <2>2, <3>1, <3>2, <3>3, <3>4 DEF Returned, Succeeding
    <3> QED
      BY <3>5
  <2>3. CASE ~Succeeding(r)
    <3>1. scenario[m] \in {"permanent", "transient", "timeout", "other"}
      BY <2>1, <2>3 DEF LocalInv, WiringTypes, Scenarios, Succeeding
    <3>2. scenario[m] = "other" => channel # "email"
      BY <2>3 DEF Succeeding
    <3>3. MockFails(r, scenario[m]) /\ remaining' = remaining
      BY <1>5, <2>3 DEF MockAnswers
    <3> QED
      BY <2>2, <2>3, <3>1, <3>2, <3>3
  <2>4. CASE Succeeding(r) /\ ConsumeFailure(m) /\ MockFails(r, "transient")
    BY <2>2, <2>4
  <2>5. CASE /\ Left(m) = 0 /\ copies' = [copies EXCEPT ![r] = [i \in List |-> @[i] + 1]]
             /\ Return(r, "ok", "accepted", FALSE) /\ remaining' = remaining
    <3>1. Returned(r, "ok", "accepted", FALSE)
      BY <2>1, <2>5 DEF Returned, AllAnswers
    <3> QED
      BY <3>1
  <2> QED
    BY <1>5, <2>3, <2>4, <2>5 DEF MockAnswers
<1> QED
  BY <1>2, <1>3, <1>4, <1>5 DEF Returning

\* Left never exceeds what the message asks for.
LEMMA LeftBounded ==
  ASSUME LocalInv, NEW m \in Messages
  PROVE  Left(m) \in Nat /\ Left(m) <= failures[m] /\ failures[m] \in Nat
<1>1. failures[m] \in Nat
  BY DispatchAssumption DEF LocalInv, WiringTypes
<1>2. remaining[m] # Unseen => remaining[m] \in Nat /\ remaining[m] <= failures[m]
  BY DEF LocalInv, ProviderTypes
<1> QED
  BY <1>1, <1>2 DEF Left

LEMMA MessageType == \A r \in Records : MessageOf[r] \in Messages
BY DispatchAssumption

LEMMA DeliverTypes ==
  ASSUME copies \in [Records -> [List -> Nat]], NEW r \in Records, NEW S,
         copies' = [copies EXCEPT ![r] = [i \in List |-> IF i \in S THEN @[i] + 1 ELSE @[i]]]
  PROVE  copies' \in [Records -> [List -> Nat]]
<1>1. [i \in List |-> IF i \in S THEN copies[r][i] + 1 ELSE copies[r][i]] \in [List -> Nat]
  OBVIOUS
<1> QED
  BY <1>1

LEMMA ReturnedTypes ==
  ASSUME LocalInv, NEW r \in Records, NEW res, NEW answer, NEW rejected, Returned(r, res, answer, rejected)
  PROVE  ProviderTypes'
<1> USE DEF LocalInv, ProviderTypes
<1>1. copies' \in [Records -> [List -> Nat]]
  <2>1. ASSUME copies' = [copies EXCEPT ![r] = [i \in List |-> @[i] + 1]]
        PROVE  copies' \in [Records -> [List -> Nat]]
    <3>1. copies' = [copies EXCEPT ![r] = [i \in List |-> IF i \in List THEN @[i] + 1 ELSE @[i]]]
      BY <2>1
    <3> QED
      BY <3>1, DeliverTypes
  <2>2. ASSUME Deliver(r)
        PROVE  copies' \in [Records -> [List -> Nat]]
    BY <2>2, DeliverTypes DEF Deliver
  <2> QED
    BY <2>1, <2>2 DEF Returned
<1>2. /\ remaining' \in [Messages -> Nat \union {Unseen}]
      /\ \A m \in Messages : remaining'[m] # Unseen => remaining'[m] <= failures[m]
  <2> DEFINE m == MessageOf[r]
  <2>1. CASE remaining' = remaining
    BY <2>1
  <2>2. CASE ConsumeFailure(m)
    <3>1. m \in Messages
      BY MessageType
    <3>2. Left(m) \in Nat /\ Left(m) <= failures[m] /\ failures[m] \in Nat
      BY <3>1, LeftBounded
    <3>3. Left(m) > 0 /\ remaining' = [remaining EXCEPT ![m] = Left(m) - 1]
      BY <2>2 DEF ConsumeFailure
    <3> HIDE DEF m
    <3>4. ASSUME NEW k \in Messages
          PROVE  remaining'[k] = IF k = m THEN Left(m) - 1 ELSE remaining[k]
      BY <3>3
    <3> QED
      BY <3>1, <3>2, <3>3, <3>4
  <2> QED
    BY <2>1, <2>2 DEF Returned
<1>3. /\ next' \in [Records -> List] /\ open' \in [Records -> BOOLEAN]
      /\ last' \in [Records -> AllAnswers \union {"none"}] /\ said' \in [Records -> BOOLEAN]
  BY DispatchAssumption DEF Returned, Return, List
<1>4. failures' = failures
  BY DEF Returned, Return, wiring
<1> QED
  BY <1>1, <1>2, <1>3, <1>4

LEMMA LocalInvInit == Init => LocalInv
<1> SUFFICES ASSUME Init PROVE LocalInv
  OBVIOUS
<1>1. WiringTypes
  BY DispatchAssumption DEF Init, WiringTypes
<1>2. ProviderTypes
  BY DispatchAssumption DEF Init, ProviderTypes, List
<1>3. \A r \in Records : LoopInv(r)
  BY DEF Init, LoopInv
<1> QED
  BY <1>1, <1>2, <1>3 DEF LocalInv

LEMMA LocalInvStep == EP!TypeOK /\ EP!DeliveryInv /\ LocalInv /\ [Next]_vars => LocalInv'
<1> SUFFICES ASSUME EP!TypeOK, EP!DeliveryInv, LocalInv, [Next]_vars PROVE LocalInv'
  OBVIOUS
<1>1. CASE UNCHANGED vars
  BY <1>1 DEF vars, engineVars, providerVars, wiring, LocalInv, WiringTypes, ProviderTypes, LoopInv
<1>2. ASSUME NEW r \in Records, EngineStep(r)
      PROVE  LocalInv'
  <2>1. UNCHANGED providerVars
    BY <1>2 DEF EngineStep
  <2>2. \A q \in Records : pc[q] = "send" => pc'[q] = "send"
    BY <1>2, EngineMoves
  <2> QED
    BY <2>1, <2>2 DEF providerVars, wiring, LocalInv, WiringTypes, ProviderTypes, LoopInv
<1>3. ASSUME NEW r \in Records, Ongoing(r)
      PROVE  LocalInv'
  <2>1. WiringTypes' /\ pc' = pc /\ pc[r] = "send"
    BY <1>3 DEF Ongoing, Request, AcceptOne, wiring, engineVars, LocalInv, WiringTypes,
                Underway, LoopInv
  <2>2. CASE Request(r)
    BY <2>1, <2>2 DEF Request, wiring, LocalInv, ProviderTypes, LoopInv
  <2>3. CASE AcceptOne(r)
    <3>1. copies' \in [Records -> [List -> Nat]]
      BY <2>3, DeliverTypes DEF AcceptOne, Deliver, LocalInv, ProviderTypes
    <3>2. next' \in [Records -> List]
      BY <2>3, DispatchAssumption DEF AcceptOne, List, LocalInv, ProviderTypes
    <3>3. ProviderTypes'
      BY <2>3, <3>1, <3>2 DEF AcceptOne, wiring, LocalInv, ProviderTypes, AllAnswers
    <3>4. \A q \in Records : LoopInv(q)'
      BY <2>1, <2>3 DEF AcceptOne, Underway, wiring, LocalInv, ProviderTypes, LoopInv
    <3> QED
      BY <2>1, <3>3, <3>4 DEF LocalInv
  <2> QED
    BY <1>3, <2>2, <2>3 DEF Ongoing
<1>4. ASSUME NEW r \in Records, Returning(r)
      PROVE  LocalInv'
  <2>1. PICK res, answer, rejected : Returned(r, res, answer, rejected)
    BY <1>4, ReturningReturned
  <2>2. ProviderTypes'
    BY <2>1, ReturnedTypes
  <2>3. Return(r, res, answer, rejected)
    BY <2>1 DEF Returned
  <2>4. \A q \in Records : q # r => pc'[q] = pc[q]
    BY <2>3, ReturnMoves
  <2>5. WiringTypes' /\ channel' = channel /\ backend' = backend
    BY <2>3 DEF Return, wiring, LocalInv, WiringTypes
  <2>6. \A q \in Records : LoopInv(q)'
    BY <2>3, <2>4, <2>5 DEF Return, LocalInv, ProviderTypes, LoopInv
  <2> QED
    BY <2>2, <2>5, <2>6 DEF LocalInv
<1>5. ASSUME NEW s \in Sessions, E!Cancel(s), UNCHANGED providerVars
      PROVE  LocalInv'
  BY <1>5 DEF E!Cancel, providerVars, wiring, LocalInv, WiringTypes, ProviderTypes, LoopInv
<1>6. CASE Crash
  <2>1. WiringTypes' /\ \A q \in Records : LoopInv(q)'
    BY <1>6 DEF Crash, wiring, LocalInv, WiringTypes, LoopInv
  <2>2. ProviderTypes'
    BY <1>6, DispatchAssumption DEF Crash, wiring, LocalInv, ProviderTypes, List
  <2> QED
    BY <2>1, <2>2 DEF LocalInv
<1> QED
  BY <1>1, <1>2, <1>3, <1>4, <1>5, <1>6 DEF Next, Ongoing, Returning

\* What the proofs below may use of every reachable state.
LEMMA EngineAlways == Spec => []EP!TypeOK /\ []EP!DeliveryInv
<1>1. EP!Spec => []EP!TypeOK
  BY EngineInstance, EP!TypeCorrect
<1>2. EP!Spec => []EP!DeliveryInv
  BY EngineInstance, EP!DeliveryInvAlways
<1> QED
  BY DispatchImplementsEngine, <1>1, <1>2, PTL

LEMMA LocalInvAlways == Spec => []LocalInv
BY LocalInvInit, LocalInvStep, EngineAlways, PTL DEF Spec

\* Types of the composed system; the loop over the recipients stays within the
\* list, and the count of the mock never goes below zero.
THEOREM DispatchTypeCorrect == Spec => []TypeOK
<1>1. EP!TypeOK => E!TypeOK
  BY Zenon DEF EP!TypeOK, E!TypeOK, EP!Kinds, E!Kinds, EP!Stages, E!Stages,
       EP!HandlerStages, E!HandlerStages, EP!LoopStages, E!LoopStages,
       EP!AllResults, E!AllResults, EP!Events, E!Events, EP!EventTypes, E!EventTypes,
       EP!DeadLetters, E!DeadLetters, EP!FailureTypes, E!FailureTypes
<1>2. EP!TypeOK /\ LocalInv => TypeOK
  BY <1>1 DEF LocalInv, WiringTypes, ProviderTypes, TypeOK
<1> QED
  BY <1>2, EngineAlways, LocalInvAlways, PTL

-----------------------------------------------------------------------------
(* The copies of a message                                                 *)

\* Within an attempt the recipients before next have got one copy more than
\* those the loop has not come to, who still lack the copy of this attempt.
CopyInv(r) ==
  /\ \A i \in List : copies[r][i] <= attempt[r]
  /\ pc[r] \in {"attempt", "send"} =>
       \A i \in List : i >= next[r] => copies[r][i] < attempt[r]
  /\ \A i, j \in List : i < j => copies[r][i] >= copies[r][j]
  /\ \A i, j \in List : i < next[r] /\ next[r] <= j => copies[r][i] > copies[r][j]
  /\ result[r] = "ok" => \A i \in List : copies[r][i] >= 1

CopiesInv == \A r \in Records : CopyInv(r)

\* The copies of a record after one request to the recipients S.
After(r, S) == [i \in List |-> IF i \in S THEN copies[r][i] + 1 ELSE copies[r][i]]

\* What a request to the whole list, or to the recipient the loop has come to,
\* makes of the copies.
LEMMA HandOver ==
  ASSUME EP!TypeOK, LocalInv, NEW r \in Records, CopyInv(r), pc[r] = "send",
         NEW S, (S = List /\ next[r] = 1) \/ S = {next[r]}
  PROVE  /\ \A i \in List : After(r, S)[i] <= attempt[r]
         /\ \A i, j \in List : i < j => After(r, S)[i] >= After(r, S)[j]
         /\ S # List => \A i \in List : i > next[r] => After(r, S)[i] < attempt[r]
         /\ S # List =>
              \A i, j \in List : i <= next[r] /\ next[r] < j => After(r, S)[i] > After(r, S)[j]
         /\ S = List \/ next[r] = Recipients => \A i \in List : After(r, S)[i] >= 1
<1> DEFINE c == copies[r]
           a == attempt[r]
           n == next[r]
           d == After(r, S)
<1>1. c \in [List -> Nat] /\ a \in Nat /\ n \in List
  BY DEF LocalInv, ProviderTypes, EP!TypeOK
<1>2. /\ \A i \in List : c[i] <= a
      /\ \A i \in List : i >= n => c[i] < a
      /\ \A i, j \in List : i < j => c[i] >= c[j]
      /\ \A i, j \in List : i < n /\ n <= j => c[i] > c[j]
  BY DEF CopyInv
<1>3. \A i \in List : d[i] = IF i \in S THEN c[i] + 1 ELSE c[i]
  BY DEF After
<1>4. \A i \in List : i \in Nat /\ i >= 1 /\ i <= Recipients
  BY DispatchAssumption DEF List
<1>5. (S = List /\ n = 1) \/ S = {n}
  OBVIOUS
<1> HIDE DEF c, a, n, d
<1>6. \A i \in List : d[i] <= a
  BY <1>1, <1>2, <1>3, <1>4, <1>5
<1>7. \A i, j \in List : i < j => d[i] >= d[j]
  BY <1>1, <1>2, <1>3, <1>4, <1>5
<1>8. S # List => \A i \in List : i > n => d[i] < a
  BY <1>1, <1>2, <1>3, <1>4, <1>5
<1>9. S # List => \A i, j \in List : i <= n /\ n < j => d[i] > d[j]
  BY <1>1, <1>2, <1>3, <1>4, <1>5
<1>10. S = List \/ n = Recipients => \A i \in List : d[i] >= 1
  BY <1>1, <1>2, <1>3, <1>4, <1>5, DispatchAssumption
<1> QED
  BY <1>6, <1>7, <1>8, <1>9, <1>10 DEF a, n, d

LEMMA CopiesInvInit == Init => CopiesInv
BY DispatchAssumption DEF Init, E!Init, CopiesInv, CopyInv, List

\* A call returns.
LEMMA ReturnedCopies ==
  ASSUME EP!TypeOK, LocalInv, NEW r \in Records, CopyInv(r),
         NEW res, NEW answer, NEW rejected, Returned(r, res, answer, rejected)
  PROVE  CopyInv(r)' /\ \A q \in Records : q # r => copies'[q] = copies[q]
<1>1. Return(r, res, answer, rejected)
  BY DEF Returned
<1>2. /\ pc[r] = "send" /\ pc'[r] \notin {"attempt", "send"}
      /\ attempt' = attempt /\ result'[r] = res
  <2>1. result' = [result EXCEPT ![r] = res] /\ pc'[r] \in {"sentStatus", "failStatus", "backoff"}
        /\ pc[r] = "send" /\ attempt' = attempt
    BY <1>1, ReturnMoves
  <2> QED
    BY <2>1 DEF EP!TypeOK
<1>3. next'[r] = 1 /\ next[r] \in List /\ channel' = channel
  BY <1>1 DEF Return, wiring, LocalInv, ProviderTypes
<1>4. ASSUME NEW S, (S = List /\ next[r] = 1) \/ S = {next[r]},
             copies' = [copies EXCEPT ![r] = After(r, S)],
             res = "ok" => S = List \/ next[r] = Recipients
      PROVE  CopyInv(r)' /\ \A q \in Records : q # r => copies'[q] = copies[q]
  <2>1. copies'[r] = After(r, S) /\ \A q \in Records : q # r => copies'[q] = copies[q]
    BY <1>4 DEF LocalInv, ProviderTypes
  <2>2. /\ \A i \in List : copies'[r][i] <= attempt'[r]
        /\ \A i, j \in List : i < j => copies'[r][i] >= copies'[r][j]
        /\ result'[r] = "ok" => \A i \in List : copies'[r][i] >= 1
    BY <1>2, <1>4, <2>1, HandOver
  <2>3. \A i \in List : ~(i < next'[r])
    BY <1>3 DEF List
  <2> QED
    BY <1>2, <2>1, <2>2, <2>3 DEF CopyInv
<1>5. CASE res # "ok" /\ copies' = copies
  <2>1. \A i \in List : ~(i < next'[r])
    BY <1>3 DEF List
  <2> QED
    BY <1>2, <1>5, <2>1 DEF CopyInv
<1>6. CASE Deliver(r) /\ (res = "ok" => channel = "email" \/ next[r] = Recipients)
  <2>1. copies' = [copies EXCEPT ![r] = After(r, Batch(r))]
    BY <1>6 DEF Deliver, After
  <2>2. (Batch(r) = List /\ next[r] = 1) \/ Batch(r) = {next[r]}
    BY DEF Batch, LocalInv, LoopInv
  <2>3. res = "ok" => Batch(r) = List \/ next[r] = Recipients
    BY <1>6 DEF Batch
  <2> QED
    BY <1>4, <2>1, <2>2, <2>3
<1>7. CASE backend = "mock" /\ copies' = [copies EXCEPT ![r] = [i \in List |-> @[i] + 1]]
  <2>1. copies' = [copies EXCEPT ![r] = After(r, List)] /\ next[r] = 1
    BY <1>7 DEF After, LocalInv, LoopInv
  <2> QED
    BY <1>4, <2>1
<1> QED
  BY <1>5, <1>6, <1>7 DEF Returned

LEMMA CopiesInvStep ==
  EP!TypeOK /\ EP!DeliveryInv /\ LocalInv /\ CopiesInv /\ [Next]_vars => CopiesInv'
<1> SUFFICES ASSUME EP!TypeOK, EP!DeliveryInv, LocalInv, CopiesInv, [Next]_vars
             PROVE  CopiesInv'
  OBVIOUS
<1>1. ASSUME UNCHANGED <<pc, attempt, result, next, copies>>
      PROVE  CopiesInv'
  BY <1>1 DEF CopiesInv, CopyInv
<1>2. ASSUME NEW r \in Records, EngineStep(r)
      PROVE  CopiesInv'
  <2> SUFFICES ASSUME NEW q \in Records PROVE CopyInv(q)'
    BY DEF CopiesInv
  <2>1. next' = next /\ copies' = copies
    BY <1>2 DEF EngineStep, providerVars
  <2>2. CopyInv(q) /\ copies[q] \in [List -> Nat] /\ attempt[q] \in Nat /\ attempt'[q] >= attempt[q]
    BY <1>2, EngineMoves DEF CopiesInv, LocalInv, ProviderTypes, EP!TypeOK
  <2>3. attempt'[q] \in Nat
    BY <1>2, EngineMoves
  <2>4. result'[q] = result[q]
    BY <1>2, EngineMoves
  <2>5. pc'[q] \in {"attempt", "send"} =>
          \/ pc[q] \in {"attempt", "send"} /\ attempt'[q] = attempt[q]
          \/ attempt'[q] = attempt[q] + 1
    BY <1>2, EngineMoves
  <2> QED
    BY <2>1, <2>2, <2>3, <2>4, <2>5 DEF CopyInv
<1>3. CASE \E r \in Records : Request(r)
  BY <1>1, <1>3 DEF Request, engineVars
<1>4. ASSUME NEW r \in Records, AcceptOne(r)
      PROVE  CopiesInv'
  <2>1. /\ pc' = pc /\ attempt' = attempt /\ result' = result
        /\ next' = [next EXCEPT ![r] = @ + 1]
    BY <1>4 DEF AcceptOne, engineVars
  <2>2. copies' = [copies EXCEPT ![r] = After(r, {next[r]})]
    BY <1>4 DEF AcceptOne, Deliver, Batch, After
  <2>3. pc[r] = "send" /\ next[r] \in List /\ List # {next[r]} /\ next'[r] = next[r] + 1
    <3>1. open[r] /\ next[r] < Recipients
      BY <1>4 DEF AcceptOne, Underway
    <3>2. pc[r] = "send"
      BY <3>1 DEF LocalInv, LoopInv
    <3>3. next[r] \in List /\ next'[r] = next[r] + 1
      BY <2>1 DEF LocalInv, ProviderTypes
    <3>4. next[r] + 1 \in List
      BY <3>1, <3>3, DispatchAssumption DEF List
    <3> QED
      BY <3>2, <3>3, <3>4 DEF List
  <2>4. CopyInv(r)'
    <3>1. CopyInv(r) /\ copies'[r] = After(r, {next[r]}) /\ result[r] # "ok"
      BY <2>2, <2>3 DEF CopiesInv, LocalInv, ProviderTypes, EP!DeliveryInv, EP!Progress
    <3>2. /\ \A i \in List : copies'[r][i] <= attempt[r]
          /\ \A i, j \in List : i < j => copies'[r][i] >= copies'[r][j]
          /\ \A i \in List : i > next[r] => copies'[r][i] < attempt[r]
          /\ \A i, j \in List : i <= next[r] /\ next[r] < j => copies'[r][i] > copies'[r][j]
      BY <2>3, <3>1, HandOver
    <3>3. \A i \in List : /\ i >= next'[r] <=> i > next[r]
                          /\ i < next'[r] <=> i <= next[r]
                          /\ next'[r] <= i <=> next[r] < i
      BY <2>3 DEF List
    <3> QED
      BY <2>1, <3>1, <3>2, <3>3 DEF CopyInv
  <2>5. \A q \in Records : q # r => CopyInv(q)'
    BY <2>1, <2>2 DEF CopiesInv, CopyInv
  <2> QED
    BY <2>4, <2>5 DEF CopiesInv
<1>5. ASSUME NEW r \in Records, Returning(r)
      PROVE  CopiesInv'
  <2>1. PICK res, answer, rejected : Returned(r, res, answer, rejected)
    BY <1>5, ReturningReturned
  <2>2. Return(r, res, answer, rejected)
    BY <2>1 DEF Returned
  <2>3. CopyInv(r)' /\ \A q \in Records : q # r => copies'[q] = copies[q]
    BY <2>1, ReturnedCopies DEF CopiesInv
  <2>4. /\ \A q \in Records : q # r => pc'[q] = pc[q]
        /\ attempt' = attempt /\ result' = [result EXCEPT ![r] = res]
    BY <2>2, ReturnMoves
  <2>5. \A q \in Records : q # r => next'[q] = next[q] /\ result'[q] = result[q]
    BY <2>2, <2>4 DEF Return, LocalInv, ProviderTypes, EP!TypeOK
  <2>6. \A q \in Records : q # r => CopyInv(q)'
    BY <2>3, <2>4, <2>5 DEF CopiesInv, CopyInv
  <2> QED
    BY <2>3, <2>6 DEF CopiesInv
<1>6. CASE \E s \in Sessions : E!Cancel(s) /\ UNCHANGED providerVars
  BY <1>1, <1>6 DEF E!Cancel, providerVars
<1>7. CASE Crash
  <2>1. \A q \in Records : pc'[q] \notin {"attempt", "send"}
    BY <1>7 DEF Crash, E!Crash, E!Active, E!LoopStages
  <2>2. \A q \in Records : next'[q] = 1 /\ copies'[q] = copies[q]
    BY <1>7 DEF Crash
  <2>3. attempt' = attempt /\ result' = result
    BY <1>7 DEF Crash, E!Crash
  <2>4. \A i \in List : ~(i < 1)
    BY DEF List
  <2> QED
    BY <2>1, <2>2, <2>3, <2>4 DEF CopiesInv, CopyInv
<1>8. CASE UNCHANGED vars
  BY <1>1, <1>8 DEF vars, engineVars, providerVars
<1> QED
  BY <1>2, <1>3, <1>4, <1>5, <1>6, <1>7, <1>8 DEF Next, Returning

LEMMA CopiesInvAlways == Spec => []CopiesInv
BY CopiesInvInit, CopiesInvStep, EngineAlways, LocalInvAlways, PTL DEF Spec

\* A message that is reported and committed as sent has reached the whole list,
\* however long it is and whatever its earlier attempts came to.
THEOREM SentReachesAllAlways == Spec => []SentReachesAll
<1>1. CopiesInv => SentReachesAll
  BY DEF CopiesInv, CopyInv, SentReachesAll
<1> QED
  BY <1>1, CopiesInvAlways, PTL

\* No recipient gets more copies than there were attempts, and none fewer than
\* a recipient behind it.
THEOREM CopiesBoundedAlways == Spec => []CopiesBounded
<1>1. CopiesInv => CopiesBounded
  BY DEF CopiesInv, CopyInv, CopiesBounded
<1> QED
  BY <1>1, CopiesInvAlways, PTL

-----------------------------------------------------------------------------
(* Permanent failures                                                      *)

ReasonInv == \A r \in Records : result[r] = "permanent" => LikeRejection(last[r], said[r])

LEMMA ReasonInvStep ==
  EP!TypeOK /\ EP!DeliveryInv /\ LocalInv /\ ReasonInv /\ [Next]_vars => ReasonInv'
<1> SUFFICES ASSUME EP!TypeOK, EP!DeliveryInv, LocalInv, ReasonInv, [Next]_vars
             PROVE  ReasonInv'
  OBVIOUS
<1>1. ASSUME UNCHANGED <<result, last, said, channel>>
      PROVE  ReasonInv'
  BY <1>1 DEF ReasonInv, LikeRejection
<1>2. ASSUME NEW r \in Records, EngineStep(r)
      PROVE  ReasonInv'
  <2>1. UNCHANGED <<result, last, said, channel>>
    BY <1>2, EngineMoves DEF EngineStep, providerVars, wiring
  <2> QED
    BY <1>1, <2>1
<1>3. CASE \E r \in Records : Request(r)
  BY <1>1, <1>3 DEF Request, engineVars, wiring
<1>4. ASSUME NEW r \in Records, AcceptOne(r)
      PROVE  ReasonInv'
  <2>1. /\ result' = result /\ last' = [last EXCEPT ![r] = "accepted"]
        /\ said' = said /\ channel' = channel
    BY <1>4 DEF AcceptOne, engineVars, wiring
  <2>2. result[r] # "permanent"
    BY <1>4 DEF AcceptOne, Underway, LocalInv, LoopInv, ProviderTypes, EP!DeliveryInv, EP!Progress
  <2> QED
    BY <2>1, <2>2 DEF ReasonInv, LikeRejection, LocalInv, ProviderTypes
<1>5. ASSUME NEW r \in Records, Returning(r)
      PROVE  ReasonInv'
  <2>1. PICK res, answer, rejected : Returned(r, res, answer, rejected)
    BY <1>5, ReturningReturned
  <2>2. Return(r, res, answer, rejected) /\ (res = "permanent" => LikeRejection(answer, rejected))
    BY <2>1 DEF Returned
  <2>3. result' = [result EXCEPT ![r] = res]
    BY <2>2, ReturnMoves
  <2>4. /\ last' = [last EXCEPT ![r] = answer] /\ said' = [said EXCEPT ![r] = rejected]
        /\ channel' = channel
    BY <2>2 DEF Return, wiring
  <2> QED
    BY <2>2, <2>3, <2>4 DEF ReasonInv, LikeRejection, LocalInv, ProviderTypes, EP!TypeOK
<1>6. CASE \E s \in Sessions : E!Cancel(s) /\ UNCHANGED providerVars
  BY <1>1, <1>6 DEF E!Cancel, providerVars, wiring
<1>7. CASE Crash
  BY <1>1, <1>7 DEF Crash, E!Crash, wiring
<1>8. CASE UNCHANGED vars
  BY <1>1, <1>8 DEF vars, engineVars, providerVars, wiring
<1> QED
  BY <1>2, <1>3, <1>4, <1>5, <1>6, <1>7, <1>8 DEF Next, Returning

\* A permanent failure in the DLQ means that a recipient was rejected or that the
\* text of the last error reads so: the tables of the adapters turn no outage and
\* no overload into one, and no text a cancellation or a throttled Twilio request.
THEOREM PermanentHasReasonAlways == Spec => []PermanentHasReason
<1>1. Init => ReasonInv
  BY DEF Init, E!Init, ReasonInv
<1>2. EP!DeliveryInv /\ ReasonInv => PermanentHasReason
  BY DEF EP!DeliveryInv, EP!Honest, ReasonInv, PermanentHasReason
<1> QED
  BY <1>1, <1>2, ReasonInvStep, EngineAlways, LocalInvAlways, PTL DEF Spec

-----------------------------------------------------------------------------
(* Sums over finite sets                                                   *)

Total(f, S) == MapThenSumSet(LAMBDA q : f[q], S)

\* The element that the fold takes next.
Pick(s) == CHOOSE x \in s : TRUE

\* One step of the fold, for the sums h of the smaller sets.
SumStep(h, f, s) == IF s = {} THEN 0 ELSE f[Pick(s)] + h[s \ {Pick(s)}]

SumsOf(h, f, S) == h = [s \in SUBSET S |-> SumStep(h, f, s)]

LEMMA TotalUnfolds == ASSUME NEW f, NEW S PROVE Total(f, S) = (CHOOSE h : SumsOf(h, f, S))[S]
BY DEF Total, MapThenSumSet, MapThenFoldSet, SumsOf, SumStep, Pick

LEMMA NatMinimum ==
  ASSUME NEW T, T \subseteq Nat, T # {}
  PROVE  \E x \in T : \A y \in T : x <= y
<1>1. PICK x \in T : \A y \in T : ~ (<<y, x>> \in OpToRel(<, Nat))
  BY WFMin, NatLessThanWellFounded
<1>2. \A y \in T : ~(y < x)
  BY <1>1 DEF OpToRel
<1> QED
  BY <1>2

\* What is left after the pick is smaller.
LEMMA PickLeavesSmaller ==
  ASSUME NEW S, IsFiniteSet(S), NEW s \in SUBSET S
  PROVE  /\ Cardinality(s) \in Nat
         /\ s # {} => /\ Pick(s) \in s /\ s \ {Pick(s)} \in SUBSET S
                      /\ Cardinality(s \ {Pick(s)}) \in Nat
                      /\ Cardinality(s \ {Pick(s)}) = Cardinality(s) - 1
<1>1. IsFiniteSet(s) /\ Cardinality(s) \in Nat
  BY FS_Subset, FS_CardinalityType
<1>2. ASSUME s # {}
      PROVE  Pick(s) \in s
  BY <1>2 DEF Pick
<1>3. ASSUME s # {}
      PROVE  /\ IsFiniteSet(s \ {Pick(s)})
             /\ Cardinality(s \ {Pick(s)}) = Cardinality(s) - 1
  BY <1>1, <1>2, <1>3, FS_RemoveElement
<1> QED
  BY <1>1, <1>2, <1>3, FS_CardinalityType

\* h has the sums of the subsets of up to n elements.
SumsUpTo(h, f, S, n) ==
  /\ h = [s \in SUBSET S |-> h[s]]
  /\ \A s \in SUBSET S : Cardinality(s) <= n => h[s] = SumStep(h, f, s)

LEMMA SumsGrow ==
  ASSUME NEW S, IsFiniteSet(S), NEW f, NEW n \in Nat, NEW h, SumsUpTo(h, f, S, n)
  PROVE  \E g : SumsUpTo(g, f, S, n + 1)
<1> DEFINE g == [s \in SUBSET S |-> SumStep(h, f, s)]
<1>1. \A s \in SUBSET S : Cardinality(s) <= n => g[s] = h[s]
  BY DEF SumsUpTo
<1>2. ASSUME NEW s \in SUBSET S, Cardinality(s) <= n + 1
      PROVE  g[s] = SumStep(g, f, s)
  <2>1. CASE s = {}
    BY <2>1 DEF SumStep
  <2>2. CASE s # {}
    <3>1. s \ {Pick(s)} \in SUBSET S /\ Cardinality(s \ {Pick(s)}) <= n
      BY <1>2, <2>2, PickLeavesSmaller
    <3>2. g[s \ {Pick(s)}] = h[s \ {Pick(s)}]
      BY <1>1, <3>1
    <3>3. g[s] = SumStep(h, f, s)
      OBVIOUS
    <3> HIDE DEF g
    <3> QED
      BY <2>2, <3>2, <3>3 DEF SumStep
  <2> QED
    BY <2>1, <2>2
<1>3. g = [s \in SUBSET S |-> g[s]]
  OBVIOUS
<1> HIDE DEF g
<1>4. SumsUpTo(g, f, S, n + 1)
  BY <1>2, <1>3 DEF SumsUpTo
<1> QED
  BY <1>4

\* The recursion of the fold has a solution, by the least n without one.
LEMMA SumsExist ==
  ASSUME NEW S, IsFiniteSet(S), NEW f, NEW n \in Nat
  PROVE  \E h : SumsUpTo(h, f, S, n)
<1> DEFINE T == {k \in Nat : ~ \E h : SumsUpTo(h, f, S, k)}
<1> SUFFICES ASSUME T # {} PROVE FALSE
  OBVIOUS
<1>1. PICK k \in T : \A j \in T : k <= j
  BY NatMinimum
<1>2. CASE k = 0
  <2> DEFINE h == [s \in SUBSET S |-> 0]
  <2>1. ASSUME NEW s \in SUBSET S, Cardinality(s) <= 0
        PROVE  h[s] = SumStep(h, f, s)
    <3>1. s = {}
      <4> SUFFICES ASSUME s # {} PROVE FALSE
        OBVIOUS
      <4>1. Cardinality(s) \in Nat /\ Cardinality(s) - 1 \in Nat
        BY PickLeavesSmaller
      <4> QED
        BY <2>1, <4>1
    <3> QED
      BY <3>1 DEF SumStep
  <2>2. h = [s \in SUBSET S |-> h[s]]
    OBVIOUS
  <2> HIDE DEF h
  <2>3. SumsUpTo(h, f, S, 0)
    BY <2>1, <2>2 DEF SumsUpTo
  <2> QED
    BY <1>2, <2>3
<1>3. CASE k # 0
  <2>1. k - 1 \in Nat /\ k - 1 \notin T
    BY <1>1, <1>3
  <2>2. PICK h : SumsUpTo(h, f, S, k - 1)
    BY <2>1
  <2>3. \E g : SumsUpTo(g, f, S, (k - 1) + 1)
    BY <2>1, <2>2, SumsGrow
  <2>4. (k - 1) + 1 = k
    BY <1>1
  <2> QED
    BY <2>3, <2>4
<1> QED
  BY <1>2, <1>3

LEMMA TotalIsSum ==
  ASSUME NEW S, IsFiniteSet(S), NEW f
  PROVE  \E h : SumsOf(h, f, S) /\ Total(f, S) = h[S]
<1>1. PICK h : SumsUpTo(h, f, S, Cardinality(S))
  BY SumsExist, FS_CardinalityType
<1>2. \A s \in SUBSET S : Cardinality(s) <= Cardinality(S)
  BY FS_Subset
<1>3. \A s \in SUBSET S : h[s] = SumStep(h, f, s)
  BY <1>1, <1>2 DEF SumsUpTo
<1>4. SumsOf(h, f, S)
  <2>1. h = [s \in SUBSET S |-> h[s]]
    BY <1>1 DEF SumsUpTo
  <2> QED
    BY <1>3, <2>1 DEF SumsOf
<1>5. SumsOf(CHOOSE k : SumsOf(k, f, S), f, S)
  BY <1>4
<1> QED
  BY <1>5, TotalUnfolds

\* A sum of natural numbers grows with each of them.
LEMMA TotalGrows ==
  ASSUME NEW S, IsFiniteSet(S), NEW f, NEW g,
         \A q \in S : f[q] \in Nat /\ g[q] \in Nat /\ f[q] <= g[q]
  PROVE  /\ Total(f, S) \in Nat /\ Total(g, S) \in Nat /\ Total(f, S) <= Total(g, S)
         /\ \A r \in S : f[r] < g[r] => Total(f, S) < Total(g, S)
<1>1. PICK h : SumsOf(h, f, S) /\ Total(f, S) = h[S]
  BY TotalIsSum
<1>2. PICK k : SumsOf(k, g, S) /\ Total(g, S) = k[S]
  BY TotalIsSum
<1> DEFINE Grows(s) == /\ h[s] \in Nat /\ k[s] \in Nat /\ h[s] <= k[s]
                       /\ \A r \in s : f[r] < g[r] => h[s] < k[s]
           T == {n \in Nat : \E s \in SUBSET S : Cardinality(s) = n /\ ~Grows(s)}
<1>3. T = {}
  <2> SUFFICES ASSUME T # {} PROVE FALSE
    OBVIOUS
  <2>1. PICK n \in T : \A j \in T : n <= j
    BY NatMinimum
  <2>2. PICK s \in SUBSET S : Cardinality(s) = n /\ ~Grows(s)
    BY <2>1
  <2>3. h[s] = SumStep(h, f, s) /\ k[s] = SumStep(k, g, s)
    BY <1>1, <1>2 DEF SumsOf
  <2>4. CASE s = {}
    BY <2>2, <2>3, <2>4 DEF SumStep
  <2>5. CASE s # {}
    <3> DEFINE x == Pick(s)
               t == s \ {x}
    <3>1. x \in s /\ t \in SUBSET S /\ Cardinality(t) \in Nat /\ Cardinality(t) = n - 1 /\ n \in Nat
      BY <2>2, <2>5, PickLeavesSmaller
    <3>2. Grows(t)
      <4>1. Cardinality(t) \notin T
        <5> SUFFICES ASSUME Cardinality(t) \in T PROVE FALSE
          OBVIOUS
        <5>1. n <= Cardinality(t)
          BY <2>1
        <5> HIDE DEF T, t
        <5> QED
          BY <3>1, <5>1
      <4> QED
        BY <3>1, <4>1
    <3>3. h[s] = f[x] + h[t] /\ k[s] = g[x] + k[t]
      BY <2>3, <2>5 DEF SumStep
    <3>4. f[x] \in Nat /\ g[x] \in Nat /\ f[x] <= g[x]
      BY <3>1
    <3>5. \A r \in s : r = x \/ r \in t
      OBVIOUS
    <3> HIDE DEF x, t
    <3>6. Grows(s)
      BY <3>2, <3>3, <3>4, <3>5
    <3> QED
      BY <2>2, <3>6
  <2> QED
    BY <2>4, <2>5
<1>4. Grows(S)
  <2>1. Cardinality(S) \in Nat
    BY FS_CardinalityType
  <2> QED
    BY <1>3, <2>1
<1> QED
  BY <1>1, <1>2, <1>4

-----------------------------------------------------------------------------
(* The mock email provider                                                 *)

\* The message asks the mock email provider for a number of failures.
Counted(m) == backend = "mock" /\ channel = "email" /\ scenario[m] = "success"

\* The failures a message has consumed since the process started bound the
\* calls of a delivery in flight, unless its context is done; validation only
\* rejects a valid record under a done context.
BudgetInv(r) ==
  LET m == MessageOf[r]
  IN  /\ kind[r] = "valid"
      /\ pc[r] \in {"rejectStatus", "rejectDLQ"} => EP!Cancelled(r)
      /\ Counted(m) =>
           /\ result[r] # "permanent"
           /\ pc[r] \in EP!LoopStages =>
                sends[r] <= failures[m] - Left(m) \/ EP!Cancelled(r) \/ result[r] = "ok"
           /\ dlq[r] # {} => failures[m] >= MaxAttempts \/ EP!Cancelled(r)

BudgetsInv == \A r \in Records : BudgetInv(r)

LEMMA BudgetsInvInit == Init => BudgetsInv
BY DEF Init, E!Init, BudgetsInv, BudgetInv, EP!LoopStages

\* What a step must not do to a record in order to keep its BudgetInv.
LEMMA BudgetKept ==
  ASSUME NEW q \in Records, BudgetInv(q), done \subseteq done', UNCHANGED wiring,
         kind'[q] = kind[q], pc'[q] = pc[q], result'[q] = result[q],
         sends'[q] = sends[q], dlq'[q] = dlq[q],
         Left(MessageOf[q]) \in Int, Left(MessageOf[q])' \in Int,
         failures[MessageOf[q]] \in Int, sends[q] \in Int,
         Left(MessageOf[q])' <= Left(MessageOf[q])
  PROVE  BudgetInv(q)'
<1> DEFINE m == MessageOf[q]
<1>1. Counted(m)' = Counted(m) /\ failures'[m] = failures[m]
  BY DEF wiring, Counted
<1>2. EP!Cancelled(q) => EP!Cancelled(q)'
  BY DEF EP!Cancelled
<1>3. sends[q] <= failures[m] - Left(m) => sends'[q] <= failures'[m] - Left(m)'
  BY <1>1
<1> QED
  BY <1>1, <1>2, <1>3 DEF BudgetInv

\* A call of the mock consumes at most one failure, of its own message.
LEMMA ReturnedLeft ==
  ASSUME LocalInv, NEW r \in Records, NEW res, NEW answer, NEW rejected, Returned(r, res, answer, rejected),
         NEW m \in Messages
  PROVE  /\ Left(m) \in Nat /\ Left(m)' \in Nat /\ Left(m)' <= Left(m)
         /\ Left(m)' = Left(m) \/ (m = MessageOf[r] /\ Left(m)' = Left(m) - 1)
         /\ ConsumeFailure(MessageOf[r]) /\ m = MessageOf[r] => Left(m)' = Left(m) - 1
<1>1. failures' = failures /\ Left(m) \in Nat
  BY LeftBounded DEF Returned, Return, wiring
<1>2. CASE ConsumeFailure(MessageOf[r])
  <2>1. CASE m = MessageOf[r]
    <3>1. Left(m) > 0 /\ remaining'[m] = Left(m) - 1
      BY <1>2, <2>1 DEF ConsumeFailure, LocalInv, ProviderTypes
    <3>2. Left(m)' = Left(m) - 1
      BY <1>1, <3>1 DEF Left, Unseen
    <3> QED
      BY <1>1, <2>1, <3>1, <3>2
  <2>2. CASE m # MessageOf[r]
    <3>1. remaining'[m] = remaining[m]
      BY <1>2, <2>2 DEF ConsumeFailure, LocalInv, ProviderTypes
    <3>2. Left(m)' = Left(m)
      BY <1>1, <3>1 DEF Left
    <3> QED
      BY <1>1, <2>2, <3>2
  <2> QED
    BY <2>1, <2>2
<1>3. CASE ~ConsumeFailure(MessageOf[r])
  <2>1. remaining' = remaining
    BY <1>3 DEF Returned
  <2>2. Left(m)' = Left(m)
    BY <1>1, <2>1 DEF Left
  <2> QED
    BY <1>1, <1>3, <2>2
<1> QED
  BY <1>2, <1>3

\* A call that returns has consumed a failure, was cut short, or succeeded.
LEMMA ReturnedBudget ==
  ASSUME EP!TypeOK, EP!DeliveryInv, LocalInv, NEW r \in Records, BudgetInv(r),
         NEW res, NEW answer, NEW rejected, Returned(r, res, answer, rejected)
  PROVE  BudgetInv(r)'
<1> DEFINE m == MessageOf[r]
<1>1. Return(r, res, answer, rejected) /\ m \in Messages
  BY MessageType DEF Returned
<1>2. /\ pc[r] = "send" /\ pc'[r] \in {"sentStatus", "failStatus", "backoff"}
      /\ result' = [result EXCEPT ![r] = res] /\ sends' = [sends EXCEPT ![r] = @ + 1]
      /\ UNCHANGED <<done, kind, dlq>>
  BY <1>1, ReturnMoves
<1>3. result'[r] = res /\ sends'[r] = sends[r] + 1 /\ sends[r] \in Nat /\ dlq[r] = {}
  BY <1>2 DEF EP!TypeOK, EP!DeliveryInv, EP!Decision, EP!OpenStages
<1>4. /\ EP!Cancelled(r)' <=> EP!Cancelled(r)
      /\ Counted(m)' <=> Counted(m)
      /\ failures' = failures
  BY <1>1, <1>2 DEF EP!Cancelled, Return, wiring, Counted
<1>5. ASSUME Counted(m)
      PROVE  /\ res # "permanent"
             /\ sends[r] + 1 <= failures[m] - Left(m)' \/ EP!Cancelled(r) \/ res = "ok"
  <2>1. CASE res = "ok" \/ (res = "transient" /\ EP!Cancelled(r))
    BY <2>1
  <2>2. CASE res = "transient" /\ ConsumeFailure(m)
    <3>1. Left(m)' = Left(m) - 1 /\ Left(m) \in Nat /\ failures[m] \in Nat
      BY <1>1, <2>2, ReturnedLeft, LeftBounded
    <3>2. sends[r] <= failures[m] - Left(m) \/ EP!Cancelled(r)
      BY <1>2, <1>5 DEF BudgetInv, EP!LoopStages, EP!DeliveryInv, EP!Progress
    <3> QED
      BY <1>3, <2>2, <3>1, <3>2
  <2> QED
    BY <1>5, <2>1, <2>2 DEF Returned, Counted
<1> QED
  BY <1>2, <1>3, <1>4, <1>5 DEF BudgetInv

LEMMA BudgetsInvStep ==
  EP!TypeOK /\ EP!DeliveryInv /\ LocalInv /\ BudgetsInv /\ [Next]_vars => BudgetsInv'
<1> SUFFICES ASSUME EP!TypeOK, EP!DeliveryInv, LocalInv, BudgetsInv, [Next]_vars
             PROVE  BudgetsInv'
  OBVIOUS
<1>1. \A q \in Records : /\ Left(MessageOf[q]) \in Nat /\ failures[MessageOf[q]] \in Nat
                         /\ Left(MessageOf[q]) <= failures[MessageOf[q]] /\ sends[q] \in Nat
  BY MessageType, LeftBounded DEF EP!TypeOK
<1>2. ASSUME done \subseteq done', UNCHANGED wiring, remaining' = remaining,
             UNCHANGED <<kind, pc, result, sends, dlq>>
      PROVE  BudgetsInv'
  <2>1. \A m : Left(m)' = Left(m)
    BY <1>2 DEF Left, wiring
  <2> QED
    BY <1>1, <1>2, <2>1, BudgetKept DEF BudgetsInv
<1>3. ASSUME NEW r \in Records, EngineStep(r)
      PROVE  BudgetsInv'
  <2> SUFFICES ASSUME NEW q \in Records PROVE BudgetInv(q)'
    BY DEF BudgetsInv
  <2> DEFINE m == MessageOf[q]
  <2>1. UNCHANGED providerVars
    BY <1>3 DEF EngineStep
  <2>2. Left(m)' = Left(m) /\ Counted(m)' = Counted(m) /\ failures' = failures
    BY <2>1 DEF providerVars, wiring, Left, Counted
  <2>3. /\ result' = result /\ sends' = sends /\ done' = done /\ kind' = kind
        /\ dlq'[q] # dlq[q] => pc[q] \in {"rejectDLQ", "failDLQ"}
        /\ pc'[q] \in {"rejectStatus", "rejectDLQ"} =>
             pc[q] = "rejectStatus" \/ kind[q] # "valid" \/ EP!Cancelled(q) \/ pc[q] = "rejectDLQ"
        /\ pc'[q] \in EP!LoopStages => pc[q] \in EP!LoopStages \/ sends[q] = 0
    BY <1>3, EngineMoves
  <2>4. BudgetInv(q) /\ EP!Progress(q) /\ (EP!Cancelled(q)' <=> EP!Cancelled(q))
    BY <2>3 DEF BudgetsInv, EP!DeliveryInv, EP!Cancelled
  <2>5. ASSUME Counted(m), pc'[q] \in EP!LoopStages
        PROVE  sends[q] <= failures[m] - Left(m) \/ EP!Cancelled(q) \/ result[q] = "ok"
    BY <1>1, <2>3, <2>4, <2>5 DEF BudgetInv
  <2>6. ASSUME Counted(m), dlq'[q] # dlq[q]
        PROVE  failures[m] >= MaxAttempts \/ EP!Cancelled(q)
    <3>1. CASE pc[q] = "rejectDLQ"
      BY <2>4, <3>1 DEF BudgetInv
    <3>2. CASE pc[q] = "failDLQ"
      <4>1. sends[q] = MaxAttempts /\ result[q] # "ok"
        BY <2>4, <2>6, <3>2 DEF BudgetInv, EP!Progress
      <4>2. sends[q] <= failures[m] - Left(m) \/ EP!Cancelled(q)
        BY <2>4, <2>6, <3>2, <4>1 DEF BudgetInv, EP!LoopStages
      <4> QED
        BY <1>1, <4>1, <4>2
    <3> QED
      BY <2>3, <2>6, <3>1, <3>2
  <2> QED
    BY <2>2, <2>3, <2>4, <2>5, <2>6 DEF BudgetInv
<1>4. CASE \E r \in Records : Ongoing(r)
  BY <1>2, <1>4 DEF Ongoing, Request, AcceptOne, engineVars
<1>5. ASSUME NEW r \in Records, Returning(r)
      PROVE  BudgetsInv'
  <2>1. PICK res, answer, rejected : Returned(r, res, answer, rejected)
    BY <1>5, ReturningReturned
  <2>2. Return(r, res, answer, rejected)
    BY <2>1 DEF Returned
  <2>3. /\ result' = [result EXCEPT ![r] = res] /\ sends' = [sends EXCEPT ![r] = @ + 1]
        /\ \A q \in Records : q # r => pc'[q] = pc[q]
        /\ UNCHANGED <<done, kind, dlq>>
    BY <2>2, ReturnMoves
  <2>4. UNCHANGED wiring
    BY <2>2 DEF Return
  <2>5. ASSUME NEW q \in Records, q # r
        PROVE  BudgetInv(q)'
    <3>1. result'[q] = result[q] /\ sends'[q] = sends[q]
      BY <2>3, <2>5 DEF EP!TypeOK
    <3>2. Left(MessageOf[q])' \in Nat /\ Left(MessageOf[q])' <= Left(MessageOf[q])
      BY <2>1, MessageType, ReturnedLeft
    <3> QED
      BY <1>1, <2>3, <2>4, <2>5, <3>1, <3>2, BudgetKept DEF BudgetsInv
  <2>6. BudgetInv(r)'
    BY <2>1, ReturnedBudget DEF BudgetsInv
  <2> QED
    BY <2>5, <2>6 DEF BudgetsInv
<1>6. CASE \E s \in Sessions : E!Cancel(s) /\ UNCHANGED providerVars
  BY <1>2, <1>6 DEF E!Cancel, providerVars, wiring
<1>7. CASE Crash
  <2>1. \A q \in Records : pc'[q] \notin EP!LoopStages \union {"rejectStatus", "rejectDLQ"}
    BY <1>7 DEF Crash, E!Crash, E!Active, E!LoopStages, E!HandlerStages, EP!LoopStages
  <2>2. UNCHANGED <<wiring, done, kind, result, dlq>>
    BY <1>7 DEF Crash, E!Crash
  <2> QED
    BY <2>1, <2>2 DEF BudgetsInv, BudgetInv, Counted, wiring, EP!Cancelled
<1>8. CASE UNCHANGED vars
  BY <1>2, <1>8 DEF vars, engineVars, providerVars
<1> QED
  BY <1>3, <1>4, <1>5, <1>6, <1>7, <1>8 DEF Next, Ongoing, Returning

\* The deliveries of a message, and the calls made for all of them.
Deliveries(m) == {q \in Records : MessageOf[q] = m}
Calls(m) == Total(sends, Deliveries(m))

\* The count belongs to the message: the failures consumed since the process
\* started are calls of some delivery of it, and the call that succeeds is one
\* more than those.
CountInv ==
  \A m \in Messages :
    Counted(m) =>
      /\ Calls(m) + Left(m) >= failures[m]
      /\ \A r \in Deliveries(m) : result[r] = "ok" => Calls(m) > failures[m]

LEMMA CallsType ==
  ASSUME EP!TypeOK, NEW m
  PROVE  Calls(m) \in Nat
<1>1. IsFiniteSet(Deliveries(m))
  BY EngineAssumption, FS_Subset DEF Deliveries
<1>2. \A q \in Deliveries(m) : sends[q] \in Nat
  BY DEF Deliveries, EP!TypeOK
<1> QED
  BY <1>1, <1>2, TotalGrows DEF Calls

\* A call of a delivery is a call for its message.
LEMMA CallsGrow ==
  ASSUME EP!TypeOK, NEW r \in Records, sends' = [sends EXCEPT ![r] = @ + 1], NEW m
  PROVE  /\ Calls(m)' \in Nat /\ Calls(m)' >= Calls(m)
         /\ m = MessageOf[r] => Calls(m)' > Calls(m)
<1>1. IsFiniteSet(Deliveries(m))
  BY EngineAssumption, FS_Subset DEF Deliveries
<1>2. \A q \in Deliveries(m) : sends[q] \in Nat /\ sends'[q] \in Nat /\ sends[q] <= sends'[q]
  BY DEF Deliveries, EP!TypeOK
<1>3. sends[r] < sends'[r] /\ (m = MessageOf[r] => r \in Deliveries(m))
  BY DEF Deliveries, EP!TypeOK
<1>4. Calls(m)' = Total(sends', Deliveries(m))
  BY DEF Calls, Deliveries
<1>5. /\ Total(sends', Deliveries(m)) \in Nat
      /\ Total(sends, Deliveries(m)) <= Total(sends', Deliveries(m))
      /\ \A q \in Deliveries(m) :
           sends[q] < sends'[q] => Total(sends, Deliveries(m)) < Total(sends', Deliveries(m))
  BY <1>1, <1>2, TotalGrows
<1>6. Total(sends, Deliveries(m)) \in Nat
  BY <1>1, <1>2, TotalGrows
<1> QED
  BY <1>3, <1>4, <1>5, <1>6 DEF Calls

LEMMA CountInvInit == Init => CountInv
<1> SUFFICES ASSUME Init, NEW m \in Messages
             PROVE  /\ Calls(m) + Left(m) >= failures[m]
                    /\ \A r \in Deliveries(m) : result[r] # "ok"
  BY DEF CountInv
<1>1. EP!TypeOK
  BY EngineInstance DEF Init, E!Init, E!Kinds, EP!TypeOK, EP!Kinds, EP!Stages, EP!ConfigAccepted
<1>2. Left(m) = failures[m] /\ failures[m] \in Nat
  BY DispatchAssumption DEF Init, Left
<1>3. Calls(m) \in Nat
  BY <1>1, CallsType
<1>4. \A r \in Deliveries(m) : result[r] # "ok"
  BY DEF Init, E!Init, Deliveries
<1> QED
  BY <1>2, <1>3, <1>4

LEMMA CountInvStep ==
  EP!TypeOK /\ EP!DeliveryInv /\ LocalInv /\ CountInv /\ [Next]_vars => CountInv'
<1> SUFFICES ASSUME EP!TypeOK, EP!DeliveryInv, LocalInv, CountInv, [Next]_vars
             PROVE  CountInv'
  OBVIOUS
<1>1. \A m \in Messages : Calls(m) \in Nat /\ Left(m) \in Nat /\ failures[m] \in Nat
  BY CallsType, LeftBounded
<1>2. ASSUME UNCHANGED <<wiring, result, sends>>,
             \A m \in Messages : Left(m)' \in Nat /\ Left(m)' >= Left(m)
      PROVE  CountInv'
  <2>1. \A m : Calls(m)' = Calls(m) /\ Counted(m)' = Counted(m) /\ Deliveries(m)' = Deliveries(m)
    BY <1>2 DEF Calls, Deliveries, Counted, wiring
  <2>2. failures' = failures
    BY <1>2 DEF wiring
  <2> QED
    BY <1>1, <1>2, <2>1, <2>2 DEF CountInv
<1>3. ASSUME UNCHANGED <<wiring, result, sends, remaining>>
      PROVE  CountInv'
  <2>1. \A m \in Messages : Left(m)' = Left(m)
    BY <1>3 DEF Left, wiring
  <2> QED
    BY <1>1, <1>2, <1>3, <2>1
<1>4. ASSUME NEW r \in Records, EngineStep(r)
      PROVE  CountInv'
  <2>1. UNCHANGED providerVars
    BY <1>4 DEF EngineStep
  <2>2. result' = result /\ sends' = sends
    BY <1>4, EngineMoves
  <2> QED
    BY <1>3, <2>1, <2>2 DEF providerVars
<1>5. CASE \E r \in Records : Ongoing(r)
  BY <1>3, <1>5 DEF Ongoing, Request, AcceptOne, engineVars
<1>6. ASSUME NEW r \in Records, Returning(r)
      PROVE  CountInv'
  <2>1. PICK res, answer, rejected : Returned(r, res, answer, rejected)
    BY <1>6, ReturningReturned
  <2>2. Return(r, res, answer, rejected)
    BY <2>1 DEF Returned
  <2>3. result' = [result EXCEPT ![r] = res] /\ sends' = [sends EXCEPT ![r] = @ + 1]
    BY <2>2, ReturnMoves
  <2>4. UNCHANGED wiring
    BY <2>2 DEF Return
  <2> SUFFICES ASSUME NEW m \in Messages, Counted(m)
               PROVE  /\ Calls(m)' + Left(m)' >= failures[m]
                      /\ \A q \in Deliveries(m) : result'[q] = "ok" => Calls(m)' > failures[m]
    BY <2>4 DEF CountInv, Counted, wiring, Deliveries
  <2>5. /\ Calls(m)' \in Nat /\ Calls(m)' >= Calls(m)
        /\ m = MessageOf[r] => Calls(m)' > Calls(m)
    BY <2>3, CallsGrow
  <2>6. /\ Left(m)' \in Nat
        /\ Left(m)' = Left(m) \/ (m = MessageOf[r] /\ Left(m)' = Left(m) - 1)
    BY <2>1, ReturnedLeft
  <2>7. Calls(m) + Left(m) >= failures[m]
    BY DEF CountInv
  <2>8. ASSUME NEW q \in Deliveries(m), result'[q] = "ok"
        PROVE  Calls(m)' > failures[m]
    <3>1. CASE q = r
      <4>1. m = MessageOf[r] /\ res = "ok"
        BY <2>3, <2>8, <3>1 DEF Deliveries, EP!TypeOK
      <4>2. Left(m) = 0
        BY <2>1, <4>1 DEF Returned, Counted
      <4> QED
        BY <1>1, <2>5, <2>7, <4>1, <4>2
    <3>2. CASE q # r
      <4>1. result[q] = "ok"
        BY <2>3, <2>8, <3>2 DEF Deliveries, EP!TypeOK
      <4>2. Calls(m) > failures[m]
        BY <4>1 DEF CountInv
      <4> QED
        BY <1>1, <2>5, <4>2
    <3> QED
      BY <3>1, <3>2
  <2>9. Calls(m)' + Left(m)' >= failures[m]
    BY <1>1, <2>5, <2>6, <2>7
  <2> QED
    BY <2>8, <2>9
<1>7. CASE \E s \in Sessions : E!Cancel(s) /\ UNCHANGED providerVars
  BY <1>3, <1>7 DEF E!Cancel, providerVars
<1>8. CASE Crash
  <2>1. UNCHANGED <<wiring, result, sends>>
    BY <1>8 DEF Crash, E!Crash
  <2>2. \A m \in Messages : Left(m)' = failures[m]
    BY <1>8, <2>1 DEF Crash, Left, wiring
  <2> QED
    BY <1>1, <1>2, <2>1, <2>2, LeftBounded
<1>9. CASE UNCHANGED vars
  BY <1>3, <1>9 DEF vars, engineVars, providerVars
<1> QED
  BY <1>4, <1>5, <1>6, <1>7, <1>8, <1>9 DEF Next, Ongoing, Returning

\* A message that asks the mock for n failures fails n times in all: it is sent
\* after n failed calls of any of its deliveries, and a dead letter means that n
\* uses up the attempts of one delivery or that its context was cancelled.
THEOREM MockRecoversAlways == Spec => []MockRecovers
<1>1. EP!TypeOK /\ BudgetsInv /\ CountInv => MockRecovers
  <2> SUFFICES ASSUME EP!TypeOK, BudgetsInv, CountInv, backend = "mock", channel = "email",
                      NEW r \in Records, scenario[MessageOf[r]] = "success"
               PROVE  /\ dlq[r] # {} => failures[MessageOf[r]] >= MaxAttempts \/ E!Cancelled(r)
                      /\ result[r] = "ok" => Calls(MessageOf[r]) > failures[MessageOf[r]]
    BY DEF MockRecovers, Calls, Total, Deliveries
  <2>1. Counted(MessageOf[r]) /\ MessageOf[r] \in Messages /\ r \in Deliveries(MessageOf[r])
    BY MessageType DEF Counted, Deliveries
  <2> QED
    BY <2>1, SameEngine DEF BudgetsInv, BudgetInv, CountInv
<1> QED
  BY <1>1, BudgetsInvInit, BudgetsInvStep, CountInvInit, CountInvStep,
     EngineAlways, LocalInvAlways, PTL DEF Spec

=============================================================================

----------------------------- MODULE MCBackoff ------------------------------
(* Startup and Backoff with durations of a few bits.                       *)
EXTENDS Startup

Unset     == [form |-> "unset", value |-> ""]
Spaces    == [form |-> "blank", value |-> ""]
Text(t)   == [form |-> "text", value |-> t]
Number(n) == [form |-> "number", value |-> n]
Flag(b)   == [form |-> "flag", value |-> b]
List(s)   == [form |-> "list", value |-> s]

\* A complete environment: what must be set is set, the rest is left out.
Complete ==
  [n \in Names |->
     IF n \in KafkaNames THEN Text("name")
     ELSE IF n = "KAFKA_BROKERS" THEN List({"b1", "b2"}) ELSE Unset]

With(e, changes) == [n \in Names |-> IF n \in DOMAIN changes THEN changes[n] ELSE e[n]]

Smtp(port) == [SMTP_HOST |-> Text("host"), SMTP_PORT |-> port, SMTP_USER |-> Text("user"),
               SMTP_PASS |-> Text("pass"), SMTP_FROM |-> Text("from")]
Twilio     == [n \in TwilioNames |-> Text("credential")]

Select(e, w, s) == With(Complete, [EMAIL_PROVIDER |-> e, SMS_PROVIDER |-> s, WHATSAPP_PROVIDER |-> w])

\* Selections of providers with all, or all but one, of their credentials.
Selections ==
  {Select(e, w, s) : e \in {Unset, Text("SMTP"), Text("mock"), Text("twilio")},
                     w \in {Unset, Text("Twilio")}, s \in {Spaces, Text("twilio"), Text("smtp")}}

Credentialed ==
  UNION {{With(e, [n \in SmtpNames \union TwilioNames |->
                     IF n = missing THEN Spaces
                     ELSE IF n \in SmtpNames THEN Smtp(port)[n] ELSE Twilio[n]]) :
            missing \in SmtpNames \union TwilioNames \union {"none"},
            port \in {Number(0), Number(587), Number(65536), Text("smtp")}} : e \in Selections}

\* One required setting missing, and each way to write the others.
Incomplete ==
  {With(Complete, [n \in {m} |-> v]) : m \in KafkaNames \union {"KAFKA_BROKERS"}, v \in {Unset, Spaces}}
    \union {With(Complete, [KAFKA_BROKERS |-> List({})])}
    \union {With(Complete, [LOG_LEVEL |-> v]) : v \in {Text("debug"), Text("verbose")}}
    \union {With(Complete, [COMMIT_ON_SUCCESS_ONLY |-> v]) : v \in {Flag(FALSE), Text("yes")}}

\* The numbers of the retries; 8 bits of 2 units per second overflow early.
Retrying ==
  {With(Complete, [MAX_ATTEMPTS |-> n, BASE_BACKOFF_SECONDS |-> b, MAX_BACKOFF_SECONDS |-> c,
                   WORKER_CONCURRENCY |-> w]) :
     n \in {Unset, Number(0), Number(1), Number(12), Text("three")},
     b \in {Unset, Number(-1), Number(0), Number(1), Number(5), Number(130)},
     c \in {Unset, Number(0), Number(10), Number(127), Number(128)},
     w \in {Unset, Number(0)}}

MCEnvironments == Selections \union Credentialed \union Incomplete \union Retrying
=============================================================================

------------------------------ MODULE Startup ------------------------------
(***************************************************************************)
(* How a worker process starts: main (cmd/<channel>-worker/main.go) loads  *)
(* the configuration (internal/config/config.go), builds logger, producer, *)
(* consumer, provider (internal/providers/factory/factory.go) and engine,  *)
(* one after the other, and ends at the first that refuses.  A worker that *)
(* runs then retries with the delays it was configured with (Backoff).     *)
(*                                                                         *)
(* The environment maps the name of every setting to what was written:     *)
(*   form   "unset", "blank" (empty or spaces only) or the kind of value   *)
(*          the text can be read as: "number", "flag", "text" or "list"    *)
(*   value  that value; of a list its entries without blanks, as a set     *)
(* (.env is read before; it only fills in what is unset).                  *)
(***************************************************************************)
EXTENDS Backoff, Functions

CONSTANTS
  Environments,  \* the environments to start in
  Services,      \* the channels whose worker is started
  Brokers,       \* subset of BOOLEAN: whether the brokers can be reached
  Second         \* durations per second

VARIABLES
  env, service,
  stage,    \* the next thing main does
  refused,  \* the stage that ended the process, or "none"
  config,   \* what Load returned, <<>> before
  backend,  \* the provider in use
  engine    \* Config of the engine, <<>> before; base and cap are part of it

startVars == <<env, service, stage, refused, config, backend, engine>>
retryVars == <<platform, base, cap, attempt, delay>>

-----------------------------------------------------------------------------
(* The settings and their defaults                                         *)

Numbers ==
  [APP_PORT |-> 8080, KAFKA_REQUEST_PARTITIONS |-> 6, KAFKA_REPLICATION_FACTOR |-> 1,
   MAX_ATTEMPTS |-> 3, BASE_BACKOFF_SECONDS |-> 10, MAX_BACKOFF_SECONDS |-> 120,
   WORKER_CONCURRENCY |-> 10, MSG_MAX_BYTES |-> 200000, RECIPIENTS_MAX |-> 50,
   SUBJECT_MAX_LEN |-> 255, BODY_MAX_BYTES |-> 100000, SMS_RECIPIENTS_MAX |-> 10,
   SMS_BODY_MAX |-> 1600, WA_BODY_MAX |-> 4096, META_MAX_ENTRIES |-> 20,
   META_MAX_KEY_LEN |-> 64, META_MAX_VALUE_LEN |-> 256, SMTP_PORT |-> 0,
   PROVIDER_TIMEOUT_SECONDS |-> 30, HEALTH_POLL_INTERVAL_SECONDS |-> 15,
   HEALTH_CHECK_TIMEOUT_MS |-> 200, HEALTH_HANDLER_TIMEOUT_MS |-> 500]

Flags == [COMMIT_ON_SUCCESS_ONLY |-> TRUE, HEALTH_ENABLE_PROVIDER_PROBE |-> FALSE]

Choices == [APP_ENV |-> "development", LOG_LEVEL |-> "info", BACKOFF_STRATEGY |-> "exponential",
            BACKOFF_JITTER |-> "full", EMAIL_PROVIDER |-> "mock", SMS_PROVIDER |-> "mock",
            WHATSAPP_PROVIDER |-> "mock"]

\* Topics and groups of every channel, whichever channel the worker serves.
KafkaNames ==
  {"KAFKA_EMAIL_REQUEST_TOPIC", "KAFKA_EMAIL_STATUS_TOPIC", "KAFKA_EMAIL_DLQ_TOPIC",
   "KAFKA_SMS_REQUEST_TOPIC", "KAFKA_SMS_STATUS_TOPIC", "KAFKA_SMS_DLQ_TOPIC",
   "KAFKA_WHATSAPP_REQUEST_TOPIC", "KAFKA_WHATSAPP_STATUS_TOPIC", "KAFKA_WHATSAPP_DLQ_TOPIC",
   "EMAIL_CONSUMER_GROUP", "SMS_CONSUMER_GROUP", "WHATSAPP_CONSUMER_GROUP"}

SmtpNames   == {"SMTP_HOST", "SMTP_PORT", "SMTP_USER", "SMTP_PASS", "SMTP_FROM"}
TwilioNames == {"TWILIO_ACCOUNT_SID", "TWILIO_AUTH_TOKEN", "TWILIO_PHONE_NUMBER"}

Names == DOMAIN Numbers \union DOMAIN Flags \union DOMAIN Choices \union KafkaNames
           \union SmtpNames \union TwilioNames \union {"KAFKA_BROKERS"}

Default(name) ==
  IF name \in DOMAIN Numbers THEN Numbers[name]
  ELSE IF name \in DOMAIN Flags THEN Flags[name]
  ELSE IF name \in DOMAIN Choices THEN Choices[name]
  ELSE IF name = "KAFKA_BROKERS" THEN {} ELSE ""

ProviderOf == [email |-> "EMAIL_PROVIDER", sms |-> "SMS_PROVIDER", whatsapp |-> "WHATSAPP_PROVIDER"]

Backends(name) == IF name = "EMAIL_PROVIDER" THEN {"smtp", "mock"} ELSE {"mock", "twilio"}

Levels == {"trace", "debug", "info", "warn", "error", "fatal", "panic", "disabled"}

ASSUME StartupAssumption ==
  /\ Services \subseteq DOMAIN ProviderOf /\ Brokers \subseteq BOOLEAN /\ Second \in Nat \ {0}

\* How a setting can be written: a number or a flag is only looked for where
\* one is expected, and only the brokers are a list.
Readable(name, raw) ==
  /\ raw.form \in {"unset", "blank", "number", "flag", "text", "list"}
  /\ raw.form \in {"number", "flag"} => name \in DOMAIN Numbers \union DOMAIN Flags
  /\ raw.form = "number" => raw.value \in Int
  /\ raw.form = "text" => raw.value # "" /\ name # "KAFKA_BROKERS"
  /\ raw.form = "list" => name = "KAFKA_BROKERS"

ASSUME EnvironmentAssumption == \A e \in Environments : \A n \in Names : Readable(n, e[n])

\* strings.ToLower on the spellings of a backend.
Lower(text) == CASE text = "SMTP" -> "smtp" [] text = "Twilio" -> "twilio" [] OTHER -> text

-----------------------------------------------------------------------------
(* Load                                                                    *)

Blank(raw) == raw.form \in {"unset", "blank"}

\* What getInt and getBool cannot parse; any text is a string.
Malformed(name, raw) ==
  \/ name \in DOMAIN Numbers /\ raw.form \notin {"unset", "blank", "number"}
  \/ name \in DOMAIN Flags /\ raw.form \notin {"unset", "blank", "flag"}

\* getString, getInt, getBool, getStringSlice
Value(name, raw) ==
  IF Blank(raw) \/ (name \in DOMAIN Numbers \union DOMAIN Flags /\ Malformed(name, raw)) THEN Default(name)
  ELSE IF name \in Range(ProviderOf) THEN Lower(raw.value) ELSE raw.value

\* Credentials with WhatsApp left out of requireTwilio, for RefusedForCause.
CredentialsOfSMS(cfg) ==
  (IF cfg["EMAIL_PROVIDER"] = "smtp" THEN SmtpNames ELSE {})
    \union (IF cfg["SMS_PROVIDER"] = "twilio" THEN TwilioNames ELSE {})

\* The settings that the selected providers need; both Twilio channels share
\* theirs, and a worker demands those of the other channels too.
Credentials(cfg) ==
  (IF cfg["EMAIL_PROVIDER"] = "smtp" THEN SmtpNames ELSE {})
    \union (IF "twilio" \in {cfg["SMS_PROVIDER"], cfg["WHATSAPP_PROVIDER"]} THEN TwilioNames ELSE {})

\* LoadErrors with the errors of Atoi and ParseBool dropped, for
\* StartsAsConfigured.
LoadErrorsUnparsed(e, cfg) ==
  {n \in KafkaNames \union {"KAFKA_BROKERS"} \union Credentials(cfg) : Blank(e[n])}
    \union {n \in {"KAFKA_BROKERS"} : cfg[n] = {}}
    \union {n \in Range(ProviderOf) : cfg[n] \notin Backends(n)}

\* The settings Load complains about, collected over the whole environment.
LoadErrors(e, cfg) ==
  {n \in KafkaNames \union {"KAFKA_BROKERS"} \union Credentials(cfg) : Blank(e[n])}
    \union {n \in Names : Malformed(n, e[n])}
    \union {n \in {"KAFKA_BROKERS"} : cfg[n] = {}}
    \union {n \in Range(ProviderOf) : cfg[n] \notin Backends(n)}
    \union {n \in {"SMTP_PORT"} : cfg["EMAIL_PROVIDER"] = "smtp" /\ cfg[n] <= 0}

-----------------------------------------------------------------------------
(* main                                                                    *)

\* log.Fatal: no deferred function runs.
Fatal(at) == refused' = at /\ stage' = "ended"

\* One thing main builds: it goes on to the next or ends the process.
Build(at, ok, then) ==
  /\ stage = at
  /\ IF ok THEN stage' = then /\ UNCHANGED refused ELSE Fatal(at)
  /\ UNCHANGED <<env, service>>

Load ==
  LET cfg == [n \in Names |-> Value(n, env[n])]
      ok  == LoadErrors(env, cfg) = {}
  IN  /\ Build("load", ok, "logger")
      /\ config' = IF ok THEN cfg ELSE <<>>
      /\ UNCHANGED <<backend, engine, retryVars>>

NewLogger ==
  /\ Build("logger", config["LOG_LEVEL"] \in Levels, "kafka")
  /\ UNCHANGED <<config, backend, engine, retryVars>>

\* The producer and then the consumer; each connects.
NewKafka ==
  /\ \E up \in Brokers : Build("kafka", up /\ config["KAFKA_BROKERS"] # {}, "provider")
  /\ UNCHANGED <<config, backend, engine, retryVars>>

ValidPort(port) == port \in 1..65535

\* The constructors of the providers check their settings again.
ProviderAccepts(name) ==
  \/ name = "mock"
  \/ name = "twilio" /\ \A n \in TwilioNames : config[n] # ""
  \/ /\ name = "smtp"
     /\ config["SMTP_HOST"] # "" /\ config["SMTP_FROM"] # "" /\ ValidPort(config["SMTP_PORT"])

NewProvider ==
  LET name == config[ProviderOf[service]]
  IN  /\ Build("provider", ProviderAccepts(name), "engine")
      /\ backend' = IF ProviderAccepts(name) THEN name ELSE "none"
      /\ UNCHANGED <<config, engine, retryVars>>

\* time.Duration(seconds) * time.Second wraps around.
Duration(seconds) == ((seconds * Second - MinInt) % (MaxInt - MinInt + 1)) + MinInt

EngineAccepts ==
  config["MAX_ATTEMPTS"] >= 1 /\ config["WORKER_CONCURRENCY"] >= 1 /\ config["MSG_MAX_BYTES"] >= 0

NewEngine ==
  /\ Build("engine", EngineAccepts, "running")
  /\ IF EngineAccepts
     THEN /\ engine' = Restrict(config, {"MAX_ATTEMPTS", "WORKER_CONCURRENCY", "MSG_MAX_BYTES"})
          /\ base' = Duration(config["BASE_BACKOFF_SECONDS"])
          /\ cap' = Duration(config["MAX_BACKOFF_SECONDS"])
     ELSE UNCHANGED <<engine, base, cap>>
  /\ UNCHANGED <<config, backend, platform, attempt, delay>>

\* A record fails and attempts are left.
RetryRecord ==
  /\ stage = "running" /\ attempt + 1 < engine["MAX_ATTEMPTS"]
  /\ Retry
  /\ UNCHANGED startVars

Init ==
  /\ env \in Environments /\ service \in Services
  /\ stage = "load" /\ refused = "none"
  /\ config = <<>> /\ backend = "none" /\ engine = <<>>
  /\ platform \in Platforms /\ base = 0 /\ cap = 0 /\ attempt = 0 /\ delay = 0

Next == Load \/ NewLogger \/ NewKafka \/ NewProvider \/ NewEngine \/ RetryRecord

Spec == Init /\ [][Next]_<<startVars, retryVars>>

-----------------------------------------------------------------------------

Written(name) == ~Blank(env[name])

Fits(seconds) == seconds * Second \in MinInt..MaxInt

UsesWritten ==
  /\ \A n \in DOMAIN Numbers : Written(n) => env[n].form = "number" /\ env[n].value = config[n]
  /\ \A n \in DOMAIN Flags : Written(n) => env[n].form = "flag" /\ env[n].value = config[n]
  /\ \A n \in Names : ~Written(n) => config[n] = Default(n)

UsesSelected ==
  /\ LET name == ProviderOf[service]
     IN  backend = IF Written(name) THEN Lower(env[name].value) ELSE "mock"
  /\ backend = "smtp" => \A n \in SmtpNames : Written(n)
  /\ backend = "twilio" => \A n \in TwilioNames : Written(n)

UsesNumbers ==
  /\ engine["MAX_ATTEMPTS"] >= 1 /\ engine["WORKER_CONCURRENCY"] >= 1
  /\ Fits(config["BASE_BACKOFF_SECONDS"]) => base = config["BASE_BACKOFF_SECONDS"] * Second
  /\ Fits(config["MAX_BACKOFF_SECONDS"]) => cap = config["MAX_BACKOFF_SECONDS"] * Second

\* A worker that runs works with the values its environment names: every value
\* that was written was understood, only what was left blank is a default, the
\* provider in use is the one selected and has all its credentials, and the
\* engine got numbers it can work with.
StartsAsConfigured == stage = "running" => UsesWritten /\ UsesSelected /\ UsesNumbers

KafkaCause == FALSE \in Brokers

\* Load looks for a port, not for its upper bound.
ProviderCause == service = "email" /\ config["SMTP_PORT"] > 65535

EngineCause ==
  \E n \in {"MAX_ATTEMPTS", "WORKER_CONCURRENCY", "MSG_MAX_BYTES"} : Written(n) /\ config[n] < 1

\* Load, the factory and the constructors check the same settings one after the
\* other.  What Load lets pass is refused later only for what it does not look
\* at: the log level, the brokers, the upper bound of a port, and the numbers
\* of the engine.
RefusedForCause ==
  /\ refused = "logger" => Written("LOG_LEVEL")
  /\ refused = "kafka" => KafkaCause
  /\ refused = "provider" => ProviderCause
  /\ refused = "engine" => EngineCause
=============================================================================

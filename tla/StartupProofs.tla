--------------------------- MODULE StartupProofs ----------------------------
(***************************************************************************)
(* Theorems about Startup for every environment, channel and platform and  *)
(* every width of a duration.                                              *)
(***************************************************************************)
EXTENDS Startup, FiniteSetTheorems, TLAPS

startupVars == <<startVars, retryVars>>

-----------------------------------------------------------------------------
(* The names of the settings                                               *)

\* The settings that select a provider are texts and default to the mock.
LEMMA Selectors ==
  /\ DOMAIN ProviderOf = {"email", "sms", "whatsapp"}
  /\ Range(ProviderOf) = {"EMAIL_PROVIDER", "SMS_PROVIDER", "WHATSAPP_PROVIDER"}
  /\ \A n \in Range(ProviderOf) : /\ n \in Names \ (DOMAIN Numbers \union DOMAIN Flags)
                                  /\ Default(n) = "mock"
<1>1. /\ DOMAIN ProviderOf = {"email", "sms", "whatsapp"}
      /\ Range(ProviderOf) = {"EMAIL_PROVIDER", "SMS_PROVIDER", "WHATSAPP_PROVIDER"}
  BY SMT DEF Range, ProviderOf
<1>2. \A n \in Range(ProviderOf) : n \in DOMAIN Choices /\ Choices[n] = "mock"
  BY SMT, <1>1 DEF Choices
<1>3. \A n \in Range(ProviderOf) : n \notin DOMAIN Numbers \union DOMAIN Flags
  BY SMT, <1>1 DEF Numbers, Flags
<1>4. ASSUME NEW n \in Range(ProviderOf)
      PROVE  n \in Names \ (DOMAIN Numbers \union DOMAIN Flags) /\ Default(n) = "mock"
  <2>1. n \in Names \ (DOMAIN Numbers \union DOMAIN Flags)
    BY SMT, <1>2, <1>3, <1>4 DEF Names
  <2>2. Default(n) = Choices[n]
    BY Zenon, <1>2, <1>3, <1>4 DEF Default
  <2> QED
    BY SMT, <1>2, <1>4, <2>1, <2>2
<1> QED
  BY SMT, <1>1, <1>4

\* Of the credentials only the port is a number, and none selects a provider.
LEMMA CredentialNames ==
  /\ SmtpNames \union TwilioNames \subseteq Names
  /\ "SMTP_PORT" \in DOMAIN Numbers /\ "KAFKA_BROKERS" \notin SmtpNames \union TwilioNames
  /\ \A n \in (SmtpNames \union TwilioNames) \ {"SMTP_PORT"} :
       n \notin DOMAIN Numbers \union DOMAIN Flags \union Range(ProviderOf)
<1>1. SmtpNames \intersect DOMAIN Numbers = {"SMTP_PORT"}
  BY SMT DEF Numbers, SmtpNames
<1>2. TwilioNames \intersect DOMAIN Numbers = {}
  BY SMT DEF Numbers, TwilioNames
<1>3. (SmtpNames \union TwilioNames) \intersect DOMAIN Flags = {}
  BY SMT DEF Flags, SmtpNames, TwilioNames
<1>4. (SmtpNames \union TwilioNames) \intersect Range(ProviderOf) = {}
  BY SMT, Selectors DEF SmtpNames, TwilioNames
<1>5. SmtpNames \union TwilioNames \subseteq Names /\ "KAFKA_BROKERS" \notin SmtpNames \union TwilioNames
  BY SMT DEF Names, SmtpNames, TwilioNames
<1> QED
  BY SMT, <1>1, <1>2, <1>3, <1>4, <1>5

EngineNames == {"MAX_ATTEMPTS", "WORKER_CONCURRENCY", "MSG_MAX_BYTES"}

\* The numbers of the engine have defaults that it accepts.
LEMMA NumberDefaults ==
  /\ DOMAIN Numbers \union DOMAIN Flags \subseteq Names
  /\ \A n \in DOMAIN Numbers : Numbers[n] \in Int /\ Default(n) = Numbers[n] /\ n \notin Range(ProviderOf)
  /\ \A n \in DOMAIN Flags : n \notin Range(ProviderOf)
  /\ {"BASE_BACKOFF_SECONDS", "MAX_BACKOFF_SECONDS"} \subseteq DOMAIN Numbers
  /\ \A n \in EngineNames : n \in DOMAIN Numbers /\ Numbers[n] >= 1
<1>1. \A n \in DOMAIN Numbers : Numbers[n] \in Int
  BY SMT DEF Numbers
<1>2. /\ {"BASE_BACKOFF_SECONDS", "MAX_BACKOFF_SECONDS"} \subseteq DOMAIN Numbers
      /\ \A n \in EngineNames : n \in DOMAIN Numbers /\ Numbers[n] >= 1
  BY SMT DEF Numbers, EngineNames
<1> QED
  BY SMT, <1>1, <1>2, Selectors DEF Default, Names

LEMMA LevelName ==
  /\ "LOG_LEVEL" \in Names \ (DOMAIN Numbers \union DOMAIN Flags \union Range(ProviderOf))
  /\ Default("LOG_LEVEL") \in Levels
<1>1. "LOG_LEVEL" \in DOMAIN Choices /\ Choices["LOG_LEVEL"] = "info"
  BY SMT DEF Choices
<1>2. "LOG_LEVEL" \notin DOMAIN Numbers \union DOMAIN Flags
  BY SMT DEF Numbers, Flags
<1>3. "LOG_LEVEL" \notin Range(ProviderOf)
  BY SMT, Selectors
<1> QED
  BY SMT, <1>1, <1>2, <1>3 DEF Default, Names, Levels

-----------------------------------------------------------------------------
(* What Load returns                                                       *)

Loaded ==
  /\ config = [n \in Names |-> Value(n, env[n])]
  /\ LoadErrors(env, config) = {}

\* Every value that is written was understood, and what is blank is a default.
LEMMA Understood ==
  ASSUME env \in Environments, Loaded
  PROVE  /\ \A n \in DOMAIN Numbers : /\ config[n] \in Int
                                      /\ Written(n) => env[n].form = "number" /\ env[n].value = config[n]
         /\ \A n \in DOMAIN Flags : Written(n) => env[n].form = "flag" /\ env[n].value = config[n]
         /\ \A n \in Names : ~Written(n) => config[n] = Default(n)
<1>1. \A n \in Names : ~Malformed(n, env[n]) /\ config[n] = Value(n, env[n])
  BY SMT DEF Loaded, LoadErrors
<1>2. \A n \in Names : ~Written(n) => config[n] = Default(n)
  BY SMT, <1>1 DEF Value, Written
<1>5. \A n \in Names : Readable(n, env[n])
  BY EnvironmentAssumption
<1>3. ASSUME NEW n \in DOMAIN Numbers
      PROVE  config[n] \in Int /\ (Written(n) => env[n].form = "number" /\ env[n].value = config[n])
  <2>1. n \in Names /\ n \notin Range(ProviderOf) /\ Default(n) \in Int
    BY SMT, <1>3, NumberDefaults
  <2>2. CASE Written(n)
    <3>1. env[n].form = "number" /\ config[n] = env[n].value
      BY SMT, <2>1, <2>2, <1>1, <1>3 DEF Malformed, Value, Written, Blank
    <3> QED
      BY Zenon, <3>1, <2>1, <1>5 DEF Readable
  <2>3. CASE ~Written(n)
    BY SMT, <2>1, <2>3, <1>2
  <2> QED
    BY <2>2, <2>3
<1>4. ASSUME NEW n \in DOMAIN Flags, Written(n)
      PROVE  env[n].form = "flag" /\ env[n].value = config[n]
  <2>1. n \in Names /\ n \notin Range(ProviderOf)
    BY SMT, <1>4, NumberDefaults
  <2>2. env[n].form = "flag"
    BY SMT, <1>1, <1>4, <2>1 DEF Malformed, Written, Blank
  <2>3. config[n] = env[n].value
    BY SMT, <1>1, <1>4, <2>1 DEF Value, Written
  <2> QED
    BY SMT, <2>2, <2>3
<1> QED
  BY <1>2, <1>3, <1>4

\* The provider that is selected, and its credentials.
LEMMA Selected ==
  ASSUME env \in Environments, Loaded, NEW name \in Range(ProviderOf)
  PROVE  /\ config[name] \in Backends(name)
         /\ config[name] = IF Written(name) THEN Lower(env[name].value) ELSE "mock"
         /\ config[name] = "smtp" => \A n \in SmtpNames : Written(n)
         /\ config[name] = "twilio" => \A n \in TwilioNames : Written(n)
<1>1. \A n \in Names : ~Malformed(n, env[n]) /\ config[n] = Value(n, env[n])
  BY SMT DEF Loaded, LoadErrors
<1>2. config[name] \in Backends(name)
  BY SMT DEF Loaded, LoadErrors
<1>3. config[name] = IF Written(name) THEN Lower(env[name].value) ELSE "mock"
  BY SMT, <1>1, Selectors DEF Value, Written
<1>4. \A n \in Credentials(config) : Written(n)
  BY SMT DEF Loaded, LoadErrors, Written
<1>5. config[name] = "smtp" => name = "EMAIL_PROVIDER"
  BY SMT, <1>2 DEF Backends
<1>6. config[name] = "twilio" => name \in {"SMS_PROVIDER", "WHATSAPP_PROVIDER"}
  BY SMT, <1>2, Selectors DEF Backends
<1> QED
  BY SMT, <1>2, <1>3, <1>4, <1>5, <1>6 DEF Credentials

\* The credentials that are texts.
Texts == (SmtpNames \union TwilioNames) \ {"SMTP_PORT"}

LEMMA WrittenText ==
  ASSUME env \in Environments, Loaded, NEW n \in Texts, Written(n)
  PROVE  config[n] # ""
<1>1. /\ n \in Names /\ n # "KAFKA_BROKERS"
      /\ n \notin DOMAIN Numbers \union DOMAIN Flags \union Range(ProviderOf)
  BY SMT, CredentialNames DEF Texts
<1>2. Readable(n, env[n])
  BY Zenon, <1>1, EnvironmentAssumption
<1>3. env[n].form = "text" /\ env[n].value # ""
  BY Zenon, <1>1, <1>2 DEF Readable, Written, Blank
<1>4. config[n] = env[n].value
  BY SMT, <1>1 DEF Loaded, Value, Written
<1> QED
  BY Zenon, <1>3, <1>4

\* What a constructor refuses.
LEMMA Refuses ==
  ASSUME NEW name, ~ProviderAccepts(name)
  PROVE  /\ name # "mock"
         /\ name = "twilio" => \E n \in TwilioNames : config[n] = ""
         /\ name = "smtp" => \/ config["SMTP_HOST"] = "" \/ config["SMTP_FROM"] = ""
                            \/ ~ValidPort(config["SMTP_PORT"])
<1>1. name # "mock"
  BY Zenon DEF ProviderAccepts
<1>2. name = "twilio" => \E n \in TwilioNames : config[n] = ""
  BY Zenon DEF ProviderAccepts
<1>3. name = "smtp" => \/ config["SMTP_HOST"] = "" \/ config["SMTP_FROM"] = ""
                       \/ ~ValidPort(config["SMTP_PORT"])
  BY Zenon DEF ProviderAccepts
<1> QED
  BY Zenon, <1>1, <1>2, <1>3

\* What Load has checked, the constructor of the provider accepts, an
\* impossible port apart.
LEMMA ConstructorAccepts ==
  ASSUME env \in Environments, Loaded, NEW s \in Services,
         ~ProviderAccepts(config[ProviderOf[s]])
  PROVE  s = "email" /\ config["SMTP_PORT"] > 65535
<1> DEFINE selector == ProviderOf[s]
           name == config[selector]
<1>1. /\ selector \in Range(ProviderOf)
      /\ selector = "EMAIL_PROVIDER" => s = "email"
  BY SMT, StartupAssumption DEF Range, ProviderOf
<1>8. ~ProviderAccepts(name)
  OBVIOUS
<1> HIDE DEF selector
<1>2. /\ name \in Backends(selector)
      /\ name = "smtp" => \A n \in SmtpNames : Written(n)
      /\ name = "twilio" => \A n \in TwilioNames : Written(n)
  BY Zenon, <1>1, Selected
<1> HIDE DEF name
<1>3. /\ name \in {"smtp", "mock", "twilio"}
      /\ name = "smtp" => selector = "EMAIL_PROVIDER"
  BY SMT, <1>2 DEF Backends
<1>4. TwilioNames \subseteq Texts /\ {"SMTP_HOST", "SMTP_FROM"} \subseteq Texts \intersect SmtpNames
  BY SMT DEF Texts, SmtpNames, TwilioNames
<1>5. ASSUME name = "twilio" PROVE FALSE
  <2>1. PICK n \in TwilioNames : config[n] = ""
    BY Zenon, <1>8, <1>5, Refuses
  <2>2. Written(n) /\ n \in Texts
    BY Zenon, <1>2, <1>4, <1>5
  <2> QED
    BY Zenon, <2>1, <2>2, WrittenText
<1>6. ASSUME name = "smtp" PROVE s = "email" /\ config["SMTP_PORT"] > 65535
  <2>1. ASSUME NEW n \in {"SMTP_HOST", "SMTP_FROM"} PROVE config[n] # ""
    <3>1. Written(n) /\ n \in Texts
      BY SMT, <1>2, <1>4, <1>6, <2>1
    <3> QED
      BY Zenon, <3>1, WrittenText
  <2>2. config["SMTP_HOST"] # "" /\ config["SMTP_FROM"] # ""
    BY Zenon, <2>1
  <2>3. ~ValidPort(config["SMTP_PORT"])
    BY Zenon, <1>8, <1>6, <2>2, Refuses
  <2>4. selector = "EMAIL_PROVIDER"
    BY Zenon, <1>3, <1>6
  <2>5. PICK port \in Int : port = config["SMTP_PORT"]
    <3>1. "SMTP_PORT" \in DOMAIN Numbers
      BY Zenon, CredentialNames
    <3>2. config["SMTP_PORT"] \in Int
      BY Zenon, <3>1, Understood
    <3> QED
      BY Zenon, <3>2
  <2>6. port > 0
    <3>1. config["EMAIL_PROVIDER"] = "smtp"
      BY Zenon, <1>6, <2>4 DEF name
    <3>2. ~(config["SMTP_PORT"] <= 0)
      BY SMTT(30), <3>1 DEF Loaded, LoadErrors
    <3> QED
      BY SMT, <2>5, <3>2
  <2>7. ~ValidPort(port)
    BY Zenon, <2>3, <2>5
  <2>8. port > 65535
    BY SMT, <2>6, <2>7 DEF ValidPort
  <2>9. s = "email"
    BY Zenon, <1>1, <2>4
  <2> QED
    BY SMT, <2>5, <2>8, <2>9
<1>7. name # "mock"
  BY Zenon, <1>8, Refuses
<1> QED
  BY SMT, <1>3, <1>5, <1>6, <1>7

-----------------------------------------------------------------------------
(* Why a process ends                                                      *)

Stages == {"load", "logger", "kafka", "provider", "engine", "running", "ended"}

\* Once Load has passed, its result stays what it was; a process that ended
\* does nothing more.
StageInv ==
  /\ env \in Environments /\ service \in Services
  /\ stage \in Stages
  /\ stage \notin {"load", "ended"} => Loaded
  /\ stage # "ended" => refused = "none"

\* What a stage that refuses says of the configuration.
LEMMA LoggerRefuses ==
  ASSUME env \in Environments, Loaded, config["LOG_LEVEL"] \notin Levels
  PROVE  Written("LOG_LEVEL")
BY Zenon, LevelName, Understood

LEMMA KafkaRefuses ==
  ASSUME Loaded, NEW up \in Brokers, ~(up /\ config["KAFKA_BROKERS"] # {})
  PROVE  FALSE \in Brokers
<1>1. config["KAFKA_BROKERS"] # {}
  BY SMT DEF Loaded, LoadErrors
<1>2. ~up
  BY Zenon, <1>1
<1>3. up \in BOOLEAN
  BY Zenon, StartupAssumption
<1> QED
  BY Zenon, <1>2, <1>3

LEMMA EngineRefuses ==
  ASSUME env \in Environments, Loaded, ~EngineAccepts
  PROVE  \E n \in EngineNames : Written(n) /\ config[n] < 1
<1>1. \A n \in EngineNames : n \in DOMAIN Numbers /\ n \in Names
  BY Zenon, NumberDefaults
<1>2. \A n \in EngineNames : config[n] \in Int
  BY Zenon, <1>1, Understood
<1>3. PICK n \in EngineNames : config[n] < 1
  BY SMT, <1>2 DEF EngineAccepts, EngineNames
<1>4. ~Written(n) => config[n] = Numbers[n]
  BY Zenon, <1>1, NumberDefaults, Understood
<1>5. Numbers[n] \in Int /\ Numbers[n] >= 1
  BY SMT, <1>1, NumberDefaults
<1>6. Written(n)
  <2>1. PICK k \in Int : k = config[n] /\ k < 1
    BY SMT, <1>2, <1>3
  <2>2. config[n] # Numbers[n]
    BY SMT, <2>1, <1>5
  <2> QED
    BY Zenon, <2>2, <1>4
<1> QED
  BY Zenon, <1>3, <1>6

\* A stage that is not the last one leaves the process alive or ends it.
LEMMA StageStep ==
  ASSUME StageInv, [Next]_startupVars
  PROVE  StageInv'
<1>1. CASE UNCHANGED startupVars
  BY SMT, <1>1 DEF StageInv, Loaded, startupVars, startVars
<1>2. CASE Load
  <2>1. /\ stage = "load" /\ env' = env /\ service' = service
        /\ IF LoadErrors(env, [n \in Names |-> Value(n, env[n])]) = {}
           THEN stage' = "logger" /\ refused' = refused /\ config' = [n \in Names |-> Value(n, env[n])]
           ELSE stage' = "ended"
    BY Zenon, <1>2 DEF Load, Build, Fatal
  <2> QED
    BY SMT, <2>1 DEF StageInv, Stages, Loaded
<1>3. ASSUME NEW at \in {"logger", "kafka", "provider", "engine"},
             NEW then \in {"kafka", "provider", "engine", "running"},
             stage = at, env' = env, service' = service, config' = config,
             \/ stage' = then /\ refused' = refused
             \/ stage' = "ended"
      PROVE  StageInv'
  BY SMT, <1>3 DEF StageInv, Stages, Loaded
<1>4. CASE NewLogger
  <2>1. /\ stage = "logger" /\ env' = env /\ service' = service /\ config' = config
        /\ (stage' = "kafka" /\ refused' = refused) \/ stage' = "ended"
    BY Zenon, <1>4 DEF NewLogger, Build, Fatal
  <2> QED
    BY SMT, <1>3, <2>1
<1>5. CASE NewKafka
  <2>1. /\ stage = "kafka" /\ env' = env /\ service' = service /\ config' = config
        /\ (stage' = "provider" /\ refused' = refused) \/ stage' = "ended"
    BY Zenon, <1>5 DEF NewKafka, Build, Fatal
  <2> QED
    BY SMT, <1>3, <2>1
<1>6. CASE NewProvider
  <2>1. /\ stage = "provider" /\ env' = env /\ service' = service /\ config' = config
        /\ (stage' = "engine" /\ refused' = refused) \/ stage' = "ended"
    BY Zenon, <1>6 DEF NewProvider, Build, Fatal
  <2> QED
    BY SMT, <1>3, <2>1
<1>7. CASE NewEngine
  <2>1. /\ stage = "engine" /\ env' = env /\ service' = service /\ config' = config
        /\ (stage' = "running" /\ refused' = refused) \/ stage' = "ended"
    BY Zenon, <1>7 DEF NewEngine, Build, Fatal
  <2> QED
    BY SMT, <1>3, <2>1
<1>8. CASE RetryRecord
  BY SMT, <1>8 DEF RetryRecord, startVars, StageInv, Loaded
<1> QED
  BY Zenon, <1>1, <1>2, <1>4, <1>5, <1>6, <1>7, <1>8 DEF Next

\* A process that has been refused by no stage, or by Load, needs no cause.
LEMMA NoCause ==
  ASSUME refused' \in {"none", "load"}
  PROVE  RefusedForCause'
BY SMT DEF RefusedForCause

\* The causes depend on nothing but what stays unchanged after Load.
LEMMA CauseStays ==
  ASSUME env' = env, service' = service, config' = config
  PROVE  /\ Written("LOG_LEVEL") => Written("LOG_LEVEL")'
         /\ ProviderCause => ProviderCause'
         /\ EngineCause => EngineCause'
<1>1. Written("LOG_LEVEL") => Written("LOG_LEVEL")'
  BY Zenon DEF Written
<1>2. ProviderCause => ProviderCause'
  BY SMT DEF ProviderCause
<1>3. EngineCause => EngineCause'
  BY Zenon DEF EngineCause, Written
<1> QED
  BY Zenon, <1>1, <1>2, <1>3

LEMMA CauseStep ==
  ASSUME StageInv, RefusedForCause, [Next]_startupVars
  PROVE  RefusedForCause'
<1>1. ASSUME refused' = refused, env' = env, service' = service, config' = config
      PROVE  RefusedForCause'
  BY Zenon, <1>1, CauseStays DEF RefusedForCause, KafkaCause
<1>2. CASE UNCHANGED startupVars
  BY SMT, <1>1, <1>2 DEF startupVars, startVars
<1>3. CASE RetryRecord
  BY SMT, <1>1, <1>3 DEF RetryRecord, startVars
<1>4. CASE Load
  <2>1. stage = "load" /\ (refused' = refused \/ refused' = "load")
    BY Zenon, <1>4 DEF Load, Build, Fatal
  <2> QED
    BY SMT, <2>1, NoCause DEF StageInv
<1>5. CASE NewLogger
  <2>1. /\ stage = "logger" /\ env' = env /\ service' = service /\ config' = config
        /\ \/ refused' = refused
           \/ refused' = "logger" /\ config["LOG_LEVEL"] \notin Levels
    BY Zenon, <1>5 DEF NewLogger, Build, Fatal
  <2>2. env \in Environments /\ Loaded /\ refused = "none"
    BY SMT, <2>1 DEF StageInv
  <2>3. CASE refused' = refused
    BY SMT, <2>2, <2>3, NoCause
  <2>4. CASE refused' = "logger" /\ config["LOG_LEVEL"] \notin Levels
    <3>1. Written("LOG_LEVEL")
      BY Zenon, <2>2, <2>4, LoggerRefuses
    <3> QED
      BY SMT, <3>1, <2>1, <2>4, CauseStays DEF RefusedForCause
  <2> QED
    BY Zenon, <2>1, <2>3, <2>4
<1>6. CASE NewKafka
  <2>1. PICK up \in Brokers :
           /\ stage = "kafka"
           /\ \/ refused' = refused
              \/ refused' = "kafka" /\ ~(up /\ config["KAFKA_BROKERS"] # {})
    BY Zenon, <1>6 DEF NewKafka, Build, Fatal
  <2>2. Loaded /\ refused = "none"
    BY SMT, <2>1 DEF StageInv
  <2>3. CASE refused' = refused
    BY SMT, <2>2, <2>3, NoCause
  <2>4. CASE refused' = "kafka" /\ ~(up /\ config["KAFKA_BROKERS"] # {})
    <3>1. KafkaCause
      BY Zenon, <2>2, <2>4, KafkaRefuses DEF KafkaCause
    <3>2. KafkaCause'
      BY Zenon, <3>1 DEF KafkaCause
    <3> QED
      BY SMT, <3>2, <2>4 DEF RefusedForCause
  <2> QED
    BY Zenon, <2>1, <2>3, <2>4
<1>7. CASE NewProvider
  <2>1. /\ stage = "provider" /\ env' = env /\ service' = service /\ config' = config
        /\ \/ refused' = refused
           \/ refused' = "provider" /\ ~ProviderAccepts(config[ProviderOf[service]])
    BY Zenon, <1>7 DEF NewProvider, Build, Fatal
  <2>2. env \in Environments /\ service \in Services /\ Loaded /\ refused = "none"
    BY SMT, <2>1 DEF StageInv
  <2>3. CASE refused' = refused
    BY SMT, <2>2, <2>3, NoCause
  <2>4. CASE refused' = "provider" /\ ~ProviderAccepts(config[ProviderOf[service]])
    <3>1. ProviderCause
      BY ConstructorAccepts, <2>2, <2>4 DEF ProviderCause
    <3> QED
      BY SMT, <3>1, <2>1, <2>4, CauseStays DEF RefusedForCause
  <2> QED
    BY Zenon, <2>1, <2>3, <2>4
<1>8. CASE NewEngine
  <2>1. /\ stage = "engine" /\ env' = env /\ service' = service /\ config' = config
        /\ \/ refused' = refused
           \/ refused' = "engine" /\ ~EngineAccepts
    BY Zenon, <1>8 DEF NewEngine, Build, Fatal
  <2>2. env \in Environments /\ Loaded /\ refused = "none"
    BY SMT, <2>1 DEF StageInv
  <2>3. CASE refused' = refused
    BY SMT, <2>2, <2>3, NoCause
  <2>4. CASE refused' = "engine" /\ ~EngineAccepts
    <3>1. EngineCause
      BY Zenon, <2>2, <2>4, EngineRefuses DEF EngineNames, EngineCause
    <3> QED
      BY SMT, <3>1, <2>1, <2>4, CauseStays DEF RefusedForCause
  <2> QED
    BY Zenon, <2>1, <2>3, <2>4
<1> QED
  BY Zenon, <1>2, <1>3, <1>4, <1>5, <1>6, <1>7, <1>8 DEF Next

\* A worker that passes Load is refused afterwards only for what Load does not
\* look at: log level, brokers, the upper bound of the port, the engine's
\* numbers.
THEOREM RefusedForCauseAlways == Spec => []RefusedForCause
<1>1. Init => StageInv /\ RefusedForCause
  BY SMT DEF Init, StageInv, Stages, RefusedForCause
<1>2. StageInv /\ RefusedForCause /\ [Next]_startupVars => (StageInv /\ RefusedForCause)'
  BY StageStep, CauseStep
<1> QED
  BY <1>1, <1>2, PTL DEF Spec, startupVars

-----------------------------------------------------------------------------
(* Durations                                                               *)

\* The power of two is the number of subsets of 1..n, hence positive.
LEMMA Power == \A n \in Nat : 2^n \in Nat \ {0}
<1>1. ASSUME NEW n \in Nat PROVE 2^n \in Nat \ {0}
  <2>1. IsFiniteSet(1..n) /\ Cardinality(1..n) = n
    BY FS_Interval
  <2>2. IsFiniteSet(SUBSET (1..n)) /\ Cardinality(SUBSET (1..n)) = 2^n
    BY <2>1, FS_SUBSET
  <2>3. Cardinality(SUBSET (1..n)) \in Nat
    BY <2>2, FS_CardinalityType
  <2>4. SUBSET (1..n) # {}
    OBVIOUS
  <2> QED
    BY <2>2, <2>3, <2>4, FS_EmptySet
<1> QED
  BY <1>1

LEMMA Limits == MaxInt \in Nat /\ MinInt \in Int /\ MinInt = -MaxInt - 1
<1>1. Width - 1 \in Nat
  BY BackoffAssumption
<1>2. 2^(Width - 1) \in Nat \ {0}
  BY <1>1, Power
<1> QED
  BY <1>2 DEF MaxInt, MinInt

LEMMA DurationFits ==
  ASSUME NEW s \in Int
  PROVE  Duration(s) \in Int /\ (Fits(s) => Duration(s) = s * Second)
<1>1. s * Second \in Int
  BY StartupAssumption
<1>2. ASSUME NEW x \in Int, NEW m \in Nat \ {0}
      PROVE  x % m \in Int
  OBVIOUS
<1>3. ASSUME NEW x \in Nat, NEW m \in Nat, x < m
      PROVE  x % m = x
  BY <1>3
<1> QED
  BY <1>1, <1>2, <1>3, Limits DEF Duration, Fits

-----------------------------------------------------------------------------
(* A worker that runs                                                      *)

\* What the stages have handed on.
BuiltInv ==
  /\ stage \in {"engine", "running"} => backend = config[ProviderOf[service]]
  /\ stage = "running" =>
       /\ EngineAccepts
       /\ engine = Restrict(config, EngineNames)
       /\ base = Duration(config["BASE_BACKOFF_SECONDS"])
       /\ cap = Duration(config["MAX_BACKOFF_SECONDS"])

LEMMA BuiltStep ==
  ASSUME StageInv, BuiltInv, [Next]_startupVars
  PROVE  BuiltInv'
<1>1. ASSUME UNCHANGED <<stage, service, config, backend, engine, base, cap>>
      PROVE  BuiltInv'
  BY Zenon, <1>1 DEF BuiltInv, EngineAccepts, Duration
<1>2. CASE UNCHANGED startupVars
  BY SMT, <1>1, <1>2 DEF startupVars, startVars, retryVars
<1>3. CASE RetryRecord
  BY SMT, <1>1, <1>3 DEF RetryRecord, Retry, startVars
<1>4. ASSUME stage' \notin {"engine", "running"}
      PROVE  BuiltInv'
  BY SMT, <1>4 DEF BuiltInv
<1>5. CASE Load
  <2>1. stage' = "logger" \/ stage' = "ended"
    BY Zenon, <1>5 DEF Load, Build, Fatal
  <2> QED
    BY SMT, <1>4, <2>1
<1>6. CASE NewLogger
  <2>1. stage' = "kafka" \/ stage' = "ended"
    BY Zenon, <1>6 DEF NewLogger, Build, Fatal
  <2> QED
    BY SMT, <1>4, <2>1
<1>7. CASE NewKafka
  <2>1. stage' = "provider" \/ stage' = "ended"
    BY Zenon, <1>7 DEF NewKafka, Build, Fatal
  <2> QED
    BY SMT, <1>4, <2>1
<1>8. CASE NewProvider
  <2>1. /\ service' = service /\ config' = config
        /\ \/ stage' = "engine" /\ ProviderAccepts(config[ProviderOf[service]])
           \/ stage' = "ended"
        /\ ProviderAccepts(config[ProviderOf[service]]) => backend' = config[ProviderOf[service]]
    BY Zenon, <1>8 DEF NewProvider, Build, Fatal
  <2>2. CASE stage' = "ended"
    BY SMT, <1>4, <2>2
  <2>3. CASE stage' = "engine"
    <3>1. backend' = config'[ProviderOf[service']]
      BY Zenon, <2>1, <2>3
    <3> QED
      BY Zenon, <3>1, <2>3 DEF BuiltInv
  <2> QED
    BY Zenon, <2>1, <2>2, <2>3
<1>9. CASE NewEngine
  <2>1. /\ stage = "engine" /\ service' = service /\ config' = config /\ backend' = backend
        /\ \/ stage' = "running" /\ EngineAccepts
           \/ stage' = "ended"
        /\ EngineAccepts =>
             /\ engine' = Restrict(config, EngineNames)
             /\ base' = Duration(config["BASE_BACKOFF_SECONDS"])
             /\ cap' = Duration(config["MAX_BACKOFF_SECONDS"])
    BY Zenon, <1>9 DEF NewEngine, Build, Fatal, EngineNames
  <2>2. CASE stage' = "ended"
    BY SMT, <1>4, <2>2
  <2>3. CASE stage' = "running" /\ EngineAccepts
    <3>1. backend' = config'[ProviderOf[service']]
      BY Zenon, <2>1 DEF BuiltInv
    <3>2. EngineAccepts'
      BY Zenon, <2>1, <2>3 DEF EngineAccepts
    <3>3. /\ engine' = Restrict(config', EngineNames)
          /\ base' = Duration(config'["BASE_BACKOFF_SECONDS"])
          /\ cap' = Duration(config'["MAX_BACKOFF_SECONDS"])
      BY Zenon, <2>1, <2>3
    <3> QED
      BY Zenon, <3>1, <3>2, <3>3 DEF BuiltInv
  <2> QED
    BY Zenon, <2>1, <2>2, <2>3
<1> QED
  BY Zenon, <1>2, <1>3, <1>5, <1>6, <1>7, <1>8, <1>9 DEF Next

LEMMA UsesConfig ==
  ASSUME StageInv, BuiltInv
  PROVE  StartsAsConfigured
<1> SUFFICES ASSUME stage = "running" PROVE UsesWritten /\ UsesSelected /\ UsesNumbers
  BY DEF StartsAsConfigured
<1>1. env \in Environments /\ service \in Services /\ Loaded
  BY SMT DEF StageInv
<1>2. UsesWritten
  BY Zenon, <1>1, Understood DEF UsesWritten
<1>3. UsesSelected
  <2>1. ProviderOf[service] \in Range(ProviderOf)
    BY SMT, <1>1, StartupAssumption DEF Range, ProviderOf
  <2>2. backend = config[ProviderOf[service]]
    BY SMT DEF BuiltInv
  <2> QED
    BY Zenon, <1>1, <2>1, <2>2, Selected DEF UsesSelected
<1>4. UsesNumbers
  <2>1. EngineAccepts /\ engine = Restrict(config, EngineNames)
    BY Zenon DEF BuiltInv
  <2>2. engine["MAX_ATTEMPTS"] = config["MAX_ATTEMPTS"] /\ engine["WORKER_CONCURRENCY"] = config["WORKER_CONCURRENCY"]
    BY SMT, <2>1 DEF Restrict, EngineNames
  <2>3. engine["MAX_ATTEMPTS"] >= 1 /\ engine["WORKER_CONCURRENCY"] >= 1
    BY SMT, <2>1, <2>2 DEF EngineAccepts
  <2>4. config["BASE_BACKOFF_SECONDS"] \in Int /\ config["MAX_BACKOFF_SECONDS"] \in Int
    BY SMT, <1>1, NumberDefaults, Understood
  <2>5. /\ Fits(config["BASE_BACKOFF_SECONDS"]) => base = config["BASE_BACKOFF_SECONDS"] * Second
        /\ Fits(config["MAX_BACKOFF_SECONDS"]) => cap = config["MAX_BACKOFF_SECONDS"] * Second
    BY Zenon, <2>4, DurationFits DEF BuiltInv
  <2> QED
    BY Zenon, <2>3, <2>5 DEF UsesNumbers
<1> QED
  BY Zenon, <1>2, <1>3, <1>4

\* A worker that runs works with what its environment says.
THEOREM StartsAsConfiguredAlways == Spec => []StartsAsConfigured
<1>1. Init => StageInv /\ BuiltInv
  BY SMT DEF Init, StageInv, Stages, BuiltInv
<1>2. StageInv /\ BuiltInv /\ [Next]_startupVars => (StageInv /\ BuiltInv)'
  BY StageStep, BuiltStep
<1>3. StageInv /\ BuiltInv => StartsAsConfigured
  BY UsesConfig
<1> QED
  BY <1>1, <1>2, <1>3, PTL DEF Spec, startupVars

-----------------------------------------------------------------------------
(* The delays of its retries                                               *)

\* No delay is drawn before the worker runs.
DelayInv ==
  /\ base \in Int /\ cap \in Int /\ attempt \in Nat
  /\ stage # "running" => attempt = 0
  /\ attempt = 0 => delay = 0
  /\ DelayWithinLimit

\* What computeBackoff returns under a cap that leaves room for the + 1.
LEMMA CappedDelay ==
  ASSUME NEW b \in Int, NEW m \in 1 .. MaxInt - 1, NEW n \in Nat \ {0}, NEW p,
         NEW d \in ComputeBackoff(b, m, n, p)
  PROVE  d \in 0 .. (IF b > 0 /\ b * Multiplier(n) <= m THEN b * Multiplier(n) ELSE IF b > 0 THEN m ELSE 0)
<1>1. MaxInt \in Nat /\ MinInt \in Int /\ MinInt < 0 /\ MinInt = -MaxInt - 1
  BY Limits
<1>2. CASE b <= 0
  BY <1>2 DEF ComputeBackoff
<1>3. CASE b > 0
  <2> DEFINE x == b * Multiplier(n)
             raw == ToDuration(x, p)
  <2>1. x \in Nat \ {0}
    <3>1. n - 1 \in Nat
      OBVIOUS
    <3>2. Multiplier(n) \in Nat \ {0}
      BY <3>1, Power DEF Multiplier
    <3> QED
      BY <3>2, <1>3
  <2>2. d \in FullJitter(Capped(raw, m))
    BY <1>3 DEF ComputeBackoff
  <2> HIDE DEF x
  <2>3. \/ x <= MaxInt /\ raw = x
        \/ x > MaxInt /\ raw \in {MinInt, MaxInt}
    BY <1>1, <2>1 DEF ToDuration
  <2> HIDE DEF raw
  <2>4. Capped(raw, m) \in Int /\ Capped(raw, m) <= m /\ (x <= m => Capped(raw, m) = x)
    BY <1>1, <2>1, <2>3 DEF Capped
  <2>5. d \in 0 .. (IF x <= m THEN x ELSE m)
    BY <1>1, <2>1, <2>2, <2>4 DEF FullJitter, Int63n
  <2> QED
    BY <1>3, <2>5 DEF x
<1> QED
  BY <1>2, <1>3

LEMMA RetryDelay ==
  ASSUME DelayInv, Retry, stage' = "running"
  PROVE  DelayInv'
<1>1. /\ base' = base /\ cap' = cap /\ attempt' = attempt + 1
      /\ delay' \in ComputeBackoff(base, cap, attempt + 1, platform)
  BY DEF Retry
<1>2. base \in Int /\ cap \in Int /\ attempt \in Nat
  BY DEF DelayInv
<1>3. ASSUME cap \in 1 .. MaxInt - 1
      PROVE  delay' \in 0..DocumentedLimit'
  <2>1. delay' \in 0 .. (IF base > 0 /\ base * Multiplier(attempt + 1) <= cap THEN base * Multiplier(attempt + 1)
                         ELSE IF base > 0 THEN cap ELSE 0)
    BY <1>1, <1>2, <1>3, CappedDelay
  <2>2. Multiplier(attempt + 1) \in Nat
    BY <1>2, Power DEF Multiplier
  <2>3. base * Multiplier(attempt + 1) \in Int
    BY <1>2, <2>2
  <2> QED
    BY <1>1, <1>2, <1>3, <2>1, <2>3 DEF DocumentedLimit
<1> QED
  BY <1>1, <1>2, <1>3 DEF DelayInv, DelayWithinLimit

LEMMA DelayStep ==
  ASSUME StageInv, BuiltInv, DelayInv, [Next]_startupVars
  PROVE  DelayInv'
<1>1. ASSUME UNCHANGED <<base, cap, attempt, delay>>, stage = "running" => stage' = "running"
      PROVE  DelayInv'
  <2>1. (stage # "running" => attempt = 0) /\ (attempt = 0 => delay = 0) /\ base \in Int /\ cap \in Int /\ attempt \in Nat
    BY DEF DelayInv
  <2>2. DelayWithinLimit'
    BY Zenon, <1>1 DEF DelayInv, DelayWithinLimit, DocumentedLimit
  <2> QED
    BY <1>1, <2>1, <2>2 DEF DelayInv
<1>2. CASE UNCHANGED startupVars
  BY SMT, <1>1, <1>2 DEF startupVars, startVars, retryVars
<1>3. CASE Load
  <2>1. /\ stage = "load"
        /\ base' = base /\ cap' = cap /\ attempt' = attempt /\ delay' = delay
    BY Zenon, <1>3 DEF Load, Build, Fatal, retryVars
  <2> QED
    BY SMT, <1>1, <2>1
<1>4. CASE NewLogger
  <2>1. /\ stage = "logger"
        /\ base' = base /\ cap' = cap /\ attempt' = attempt /\ delay' = delay
    BY Zenon, <1>4 DEF NewLogger, Build, Fatal, retryVars
  <2> QED
    BY SMT, <1>1, <2>1
<1>5. CASE NewKafka
  <2>1. /\ stage = "kafka"
        /\ base' = base /\ cap' = cap /\ attempt' = attempt /\ delay' = delay
    BY Zenon, <1>5 DEF NewKafka, Build, Fatal, retryVars
  <2> QED
    BY SMT, <1>1, <2>1
<1>6. CASE NewProvider
  <2>1. /\ stage = "provider"
        /\ base' = base /\ cap' = cap /\ attempt' = attempt /\ delay' = delay
    BY Zenon, <1>6 DEF NewProvider, Build, Fatal, retryVars
  <2> QED
    BY SMT, <1>1, <2>1
<1>7. CASE NewEngine
  <2>1. /\ stage = "engine" /\ attempt' = attempt /\ delay' = delay
        /\ \/ /\ base' = Duration(config["BASE_BACKOFF_SECONDS"])
              /\ cap' = Duration(config["MAX_BACKOFF_SECONDS"])
           \/ base' = base /\ cap' = cap
    BY Zenon, <1>7 DEF NewEngine, Build
  <2>2. env \in Environments /\ Loaded
    BY SMT, <2>1 DEF StageInv
  <2>3. config["BASE_BACKOFF_SECONDS"] \in Int /\ config["MAX_BACKOFF_SECONDS"] \in Int
    BY SMT, <2>2, NumberDefaults, Understood
  <2>4. base' \in Int /\ cap' \in Int
    <3>1. base \in Int /\ cap \in Int
      BY DEF DelayInv
    <3>2. /\ Duration(config["BASE_BACKOFF_SECONDS"]) \in Int
          /\ Duration(config["MAX_BACKOFF_SECONDS"]) \in Int
      BY Zenon, <2>3, DurationFits
    <3> QED
      BY Zenon, <2>1, <3>1, <3>2
  <2>5. attempt' = 0 /\ delay' = 0
    BY SMT, <2>1 DEF DelayInv
  <2>6. DelayWithinLimit'
    BY <2>4, <2>5 DEF DelayWithinLimit, DocumentedLimit
  <2> QED
    BY <2>4, <2>5, <2>6 DEF DelayInv
<1>8. CASE RetryRecord
  <2>1. Retry /\ stage' = "running"
    BY Zenon, <1>8 DEF RetryRecord, startVars
  <2> QED
    BY Zenon, <2>1, RetryDelay
<1> QED
  BY Zenon, <1>2, <1>3, <1>4, <1>5, <1>6, <1>7, <1>8 DEF Next

LEMMA FullRange ==
  ASSUME base \in Int, cap \in Int, attempt \in Nat
  PROVE  JitterIsFull
<1> DEFINE x == base * Multiplier(attempt)
<1> SUFFICES ASSUME attempt > 0, x < MaxInt
             PROVE  ComputeBackoff(base, cap, attempt, platform) = 0..DocumentedLimit
  BY DEF JitterIsFull
<1>1. MaxInt \in Nat /\ MinInt \in Int /\ MinInt < 0 /\ MinInt = -MaxInt - 1
  BY Limits
<1>2. CASE base <= 0
  BY <1>2 DEF ComputeBackoff, DocumentedLimit
<1>3. CASE base > 0
  <2>1. x \in Nat \ {0}
    <3>1. attempt - 1 \in Nat
      OBVIOUS
    <3>2. Multiplier(attempt) \in Nat \ {0}
      BY <3>1, Power DEF Multiplier
    <3> QED
      BY <3>2, <1>3
  <2>2. DocumentedLimit = IF cap > 0 /\ x > cap THEN cap ELSE x
    BY <1>3 DEF DocumentedLimit
  <2>3. ComputeBackoff(base, cap, attempt, platform) = FullJitter(Capped(ToDuration(x, platform), cap))
    BY <1>3 DEF ComputeBackoff
  <2> HIDE DEF x
  <2>4. ToDuration(x, platform) = x
    BY <1>1, <2>1 DEF ToDuration
  <2>5. Capped(x, cap) = DocumentedLimit
    BY <2>2 DEF Capped
  <2>6. DocumentedLimit \in 1 .. MaxInt - 1
    BY <1>1, <2>1, <2>2
  <2>7. FullJitter(DocumentedLimit) = 0..DocumentedLimit
    BY <1>1, <2>6 DEF FullJitter, Int63n
  <2> QED
    BY <2>3, <2>4, <2>5, <2>7
<1> QED
  BY <1>2, <1>3

LEMMA DelayInductive ==
  /\ Init => StageInv /\ BuiltInv /\ DelayInv
  /\ StageInv /\ BuiltInv /\ DelayInv /\ [Next]_startupVars => (StageInv /\ BuiltInv /\ DelayInv)'
<1>1. Init => StageInv /\ BuiltInv
  BY SMT DEF Init, StageInv, Stages, BuiltInv
<1>2. Init => DelayInv
  BY DEF Init, DelayInv, DelayWithinLimit, DocumentedLimit
<1> QED
  BY <1>1, <1>2, StageStep, BuiltStep, DelayStep

\* With a positive cap below the greatest duration the random source never
\* panics and no delay leaves the documented range: for every width of a
\* duration, every configuration and every number of attempts.
THEOREM DelayWithinLimitAlways == Spec => []DelayWithinLimit
<1>1. StageInv /\ BuiltInv /\ DelayInv => DelayWithinLimit
  BY DEF DelayInv
<1> QED
  BY <1>1, DelayInductive, PTL DEF Spec, startupVars

\* While the product is a duration, the documented range is drawn in full.
THEOREM JitterIsFullAlways == Spec => []JitterIsFull
<1>1. StageInv /\ BuiltInv /\ DelayInv => JitterIsFull
  BY FullRange DEF DelayInv
<1> QED
  BY <1>1, DelayInductive, PTL DEF Spec, startupVars
=============================================================================

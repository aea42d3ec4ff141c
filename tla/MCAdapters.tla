----------------------------- MODULE MCAdapters -----------------------------
(* The adapters on both sides of a call.  Every failed call that a provider *)
(* of the repository can report is judged once by the adapter of its       *)
(* channel; every request of a few families goes its way to the wire.      *)
EXTENDS Adapters, Requests

VARIABLES channel, raw, error, response, class

judgeVars == <<channel, raw, error, response, class>>

HttpCodes == {0, 200, 201, 302, 400, 404, 429, 500, 503}
SmtpCodes == {0, 421, 450, 530, 535, 550, 552, 554}

RawResponses(ch) ==
  {NoRaw} \union
  IF ch = "email" THEN [twilio : {0}, text : {"plain"}, code : SmtpCodes]
  ELSE {r \in [twilio : {0, 20003, 21211, 21610, 30001, 30002, 63016},
              text : {"plain", "permanent", "transient"}, code : HttpCodes \union {550}] :
          r.twilio # 0 => r.code >= 400}

\* Without a response, a provider reports a missing field or a context error.  The
\* mock email provider repeats the code of its response in the text; the SMTP
\* provider quotes the server's reply there, which may name any code or none.
Errors(ch, r) ==
  [hints : IF ch # "email" /\ r = NoRaw THEN {{}} ELSE SUBSET {"invalid", "timeout", "temporary"},
   smtp : IF ch = "email" /\ r # NoRaw THEN (SmtpCodes \ {0}) \union {NoCode} ELSE {NoCode},
   expired : BOOLEAN]

JudgeInit ==
  /\ channel \in Channels
  /\ raw \in RawResponses(channel)
  /\ error \in Errors(channel, raw)
  /\ response = "none" /\ class = "none"

\* Send after its provider failed.
Judge ==
  /\ class = "none"
  /\ response' = Status(channel, raw, error)
  /\ class' = Class(channel, raw, error)
  /\ UNCHANGED <<channel, raw, error, requestVars>>

-----------------------------------------------------------------------------
(* Requests                                                                *)

MCLimits == [RecipientsMax |-> 2, SMSRecipientsMax |-> 2, SubjectMaxLen |-> 2, BodyMaxBytes |-> 2,
             SMSBodyMax |-> 2, WABodyMax |-> 0, MetaMaxEntries |-> 3, MetaMaxKeyLen |-> 2,
             MetaMaxValueLen |-> 2]

Address(b, f) == [box |-> b, form |-> f]
Addresses     == {Address("a", "plain"), Address("a", "upper"), Address("b", "spaced"), Address("c", "display")}
Lists(n)      == UNION {[1..k -> Addresses] : k \in 0..n}

Plain(ch) ==
  [channel |-> ch, named |-> "same", id |-> "uuid4", created |-> TRUE, from |-> Address("f", "plain"),
   to |-> <<Address("a", "plain"), Address("b", "plain")>>, cc |-> <<>>, bcc |-> <<>>,
   subject |-> Text("s"), body |-> [type |-> "text", text |-> "hello", bytes |-> 1, runes |-> 1],
   meta |-> <<>>, kafka |-> <<>>]

Identities ==
  {[Plain(ch) EXCEPT !.named = n, !.id = id, !.created = c, !.from = f] :
     ch \in Channels, n \in {"same", "blank", "other"}, id \in {"uuid4", "uuid1", "broken"}, c \in BOOLEAN, f \in Addresses}

Addressed ==
  {[Plain("email") EXCEPT !.to = to, !.cc = cc, !.bcc = bcc] : to \in Lists(2), cc \in Lists(1), bcc \in Lists(2)}
    \union {[Plain(ch) EXCEPT !.to = to] : ch \in Channels, to \in Lists(3)}

Bodies ==
  {[Plain(ch) EXCEPT !.subject = [text |-> IF n = 0 THEN "" ELSE "s", size |-> n], !.body = [type |-> t, text |-> x, bytes |-> b, runes |-> r]] :
     ch \in Channels, n \in {0, 2, 3}, t \in {"blank", "text", "html", "template", "media", "pdf"},
     x \in {"", "hello"}, b \in 2..3, r \in 1..3}

Edged(k, e) == [k EXCEPT !.edge = e]

\* to_, -to, To_, from_ and -body
EdgedKeys ==
  {Edged(Key(<<"to">>, "", FALSE), "after"), Edged(Key(<<"to">>, "", FALSE), "before"),
   Edged(Key(<<"to">>, "", TRUE), "after"), Edged(Key(<<"from">>, "", FALSE), "after"),
   Edged(Key(<<"body">>, "", FALSE), "before")}

PlainKeys ==
  {Key(<<"order", "id">>, "_", FALSE), Key(<<"order", "id">>, "-", FALSE), Key(<<"order", "id">>, "", TRUE),
   [Key(<<"order", "id">>, "_", FALSE) EXCEPT !.pad = TRUE], Key(<<"media", "url">>, "_", FALSE),
   Key(<<"message", "id">>, "_", FALSE), Key(<<"to">>, "-", FALSE), Key(<<"body">>, "-", TRUE),
   Key(<<>>, "", FALSE), Key(<<"a", "b", "c">>, "_", FALSE)}

MetaKeys == PlainKeys \union EdgedKeys

Values == {Text("x"), Text("y"), [text |-> "", size |-> 0], [text |-> "z", size |-> 3]}

OrderKeys == {k \in MetaKeys : k.words = <<"order", "id">>}

\* At most one entry; a pair; the keys that are normalised to one name, and one too many.
Single == {<<>>} \union UNION {[{k} -> Values] : k \in MetaKeys}
Pairs  == UNION {[S -> {Text("x"), Text("y")}] : S \in kSubset(2, PlainKeys) \union kSubset(2, EdgedKeys)}
Many   == {[k \in S |-> Text(IF k.pad THEN "x" ELSE k.sep)] : S \in kSubset(3, OrderKeys) \union kSubset(4, PlainKeys)}

KafkaKeys == 
  {Key(<<"message", "id">>, "-", FALSE), Key(<<"content", "type">>, "-", FALSE)}
    \union {Key(<<w>>, "-", u) : w \in {"bcc", "to", "cc", "subject"}, u \in BOOLEAN}

Carrying(ch, type, meta, S) ==
  [Plain(ch) EXCEPT !.meta = meta, !.body.type = type, !.kafka = [k \in S |-> Text("kafka")]]

Alone(req) == [req EXCEPT !.to = <<@[1]>>]

Described ==
  {Carrying(ch, t, meta, S) :
     ch \in Channels, t \in {"text", "media"}, meta \in Single, S \in {{}} \union kSubset(1, KafkaKeys)}
    \union {Alone(Carrying(ch, t, meta, S)) :
     ch \in Channels, t \in {"text", "media"}, meta \in Pairs \union Many, S \in {{}} \union kSubset(1, KafkaKeys)}
    \union {Alone(Carrying(ch, "text", <<>>, S)) : ch \in Channels, S \in kSubset(3, KafkaKeys)}

\* One entry and one header, which may have the same key or be of spaces only.
Replaced ==
  {[Carrying(ch, "text", meta, {}) EXCEPT !.kafka = [k \in {key} |-> value]] :
     ch \in Channels, meta \in Single, key \in {Key(<<"order", "id">>, "_", FALSE)} \union EdgedKeys,
     value \in {Text("kafka"), Text(""), [text |-> "", size |-> 0]}}

MCInputs == Identities \union Addressed \union Bodies \union Described \union Replaced

-----------------------------------------------------------------------------

\* One of the two; the other is over.
Init ==
  \/ /\ JudgeInit
     /\ request = None /\ step = "rejected" /\ message = None /\ payload = None /\ wire = None
  \/ /\ RequestInit
     /\ channel = "email" /\ raw = NoRaw /\ error = None /\ response = "none" /\ class = "over"

Next == Judge \/ (RequestNext /\ UNCHANGED judgeVars)

Spec == Init /\ [][Next]_<<judgeVars, requestVars>>

-----------------------------------------------------------------------------

\* The server's reply names a code in its text that asks for the opposite of the
\* code it begins with.
TextContradicts ==
  /\ channel = "email" /\ raw # NoRaw /\ error.smtp # NoCode
  /\ IsPermanentCode(error.smtp) # IsPermanentCode(raw.code)

\* design_1.0.md:427, of the email adapter: a reply that asks to try again is returned
\* as "rate_limited" together with ErrTransient.
RateLimitedIsTransient ==
  class \in Classes /\ channel = "email" /\ raw.code >= 400 /\ response = "rate_limited"
    => class = "transient"

\* The two part in two cases only: an email whose server contradicts itself, and an
\* SMS whose error text alone makes the failure permanent, which its status does
\* not look at.
StatusAgrees ==
  class \in Classes =>
    \/ response = "rejected" <=> class = "permanent"
    \/ TextContradicts
    \/ channel = "sms" /\ TwilioVerdict(channel, raw) = "undecided" /\ class = "permanent"

Rejecting ==
  \/ raw.twilio \in RejectingCodes \/ raw.text = "permanent"
  \/ channel = "email" /\ (IsPermanentCode(raw.code) \/ IsPermanentCode(error.smtp))
  \/ channel # "email" /\ raw.code < 400 /\ "invalid" \in error.hints

\* design_1.0.md:486: "Network timeouts, 5xx, 429 -> ErrTransient"; and 489,
\* unclassifiable errors too, unless something says that the call is rejected.
OverloadIsRetried ==
  class \in Classes /\ ~Rejecting
    /\ (raw.code >= 500 \/ raw.code = 429 \/ raw.code < 400)
    => class = "transient"
=============================================================================

------------------------------ MODULE Requests ------------------------------
(***************************************************************************)
(* The way of one request through a worker: the validator of its channel   *)
(* (internal/worker/validator with internal/util/validation.go), the       *)
(* adapter's buildPayload, and what the provider puts on the wire: the     *)
(* SMTP envelope and header, or the parameters of the HTTP requests.       *)
(*                                                                         *)
(* Texts are abstracted to what these functions tell apart.  An address is *)
(*   box   the address after trimming and lower-casing                     *)
(*   form  "plain", "spaced" (around it), "upper", "display" (with a name),*)
(*         or "broken" (anything else, the empty one included)             *)
(* The key of a metadata entry or header is                                *)
(*   words, sep   its words and what stands between them (camel case that  *)
(*                starts in lower case is one word)                        *)
(*   edge         where a separator of no use stands: "none", "before" the *)
(*                words or "after" them                                    *)
(*   upper, pad   whether it starts in upper case and has spaces around it *)
(* and a value its text, "" if blank, with its size in characters: one     *)
(* that is blank but not empty has a size.                                 *)
(* Go iterates a map in any order: the loops over maps take the order.     *)
(***************************************************************************)
EXTENDS Integers, Sequences, FiniteSets, SequencesExt, Functions

CONSTANTS
  Inputs,  \* the requests, with the Kafka headers of their record
  Limits   \* ValidationConfig; a limit of 0 is no limit

VARIABLES
  request,
  step,     \* "received", "rejected", "valid", "built", "prepared"
  message,  \* the validated request
  payload,  \* what the adapter hands to the provider
  wire      \* what the provider sends

requestVars == <<request, step, message, payload, wire>>

None == [none |-> TRUE]

IsKey(k) ==
  k = [words |-> k.words, sep |-> k.sep, edge |-> k.edge, upper |-> k.upper, pad |-> k.pad]

KeyMap(map) == IsFiniteSet(DOMAIN map) /\ \A k \in DOMAIN map : IsKey(k)

\* A request has a channel of the repository, lists of addresses and finite maps.
ASSUME InputsAssumption ==
  \A req \in Inputs :
    /\ req.channel \in {"email", "sms", "whatsapp"}
    /\ {req.to, req.cc, req.bcc} \subseteq Seq([box : STRING, form : STRING])
    /\ KeyMap(req.meta) /\ KeyMap(req.kafka)

-----------------------------------------------------------------------------
(* Maps                                                                    *)

Orders(map) == SetToSeqs(DOMAIN map)

Entry(name, value) == [n \in {name} |-> value]

\* The entries of f, and those of g that have another name.
Over(f, g) == [n \in DOMAIN f \union DOMAIN g |-> IF n \in DOMAIN f THEN f[n] ELSE g[n]]

\* for k, v := range map { if names has k { into[names[k]] = v } }
Sweep(map, order, into, names) ==
  FoldLeft(LAMBDA acc, k : IF k \in DOMAIN names THEN Over(Entry(names[k], map[k]), acc) ELSE acc,
           into, order)

\* The names that two keys are written to.
Colliding(names) ==
  {names[k] : k \in {j \in DOMAIN names : \E i \in DOMAIN names : i # j /\ names[i] = names[j]}}

Key(words, sep, upper) ==
  [words |-> words, sep |-> IF Len(words) > 1 THEN sep ELSE "", edge |-> "none", upper |-> upper,
   pad |-> FALSE]

\* A key of spaces only.
IsEmpty(k) == k.words = <<>> /\ k.edge = "none"

Trim(k) == [k EXCEPT !.pad = FALSE]

Text(t) == [text |-> t, size |-> 1]

NonBlank(map) == Restrict(map, {k \in DOMAIN map : map[k].text # ""})

NonEmpty(map) == Restrict(map, {k \in DOMAIN map : map[k].size > 0})

-----------------------------------------------------------------------------
(* Validation                                                              *)

Within(n, min, max) == n >= min /\ (max > 0 => n <= max)

\* NormalizeEmail allows no display name; NormalizeE164 knows no case.
Normalizes(channel, a) ==
  a.form \in {"plain", "spaced"} \union (IF channel = "email" THEN {"upper"} ELSE {})

\* NormalizeEmails and NormalizeE164List: no element is dropped or merged.
ListAccepted(channel, list, min, max) ==
  Within(Len(list), min, max) /\ \A i \in DOMAIN list : Normalizes(channel, list[i])

Boxes(list) == [i \in DOMAIN list |-> list[i].box]

RecipientLimit(channel) == IF channel = "sms" THEN Limits.SMSRecipientsMax ELSE Limits.RecipientsMax

\* Recipients with the lower bound of the list forgotten.
RecipientsAnyNumber(req) ==
  /\ ListAccepted(req.channel, req.to, 0, RecipientLimit(req.channel))
  /\ ListAccepted(req.channel, req.cc, 0, Limits.RecipientsMax)
  /\ ListAccepted(req.channel, req.bcc, 0, Limits.RecipientsMax)

\* Each list has the whole limit for itself; only email has a CC and a BCC.
RecipientsAccepted(req) ==
  /\ ListAccepted(req.channel, req.to, 1, RecipientLimit(req.channel))
  /\ ListAccepted(req.channel, req.cc, 0, Limits.RecipientsMax)
  /\ ListAccepted(req.channel, req.bcc, 0, Limits.RecipientsMax)

BodyTypes == [email |-> {"text", "html"}, sms |-> {"text"}, whatsapp |-> {"text", "template", "media"}]

\* The body is measured in bytes, for SMS in characters; the subject, which
\* only email has, in characters.
BodyAccepted(req) ==
  /\ req.body.type \in BodyTypes[req.channel] \union {"blank"}
  /\ CASE req.channel = "email"    -> /\ Within(req.body.bytes, 0, Limits.BodyMaxBytes)
                                      /\ Within(req.subject.size, 0, Limits.SubjectMaxLen)
       [] req.channel = "sms"      -> Within(req.body.runes, 0, Limits.SMSBodyMax)
       [] req.channel = "whatsapp" -> Within(req.body.bytes, 0, Limits.WABodyMax)

\* The length of a key, in words.
MetadataAccepted(meta) ==
  /\ Within(Cardinality(DOMAIN meta), 0, Limits.MetaMaxEntries)
  /\ \A k \in DOMAIN meta : /\ Within(Len(k.words), 1, Limits.MetaMaxKeyLen)
                            /\ Within(meta[k].size, 0, Limits.MetaMaxValueLen)

Trimmed(meta) == [k \in DOMAIN meta |-> Trim(k)]

\* Metadata with the entries beyond the limit dropped instead of refused.
MetadataCut(meta, order) ==
  Sweep(meta, IF Len(order) > 1 THEN Front(order) ELSE order, <<>>, Trimmed(meta))

\* ValidateMetadata, accepted: keys are trimmed, and of two that become equal
\* the one that comes later survives.
Metadata(meta, order) == Sweep(meta, order, <<>>, Trimmed(meta))

\* applyDefaultsAndValidate
Accepted(req) ==
  /\ req.named \in {"same", "blank"}
  /\ req.id = "uuid4" /\ req.created
  /\ Normalizes(req.channel, req.from)
  /\ RecipientsAccepted(req)
  /\ BodyAccepted(req)
  /\ MetadataAccepted(req.meta)

Validate ==
  /\ step = "received"
  /\ IF Accepted(request)
     THEN /\ step' = "valid"
          /\ \E order \in Orders(request.meta) :
               message' = [from |-> request.from.box, to |-> Boxes(request.to), cc |-> Boxes(request.cc),
                           bcc |-> Boxes(request.bcc), meta |-> Metadata(request.meta, order),
                           type |-> IF request.body.type = "blank" THEN "text" ELSE request.body.type]
     ELSE step' = "rejected" /\ UNCHANGED message
  /\ UNCHANGED <<request, payload, wire>>

-----------------------------------------------------------------------------
(* Payload                                                                 *)

\* message_id and Message-ID; the trace and tenant ids are like it.
IdKey(channel) ==
  Key(<<"message", "id">>, IF channel = "email" THEN "-" ELSE "_", channel = "email")

\* The metadata of an email is not sent; a Kafka header replaces an equal key,
\* one of spaces only included.
Extras(req, msg) ==
  IF req.channel = "email"
  THEN Over(req.kafka, Entry(IdKey("email"), Text("id")))
  ELSE Over(NonEmpty(req.kafka), Over(NonBlank(msg.meta), Entry(IdKey(req.channel), Text("id"))))

BuildPayload ==
  /\ step = "valid" /\ step' = "built"
  /\ payload' = [from |-> message.from, to |-> message.to, cc |-> message.cc, bcc |-> message.bcc,
                 subject |-> request.subject.text, type |-> message.type, body |-> request.body.text,
                 extras |-> Extras(request, message)]
  /\ UNCHANGED <<request, message, wire>>

-----------------------------------------------------------------------------
(* The SMTP provider                                                       *)

\* Each address once, in the order of its first mention.
UniqueAddresses(to, cc, bcc) ==
  FoldLeft(LAMBDA acc, a : IF a \in ToSet(acc) THEN acc ELSE Append(acc, a), <<>>, to \o cc \o bcc)

\* textproto.CanonicalMIMEHeaderKey
Canonical(k) == [k EXCEPT !.pad = FALSE, !.upper = TRUE]

Header(words) == Key(words, "-", TRUE)

HasText(k) == ~IsEmpty(k) /\ payload.extras[k].text # ""

\* The headers that buildMessage takes over, and the names it gives them.
HeaderNames == [k \in {j \in DOMAIN payload.extras : HasText(j)} |-> Canonical(k)]

\* What buildMessage writes itself, a list joined to one text.  Date and Message-Id
\* are written only if no header has them, and the latter always has.
OwnHeader ==
  [n \in {Header(<<"from">>), Header(<<"content", "type">>)}
         \union (IF payload.to # <<>> THEN {Header(<<"to">>)} ELSE {})
         \union (IF payload.cc # <<>> THEN {Header(<<"cc">>)} ELSE {})
         \union (IF payload.subject # "" THEN {Header(<<"subject">>)} ELSE {}) |->
     CASE n = Header(<<"from">>)            -> Text(payload.from)
       [] n = Header(<<"content", "type">>) -> Text(payload.type)
       [] n = Header(<<"to">>)              -> Text("the To list")
       [] n = Header(<<"cc">>)              -> Text("the CC list")
       [] n = Header(<<"subject">>)         -> Text(payload.subject)]

\* MessageHeader with its own fields written before those of the payload.
MessageHeaderLast(order) == Sweep(payload.extras, order, OwnHeader, HeaderNames)

\* buildMessage: what the message has itself replaces a header; a Cc is only the
\* message's own, and a Bcc never appears.
MessageHeader(order) ==
  LET given == Sweep(payload.extras, order, <<>>, HeaderNames)
  IN  Over(OwnHeader, Restrict(given, DOMAIN given \ {Header(<<"cc">>), Header(<<"bcc">>)}))

-----------------------------------------------------------------------------
(* The Twilio providers                                                    *)

\* The whole key, compared with EqualFold before it is normalised.
Reserved(channel, k) ==
  /\ k.edge = "none"
  /\ \/ k.words \in {<<"scenario">>, <<"to">>, <<"from">>, <<"body">>}
     \/ channel = "whatsapp" /\ k.words = <<"media", "url">> /\ k.sep = ""

SetsParam(k) == HasText(k) /\ ~Reserved(request.channel, Trim(k))

\* normalizeTwilioParam: the words capitalised and joined, whatever stands between
\* and around them, unless the key starts in upper case already.
ParamName(k) == IF k.upper THEN Trim(k) ELSE Key(k.words, "", TRUE)

Param(words) == Key(words, "", TRUE)

BodyParam ==
  IF request.channel = "whatsapp" /\ payload.type = "media" THEN Param(<<"media", "url">>)
                                                            ELSE Param(<<"body">>)

\* The entries that set a parameter, and the names of the parameters.
ParamNames == [k \in {j \in DOMAIN payload.extras : SetsParam(j)} |-> ParamName(k)]

OwnParams(i) ==
  Over(Entry(Param(<<"to">>), Text(payload.to[i])),
       Over(Entry(Param(<<"from">>), Text(payload.from)),
            IF payload.body = "" THEN <<>> ELSE Entry(BodyParam, Text(payload.body))))

\* The parameters of the request to recipient i.
Params(i, order) == Sweep(payload.extras, order, OwnParams(i), ParamNames)

-----------------------------------------------------------------------------

\* A provider refuses a payload without recipients; the sender of an accepted
\* request is never blank, so that the default of the provider is not used.
Prepare ==
  /\ step = "built"
  /\ IF payload.to \o payload.cc \o payload.bcc = <<>>
     THEN step' = "refused" /\ UNCHANGED wire
     ELSE /\ step' = "prepared"
          /\ IF request.channel = "email"
             THEN \E order \in Orders(payload.extras) :
                    wire' = [envelope |-> UniqueAddresses(payload.to, payload.cc, payload.bcc),
                             header |-> MessageHeader(order)]
             ELSE \E order \in [DOMAIN payload.to -> Orders(payload.extras)] :
                    wire' = [i \in DOMAIN payload.to |-> Params(i, order[i])]
  /\ UNCHANGED <<request, message, payload>>

RequestInit ==
  /\ request \in Inputs
  /\ step = "received" /\ message = None /\ payload = None /\ wire = None

RequestNext == Validate \/ BuildPayload \/ Prepare

-----------------------------------------------------------------------------

\* Two maps that agree but for some names.
AgreeBut(f, g, names) == DOMAIN f = DOMAIN g /\ \A k \in DOMAIN f \ names : f[k] = g[k]

\* Go iterates maps in random order, and a redelivery or the next recipient
\* iterates again: every delivery accepts the same entries and sends the same
\* names, and the same values except where two keys are written to one name.
MapOrderHarmless ==
  /\ step = "valid" =>
       \A order \in Orders(request.meta) :
         AgreeBut(message.meta, Metadata(request.meta, order), Colliding(Trimmed(request.meta)))
  /\ step = "prepared" /\ request.channel = "email" =>
       \A order \in Orders(payload.extras) :
         AgreeBut(wire.header, MessageHeader(order), Colliding(HeaderNames))
  /\ step = "prepared" /\ request.channel # "email" =>
       \A i \in DOMAIN wire : \A order \in Orders(payload.extras) :
         AgreeBut(wire[i], Params(i, order), Colliding(ParamNames))

\* A key of the request that the filter of the Twilio providers lets pass and
\* that is then normalised to the word of one of their own parameters: to_, -body.
Disguised(words) ==
  \E k \in DOMAIN request.meta \union DOMAIN request.kafka :
    k.words = words /\ k.edge # "none" /\ ~k.upper

\* design_1.1.md:308 speaks of "selective metadata capture, and per-recipient loop"
\* of the Twilio providers: whatever the metadata, request i is to recipient i.
PerRecipient ==
  step = "prepared" /\ request.channel # "email" =>
    Boxes(request.to) = [i \in DOMAIN wire |-> wire[i][Param(<<"to">>)].text]

\* What the validator accepts, the provider can send, and to exactly the people
\* the request names: in one envelope without repetitions, BCC included, or in
\* one request for each entry of the list, unless a key like to_ redirects it.
AcceptedReachesAll ==
  /\ step # "refused"
  /\ step = "prepared" /\ request.channel = "email" =>
       /\ ToSet(wire.envelope) = {a.box : a \in ToSet(request.to \o request.cc \o request.bcc)}
       /\ IsInjective(wire.envelope)
  /\ step = "prepared" /\ ~Disguised(<<"to">>) => PerRecipient

\* Neither metadata nor the headers of the Kafka record change whom a message
\* is from and what it says, and no header names the BCC or another recipient.
\* Three exceptions: a key like from_ or body_ replaces that one parameter of
\* Twilio, metadata media_url is sent as MediaUrl, and an email without a subject
\* takes that of a header.
OwnFieldsKept ==
  /\ step = "prepared" /\ request.channel = "email" =>
       /\ \A k \in DOMAIN OwnHeader : wire.header[k] = OwnHeader[k]
       /\ Header(<<"from">>) \in DOMAIN wire.header
       /\ Header(<<"bcc">>) \notin DOMAIN wire.header
       /\ payload.cc = <<>> => Header(<<"cc">>) \notin DOMAIN wire.header
  /\ step = "prepared" /\ request.channel # "email" =>
       \A i \in DOMAIN wire :
         /\ ~Disguised(<<"from">>) => wire[i][Param(<<"from">>)].text = request.from.box
         /\ ~Disguised(<<"body">>) =>
              /\ Param(<<"body">>) \in DOMAIN wire[i] <=> payload.body # "" /\ BodyParam = Param(<<"body">>)
              /\ payload.body # "" => \/ wire[i][BodyParam] = Text(payload.body)
                                     \/ BodyParam = Param(<<"media", "url">>)
=============================================================================

------------------------------ MODULE Adapters ------------------------------
(***************************************************************************)
(* How the channel adapters (internal/adapters/{email,sms,whatsapp}) judge *)
(* a failed call of their provider: the status they put in the provider    *)
(* response, and the class of the error they return to the engine.  Each   *)
(* is computed by a function of its own from the same two inputs.          *)
(*                                                                         *)
(* raw is what the provider returned besides its error:                    *)
(*   twilio  the error code in the body, 0 if there is none                *)
(*   text    what the status text contains: "permanent" (or "invalid"),    *)
(*           "transient", or neither, "plain"                              *)
(*   code    the HTTP or SMTP code                                         *)
(* error is the provider's error:                                          *)
(*   hints   which of the words the adapters look for its text contains    *)
(*           ("invalid" stands for "invalid" or "permanent")               *)
(*   smtp    the number after "smtp " in its text                          *)
(*   expired whether it is a context or network timeout error              *)
(* No provider returns an error with a StatusCode method, so that branch   *)
(* of classifySMSError is left out.                                        *)
(***************************************************************************)
EXTENDS Integers

Channels == {"email", "sms", "whatsapp"}
Statuses == {"rejected", "rate_limited", "unknown"}
Classes  == {"permanent", "transient"}

NoCode == -1

\* A nil response.
NoRaw == [twilio |-> 0, text |-> "plain", code |-> NoCode]

RejectingCodes == {21610, 21612, 21614, 21211}

ThrottlingCodes(channel) ==
  IF channel = "sms" THEN {30001, 30002, 30003, 30005}
                     ELSE {63018, 63016, 63015, 63002, 30001, 30003}

-----------------------------------------------------------------------------
(* SMS and WhatsApp                                                        *)

\* HttpVerdict without its case for 429, for the check of OverloadIsRetried.
HttpVerdictPlain(code) ==
  IF code >= 500 THEN "rate_limited"
  ELSE IF code >= 400 THEN "rejected" ELSE "undecided"

HttpVerdict(code) ==
  IF code >= 500 \/ code = 429 THEN "rate_limited"
  ELSE IF code >= 400 THEN "rejected" ELSE "undecided"

\* The part that the status and the class functions of both channels share.
TwilioVerdict(channel, raw) ==
  IF raw.twilio \in RejectingCodes THEN "rejected"
  ELSE IF raw.twilio \in ThrottlingCodes(channel) THEN "rate_limited"
  ELSE IF raw.text = "permanent" THEN "rejected"
  ELSE IF raw.text = "transient" THEN "rate_limited"
  ELSE HttpVerdict(raw.code)

\* classifySMSError looks for "timeout" in the text and for nothing else.
SMSTextStatus(hints) == IF "timeout" \in hints THEN "rate_limited" ELSE "unknown"

WhatsAppTextStatus(hints) ==
  IF "invalid" \in hints THEN "rejected"
  ELSE IF {"timeout", "temporary"} \intersect hints # {} THEN "rate_limited" ELSE "unknown"

\* classifySMSError and classifyWhatsAppError
TwilioStatus(channel, raw, error) ==
  LET verdict == TwilioVerdict(channel, raw)
  IN  IF verdict # "undecided" THEN verdict
      ELSE IF channel = "sms" THEN SMSTextStatus(error.hints)
      ELSE WhatsAppTextStatus(error.hints)

\* wrapSMSError and wrapWhatsAppError
TwilioClass(channel, raw, error) ==
  LET verdict == TwilioVerdict(channel, raw)
  IN  IF verdict = "rejected" \/ (verdict = "undecided" /\ "invalid" \in error.hints)
      THEN "permanent" ELSE "transient"

-----------------------------------------------------------------------------
(* Email                                                                   *)

\* IsPermanentCode with every error code, for the check of PermanentHasReason.
IsErrorCode(code) == code >= 400

IsPermanentCode(code) == code \in {530, 535, 550, 551, 553}

IsTimeout(error) == error.expired \/ "timeout" \in error.hints

\* The code of the response counts first, the one in the text second.
EmailStatus(raw, error) ==
  LET code == IF raw = NoRaw THEN error.smtp ELSE raw.code
  IN  IF IsPermanentCode(code) THEN "rejected"
      ELSE IF code >= 400 \/ IsTimeout(error) THEN "rate_limited" ELSE "unknown"

\* EmailClass without a look at the response, for the check of StatusAgrees.
EmailClassByText(raw, error) ==
  IF IsPermanentCode(error.smtp) THEN "permanent" ELSE "transient"

\* The code in the text counts first, the one of the response second.
EmailClass(raw, error) ==
  LET code == IF error.smtp # NoCode THEN error.smtp ELSE raw.code
  IN  IF IsPermanentCode(code) THEN "permanent" ELSE "transient"

-----------------------------------------------------------------------------

Status(channel, raw, error) ==
  IF channel = "email" THEN EmailStatus(raw, error) ELSE TwilioStatus(channel, raw, error)

\* wrapError flattens the provider's error into the text of the sentinel: the
\* engine sees the class and can no longer see a context error inside.
Class(channel, raw, error) ==
  IF channel = "email" THEN EmailClass(raw, error) ELSE TwilioClass(channel, raw, error)
=============================================================================

----------------------------- MODULE MCProducer -----------------------------
(* Producer with a few callers and buffers of one or two messages.         *)
EXTENDS Producer
=============================================================================

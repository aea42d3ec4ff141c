-------------------------- MODULE EngineRefinement --------------------------
(* The engine implements Delivery.                                         *)
EXTENDS Engine

\* A delivery is sent when the adapter returned success, dead-lettered when
\* the DLQ publisher has been called, and abandoned when its control left the
\* engine, or died in it, with neither.
Outcome(r) ==
  CASE result[r] = "ok" -> "sent"
    [] result[r] # "ok" /\ dlq[r] # {} -> "deadLettered"
    [] result[r] # "ok" /\ dlq[r] = {} /\ pc[r] = "new" -> "pending"
    [] result[r] # "ok" /\ dlq[r] = {} /\ pc[r] \in {"release", "end", "dead"} -> "abandoned"
    [] OTHER -> "open"

\* The variables of Delivery in terms of those of the engine.
AbstractState == [r \in Records |-> Outcome(r)]
AbstractAcked == {r \in Records : commits[r] > 0}

D == INSTANCE Delivery WITH state <- AbstractState, acked <- AbstractAcked

\* Every behaviour of the engine, publish errors, cancellations and crashes
\* included, is one that Delivery allows.
ImplementsDelivery == D!Spec
=============================================================================

------------------------------ MODULE Delivery ------------------------------
(***************************************************************************)
(* What the engine promises about one delivery of a message: it is taken   *)
(* up once, it comes to at most one outcome, and its offset is            *)
(* acknowledged only after an outcome and only once.  A delivery without   *)
(* an outcome may be abandoned, alone (its context is cancelled) or with   *)
(* others (the process dies); it is then never acknowledged.               *)
(***************************************************************************)
CONSTANT Records

VARIABLES
  state,  \* the outcome of each delivery, or how far it is from one
  acked   \* the deliveries whose offset has been acknowledged

Outcomes == {"sent", "deadLettered"}

Init ==
  /\ state = [r \in Records |-> "pending"]
  /\ acked = {}

TakeUp(r) ==
  /\ state[r] = "pending"
  /\ state' = [state EXCEPT ![r] = "open"]
  /\ UNCHANGED acked

Resolve(r) ==
  /\ state[r] = "open"
  /\ \E o \in Outcomes : state' = [state EXCEPT ![r] = o]
  /\ UNCHANGED acked

Abandon ==
  /\ \E S \in SUBSET {r \in Records : state[r] = "open"} :
       state' = [r \in Records |-> IF r \in S THEN "abandoned" ELSE state[r]]
  /\ UNCHANGED acked

Ack(r) ==
  /\ state[r] \in Outcomes /\ r \notin acked
  /\ acked' = acked \union {r}
  /\ UNCHANGED state

Next ==
  \/ \E r \in Records : TakeUp(r) \/ Resolve(r) \/ Ack(r)
  \/ Abandon

Spec == Init /\ [][Next]_<<state, acked>>
=============================================================================

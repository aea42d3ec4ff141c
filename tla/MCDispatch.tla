----------------------------- MODULE MCDispatch -----------------------------
(* Dispatch with one record, or two deliveries of a message: two records    *)
(* of one claim and session that carry the same MessageID.                 *)
EXTENDS Dispatch

MCSession == [r \in Records |-> "s1"]
MCClaim   == [r \in Records |-> "a"]
MCMessage == [r \in Records |-> "m"]
=============================================================================

------------------------------ MODULE MCWorker ------------------------------
(* Worker on small logs.                                                   *)
EXTENDS Worker

\* A group that has committed before, and one that may be new.
MCStored == {0}
MCAny    == {NoOffset, 0}

\* Status events and the counters of calls and commits are written and never
\* read by a step; the run of the offsets does not tell states apart by them.
View == <<kind, pc, attempt, result, permits, done, dlq, offsetVars, consumerVars>>
=============================================================================

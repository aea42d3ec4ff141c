------------------------------ MODULE MCEngine ------------------------------
(* Small instances of Engine for TLC.                                      *)
EXTENDS EngineRefinement

\* Two claims a and b; the claim a hands over a1 before or after a2.
MCRecords == {"a1", "a2", "b1"}
MCPair    == {"a1", "b1"}
MCSolo    == {"a1"}

\* One session for every record.
OneSession(R) == [r \in R |-> "s1"]
\* b1 belongs to a session of its own: after a rebalance, the goroutines of
\* the old session share the semaphore with those of the new one.
TwoSessions(R) == [r \in R |-> IF r = "b1" THEN "s2" ELSE "s1"]

MCClaim(R) == [r \in R |-> IF r = "b1" THEN "b" ELSE "a"]

MCRecordsSession == OneSession(MCRecords)
MCRecordsClaim   == MCClaim(MCRecords)
MCPairSession    == TwoSessions(MCPair)
MCPairClaim      == MCClaim(MCPair)
MCSoloSession    == OneSession(MCSolo)
MCSoloClaim      == MCClaim(MCSolo)
=============================================================================

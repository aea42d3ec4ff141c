------------------------------ MODULE Backoff -------------------------------
(***************************************************************************)
(* The delay before a retry: computeBackoff and fullJitter of              *)
(* internal/worker/engine.go, with the machine integers they work on.      *)
(*                                                                         *)
(* A duration is a signed integer of Width bits (64 in Go).  The product   *)
(* BaseBackoff * 2^(attempt-1) is a float64; converted to a duration out   *)
(* of range it is, by the Go specification, whatever the platform makes of *)
(* it: the least integer on amd64, the nearest one on arm64.               *)
(***************************************************************************)
EXTENDS Integers, FiniteSets

CONSTANTS
  Width,      \* bits of a duration
  Platforms,  \* subset of {"amd64", "arm64"}
  LastAttempt \* bound: attempts of one record

MaxInt == 2^(Width - 1) - 1
MinInt == -(2^(Width - 1))
Panic  == MinInt

ASSUME BackoffAssumption ==
  /\ Width \in Nat /\ Width > 1 /\ LastAttempt \in Nat
  /\ Platforms \subseteq {"amd64", "arm64"}

VARIABLES
  platform,
  base, cap, \* Config.BaseBackoff and Config.MaxBackoff; a cap of 0 is no cap
  attempt,   \* the attempt that failed last, 0 before the first failure
  delay      \* what computeBackoff returned for it

\* The multiplier of attempt n, a float64.
Multiplier(n) == 2^(n - 1)

\* time.Duration(x)
ToDuration(x, p) ==
  IF x \in MinInt..MaxInt THEN x ELSE IF p = "amd64" \/ x < 0 THEN MinInt ELSE MaxInt

\* rand.Int63n panics on n <= 0; otherwise any of 0..n-1.
Int63n(n) == IF n <= 0 THEN {Panic} ELSE 0 .. n - 1

\* FullJitter without the + 1, for the check of JitterIsFull.
JitterShort(max) == IF max <= 0 THEN {0} ELSE Int63n(max)

\* int64(max) + 1 wraps around.
FullJitter(max) ==
  IF max <= 0 THEN {0} ELSE Int63n(IF max = MaxInt THEN MinInt ELSE max + 1)

\* Capped with the comparison the wrong way round, for DelayWithinLimit.
CappedBelow(raw, m) == IF m > 0 /\ raw < m THEN m ELSE raw

Capped(raw, m) == IF m > 0 /\ raw > m THEN m ELSE raw

\* The delays computeBackoff can return.
ComputeBackoff(b, m, n, p) ==
  IF b <= 0 THEN {0} ELSE FullJitter(Capped(ToDuration(b * Multiplier(n), p), m))

-----------------------------------------------------------------------------

\* An attempt fails and the next one is due: the delay is drawn.
Retry ==
  /\ delay # Panic /\ attempt < LastAttempt
  /\ attempt' = attempt + 1
  /\ delay' \in ComputeBackoff(base, cap, attempt + 1, platform)
  /\ UNCHANGED <<platform, base, cap>>

-----------------------------------------------------------------------------

\* design_1.1.md:279: backoff = rand[0, min(BaseBackoff*2^(attempt-1), MaxBackoff)]
DocumentedLimit ==
  LET full == IF base > 0 /\ attempt > 0 THEN base * Multiplier(attempt) ELSE 0
  IN  IF cap > 0 /\ full > cap THEN cap ELSE full

\* A positive cap keeps the random source from panicking and the delay within
\* the documented range, on every platform and beyond the range of durations.
DelayWithinLimit == cap \in 1 .. MaxInt - 1 => delay \in 0..DocumentedLimit

\* As long as the product is a duration, the whole documented range can be
\* drawn: the jitter is full, and neither the cap nor 0 is left out.
JitterIsFull ==
  attempt > 0 /\ base * Multiplier(attempt) < MaxInt =>
    ComputeBackoff(base, cap, attempt, platform) = 0..DocumentedLimit
=============================================================================

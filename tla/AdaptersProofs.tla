--------------------------- MODULE AdaptersProofs ---------------------------
(***************************************************************************)
(* Proofs about the adapters on both sides of a call, for any requests,    *)
(* limits and orders in which Go iterates a map: what the validator        *)
(* accepts reaches the wire as MapOrderHarmless, AcceptedReachesAll and    *)
(* OwnFieldsKept say, and a failed call is judged as StatusAgrees and      *)
(* OverloadIsRetried say.                                                  *)
(*                                                                         *)
(* The loops over a map are folds.  What a fold computes is shown index by *)
(* index: its recursive function exists, because there is no smallest      *)
(* number of indices without one, and no first index after which the       *)
(* result is not what it should be.                                        *)
(***************************************************************************)
EXTENDS MCAdapters, FiniteSetTheorems, FunctionTheorems, SequenceTheorems,
        WellFoundedInduction, TLAPS

-----------------------------------------------------------------------------
(* Folds over a sequence                                                   *)

LEMMA NatMinimum ==
  ASSUME NEW T, T \subseteq Nat, T # {}
  PROVE  \E x \in T : \A y \in T : x <= y
<1>1. PICK x \in T : \A y \in T : ~ (<<y, x>> \in OpToRel(<, Nat))
  BY WFMin, NatLessThanWellFounded
<1>2. \A y \in T : ~(y < x)
  BY <1>1 DEF OpToRel
<1> QED
  BY <1>2

\* A nonempty set of indices has a last one.
LEMMA LastIndex ==
  ASSUME NEW n \in Nat, NEW t \in SUBSET (1..n), t # {}
  PROVE  Max(t) \in t /\ \A i \in t : i <= Max(t)
<1> DEFINE T == {d \in Nat : n - d \in t}
<1>1. \A i \in t : i \in Nat /\ n - i \in Nat /\ n - (n - i) = i
  OBVIOUS
<1>2. \A i \in t : n - i \in T
  BY <1>1
<1>3. T \subseteq Nat /\ T # {}
  BY <1>2
<1>4. PICK d \in T : \A y \in T : d <= y
  BY <1>3, NatMinimum
<1>5. n - d \in t /\ d \in Nat
  BY <1>4
<1>6. ASSUME NEW i \in t PROVE n - d >= i
  <2>1. d <= n - i /\ i \in Nat
    BY <1>1, <1>2, <1>4
  <2> HIDE DEF T
  <2> QED
    BY <1>5, <2>1
<1> HIDE DEF T
<1>7. \E j \in t : \A i \in t : j >= i
  BY <1>5, <1>6
<1>8. Max(t) \in t /\ \A i \in t : Max(t) >= i
  BY <1>7 DEF Max
<1> QED
  BY <1>1, <1>8

\* One pass of the loop of Sweep or UniqueAddresses.
Absorb(acc, k, map, names) ==
  IF k \in DOMAIN names THEN Over(Entry(names[k], map[k]), acc) ELSE acc

Include(acc, a) == IF a \in ToSet(acc) THEN acc ELSE Append(acc, a)

Pass(loop, acc, x, map, names) ==
  IF loop = "sweep" THEN Absorb(acc, x, map, names) ELSE Include(acc, x)

\* What a loop over seq has accumulated after the indices in t, from what h
\* says of the smaller sets.
FoldStep(loop, base, seq, map, names, h, t) ==
  IF t = {} THEN base ELSE Pass(loop, h[t \ {Max(t)}], seq[Max(t)], map, names)

FoldOf(loop, base, seq, map, names, h) ==
  h = [t \in SUBSET DOMAIN seq |-> FoldStep(loop, base, seq, map, names, h, t)]

Run(loop, base, seq, map, names) == CHOOSE h : FoldOf(loop, base, seq, map, names, h)

LEMMA SweepUnfolds ==
  ASSUME NEW base, NEW seq, NEW map, NEW names
  PROVE  Sweep(map, seq, base, names)
           = Run("sweep", base, seq, map, names)[DOMAIN seq]
BY DEF Sweep, FoldLeft, MapThenFoldSet, Run, FoldOf, FoldStep, Pass, Absorb

LEMMA UniqueUnfolds ==
  ASSUME NEW to, NEW cc, NEW bcc
  PROVE  UniqueAddresses(to, cc, bcc)
           = Run("unique", <<>>, to \o cc \o bcc, <<>>, <<>>)[DOMAIN (to \o cc \o bcc)]
BY DEF UniqueAddresses, FoldLeft, MapThenFoldSet, Run, FoldOf, FoldStep, Pass, Include

\* h is right about the sets of up to n indices.
FoldUpTo(loop, base, seq, map, names, h, n) ==
  /\ h = [t \in SUBSET DOMAIN seq |-> h[t]]
  /\ \A t \in SUBSET DOMAIN seq :
       Cardinality(t) <= n => h[t] = FoldStep(loop, base, seq, map, names, h, t)

\* What is left when the last index is taken away.
LEMMA LastLeavesSmaller ==
  ASSUME NEW n \in Nat, NEW t \in SUBSET (1..n)
  PROVE  /\ Cardinality(t) \in Nat /\ Cardinality(t) <= n
         /\ t # {} => /\ t \ {Max(t)} \in SUBSET (1..n)
                      /\ Cardinality(t \ {Max(t)}) \in Nat
                      /\ Cardinality(t \ {Max(t)}) = Cardinality(t) - 1
<1>1. IsFiniteSet(1..n) /\ Cardinality(1..n) = n
  BY FS_Interval
<1>2. IsFiniteSet(t) /\ Cardinality(t) \in Nat /\ Cardinality(t) <= n
  BY <1>1, FS_Subset, FS_CardinalityType
<1>3. ASSUME t # {}
      PROVE  /\ IsFiniteSet(t \ {Max(t)})
             /\ Cardinality(t \ {Max(t)}) = Cardinality(t) - 1
  BY <1>2, <1>3, LastIndex, FS_RemoveElement
<1> QED
  BY <1>2, <1>3, FS_CardinalityType

LEMMA FoldGrows ==
  ASSUME NEW loop, NEW base, NEW seq, NEW map, NEW names,
         NEW len \in Nat, DOMAIN seq = 1..len,
         NEW n \in Nat, NEW h, FoldUpTo(loop, base, seq, map, names, h, n)
  PROVE  \E g : FoldUpTo(loop, base, seq, map, names, g, n + 1)
<1> DEFINE g == [t \in SUBSET DOMAIN seq |-> FoldStep(loop, base, seq, map, names, h, t)]
<1>1. \A t \in SUBSET DOMAIN seq : Cardinality(t) <= n => g[t] = h[t]
  BY DEF FoldUpTo
<1>2. ASSUME NEW t \in SUBSET DOMAIN seq, Cardinality(t) <= n + 1
      PROVE  g[t] = FoldStep(loop, base, seq, map, names, g, t)
  <2>1. CASE t = {}
    BY <2>1 DEF FoldStep
  <2>2. CASE t # {}
    <3>1. t \ {Max(t)} \in SUBSET DOMAIN seq /\ Cardinality(t \ {Max(t)}) <= n
      <4>1. t \in SUBSET (1..len)
        OBVIOUS
      <4>2. /\ Cardinality(t) \in Nat
            /\ t \ {Max(t)} \in SUBSET (1..len)
            /\ Cardinality(t \ {Max(t)}) \in Nat
            /\ Cardinality(t \ {Max(t)}) = Cardinality(t) - 1
        BY <2>2, <4>1, LastLeavesSmaller
      <4> HIDE DEF g
      <4>3. Cardinality(t \ {Max(t)}) <= n
        BY <1>2, <4>2
      <4> QED
        BY <4>2, <4>3
    <3>2. g[t \ {Max(t)}] = h[t \ {Max(t)}]
      BY <1>1, <3>1
    <3>3. g[t] = FoldStep(loop, base, seq, map, names, h, t)
      OBVIOUS
    <3> HIDE DEF g
    <3> QED
      BY <2>2, <3>2, <3>3 DEF FoldStep
  <2> QED
    BY <2>1, <2>2
<1>3. g = [t \in SUBSET DOMAIN seq |-> g[t]]
  OBVIOUS
<1> HIDE DEF g
<1>4. FoldUpTo(loop, base, seq, map, names, g, n + 1)
  BY <1>2, <1>3 DEF FoldUpTo
<1> QED
  BY <1>4

LEMMA FoldExists ==
  ASSUME NEW loop, NEW base, NEW seq, NEW map, NEW names,
         NEW len \in Nat, DOMAIN seq = 1..len, NEW n \in Nat
  PROVE  \E h : FoldUpTo(loop, base, seq, map, names, h, n)
<1> DEFINE T == {k \in Nat : ~ \E h : FoldUpTo(loop, base, seq, map, names, h, k)}
<1> SUFFICES ASSUME T # {} PROVE FALSE
  OBVIOUS
<1>1. PICK k \in T : \A j \in T : k <= j
  BY NatMinimum
<1>2. CASE k = 0
  <2> DEFINE h == [t \in SUBSET DOMAIN seq |-> base]
  <2>1. ASSUME NEW t \in SUBSET DOMAIN seq, Cardinality(t) <= 0
        PROVE  h[t] = FoldStep(loop, base, seq, map, names, h, t)
    <3>1. t = {}
      <4> SUFFICES ASSUME t # {} PROVE FALSE
        OBVIOUS
      <4>1. Cardinality(t) \in Nat /\ Cardinality(t) - 1 \in Nat
        BY LastLeavesSmaller
      <4> QED
        BY <2>1, <4>1
    <3> QED
      BY <3>1 DEF FoldStep
  <2>2. h = [t \in SUBSET DOMAIN seq |-> h[t]]
    OBVIOUS
  <2> HIDE DEF h
  <2>3. FoldUpTo(loop, base, seq, map, names, h, 0)
    BY <2>1, <2>2 DEF FoldUpTo
  <2> QED
    BY <1>2, <2>3
<1>3. CASE k # 0
  <2>1. k - 1 \in Nat /\ k - 1 \notin T
    BY <1>1, <1>3
  <2>2. PICK h : FoldUpTo(loop, base, seq, map, names, h, k - 1)
    BY <2>1
  <2>3. \E g : FoldUpTo(loop, base, seq, map, names, g, (k - 1) + 1)
    BY <2>1, <2>2, FoldGrows
  <2>4. (k - 1) + 1 = k
    BY <1>1
  <2> QED
    BY <2>3, <2>4
<1> QED
  BY <1>2, <1>3

\* The loop index by index: from nothing to the whole sequence.
LEMMA FoldByIndex ==
  ASSUME NEW loop, NEW base, NEW seq, NEW map, NEW names,
         NEW len \in Nat, DOMAIN seq = 1..len
  PROVE  LET h == Run(loop, base, seq, map, names)
         IN  /\ h[1..0] = base
             /\ \A n \in 1..len : h[1..n] = Pass(loop, h[1..(n - 1)], seq[n], map, names)
<1>1. PICK h : FoldUpTo(loop, base, seq, map, names, h, len)
  BY FoldExists
<1>2. \A t \in SUBSET DOMAIN seq : h[t] = FoldStep(loop, base, seq, map, names, h, t)
  BY <1>1, LastLeavesSmaller DEF FoldUpTo
<1>3. FoldOf(loop, base, seq, map, names, h)
  <2>1. h = [t \in SUBSET DOMAIN seq |-> h[t]]
    BY <1>1 DEF FoldUpTo
  <2> QED
    BY <1>2, <2>1 DEF FoldOf
<1> DEFINE g == Run(loop, base, seq, map, names)
<1>4. FoldOf(loop, base, seq, map, names, g)
  BY <1>3 DEF Run
<1> HIDE DEF g
<1>5. g[1..0] = base
  BY <1>4 DEF FoldOf, FoldStep
<1>6. ASSUME NEW n \in 1..len
      PROVE  g[1..n] = Pass(loop, g[1..(n - 1)], seq[n], map, names)
  <2> n \in Nat /\ 1 <= n /\ n <= len
    OBVIOUS
  <2>1. 1..n \in SUBSET (1..len) /\ 1..n # {} /\ n \in 1..n
    OBVIOUS
  <2>2. Max(1..n) = n
    <3>1. Max(1..n) \in 1..n /\ \A i \in 1..n : i <= Max(1..n)
      BY <2>1, LastIndex
    <3> QED
      BY <2>1, <3>1
  <2>3. (1..n) \ {n} = 1..(n - 1)
    OBVIOUS
  <2> QED
    BY <1>4, <2>1, <2>2, <2>3 DEF FoldOf, FoldStep
<1> QED
  BY <1>5, <1>6 DEF g

-----------------------------------------------------------------------------
(* What the two loops compute                                              *)

\* Sweep after the first n entries: the names that were there and those of the
\* keys so far, each with the value of a key that has the name, if there is one.
Swept(acc, seq, map, into, names, n) ==
  LET written(m) == {i \in 1..n : seq[i] \in DOMAIN names /\ names[seq[i]] = m}
  IN  /\ \A m : m \in DOMAIN acc <=> m \in DOMAIN into \/ written(m) # {}
      /\ \A m \in DOMAIN acc : /\ written(m) # {} => \E i \in written(m) : acc[m] = map[seq[i]]
                               /\ written(m) = {} => acc[m] = into[m]

\* UniqueAddresses after the first n addresses.
Gathered(acc, seq, n) ==
  /\ acc \in Seq(ToSet(seq))
  /\ \A a : a \in ToSet(acc) <=> \E i \in 1..n : seq[i] = a
  /\ IsInjective(acc)

LEMMA SweptNothing ==
  ASSUME NEW seq, NEW map, NEW into, NEW names
  PROVE  Swept(into, seq, map, into, names, 0)
BY DEF Swept

LEMMA SweptMore ==
  ASSUME NEW seq, NEW map, NEW into, NEW names, NEW acc, NEW n \in Nat, n >= 1,
         Swept(acc, seq, map, into, names, n - 1)
  PROVE  Swept(Absorb(acc, seq[n], map, names), seq, map, into, names, n)
<1> DEFINE next == Absorb(acc, seq[n], map, names)
           old(m) == {i \in 1..(n - 1) : seq[i] \in DOMAIN names /\ names[seq[i]] = m}
           new(m) == {i \in 1..n : seq[i] \in DOMAIN names /\ names[seq[i]] = m}
<1>1. 1..n = 1..(n - 1) \union {n}
  OBVIOUS
<1>2. /\ \A m : m \in DOMAIN acc <=> m \in DOMAIN into \/ old(m) # {}
      /\ \A m \in DOMAIN acc : /\ old(m) # {} => \E i \in old(m) : acc[m] = map[seq[i]]
                               /\ old(m) = {} => acc[m] = into[m]
  BY DEF Swept
<1>3. CASE seq[n] \notin DOMAIN names
  <2>1. next = acc
    BY <1>3 DEF Absorb
  <2>2. \A m : new(m) = old(m)
    BY <1>1, <1>3
  <2> HIDE DEF next, old
  <2>3. /\ \A m : m \in DOMAIN next <=> m \in DOMAIN into \/ new(m) # {}
        /\ \A m \in DOMAIN next : /\ new(m) # {} => \E i \in new(m) : next[m] = map[seq[i]]
                                  /\ new(m) = {} => next[m] = into[m]
    <3> HIDE DEF new
    <3> QED
      BY <1>2, <2>1, <2>2
  <2> QED
    BY <2>3 DEF Swept, next
<1>4. CASE seq[n] \in DOMAIN names
  <2> DEFINE name == names[seq[n]]
  <2>1. /\ DOMAIN next = DOMAIN acc \union {name}
        /\ next[name] = map[seq[n]]
        /\ \A m \in DOMAIN acc : m # name => next[m] = acc[m]
    BY <1>4 DEF Absorb, Over, Entry
  <2>2. n \in new(name)
    BY <1>1, <1>4
  <2>3. \A m : m # name => new(m) = old(m)
    BY <1>1
  <2> HIDE DEF next, old, new, name
  <2>4. \A m : m \in DOMAIN next <=> m \in DOMAIN into \/ new(m) # {}
    BY <1>2, <2>1, <2>2, <2>3
  <2>5. ASSUME NEW m \in DOMAIN next
        PROVE  /\ new(m) # {} => \E i \in new(m) : next[m] = map[seq[i]]
               /\ new(m) = {} => next[m] = into[m]
    <3>1. CASE m = name
      BY <2>1, <2>2, <3>1
    <3>2. CASE m # name
      <4>1. m \in DOMAIN acc /\ next[m] = acc[m] /\ new(m) = old(m)
        BY <2>1, <2>3, <3>2
      <4> QED
        BY <1>2, <4>1
    <3> QED
      BY <3>1, <3>2
  <2> QED
    BY <2>4, <2>5 DEF Swept, next, new
<1> QED
  BY <1>3, <1>4

LEMMA SweepResult ==
  ASSUME NEW map, NEW into, NEW names, NEW seq, NEW len \in Nat, DOMAIN seq = 1..len
  PROVE  Swept(Sweep(map, seq, into, names), seq, map, into, names, len)
<1> DEFINE h == Run("sweep", into, seq, map, names)
           T == {n \in 0..len : ~Swept(h[1..n], seq, map, into, names, n)}
<1>1. /\ h[1..0] = into
      /\ \A n \in 1..len : h[1..n] = Absorb(h[1..(n - 1)], seq[n], map, names)
  BY FoldByIndex DEF Pass
<1>2. Sweep(map, seq, into, names) = h[1..len]
  BY SweepUnfolds
<1> HIDE DEF h
<1>3. T = {}
  <2> SUFFICES ASSUME T # {} PROVE FALSE
    OBVIOUS
  <2> T \subseteq Nat
    OBVIOUS
  <2>1. PICK n \in T : \A j \in T : n <= j
    BY NatMinimum
  <2>2. n \in 0..len /\ ~Swept(h[1..n], seq, map, into, names, n)
    OBVIOUS
  <2>3. CASE n = 0
    BY <1>1, <2>2, <2>3, SweptNothing
  <2>4. CASE n # 0
    <3>1. n \in 1..len /\ n \in Nat /\ n >= 1 /\ n - 1 \in 0..len /\ ~(n <= n - 1)
      BY <2>2, <2>4
    <3>2. Swept(h[1..(n - 1)], seq, map, into, names, n - 1)
      BY <2>1, <3>1
    <3>3. Swept(Absorb(h[1..(n - 1)], seq[n], map, names), seq, map, into, names, n)
      BY <3>1, <3>2, SweptMore
    <3> QED
      BY <1>1, <2>2, <3>1, <3>3
  <2> QED
    BY <2>3, <2>4
<1>4. len \in 0..len
  OBVIOUS
<1>5. Swept(h[1..len], seq, map, into, names, len)
  BY <1>3, <1>4
<1> QED
  BY <1>2, <1>5

LEMMA GatheredMore ==
  ASSUME NEW seq, NEW acc, NEW len \in Nat, DOMAIN seq = 1..len,
         NEW n \in 1..len, Gathered(acc, seq, n - 1)
  PROVE  Gathered(Include(acc, seq[n]), seq, n)
<1>1. 1..n = 1..(n - 1) \union {n}
  OBVIOUS
<1>2. /\ acc \in Seq(ToSet(seq))
      /\ \A a : a \in ToSet(acc) <=> \E i \in 1..(n - 1) : seq[i] = a
      /\ IsInjective(acc)
  BY DEF Gathered
<1>3. CASE seq[n] \in ToSet(acc)
  <2>1. Include(acc, seq[n]) = acc
    BY <1>3 DEF Include
  <2>2. \A a : a \in ToSet(acc) <=> \E i \in 1..n : seq[i] = a
    BY <1>1, <1>2, <1>3
  <2> QED
    BY <1>2, <2>1, <2>2 DEF Gathered
<1>4. CASE seq[n] \notin ToSet(acc)
  <2> DEFINE next == Append(acc, seq[n])
  <2>1. Include(acc, seq[n]) = next
    BY <1>4 DEF Include
  <2>2. seq[n] \in ToSet(seq)
    BY DEF ToSet
  <2>3. /\ next \in Seq(ToSet(seq))
        /\ Len(acc) \in Nat /\ DOMAIN acc = 1..Len(acc) /\ DOMAIN next = 1..(Len(acc) + 1)
        /\ \A i \in 1..Len(acc) : next[i] = acc[i]
        /\ next[Len(acc) + 1] = seq[n]
    BY <1>2, <2>2, AppendProperties, LenProperties
  <2> HIDE DEF next
  <2>4. DOMAIN next = DOMAIN acc \union {Len(acc) + 1} /\ Len(acc) + 1 \notin DOMAIN acc
    BY <2>3
  <2>5. \A a : a \in ToSet(next) <=> a \in ToSet(acc) \/ a = seq[n]
    BY <2>3, <2>4 DEF ToSet
  <2>6. \A a : a \in ToSet(next) <=> \E i \in 1..n : seq[i] = a
    BY <1>1, <1>2, <2>5
  <2>7. \A i \in DOMAIN acc : next[i] = acc[i] /\ next[i] # seq[n]
    BY <1>4, <2>3 DEF ToSet
  <2>8. IsInjective(next)
    BY <1>2, <2>3, <2>4, <2>7 DEF IsInjective
  <2> QED
    BY <2>1, <2>3, <2>6, <2>8 DEF Gathered
<1> QED
  BY <1>3, <1>4

LEMMA UniqueResult ==
  ASSUME NEW A, NEW to \in Seq(A), NEW cc \in Seq(A), NEW bcc \in Seq(A)
  PROVE  /\ ToSet(UniqueAddresses(to, cc, bcc)) = ToSet(to \o cc \o bcc)
         /\ IsInjective(UniqueAddresses(to, cc, bcc))
<1> DEFINE seq == to \o cc \o bcc
           len == Len(seq)
           h == Run("unique", <<>>, seq, <<>>, <<>>)
           T == {n \in 0..len : ~Gathered(h[1..n], seq, n)}
<1>1. seq \in Seq(A)
  BY ConcatProperties
<1>2. len \in Nat /\ DOMAIN seq = 1..len
  BY <1>1, LenProperties
<1>3. UniqueAddresses(to, cc, bcc) = h[1..len]
  BY <1>2, UniqueUnfolds
<1> HIDE DEF seq, len
<1>5. /\ h[1..0] = <<>>
      /\ \A n \in 1..len : h[1..n] = Include(h[1..(n - 1)], seq[n])
  BY <1>2, FoldByIndex DEF Pass
<1> HIDE DEF h
<1>6. T = {}
  <2> SUFFICES ASSUME T # {} PROVE FALSE
    OBVIOUS
  <2>1. T \subseteq Nat
    BY <1>2
  <2>2. PICK n \in T : \A j \in T : n <= j
    BY <2>1, NatMinimum
  <2>3. n \in 0..len /\ ~Gathered(h[1..n], seq, n)
    OBVIOUS
  <2>4. CASE n = 0
    <3>1. <<>> \in Seq(ToSet(seq)) /\ ToSet(<<>>) = {} /\ IsInjective(<<>>) /\ 1..0 = {}
      BY EmptySeq DEF ToSet, IsInjective
    <3>2. Gathered(<<>>, seq, 0)
      BY <3>1 DEF Gathered
    <3> QED
      BY <1>5, <2>3, <2>4, <3>2
  <2>5. CASE n # 0
    <3>1. n \in 1..len /\ n - 1 \in 0..len /\ ~(n <= n - 1)
      BY <1>2, <2>3, <2>5
    <3>2. Gathered(h[1..(n - 1)], seq, n - 1)
      BY <2>2, <3>1
    <3>3. Gathered(Include(h[1..(n - 1)], seq[n]), seq, n)
      BY <1>2, <3>1, <3>2, GatheredMore
    <3> QED
      BY <1>5, <2>3, <3>1, <3>3
  <2> QED
    BY <2>4, <2>5
<1>7. Gathered(h[1..len], seq, len)
  BY <1>2, <1>6
<1>8. ToSet(h[1..len]) = ToSet(seq) /\ IsInjective(h[1..len])
  BY <1>2, <1>7 DEF Gathered, ToSet
<1> QED
  BY <1>3, <1>8 DEF seq

-----------------------------------------------------------------------------
(* The orders of a map                                                     *)

LEMMA OrderOfMap ==
  ASSUME NEW map, IsFiniteSet(DOMAIN map), NEW order \in Orders(map)
  PROVE  /\ Cardinality(DOMAIN map) \in Nat
         /\ DOMAIN order = 1..Cardinality(DOMAIN map)
         /\ \A i \in DOMAIN order : order[i] \in DOMAIN map
         /\ \A k \in DOMAIN map : \E i \in DOMAIN order : order[i] = k
<1> DEFINE D == DOMAIN map
           n == Cardinality(D)
<1>1. n \in Nat
  BY FS_CardinalityType
<1>2. order \in [1..n -> D] /\ \A i, j \in 1..n : i # j => order[i] # order[j]
  BY DEF Orders, SetToSeqs
<1>3. IsFiniteSet(1..n) /\ Cardinality(1..n) = n
  BY <1>1, FS_Interval
<1>4. order \in Injection(1..n, D)
  BY <1>2, Fun_IsInj
<1>5. order \in Surjection(1..n, D)
  BY <1>3, <1>4, FS_Injection
<1>6. \A k \in D : \E i \in 1..n : order[i] = k
  BY <1>5 DEF Surjection
<1> QED
  BY <1>1, <1>2, <1>6

\* What Sweep does with a whole map: every kept key is written.
LEMMA SweepOfMap ==
  ASSUME NEW map, IsFiniteSet(DOMAIN map), NEW order \in Orders(map),
         NEW into, NEW names, DOMAIN names \subseteq DOMAIN map
  PROVE  LET s == Sweep(map, order, into, names)
             of(m) == {k \in DOMAIN names : names[k] = m}
         IN  /\ \A m : m \in DOMAIN s <=> m \in DOMAIN into \/ of(m) # {}
             /\ \A m \in DOMAIN s : /\ of(m) # {} => \E k \in of(m) : s[m] = map[k]
                                    /\ of(m) = {} => s[m] = into[m]
<1> DEFINE s == Sweep(map, order, into, names)
           of(m) == {k \in DOMAIN names : names[k] = m}
           len == Cardinality(DOMAIN map)
           written(m) == {i \in 1..len : order[i] \in DOMAIN names /\ names[order[i]] = m}
<1>1. /\ len \in Nat /\ DOMAIN order = 1..len
      /\ \A k \in DOMAIN map : \E i \in 1..len : order[i] = k
  BY OrderOfMap
<1>2. Swept(s, order, map, into, names, len)
  BY <1>1, SweepResult
<1>3. /\ \A m : m \in DOMAIN s <=> m \in DOMAIN into \/ written(m) # {}
      /\ \A m \in DOMAIN s : /\ written(m) # {} => \E i \in written(m) : s[m] = map[order[i]]
                             /\ written(m) = {} => s[m] = into[m]
  BY <1>2 DEF Swept
<1>4. \A m : \A i \in written(m) : order[i] \in of(m)
  OBVIOUS
<1>5. \A m : written(m) = {} <=> of(m) = {}
  BY <1>1
<1> HIDE DEF s, of, written
<1>6. /\ \A m : m \in DOMAIN s <=> m \in DOMAIN into \/ of(m) # {}
      /\ \A m \in DOMAIN s : /\ of(m) # {} => \E k \in of(m) : s[m] = map[k]
                             /\ of(m) = {} => s[m] = into[m]
  BY <1>3, <1>4, <1>5
<1> QED
  BY <1>6 DEF s, of

\* Two orders of one map agree but where two keys have one name.
LEMMA SweepsAgree ==
  ASSUME NEW map, IsFiniteSet(DOMAIN map), NEW o1 \in Orders(map), NEW o2 \in Orders(map),
         NEW into, NEW names, DOMAIN names \subseteq DOMAIN map
  PROVE  AgreeBut(Sweep(map, o1, into, names), Sweep(map, o2, into, names), Colliding(names))
<1> DEFINE s1 == Sweep(map, o1, into, names)
           s2 == Sweep(map, o2, into, names)
           of(m) == {k \in DOMAIN names : names[k] = m}
<1>1. /\ \A m : m \in DOMAIN s1 <=> m \in DOMAIN into \/ of(m) # {}
      /\ \A m \in DOMAIN s1 : /\ of(m) # {} => \E k \in of(m) : s1[m] = map[k]
                              /\ of(m) = {} => s1[m] = into[m]
  BY SweepOfMap
<1>2. /\ \A m : m \in DOMAIN s2 <=> m \in DOMAIN into \/ of(m) # {}
      /\ \A m \in DOMAIN s2 : /\ of(m) # {} => \E k \in of(m) : s2[m] = map[k]
                              /\ of(m) = {} => s2[m] = into[m]
  BY SweepOfMap
<1>3. \A m : m \notin Colliding(names) => \A k, j \in of(m) : k = j
  BY DEF Colliding
<1> HIDE DEF s1, s2, of
<1>4. DOMAIN s1 = DOMAIN s2
  BY <1>1, <1>2
<1>5. ASSUME NEW m \in DOMAIN s1, m \notin Colliding(names) PROVE s1[m] = s2[m]
  BY <1>1, <1>2, <1>3, <1>4, <1>5
<1> QED
  BY <1>4, <1>5 DEF AgreeBut, s1, s2
-----------------------------------------------------------------------------
(* The way of a request                                                    *)

\* The parameters of a Twilio request that are the message's own.
Protected == {<<"to">>, <<"from">>, <<"body">>}

\* What Validate makes of a request and BuildPayload of that.
Validated(req, order) ==
  [from |-> req.from.box, to |-> Boxes(req.to), cc |-> Boxes(req.cc), bcc |-> Boxes(req.bcc),
   meta |-> Metadata(req.meta, order),
   type |-> IF req.body.type = "blank" THEN "text" ELSE req.body.type]

Built(req, msg) ==
  [from |-> msg.from, to |-> msg.to, cc |-> msg.cc, bcc |-> msg.bcc,
   subject |-> req.subject.text, type |-> msg.type, body |-> req.body.text, extras |-> Extras(req, msg)]

Sent ==
  IF request.channel = "email"
  THEN \E order \in Orders(payload.extras) :
         wire = [envelope |-> UniqueAddresses(payload.to, payload.cc, payload.bcc),
                 header |-> MessageHeader(order)]
  ELSE \E order \in [DOMAIN payload.to -> Orders(payload.extras)] :
         wire = [i \in DOMAIN payload.to |-> Params(i, order[i])]

\* What each step has left behind.
RequestInv ==
  /\ step \in {"received", "rejected", "valid", "built", "prepared"}
  /\ step # "rejected" => request \in Inputs
  /\ step \in {"valid", "built", "prepared"} =>
       /\ Accepted(request)
       /\ \E order \in Orders(request.meta) : message = Validated(request, order)
  /\ step \in {"built", "prepared"} => payload = Built(request, message)
  /\ step = "prepared" => Sent

LEMMA KnownInput ==
  ASSUME NEW req \in Inputs
  PROVE  /\ req.channel \in {"email", "sms", "whatsapp"}
         /\ req.to \in Seq([box : STRING, form : STRING])
         /\ req.cc \in Seq([box : STRING, form : STRING])
         /\ req.bcc \in Seq([box : STRING, form : STRING])
         /\ KeyMap(req.meta) /\ KeyMap(req.kafka)
BY InputsAssumption

LEMMA BoxesOfList ==
  ASSUME NEW list \in Seq([box : STRING, form : STRING])
  PROVE  /\ Boxes(list) \in Seq(STRING)
         /\ DOMAIN Boxes(list) = DOMAIN list /\ Len(Boxes(list)) = Len(list)
         /\ \A i \in DOMAIN list : Boxes(list)[i] = list[i].box
<1>1. Len(list) \in Nat /\ DOMAIN list = 1..Len(list)
  BY LenProperties
<1>2. \A i \in 1..Len(list) : list[i] \in [box : STRING, form : STRING]
  BY ElementOfSeq
<1>3. Boxes(list) = [i \in 1..Len(list) |-> list[i].box]
  BY <1>1 DEF Boxes
<1>4. Boxes(list) \in [1..Len(list) -> STRING]
  BY <1>2, <1>3
<1>5. Boxes(list) \in Seq(STRING) /\ Len(Boxes(list)) = Len(list)
  BY <1>1, <1>3, <1>4
<1> QED
  BY <1>1, <1>3, <1>5

\* An accepted request has someone to send to.
LEMMA AcceptedHasRecipients ==
  ASSUME NEW req \in Inputs, Accepted(req)
  PROVE  Boxes(req.to) \o Boxes(req.cc) \o Boxes(req.bcc) # <<>>
<1>1. Len(req.to) >= 1
  BY DEF Accepted, RecipientsAccepted, ListAccepted, Within
<1>2. /\ Boxes(req.to) \in Seq(STRING) /\ Boxes(req.cc) \in Seq(STRING) /\ Boxes(req.bcc) \in Seq(STRING)
      /\ Len(Boxes(req.to)) = Len(req.to)
  BY KnownInput, BoxesOfList
<1> HIDE DEF Boxes
<1>3. /\ Len(Boxes(req.to)) \in Nat /\ Len(Boxes(req.cc)) \in Nat /\ Len(Boxes(req.bcc)) \in Nat
      /\ Len(Boxes(req.to)) >= 1
  BY <1>1, <1>2, LenProperties
<1>4. /\ Boxes(req.to) \o Boxes(req.cc) \in Seq(STRING)
      /\ Len(Boxes(req.to) \o Boxes(req.cc)) = Len(Boxes(req.to)) + Len(Boxes(req.cc))
  BY <1>2, ConcatProperties
<1>5. Len(Boxes(req.to) \o Boxes(req.cc) \o Boxes(req.bcc))
        = Len(Boxes(req.to) \o Boxes(req.cc)) + Len(Boxes(req.bcc))
  BY <1>2, <1>4, ConcatProperties
<1>6. Len(Boxes(req.to) \o Boxes(req.cc) \o Boxes(req.bcc)) # 0
  BY <1>3, <1>4, <1>5
<1>7. Len(<<>>) = 0
  OBVIOUS
<1> QED
  BY <1>6, <1>7

\* The headers and the parameters depend on the request and the payload only.
LEMMA PartsKept ==
  ASSUME UNCHANGED <<request, payload>>
  PROVE  /\ \A order : MessageHeader(order)' = MessageHeader(order)
         /\ \A i, order : Params(i, order)' = Params(i, order)
<1>1. payload' = payload /\ request' = request
  OBVIOUS
<1>2. OwnHeader' = OwnHeader
  BY <1>1 DEF OwnHeader
<1>3. HeaderNames' = HeaderNames
  BY <1>1, Zenon DEF HeaderNames, HasText, IsEmpty
<1>4. BodyParam' = BodyParam
  BY <1>1 DEF BodyParam
<1>5. ParamNames' = ParamNames
  BY <1>1, Zenon DEF ParamNames, SetsParam, HasText, IsEmpty
<1>6. \A i : OwnParams(i)' = OwnParams(i)
  BY <1>1, <1>4, Zenon DEF OwnParams
<1>7. \A order : MessageHeader(order)' = MessageHeader(order)
  BY <1>1, <1>2, <1>3, Zenon DEF MessageHeader
<1>8. \A i, order : Params(i, order)' = Params(i, order)
  BY <1>1, <1>5, <1>6, Zenon DEF Params
<1> QED
  BY <1>7, <1>8

LEMMA SentKept ==
  ASSUME Sent, UNCHANGED <<request, payload, wire>>
  PROVE  Sent'
<1>1. /\ \A order : MessageHeader(order)' = MessageHeader(order)
      /\ \A i, order : Params(i, order)' = Params(i, order)
  BY PartsKept
<1> QED
  BY <1>1 DEF Sent

LEMMA RequestInitially == Init => RequestInv
BY DEF Init, JudgeInit, RequestInit, RequestInv

LEMMA RequestStep == RequestInv /\ [Next]_<<judgeVars, requestVars>> => RequestInv'
<1> SUFFICES ASSUME RequestInv, [Next]_<<judgeVars, requestVars>> PROVE RequestInv'
  OBVIOUS
<1>1. CASE Validate
  BY <1>1 DEF Validate, RequestInv, Validated
<1>2. CASE BuildPayload
  BY <1>2 DEF BuildPayload, RequestInv, Built
<1>3. CASE Prepare
  <2>1. /\ step = "built" /\ request \in Inputs /\ Accepted(request)
        /\ \E order \in Orders(request.meta) : message = Validated(request, order)
        /\ payload = Built(request, message)
    BY <1>3 DEF Prepare, RequestInv
  <2>2. /\ payload.to = Boxes(request.to) /\ payload.cc = Boxes(request.cc)
        /\ payload.bcc = Boxes(request.bcc)
    BY <2>1 DEF Built, Validated
  <2>3. payload.to \o payload.cc \o payload.bcc # <<>>
    BY <2>1, <2>2, AcceptedHasRecipients
  <2>4. step' = "prepared" /\ UNCHANGED <<request, message, payload>>
    BY <1>3, <2>3 DEF Prepare
  <2>5. Sent'
    BY <1>3, <2>3, <2>4, PartsKept DEF Prepare, Sent
  <2> QED
    BY <2>1, <2>4, <2>5 DEF RequestInv
<1>4. CASE UNCHANGED requestVars
  BY <1>4, SentKept DEF RequestInv, requestVars
<1> QED
  BY <1>1, <1>2, <1>3, <1>4 DEF Next, RequestNext, Judge, judgeVars

-----------------------------------------------------------------------------
(* The order of a map                                                      *)

LEMMA KeysOfEntries ==
  /\ \A ch : IsKey(IdKey(ch)) /\ IdKey(ch).words = <<"message", "id">>
  /\ \A k : IsKey(k) => /\ IsKey(Trim(k)) /\ Trim(k).words = k.words
                        /\ Trim(k).edge = k.edge /\ Trim(k).upper = k.upper
<1>1. \A ch : IsKey(IdKey(ch)) /\ IdKey(ch).words = <<"message", "id">>
  <2>1. \A words, sep, upper : IsKey(Key(words, sep, upper))
    BY DEF Key, IsKey
  <2>2. \A ch : IsKey(IdKey(ch))
    BY <2>1 DEF IdKey
  <2>3. \A ch : IdKey(ch).words = <<"message", "id">>
    BY DEF IdKey, Key
  <2> QED
    BY <2>2, <2>3
<1>2. ASSUME NEW k, IsKey(k)
      PROVE  /\ IsKey(Trim(k)) /\ Trim(k).words = k.words
             /\ Trim(k).edge = k.edge /\ Trim(k).upper = k.upper
  <2> DEFINE no == FALSE
  <2>1. Trim(k) = [k EXCEPT !.pad = no]
    BY DEF Trim
  <2> HIDE DEF no
  <2>2. Trim(k) = [words |-> k.words, sep |-> k.sep, edge |-> k.edge, upper |-> k.upper, pad |-> no]
    BY <1>2, <2>1 DEF IsKey
  <2> QED
    BY <2>2 DEF IsKey
<1> QED
  BY <1>1, <1>2

LEMMA MetadataKeys ==
  ASSUME NEW map, KeyMap(map), NEW order \in Orders(map)
  PROVE  /\ KeyMap(Metadata(map, order))
         /\ \A n : n \in DOMAIN Metadata(map, order) <=> \E k \in DOMAIN map : Trim(k) = n
<1> DEFINE names == Trimmed(map)
           m == Metadata(map, order)
<1>1. DOMAIN names = DOMAIN map /\ \A k \in DOMAIN map : names[k] = Trim(k)
  BY DEF Trimmed
<1>2. DOMAIN <<>> = {}
  OBVIOUS
<1>3. m = Sweep(map, order, <<>>, names)
  BY DEF Metadata
<1> HIDE DEF names, m
<1>4. \A n : n \in DOMAIN m <=> n \in DOMAIN <<>> \/ {k \in DOMAIN names : names[k] = n} # {}
  BY <1>1, <1>3, SweepOfMap DEF KeyMap
<1>5. \A n : n \in DOMAIN m <=> \E k \in DOMAIN map : Trim(k) = n
  BY <1>1, <1>2, <1>4
<1>6. \A n \in DOMAIN m : IsKey(n)
  BY <1>5, KeysOfEntries DEF KeyMap
<1>7. [k \in DOMAIN map |-> Trim(k)] \in Surjection(DOMAIN map, DOMAIN m)
  BY <1>5 DEF Surjection
<1>8. IsFiniteSet(DOMAIN m)
  BY <1>7, FS_Surjection DEF KeyMap
<1> QED
  BY <1>5, <1>6, <1>8 DEF m, KeyMap

LEMMA KeyMaps ==
  /\ \A f, g : KeyMap(f) /\ KeyMap(g) => KeyMap(Over(f, g))
  /\ \A map : KeyMap(map) => KeyMap(NonBlank(map)) /\ KeyMap(NonEmpty(map))
  /\ \A k, value : IsKey(k) => KeyMap(Entry(k, value))
<1>1. ASSUME NEW f, NEW g, KeyMap(f), KeyMap(g) PROVE KeyMap(Over(f, g))
  <2>1. DOMAIN Over(f, g) = DOMAIN f \union DOMAIN g
    BY DEF Over
  <2>2. IsFiniteSet(DOMAIN f \union DOMAIN g)
    BY <1>1, FS_Union DEF KeyMap
  <2> QED
    BY <1>1, <2>1, <2>2 DEF KeyMap
<1>2. ASSUME NEW map, KeyMap(map) PROVE KeyMap(NonBlank(map)) /\ KeyMap(NonEmpty(map))
  <2>1. DOMAIN NonBlank(map) \in SUBSET DOMAIN map /\ DOMAIN NonEmpty(map) \in SUBSET DOMAIN map
    BY DEF NonBlank, NonEmpty, Restrict
  <2> QED
    BY <1>2, <2>1, FS_Subset DEF KeyMap
<1>3. ASSUME NEW k, NEW value, IsKey(k) PROVE KeyMap(Entry(k, value))
  <2>1. DOMAIN Entry(k, value) = {k}
    BY DEF Entry
  <2> QED
    BY <1>3, <2>1, FS_Singleton DEF KeyMap
<1> QED
  BY <1>1, <1>2, <1>3

\* What the request brings along: the id and its own keys, metadata trimmed.
LEMMA ExtrasKeys ==
  ASSUME NEW req \in Inputs, NEW order \in Orders(req.meta), NEW msg, msg = Validated(req, order)
  PROVE  /\ KeyMap(Extras(req, msg))
         /\ \A k \in DOMAIN Extras(req, msg) :
              \/ k = IdKey(req.channel)
              \/ \E j \in DOMAIN req.meta \union DOMAIN req.kafka : IsKey(j) /\ k \in {j, Trim(j)}
<1>1. KeyMap(req.meta) /\ KeyMap(req.kafka)
  BY KnownInput
<1>2. msg.meta = Metadata(req.meta, order)
  BY DEF Validated
<1>3. KeyMap(msg.meta) /\ \A n : n \in DOMAIN msg.meta <=> \E k \in DOMAIN req.meta : Trim(k) = n
  BY <1>1, <1>2, MetadataKeys
<1>4. \A ch : KeyMap(Entry(IdKey(ch), Text("id")))
  BY KeyMaps, KeysOfEntries
<1>5. KeyMap(Extras(req, msg))
  BY <1>1, <1>3, <1>4, KeyMaps DEF Extras
<1>6. \A k \in DOMAIN Extras(req, msg) :
        k = IdKey(req.channel) \/ k \in DOMAIN req.kafka \/ k \in DOMAIN msg.meta
  <2>1. /\ DOMAIN NonEmpty(req.kafka) \subseteq DOMAIN req.kafka
        /\ DOMAIN NonBlank(msg.meta) \subseteq DOMAIN msg.meta
    BY DEF NonEmpty, NonBlank, Restrict
  <2>2. CASE req.channel = "email"
    <3>1. Extras(req, msg) = Over(req.kafka, Entry(IdKey(req.channel), Text("id")))
      BY <2>2 DEF Extras
    <3>2. DOMAIN Extras(req, msg) = DOMAIN req.kafka \union {IdKey(req.channel)}
      BY <3>1 DEF Over, Entry
    <3> QED
      BY <3>2
  <2>3. CASE req.channel # "email"
    <3> DEFINE rest == Over(NonBlank(msg.meta), Entry(IdKey(req.channel), Text("id")))
    <3>1. Extras(req, msg) = Over(NonEmpty(req.kafka), rest)
      BY <2>3 DEF Extras
    <3>2. DOMAIN rest = DOMAIN NonBlank(msg.meta) \union {IdKey(req.channel)}
      BY DEF Over, Entry
    <3> HIDE DEF rest
    <3>3. DOMAIN Extras(req, msg) = DOMAIN NonEmpty(req.kafka) \union DOMAIN rest
      BY <3>1 DEF Over
    <3> QED
      BY <2>1, <3>2, <3>3
  <2> QED
    BY <2>2, <2>3
<1> QED
  BY <1>1, <1>3, <1>5, <1>6 DEF KeyMap

\* An extra that is dressed up as a word of its own is a key of the request.
Brought ==
  \A words \in Protected : \A k \in DOMAIN payload.extras :
    k.words = words /\ k.edge # "none" /\ ~k.upper => Disguised(words)

\* Everything the properties ask of a prepared request.
LEMMA PreparedRequest ==
  ASSUME RequestInv, step = "prepared"
  PROVE  /\ request \in Inputs /\ Accepted(request) /\ Sent
         /\ KeyMap(payload.extras) /\ Brought
         /\ payload.to = Boxes(request.to) /\ payload.cc = Boxes(request.cc)
         /\ payload.bcc = Boxes(request.bcc) /\ payload.from = request.from.box
<1>1. /\ request \in Inputs /\ Accepted(request) /\ Sent
      /\ payload = Built(request, message)
  BY DEF RequestInv
<1>2. PICK order \in Orders(request.meta) : message = Validated(request, order)
  BY DEF RequestInv
<1>3. payload.extras = Extras(request, message)
  BY <1>1 DEF Built
<1>4. KeyMap(payload.extras)
  BY <1>1, <1>2, <1>3, ExtrasKeys
<1>5. ASSUME NEW words \in Protected, NEW k \in DOMAIN payload.extras,
             k.words = words, k.edge # "none", ~k.upper
      PROVE  Disguised(words)
  <2>1. k # IdKey(request.channel)
    <3>1. <<"message", "id">> \notin Protected
      BY DEF Protected
    <3> QED
      BY <1>5, <3>1, KeysOfEntries
  <2>2. PICK j \in DOMAIN request.meta \union DOMAIN request.kafka : IsKey(j) /\ k \in {j, Trim(j)}
    BY <1>1, <1>2, <1>3, <2>1, ExtrasKeys
  <2>3. j.words = words /\ j.edge # "none" /\ ~j.upper
    BY <1>5, <2>2, KeysOfEntries
  <2> QED
    BY <2>2, <2>3 DEF Disguised
<1> QED
  BY <1>1, <1>2, <1>4, <1>5 DEF Built, Validated, Brought

\* What the message overrides or leaves out changes nothing about agreement.
LEMMA HeadersAgree ==
  ASSUME IsFiniteSet(DOMAIN payload.extras),
         NEW o1 \in Orders(payload.extras), NEW o2 \in Orders(payload.extras)
  PROVE  AgreeBut(MessageHeader(o1), MessageHeader(o2), Colliding(HeaderNames))
<1> DEFINE g1 == Sweep(payload.extras, o1, <<>>, HeaderNames)
           g2 == Sweep(payload.extras, o2, <<>>, HeaderNames)
           hidden == {Header(<<"cc">>), Header(<<"bcc">>)}
           C == Colliding(HeaderNames)
<1>1. DOMAIN HeaderNames \subseteq DOMAIN payload.extras
  BY DEF HeaderNames
<1>2. DOMAIN g1 = DOMAIN g2 /\ \A k \in DOMAIN g1 \ C : g1[k] = g2[k]
  BY <1>1, SweepsAgree DEF AgreeBut
<1>3. /\ MessageHeader(o1) = Over(OwnHeader, Restrict(g1, DOMAIN g1 \ hidden))
      /\ MessageHeader(o2) = Over(OwnHeader, Restrict(g2, DOMAIN g2 \ hidden))
  BY DEF MessageHeader
<1> HIDE DEF g1, g2, hidden, C
<1>4. AgreeBut(MessageHeader(o1), MessageHeader(o2), C)
  BY <1>2, <1>3 DEF AgreeBut, Over, Restrict
<1> QED
  BY <1>4 DEF C

LEMMA OrderHarmless == RequestInv => MapOrderHarmless
<1> SUFFICES ASSUME RequestInv PROVE MapOrderHarmless
  OBVIOUS
<1>1. ASSUME step = "valid", NEW order \in Orders(request.meta)
      PROVE  AgreeBut(message.meta, Metadata(request.meta, order), Colliding(Trimmed(request.meta)))
  <2>1. request \in Inputs
    BY <1>1 DEF RequestInv
  <2>2. PICK o \in Orders(request.meta) : message = Validated(request, o)
    BY <1>1 DEF RequestInv
  <2>3. message.meta = Sweep(request.meta, o, <<>>, Trimmed(request.meta))
    BY <2>2 DEF Validated, Metadata
  <2>4. IsFiniteSet(DOMAIN request.meta) /\ DOMAIN Trimmed(request.meta) \subseteq DOMAIN request.meta
    BY <2>1, KnownInput DEF Trimmed, KeyMap
  <2> QED
    BY <2>3, <2>4, SweepsAgree DEF Metadata
<1>2. ASSUME step = "prepared", request.channel = "email", NEW order \in Orders(payload.extras)
      PROVE  AgreeBut(wire.header, MessageHeader(order), Colliding(HeaderNames))
  <2>1. IsFiniteSet(DOMAIN payload.extras) /\ Sent
    BY <1>2, PreparedRequest DEF KeyMap
  <2>2. PICK o \in Orders(payload.extras) : wire.header = MessageHeader(o)
    BY <1>2, <2>1 DEF Sent
  <2> QED
    BY <2>1, <2>2, HeadersAgree
<1>3. ASSUME step = "prepared", request.channel # "email",
             NEW i \in DOMAIN wire, NEW order \in Orders(payload.extras)
      PROVE  AgreeBut(wire[i], Params(i, order), Colliding(ParamNames))
  <2>1. IsFiniteSet(DOMAIN payload.extras) /\ Sent
    BY <1>3, PreparedRequest DEF KeyMap
  <2>2. PICK o \in Orders(payload.extras) : wire[i] = Params(i, o)
    BY <1>3, <2>1 DEF Sent
  <2>3. DOMAIN ParamNames \subseteq DOMAIN payload.extras
    BY DEF ParamNames
  <2> QED
    BY <2>1, <2>2, <2>3, SweepsAgree DEF Params
<1> QED
  BY <1>1, <1>2, <1>3 DEF MapOrderHarmless

-----------------------------------------------------------------------------
(* Recipients                                                              *)

LEMMA ConcatSet ==
  ASSUME NEW S, NEW s \in Seq(S), NEW t \in Seq(S)
  PROVE  s \o t \in Seq(S) /\ ToSet(s \o t) = ToSet(s) \union ToSet(t)
<1> DEFINE st == s \o t
<1>1. /\ st \in Seq(S) /\ Len(st) = Len(s) + Len(t)
      /\ \A i \in 1..(Len(s) + Len(t)) : st[i] = IF i <= Len(s) THEN s[i] ELSE t[i - Len(s)]
  BY ConcatProperties
<1>2. /\ Len(s) \in Nat /\ DOMAIN s = 1..Len(s) /\ Len(t) \in Nat /\ DOMAIN t = 1..Len(t)
      /\ DOMAIN st = 1..(Len(s) + Len(t))
  BY <1>1, LenProperties
<1> HIDE DEF st
<1>3. ASSUME NEW i \in DOMAIN st PROVE st[i] \in ToSet(s) \union ToSet(t)
  <2>1. CASE i <= Len(s)
    BY <1>1, <1>2, <2>1 DEF ToSet
  <2>2. CASE ~(i <= Len(s))
    <3>1. i - Len(s) \in 1..Len(t) /\ st[i] = t[i - Len(s)]
      BY <1>1, <1>2, <2>2
    <3> QED
      BY <1>2, <3>1 DEF ToSet
  <2> QED
    BY <2>1, <2>2
<1>4. ASSUME NEW i \in DOMAIN s PROVE s[i] \in ToSet(st)
  <2>1. i \in DOMAIN st /\ st[i] = s[i]
    BY <1>1, <1>2
  <2> QED
    BY <2>1 DEF ToSet
<1>5. ASSUME NEW i \in DOMAIN t PROVE t[i] \in ToSet(st)
  <2>1. /\ i + Len(s) \in 1..(Len(s) + Len(t)) /\ ~(i + Len(s) <= Len(s))
        /\ (i + Len(s)) - Len(s) = i
    BY <1>2
  <2>2. i + Len(s) \in DOMAIN st /\ st[i + Len(s)] = t[i]
    BY <1>1, <1>2, <2>1
  <2> QED
    BY <2>2 DEF ToSet
<1>6. ToSet(st) = ToSet(s) \union ToSet(t)
  BY <1>3, <1>4, <1>5 DEF ToSet
<1> QED
  BY <1>1, <1>6 DEF st

\* The boxes of three lists in a row.
LEMMA BoxesOfAll ==
  ASSUME NEW to \in Seq([box : STRING, form : STRING]), NEW cc \in Seq([box : STRING, form : STRING]),
         NEW bcc \in Seq([box : STRING, form : STRING])
  PROVE  ToSet(Boxes(to) \o Boxes(cc) \o Boxes(bcc)) = {a.box : a \in ToSet(to \o cc \o bcc)}
<1> DEFINE R == [box : STRING, form : STRING]
<1>1. ASSUME NEW list \in Seq(R)
      PROVE  Boxes(list) \in Seq(STRING) /\ ToSet(Boxes(list)) = {a.box : a \in ToSet(list)}
  <2>1. /\ Boxes(list) \in Seq(STRING) /\ DOMAIN Boxes(list) = DOMAIN list
        /\ \A i \in DOMAIN list : Boxes(list)[i] = list[i].box
    BY BoxesOfList
  <2>2. ASSUME NEW i \in DOMAIN list PROVE list[i] \in ToSet(list) /\ list[i].box \in ToSet(Boxes(list))
    BY <2>1 DEF ToSet
  <2>3. \A b \in ToSet(Boxes(list)) : \E i \in DOMAIN list : b = list[i].box
    BY <2>1 DEF ToSet
  <2>4. \A a \in ToSet(list) : \E i \in DOMAIN list : a = list[i]
    BY DEF ToSet
  <2> HIDE DEF R
  <2> QED
    BY <2>1, <2>2, <2>3, <2>4
<1> HIDE DEF R
<1>2. \A S : \A s, t, u \in Seq(S) : ToSet(s \o t \o u) = ToSet(s) \union ToSet(t) \union ToSet(u)
  <2> SUFFICES ASSUME NEW S, NEW s \in Seq(S), NEW t \in Seq(S), NEW u \in Seq(S)
               PROVE  ToSet(s \o t \o u) = ToSet(s) \union ToSet(t) \union ToSet(u)
    OBVIOUS
  <2> DEFINE st == s \o t
  <2>1. st \in Seq(S) /\ ToSet(st) = ToSet(s) \union ToSet(t)
    BY ConcatSet
  <2> HIDE DEF st
  <2>2. ToSet(st \o u) = ToSet(st) \union ToSet(u)
    BY <2>1, ConcatSet
  <2> QED
    BY <2>1, <2>2 DEF st
<1>3. to \in Seq(R) /\ cc \in Seq(R) /\ bcc \in Seq(R)
  BY DEF R
<1>4. ToSet(to \o cc \o bcc) = ToSet(to) \union ToSet(cc) \union ToSet(bcc)
  BY <1>2, <1>3
<1>5. ToSet(Boxes(to) \o Boxes(cc) \o Boxes(bcc))
        = ToSet(Boxes(to)) \union ToSet(Boxes(cc)) \union ToSet(Boxes(bcc))
  BY <1>1, <1>2, <1>3
<1>6. /\ ToSet(Boxes(to)) = {a.box : a \in ToSet(to)}
      /\ ToSet(Boxes(cc)) = {a.box : a \in ToSet(cc)}
      /\ ToSet(Boxes(bcc)) = {a.box : a \in ToSet(bcc)}
  BY <1>1, <1>3
<1> QED
  BY <1>4, <1>5, <1>6

-----------------------------------------------------------------------------
(* The fields of the request itself                                        *)

LEMMA ParamWords ==
  /\ \A words : Param(words).words = words /\ Param(words).edge = "none"
  /\ \A k : IsKey(k) => ParamName(k).words = k.words
<1>1. \A words : Key(words, "", TRUE).words = words
  BY DEF Key
<1>2. \A words : Param(words).words = words /\ Param(words).edge = "none"
  BY DEF Param, Key
<1>3. ASSUME NEW k, IsKey(k) PROVE ParamName(k).words = k.words
  <2>1. Trim(k).words = k.words
    BY <1>3, KeysOfEntries
  <2> QED
    BY <1>1, <2>1 DEF ParamName
<1> QED
  BY <1>2, <1>3

\* No entry of the payload sets a parameter of the message's own, but for one
\* that is dressed up.
LEMMA NoneProtected ==
  ASSUME KeyMap(payload.extras), Brought, NEW words \in Protected, ~Disguised(words),
         NEW k \in DOMAIN ParamNames
  PROVE  ParamNames[k] # Param(words)
<1> SUFFICES ASSUME ParamNames[k] = Param(words) PROVE FALSE
  OBVIOUS
<1>1. k \in DOMAIN payload.extras /\ SetsParam(k) /\ ParamName(k) = Param(words)
  BY DEF ParamNames
<1>2. IsKey(k) /\ Trim(k).words = k.words /\ Trim(k).edge = k.edge
  BY <1>1, KeysOfEntries DEF KeyMap
<1>3. k.words = words
  BY <1>1, <1>2, ParamWords
<1>4. k.edge # "none"
  BY <1>1, <1>2, <1>3 DEF SetsParam, Reserved, Protected
<1>5. CASE k.upper
  BY <1>1, <1>2, <1>4, <1>5, ParamWords DEF ParamName
<1>6. CASE ~k.upper
  BY <1>1, <1>3, <1>4, <1>6 DEF Brought
<1> QED
  BY <1>5, <1>6

LEMMA OwnParamKept ==
  ASSUME KeyMap(payload.extras), Brought, NEW order \in Orders(payload.extras), NEW i,
         NEW words \in Protected, ~Disguised(words)
  PROVE  /\ Param(words) \in DOMAIN Params(i, order) <=> Param(words) \in DOMAIN OwnParams(i)
         /\ Param(words) \in DOMAIN OwnParams(i) =>
              Params(i, order)[Param(words)] = OwnParams(i)[Param(words)]
<1> DEFINE s == Params(i, order)
           n == Param(words)
           of(m) == {k \in DOMAIN ParamNames : ParamNames[k] = m}
<1>1. IsFiniteSet(DOMAIN payload.extras) /\ DOMAIN ParamNames \subseteq DOMAIN payload.extras
  BY DEF KeyMap, ParamNames
<1>2. /\ \A m : m \in DOMAIN s <=> m \in DOMAIN OwnParams(i) \/ of(m) # {}
      /\ \A m \in DOMAIN s : of(m) = {} => s[m] = OwnParams(i)[m]
  BY <1>1, SweepOfMap DEF Params
<1>3. of(n) = {}
  BY NoneProtected
<1> HIDE DEF s, n, of
<1>4. /\ n \in DOMAIN s <=> n \in DOMAIN OwnParams(i)
      /\ n \in DOMAIN OwnParams(i) => s[n] = OwnParams(i)[n]
  BY <1>2, <1>3
<1> QED
  BY <1>4 DEF s, n

LEMMA OwnParamValues ==
  ASSUME NEW i
  PROVE  LET own == OwnParams(i)
         IN  /\ Param(<<"to">>) \in DOMAIN own /\ own[Param(<<"to">>)].text = payload.to[i]
             /\ Param(<<"from">>) \in DOMAIN own /\ own[Param(<<"from">>)].text = payload.from
             /\ Param(<<"body">>) \in DOMAIN own <=> payload.body # "" /\ BodyParam = Param(<<"body">>)
             /\ payload.body # "" /\ BodyParam = Param(<<"body">>) =>
                  own[Param(<<"body">>)] = Text(payload.body)
<1> DEFINE body == IF payload.body = "" THEN <<>> ELSE Entry(BodyParam, Text(payload.body))
           from == Over(Entry(Param(<<"from">>), Text(payload.from)), body)
           own == OwnParams(i)
           T == Param(<<"to">>)
           F == Param(<<"from">>)
           B == Param(<<"body">>)
<1>1. <<"to">> # <<"from">> /\ <<"to">> # <<"body">> /\ <<"from">> # <<"body">>
  OBVIOUS
<1>2. T # F /\ T # B /\ F # B
  BY <1>1, ParamWords
<1>3. \A t : Text(t).text = t
  BY DEF Text
<1>4. own = Over(Entry(T, Text(payload.to[i])), from)
  BY DEF OwnParams
<1>5. DOMAIN body = IF payload.body = "" THEN {} ELSE {BodyParam}
  BY DEF Entry
<1>6. payload.body # "" => body[BodyParam] = Text(payload.body)
  BY DEF Entry
<1> HIDE DEF own, T, F, B, body
<1>7. /\ DOMAIN from = {F} \union DOMAIN body /\ from[F] = Text(payload.from)
      /\ \A m \in DOMAIN body : m # F => from[m] = body[m]
  BY DEF Over, Entry, F
<1> HIDE DEF from
<1>8. /\ DOMAIN own = {T} \union DOMAIN from /\ own[T] = Text(payload.to[i])
      /\ \A m \in DOMAIN from : m # T => own[m] = from[m]
  BY <1>4 DEF Over, Entry
<1>9. T \in DOMAIN own /\ own[T].text = payload.to[i]
  BY <1>3, <1>8
<1>10. F \in DOMAIN own /\ own[F].text = payload.from
  BY <1>2, <1>3, <1>7, <1>8
<1>11. B \in DOMAIN own <=> B \in DOMAIN body
  BY <1>2, <1>7, <1>8
<1>12. B \in DOMAIN body <=> payload.body # "" /\ BodyParam = B
  BY <1>5
<1>13. ASSUME payload.body # "", BodyParam = B PROVE own[B] = Text(payload.body)
  BY <1>2, <1>5, <1>6, <1>7, <1>8, <1>13
<1> QED
  BY <1>9, <1>10, <1>11, <1>12, <1>13 DEF own, T, F, B

-----------------------------------------------------------------------------

LEMMA ReachesAll == RequestInv => AcceptedReachesAll
<1> SUFFICES ASSUME RequestInv PROVE AcceptedReachesAll
  OBVIOUS
<1>1. step # "refused"
  BY DEF RequestInv
<1>2. ASSUME step = "prepared", request.channel = "email"
      PROVE  /\ ToSet(wire.envelope) = {a.box : a \in ToSet(request.to \o request.cc \o request.bcc)}
             /\ IsInjective(wire.envelope)
  <2>1. /\ request \in Inputs /\ Sent
        /\ payload.to = Boxes(request.to) /\ payload.cc = Boxes(request.cc)
        /\ payload.bcc = Boxes(request.bcc)
    BY <1>2, PreparedRequest
  <2>2. wire.envelope = UniqueAddresses(Boxes(request.to), Boxes(request.cc), Boxes(request.bcc))
    BY <1>2, <2>1 DEF Sent
  <2>3. /\ request.to \in Seq([box : STRING, form : STRING])
        /\ request.cc \in Seq([box : STRING, form : STRING])
        /\ request.bcc \in Seq([box : STRING, form : STRING])
    BY <2>1, KnownInput
  <2>4. /\ Boxes(request.to) \in Seq(STRING) /\ Boxes(request.cc) \in Seq(STRING)
        /\ Boxes(request.bcc) \in Seq(STRING)
    BY <2>3, BoxesOfList
  <2>5. /\ ToSet(wire.envelope) = ToSet(Boxes(request.to) \o Boxes(request.cc) \o Boxes(request.bcc))
        /\ IsInjective(wire.envelope)
    BY <2>2, <2>4, UniqueResult
  <2> QED
    BY <2>3, <2>5, BoxesOfAll
<1>3. ASSUME step = "prepared", request.channel # "email", ~Disguised(<<"to">>)
      PROVE  Boxes(request.to) = [i \in DOMAIN wire |-> wire[i][Param(<<"to">>)].text]
  <2>1. /\ request \in Inputs /\ Sent /\ KeyMap(payload.extras) /\ Brought
        /\ payload.to = Boxes(request.to)
    BY <1>3, PreparedRequest
  <2>2. PICK order \in [DOMAIN payload.to -> Orders(payload.extras)] :
          wire = [i \in DOMAIN payload.to |-> Params(i, order[i])]
    BY <1>3, <2>1 DEF Sent
  <2>3. ASSUME NEW i \in DOMAIN payload.to PROVE wire[i][Param(<<"to">>)].text = payload.to[i]
    <3>1. wire[i] = Params(i, order[i]) /\ order[i] \in Orders(payload.extras) /\ <<"to">> \in Protected
      BY <2>2 DEF Protected
    <3>2. wire[i][Param(<<"to">>)] = OwnParams(i)[Param(<<"to">>)]
      BY <1>3, <2>1, <3>1, OwnParamKept, OwnParamValues
    <3> QED
      BY <3>2, OwnParamValues
  <2>4. DOMAIN wire = DOMAIN payload.to
    BY <2>2
  <2>5. Boxes(request.to) = [i \in DOMAIN request.to |-> Boxes(request.to)[i]]
    BY DEF Boxes
  <2>6. DOMAIN Boxes(request.to) = DOMAIN request.to
    BY DEF Boxes
  <2> QED
    BY <2>1, <2>3, <2>4, <2>5, <2>6
<1> QED
  BY <1>1, <1>2, <1>3 DEF AcceptedReachesAll, PerRecipient

LEMMA OwnHeaderDomain ==
  /\ Header(<<"from">>) \in DOMAIN OwnHeader
  /\ Header(<<"bcc">>) \notin DOMAIN OwnHeader
  /\ payload.cc = <<>> => Header(<<"cc">>) \notin DOMAIN OwnHeader
<1>1. \A words : Header(words).words = words
  BY DEF Header, Key
<1>2. /\ <<"bcc">> \notin {<<"from">>, <<"content", "type">>, <<"to">>, <<"cc">>, <<"subject">>}
      /\ <<"cc">> \notin {<<"from">>, <<"content", "type">>, <<"to">>, <<"subject">>}
  OBVIOUS
<1>3. DOMAIN OwnHeader =
        {Header(<<"from">>), Header(<<"content", "type">>)}
         \union (IF payload.to # <<>> THEN {Header(<<"to">>)} ELSE {})
         \union (IF payload.cc # <<>> THEN {Header(<<"cc">>)} ELSE {})
         \union (IF payload.subject # "" THEN {Header(<<"subject">>)} ELSE {})
  BY DEF OwnHeader
<1>4. \A v, w : v # w => Header(v) # Header(w)
  BY <1>1
<1> HIDE DEF Header
<1>5. Header(<<"from">>) \in DOMAIN OwnHeader
  BY <1>3
<1>6. \A n \in DOMAIN OwnHeader :
        \/ n \in {Header(<<"from">>), Header(<<"content", "type">>), Header(<<"to">>), Header(<<"subject">>)}
        \/ payload.cc # <<>> /\ n = Header(<<"cc">>)
  BY <1>3
<1>7. Header(<<"bcc">>) \notin DOMAIN OwnHeader
  BY <1>2, <1>4, <1>6
<1>8. payload.cc = <<>> => Header(<<"cc">>) \notin DOMAIN OwnHeader
  BY <1>2, <1>4, <1>6
<1> QED
  BY <1>5, <1>7, <1>8

LEMMA FieldsKept == RequestInv => OwnFieldsKept
<1> SUFFICES ASSUME RequestInv PROVE OwnFieldsKept
  OBVIOUS
<1>1. ASSUME step = "prepared", request.channel = "email"
      PROVE  /\ \A k \in DOMAIN OwnHeader : wire.header[k] = OwnHeader[k]
             /\ Header(<<"from">>) \in DOMAIN wire.header
             /\ Header(<<"bcc">>) \notin DOMAIN wire.header
             /\ payload.cc = <<>> => Header(<<"cc">>) \notin DOMAIN wire.header
  <2>1. Sent
    BY <1>1, PreparedRequest
  <2>2. PICK order \in Orders(payload.extras) : wire.header = MessageHeader(order)
    BY <1>1, <2>1 DEF Sent
  <2> DEFINE given == Sweep(payload.extras, order, <<>>, HeaderNames)
             rest == Restrict(given, DOMAIN given \ {Header(<<"cc">>), Header(<<"bcc">>)})
  <2>3. wire.header = Over(OwnHeader, rest)
    BY <2>2 DEF MessageHeader
  <2>4. Header(<<"cc">>) \notin DOMAIN rest /\ Header(<<"bcc">>) \notin DOMAIN rest
    BY DEF Restrict
  <2> HIDE DEF rest
  <2>5. /\ DOMAIN wire.header = DOMAIN OwnHeader \union DOMAIN rest
        /\ \A k \in DOMAIN OwnHeader : wire.header[k] = OwnHeader[k]
    BY <2>3 DEF Over
  <2> QED
    BY <2>4, <2>5, OwnHeaderDomain
<1>2. ASSUME step = "prepared", request.channel # "email", NEW i \in DOMAIN wire
      PROVE  /\ ~Disguised(<<"from">>) => wire[i][Param(<<"from">>)].text = request.from.box
             /\ ~Disguised(<<"body">>) =>
                  /\ Param(<<"body">>) \in DOMAIN wire[i]
                       <=> payload.body # "" /\ BodyParam = Param(<<"body">>)
                  /\ payload.body # "" => \/ wire[i][BodyParam] = Text(payload.body)
                                         \/ BodyParam = Param(<<"media", "url">>)
  <2>1. Sent /\ KeyMap(payload.extras) /\ Brought /\ payload.from = request.from.box
    BY <1>2, PreparedRequest
  <2>2. PICK order \in Orders(payload.extras) : wire[i] = Params(i, order)
    BY <1>2, <2>1 DEF Sent
  <2>3. <<"from">> \in Protected /\ <<"body">> \in Protected
    BY DEF Protected
  <2>4. ASSUME ~Disguised(<<"from">>)
        PROVE  wire[i][Param(<<"from">>)].text = payload.from
    <3>1. Params(i, order)[Param(<<"from">>)] = OwnParams(i)[Param(<<"from">>)]
      BY <2>1, <2>2, <2>3, <2>4, OwnParamKept, OwnParamValues
    <3> QED
      BY <2>2, <3>1, OwnParamValues
  <2>5. ASSUME ~Disguised(<<"body">>)
        PROVE  /\ Param(<<"body">>) \in DOMAIN wire[i]
                    <=> payload.body # "" /\ BodyParam = Param(<<"body">>)
               /\ payload.body # "" /\ BodyParam = Param(<<"body">>) =>
                    wire[i][Param(<<"body">>)] = Text(payload.body)
    <3> DEFINE B == Param(<<"body">>)
    <3>1. /\ B \in DOMAIN Params(i, order) <=> B \in DOMAIN OwnParams(i)
          /\ B \in DOMAIN OwnParams(i) => Params(i, order)[B] = OwnParams(i)[B]
      BY <2>1, <2>2, <2>3, <2>5, OwnParamKept
    <3> QED
      BY <2>2, <3>1, OwnParamValues
  <2>6. BodyParam \in {Param(<<"body">>), Param(<<"media", "url">>)}
    BY DEF BodyParam
  <2> QED
    BY <2>1, <2>4, <2>5, <2>6
<1> QED
  BY <1>1, <1>2 DEF OwnFieldsKept

-----------------------------------------------------------------------------
(* The judgement of a failed call                                          *)

\* What a provider reports: whatever numbers, in any of the places.
Reported ==
  /\ channel \in Channels
  /\ raw.code \in Int
  /\ error.smtp \in Int

JudgeInv ==
  /\ class \in {"none", "over"} \union Classes
  /\ class # "over" => Reported
  /\ class \in Classes => /\ response = Status(channel, raw, error)
                          /\ class = Class(channel, raw, error)

LEMMA CallIsReported == JudgeInit => Reported
<1> SUFFICES ASSUME JudgeInit PROVE Reported
  OBVIOUS
<1>1. channel \in Channels /\ raw \in RawResponses(channel) /\ error \in Errors(channel, raw)
  BY DEF JudgeInit
<1>2. HttpCodes \union {550} \subseteq Int /\ NoRaw.code \in Int
  BY DEF HttpCodes, NoRaw, NoCode
<1>3. SmtpCodes \union {NoCode} \subseteq Int
  BY DEF SmtpCodes, NoCode
<1>4. raw.code \in Int
  <2>1. CASE raw = NoRaw
    BY <1>2, <2>1
  <2>2. CASE raw # NoRaw /\ channel = "email"
    <3>1. raw \in [twilio : {0}, text : {"plain"}, code : SmtpCodes]
      BY <1>1, <2>2 DEF RawResponses
    <3>2. raw.code \in SmtpCodes
      BY <3>1
    <3> QED
      BY <1>3, <3>2
  <2>3. CASE raw # NoRaw /\ channel # "email"
    <3>1. raw \in [twilio : {0, 20003, 21211, 21610, 30001, 30002, 63016},
                   text : {"plain", "permanent", "transient"}, code : HttpCodes \union {550}]
      BY <1>1, <2>3 DEF RawResponses
    <3>2. raw.code \in HttpCodes \union {550}
      BY <3>1
    <3> QED
      BY <1>2, <3>2
  <2> QED
    BY <2>1, <2>2, <2>3
<1>5. error.smtp \in Int
  <2>1. error.smtp \in SmtpCodes \union {NoCode}
    BY <1>1 DEF Errors
  <2> QED
    BY <1>3, <2>1
<1> QED
  BY <1>1, <1>4, <1>5 DEF Reported

LEMMA ClassIsClass == \A ch, r, e : Class(ch, r, e) \in Classes
BY DEF Class, EmailClass, TwilioClass, Classes

LEMMA JudgeInitially == Init => JudgeInv
<1>1. ASSUME JudgeInit PROVE JudgeInv
  BY <1>1, CallIsReported DEF JudgeInit, JudgeInv, Classes
<1>2. ASSUME class = "over" PROVE JudgeInv
  BY <1>2 DEF JudgeInv, Classes
<1> QED
  BY <1>1, <1>2 DEF Init

LEMMA JudgeStep == JudgeInv /\ [Next]_<<judgeVars, requestVars>> => JudgeInv'
<1> SUFFICES ASSUME JudgeInv, [Next]_<<judgeVars, requestVars>> PROVE JudgeInv'
  OBVIOUS
<1>1. CASE Judge
  <2>1. /\ class = "none" /\ Reported
        /\ UNCHANGED <<channel, raw, error>>
        /\ response' = Status(channel, raw, error) /\ class' = Class(channel, raw, error)
    BY <1>1 DEF Judge, JudgeInv
  <2>2. class' \in Classes
    BY <2>1, ClassIsClass
  <2>3. Reported'
    BY <2>1 DEF Reported
  <2> QED
    BY <2>1, <2>2, <2>3 DEF JudgeInv
<1>2. CASE UNCHANGED judgeVars
  BY <1>2 DEF JudgeInv, Reported, judgeVars
<1> QED
  BY <1>1, <1>2 DEF Next

LEMMA VerdictOfCode ==
  ASSUME NEW code \in Int
  PROVE  /\ HttpVerdict(code) \in {"rejected", "rate_limited", "undecided"}
         /\ HttpVerdict(code) = "rejected" <=> code >= 400 /\ ~(code >= 500) /\ code # 429
         /\ HttpVerdict(code) = "undecided" => code < 400
BY DEF HttpVerdict

LEMMA Agreement ==
  ASSUME Reported
  PROVE  LET status == Status(channel, raw, error)
             sort   == Class(channel, raw, error)
         IN  \/ status = "rejected" <=> sort = "permanent"
             \/ TextContradicts
             \/ channel = "sms" /\ TwilioVerdict(channel, raw) = "undecided" /\ sort = "permanent"
<1>1. CASE channel = "email"
  <2> DEFINE judged == IF raw = NoRaw THEN error.smtp ELSE raw.code
             classed == IF error.smtp # NoCode THEN error.smtp ELSE raw.code
  <2>1. TextContradicts \/ (IsPermanentCode(judged) <=> IsPermanentCode(classed))
    <3>1. CASE raw = NoRaw \/ error.smtp = NoCode
      BY <3>1 DEF NoRaw
    <3>2. CASE raw # NoRaw /\ error.smtp # NoCode
      BY <1>1, <3>2 DEF TextContradicts, IsPermanentCode
    <3> QED
      BY <3>1, <3>2
  <2>2. Status(channel, raw, error) =
          IF IsPermanentCode(judged) THEN "rejected"
          ELSE IF judged >= 400 \/ IsTimeout(error) THEN "rate_limited" ELSE "unknown"
    BY <1>1 DEF Status, EmailStatus
  <2>3. Class(channel, raw, error) = IF IsPermanentCode(classed) THEN "permanent" ELSE "transient"
    BY <1>1 DEF Class, EmailClass
  <2> HIDE DEF judged, classed
  <2> QED
    BY <2>1, <2>2, <2>3
<1>2. CASE channel # "email"
  <2> DEFINE v == TwilioVerdict(channel, raw)
  <2>1. Status(channel, raw, error) =
          IF v # "undecided" THEN v
          ELSE IF channel = "sms" THEN SMSTextStatus(error.hints) ELSE WhatsAppTextStatus(error.hints)
    BY <1>2 DEF Status, TwilioStatus
  <2>2. Class(channel, raw, error) =
          IF v = "rejected" \/ (v = "undecided" /\ "invalid" \in error.hints)
          THEN "permanent" ELSE "transient"
    BY <1>2 DEF Class, TwilioClass
  <2>3. SMSTextStatus(error.hints) # "rejected"
    BY DEF SMSTextStatus
  <2>4. WhatsAppTextStatus(error.hints) = "rejected" <=> "invalid" \in error.hints
    BY DEF WhatsAppTextStatus
  <2> HIDE DEF v
  <2>5. \/ Status(channel, raw, error) = "rejected" <=> Class(channel, raw, error) = "permanent"
        \/ channel = "sms" /\ v = "undecided" /\ Class(channel, raw, error) = "permanent"
    BY <2>1, <2>2, <2>3, <2>4
  <2> QED
    BY <2>5 DEF v
<1> QED
  BY <1>1, <1>2

LEMMA OverloadIsTransient ==
  ASSUME Reported, ~Rejecting, raw.code >= 500 \/ raw.code = 429 \/ raw.code < 400
  PROVE  Class(channel, raw, error) = "transient"
<1>1. CASE channel = "email"
  <2> DEFINE classed == IF error.smtp # NoCode THEN error.smtp ELSE raw.code
  <2>1. ~IsPermanentCode(classed)
    BY <1>1 DEF Rejecting
  <2>2. Class(channel, raw, error) = IF IsPermanentCode(classed) THEN "permanent" ELSE "transient"
    BY <1>1 DEF Class, EmailClass
  <2> HIDE DEF classed
  <2> QED
    BY <2>1, <2>2
<1>2. CASE channel # "email"
  <2> DEFINE v == TwilioVerdict(channel, raw)
  <2>1. HttpVerdict(raw.code) # "rejected" /\ (HttpVerdict(raw.code) = "undecided" => raw.code < 400)
    BY VerdictOfCode DEF Reported
  <2>2. raw.twilio \notin RejectingCodes /\ raw.text # "permanent"
    BY DEF Rejecting
  <2>3. v \in {"rate_limited", HttpVerdict(raw.code)}
    BY <2>2 DEF TwilioVerdict
  <2>4. raw.code < 400 => "invalid" \notin error.hints
    BY <1>2 DEF Rejecting
  <2>5. Class(channel, raw, error) =
          IF v = "rejected" \/ (v = "undecided" /\ "invalid" \in error.hints)
          THEN "permanent" ELSE "transient"
    BY <1>2 DEF Class, TwilioClass
  <2> HIDE DEF v
  <2> QED
    BY <2>1, <2>3, <2>4, <2>5
<1> QED
  BY <1>1, <1>2

-----------------------------------------------------------------------------
(* The theorems                                                            *)

THEOREM RequestInvAlways == Spec => []RequestInv
BY RequestInitially, RequestStep, PTL DEF Spec

THEOREM JudgeInvAlways == Spec => []JudgeInv
BY JudgeInitially, JudgeStep, PTL DEF Spec

\* The random order in which Go iterates a map is of no consequence to what a
\* delivery accepts and to what it sends, but for two keys with one name:
\* MapOrderHarmless, for any requests and limits.
THEOREM MapOrderHarmlessAlways == Spec => []MapOrderHarmless
BY RequestInvAlways, OrderHarmless, PTL

\* An accepted request can be sent, and goes to each of its recipients, once,
\* unless a key of its metadata or headers is the word "to" with a separator
\* before or after it: AcceptedReachesAll.
THEOREM AcceptedReachesAllAlways == Spec => []AcceptedReachesAll
BY RequestInvAlways, ReachesAll, PTL

\* No metadata and no Kafka header replaces sender, recipients or text, but for
\* the word "from" or "body" with a separator before or after it: OwnFieldsKept.
THEOREM OwnFieldsKeptAlways == Spec => []OwnFieldsKept
BY RequestInvAlways, FieldsKept, PTL

\* The two functions that judge a failed call agree, whatever codes the response
\* and the text of the error name, in all but two cases: the text of an email's
\* error contradicts its code, or that of an SMS decides alone: StatusAgrees.
THEOREM StatusAgreesAlways == Spec => []StatusAgrees
<1>1. JudgeInv => StatusAgrees
  BY Agreement DEF JudgeInv, StatusAgrees, Classes
<1> QED
  BY <1>1, JudgeInvAlways, PTL

\* A provider that is overloaded or does not answer is tried again:
\* OverloadIsRetried.
THEOREM OverloadIsRetriedAlways == Spec => []OverloadIsRetried
<1>1. JudgeInv => OverloadIsRetried
  BY OverloadIsTransient DEF JudgeInv, OverloadIsRetried, Classes
<1> QED
  BY <1>1, JudgeInvAlways, PTL
=============================================================================

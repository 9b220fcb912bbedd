----------------------------- MODULE ProofLemmas -----------------------------
(***************************************************************************)
(* Facts about numbers and sequences that the proofs of several components *)
(* need and the library does not state.                                    *)
(***************************************************************************)
EXTENDS Integers, SequencesExt, SequenceTheorems, WellFoundedInduction, TLAPS

\* A nonempty set of natural numbers has a least element.
LEMMA LeastNat ==
    ASSUME NEW T, T \subseteq Nat, T # {}
    PROVE  \E m \in T : \A n \in T : m <= n
<1>1. PICK m \in T : \A n \in T : ~(<<n, m>> \in OpToRel(<, Nat))
  BY NatLessThanWellFounded, WFMin
<1>2. \A n \in T : <<n, m>> \in OpToRel(<, Nat) <=> n < m
  BY DEF OpToRel
<1>3. ASSUME NEW n \in T PROVE m <= n
  <2>1. n \in Nat /\ m \in Nat /\ ~(n < m)
    BY <1>1, <1>2
  <2> QED BY <2>1
<1> QED BY <1>3

\* So has a nonempty set that is bounded a greatest one.
LEMMA GreatestNat ==
    ASSUME NEW T, NEW b \in Nat, T \subseteq 0..b, T # {}
    PROVE  \E m \in T : \A n \in T : n <= m
<1> DEFINE U == {b - n : n \in T}
<1>1. \A n \in T : n \in Nat /\ b - n \in Nat
  OBVIOUS
<1>2. U \subseteq Nat /\ U # {}
  BY <1>1
<1>3. PICK u \in U : \A v \in U : u <= v
  BY <1>2, LeastNat
<1>4. PICK m \in T : u = b - m
  OBVIOUS
<1>5. ASSUME NEW n \in T PROVE n <= m
  <2>1. b - m <= b - n
    BY <1>3, <1>4
  <2> QED BY <2>1, <1>1
<1> QED BY <1>5

\* FlattenSeq puts the sequences of a sequence one behind the other: flat[i] is what
\* the first i of them make.
LEMMA FlattenSteps ==
    ASSUME NEW S, NEW parts \in Seq(Seq(S)), parts # <<>>
    PROVE  \E flat \in [1..Len(parts) -> Seq(S)] :
              /\ flat[1] = parts[1]
              /\ \A i \in 2..Len(parts) : flat[i] = flat[i - 1] \o parts[i]
              /\ FlattenSeq(parts) = flat[Len(parts)]
<1> DEFINE n == Len(parts)
           Flat(f, k) == \A i \in 1..k : f[i] = IF i = 1 THEN parts[1] ELSE f[i - 1] \o parts[i]
           Missing == {k \in 1..n : ~ \E f \in [1..k -> Seq(S)] : Flat(f, k)}
<1>0. n \in Nat /\ n >= 1
  BY EmptySeq
<1>1. \A i \in 1..n : parts[i] \in Seq(S)
  BY ElementOfSeq
<1> HIDE DEF n
<1>2. Missing = {}
  <2> SUFFICES ASSUME Missing # {} PROVE FALSE
    OBVIOUS
  <2>0. Missing \subseteq Nat
    BY <1>0
  <2>1. PICK k \in Missing : \A j \in Missing : k <= j
    BY <2>0, LeastNat
  <2>2. k \in 1..n /\ k \in Nat
    BY <2>0
  <2>3. CASE k = 1
    <3>1. parts[1] \in Seq(S)
      BY <1>1
    <3>2. [i \in 1..k |-> parts[1]] \in [1..k -> Seq(S)] /\ Flat([i \in 1..k |-> parts[1]], k)
      BY <3>1, <2>3
    <3> QED BY <3>2, <2>3
  <2>4. CASE k > 1
    <3>1. k - 1 \in 1..n /\ k - 1 \notin Missing
      <4>1. k - 1 \in 1..n /\ ~(k <= k - 1)
        BY <1>0, <2>2, <2>4
      <4> QED BY <2>1, <4>1
    <3>2. PICK f \in [1..(k - 1) -> Seq(S)] : Flat(f, k - 1)
      BY <3>1
    <3> DEFINE g == [i \in 1..k |-> IF i = k THEN f[k - 1] \o parts[k] ELSE f[i]]
    <3>3. f[k - 1] \in Seq(S) /\ parts[k] \in Seq(S)
      BY <1>1, <2>2, <2>4
    <3>4. f[k - 1] \o parts[k] \in Seq(S)
      BY <3>3, ConcatProperties
    <3>5. g \in [1..k -> Seq(S)]
      BY <2>2, <3>4
    <3>6. ASSUME NEW i \in 1..(k - 1) PROVE i # k /\ i \in 1..k /\ g[i] = f[i]
      <4>1. i # k /\ i \in 1..k
        BY <2>2
      <4> QED BY <4>1
    <3>7. g[k] = g[k - 1] \o parts[k]
      <4>1. k - 1 \in 1..(k - 1) /\ k \in 1..k
        BY <2>2, <2>4
      <4>2. g[k] = f[k - 1] \o parts[k]
        BY <4>1
      <4> QED BY <3>6, <4>1, <4>2
    <3> HIDE DEF g
    <3>8. ASSUME NEW i \in 1..k PROVE g[i] = IF i = 1 THEN parts[1] ELSE g[i - 1] \o parts[i]
      <4>1. CASE i = k
        <5>1. k # 1
          BY <2>4, <2>2
        <5> QED BY <3>7, <4>1, <5>1
      <4>2. CASE i # k
        <5>1. i \in 1..(k - 1) /\ g[i] = f[i] /\ (i # 1 => g[i - 1] = f[i - 1])
          BY <2>2, <3>6, <4>2
        <5> QED BY <5>1, <3>2
      <4> QED BY <4>1, <4>2
    <3>9. Flat(g, k)
      BY <3>8
    <3> QED BY <3>5, <3>9
  <2> QED BY <2>2, <2>3, <2>4
<1>3. PICK f \in [1..n -> Seq(S)] : Flat(f, n)
  <2>1. n \in 1..n
    BY <1>0
  <2>2. n \notin Missing
    BY <1>2, Zenon
  <2> QED BY <2>1, <2>2, Zenon
<1> DEFINE Body(g) == [i \in 1..n |-> IF i = 1 THEN parts[i] ELSE g[i - 1] \o parts[i]]
           flat == CHOOSE g : g = Body(g)
<1>4. f = Body(f)
  BY <1>3, Zenon
<1>5. flat = Body(flat)
  BY <1>4, Zenon
<1>6. FlattenSeq(parts) = flat[n]
  BY <1>0 DEF FlattenSeq, n
<1> HIDE DEF flat
<1>7. DOMAIN flat = 1..n /\ flat[1] = parts[1]
  BY <1>0, <1>5
<1>8. ASSUME NEW i \in 2..n PROVE flat[i] = flat[i - 1] \o parts[i]
  <2>1. i \in 1..n /\ i # 1
    BY <1>0
  <2>2. flat[i] = Body(flat)[i]
    BY <1>5
  <2>3. Body(flat)[i] = flat[i - 1] \o parts[i]
    BY <2>1
  <2> QED BY <2>2, <2>3
<1>9. \A i \in 1..n : flat[i] \in Seq(S)
  <2> DEFINE Bad == {k \in 1..n : flat[k] \notin Seq(S)}
  <2> SUFFICES ASSUME Bad # {} PROVE FALSE
    OBVIOUS
  <2>0. Bad \subseteq Nat
    BY <1>0
  <2>1. PICK k \in Bad : \A j \in Bad : k <= j
    BY <2>0, LeastNat
  <2>2. k # 1
    BY <1>0, <1>1, <1>7
  <2>3. k \in 2..n /\ k \in 1..n /\ k - 1 \in 1..n /\ ~(k <= k - 1)
    BY <1>0, <2>0, <2>2
  <2>4. flat[k - 1] \in Seq(S) /\ parts[k] \in Seq(S) /\ flat[k] = flat[k - 1] \o parts[k]
    BY <1>1, <1>8, <2>1, <2>3
  <2>5. flat[k] \in Seq(S)
    BY <2>4, ConcatProperties
  <2> QED BY <2>5
<1>10. flat \in [1..n -> Seq(S)]
  BY <1>5, <1>9
<1> QED BY <1>6, <1>7, <1>8, <1>10 DEF n
=============================================================================

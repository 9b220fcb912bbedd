--------------------------- MODULE TimerList_proofs ---------------------------
(***************************************************************************)
(* Proofs about TimerList for any set of nodes and any clock: the pointers *)
(* always form the one chain of the live timers, no pointer the code may   *)
(* follow dangles, the chain is sorted until the clock is set back, no     *)
(* turn of a loop is in vain, and the list implements TimerSet.            *)
(***************************************************************************)
EXTENDS TimerList, FiniteSetTheorems, TLAPS

-----------------------------------------------------------------------------
(* The chain the pointers form: s[1], ..., s[n], without repetition.       *)

Row(S, n, s) ==
    /\ n \in Nat /\ s \in [1..n -> S]
    /\ \A t \in S : \E i \in 1..n : s[i] = t
    /\ \A i, j \in 1..n : s[i] = s[j] => i = j

Forward(h, tl, nx, n, s) ==
    /\ IF n = 0 THEN h = NULL ELSE h = s[1] /\ tl = s[n]
    /\ \A i \in 1..n : nx[s[i]] = IF i = n THEN NULL ELSE s[i + 1]

Backward(pv, n, s) ==
    \A i \in 1..n : pv[s[i]] = IF i = 1 THEN NULL ELSE s[i - 1]

Sorted(ex, n, s) ==
    \A i, j \in 1..n : i <= j => ex[s[i]] <= ex[s[j]]

\* The pointers around the k-th node redirected past it, and the ends moved.
NextSkips(nx2, nx, n, s, k) ==
    \A i \in 1..n : i # k => nx2[s[i]] = IF i = k - 1 THEN nx[s[k]] ELSE nx[s[i]]
PrevSkips(pv2, pv, n, s, k) ==
    \A i \in 1..n : i # k => pv2[s[i]] = IF i = k + 1 THEN pv[s[k]] ELSE pv[s[i]]
EndsSkip(h2, tl2, h, tl, nx, n, s, k) ==
    /\ h2 = IF k = 1 THEN nx[s[1]] ELSE h
    /\ n > 1 => tl2 = IF k = n THEN s[n - 1] ELSE tl

\* The pointers on both sides of a node t put in behind the k-th.
NextSplit(nx2, nx, n, s, k, t) ==
    /\ \A i \in 1..n : nx2[s[i]] = IF i = k THEN t ELSE nx[s[i]]
    /\ nx2[t] = IF k = n THEN NULL ELSE s[k + 1]
PrevSplit(pv2, pv, n, s, k, t) ==
    /\ \A i \in 1..n : pv2[s[i]] = IF i = k + 1 THEN t ELSE pv[s[i]]
    /\ pv2[t] = IF k = 0 THEN NULL ELSE s[k]
EndsSplit(h2, tl2, h, tl, n, s, k, t) ==
    /\ h2 = IF k = 0 THEN t ELSE h
    /\ tl2 = IF k = n THEN t ELSE tl

Without(n, s, k) == [i \in 1..(n - 1) |-> IF i < k THEN s[i] ELSE s[i + 1]]

With(n, s, k, t) ==
    [i \in 1..(n + 1) |-> IF i <= k THEN s[i] ELSE IF i = k + 1 THEN t ELSE s[i - 1]]

-----------------------------------------------------------------------------
(* Taking a node out of a chain, and putting one in                        *)

\* The k-th node is taken out.
LEMMA RowWithout ==
    ASSUME NEW S, NEW n, NEW s, Row(S, n, s), NEW k \in 1..n
    PROVE  Row(S \ {s[k]}, n - 1, Without(n, s, k))
<1> DEFINE q == Without(n, s, k)
<1>1. n \in Nat /\ k \in Nat /\ n - 1 \in Nat /\ s \in [1..n -> S]
  BY DEF Row
<1>2. \A i \in 1..(n - 1) : q[i] = IF i < k THEN s[i] ELSE s[i + 1]
  BY DEF Without
<1>3. \A i \in 1..(n - 1) : i \in 1..n /\ i + 1 \in 1..n
  BY <1>1
<1>4. \A i, j \in 1..n : s[i] = s[j] => i = j
  BY DEF Row
<1>5. q \in [1..(n - 1) -> S \ {s[k]}]
  <2>1. \A i \in 1..(n - 1) : q[i] \in S \ {s[k]}
    BY <1>1, <1>2, <1>3, <1>4
  <2> QED BY <2>1 DEF Without
<1>6. ASSUME NEW t \in S \ {s[k]} PROVE \E i \in 1..(n - 1) : q[i] = t
  <2>1. PICK i \in 1..n : s[i] = t
    BY DEF Row
  <2>2. CASE i < k
    <3>1. i \in 1..(n - 1) /\ q[i] = t
      BY <1>1, <1>2, <2>1, <2>2
    <3> QED BY <3>1
  <2>3. CASE i > k
    <3>1. i - 1 \in 1..(n - 1) /\ ~(i - 1 < k) /\ (i - 1) + 1 = i
      BY <1>1, <2>3
    <3>2. q[i - 1] = t
      BY <1>2, <2>1, <3>1
    <3> QED BY <3>1, <3>2
  <2> QED BY <1>1, <2>1, <2>2, <2>3
<1>7. ASSUME NEW i \in 1..(n - 1), NEW j \in 1..(n - 1), q[i] = q[j] PROVE i = j
  BY <1>1, <1>2, <1>3, <1>4, <1>7
<1> QED BY <1>1, <1>5, <1>6, <1>7 DEF Row

\* Its neighbours, or the ends, are redirected.
LEMMA ForwardWithout ==
    ASSUME NEW S, NEW n, NEW s, Row(S, n, s), NEW k \in 1..n,
           NEW h, NEW tl, NEW nx, Forward(h, tl, nx, n, s),
           NEW h2, NEW tl2, NEW nx2,
           EndsSkip(h2, tl2, h, tl, nx, n, s, k), NextSkips(nx2, nx, n, s, k)
    PROVE  Forward(h2, tl2, nx2, n - 1, Without(n, s, k))
<1> USE DEF EndsSkip, NextSkips
<1> DEFINE q == Without(n, s, k)
<1>1. n \in Nat /\ k \in Nat /\ n - 1 \in Nat
  BY DEF Row
<1>2. \A i \in 1..(n - 1) : q[i] = IF i < k THEN s[i] ELSE s[i + 1]
  BY DEF Without
<1>3. \A i \in 1..n : nx[s[i]] = IF i = n THEN NULL ELSE s[i + 1]
  BY DEF Forward
<1>4. ASSUME NEW i \in 1..(n - 1) PROVE nx2[q[i]] = IF i = n - 1 THEN NULL ELSE q[i + 1]
  <2>1. i \in 1..n /\ i + 1 \in 1..n /\ (i # n - 1 => i + 1 \in 1..(n - 1) /\ i + 2 \in 1..n)
    BY <1>1
  <2>2. CASE i < k /\ i # k - 1
    BY <1>1, <1>2, <1>3, <2>1, <2>2
  <2>3. CASE i = k - 1
    BY <1>1, <1>2, <1>3, <2>1, <2>3
  <2>4. CASE i >= k
    BY <1>1, <1>2, <1>3, <2>1, <2>4
  <2> QED BY <1>1, <2>2, <2>3, <2>4
<1>5. IF n - 1 = 0 THEN h2 = NULL ELSE h2 = q[1] /\ tl2 = q[n - 1]
  BY <1>1, <1>2, <1>3 DEF Forward
<1> HIDE DEF q
<1> QED BY <1>4, <1>5 DEF Forward, q

\* Cutting the k-th timer out makes the prev pointers those of the row without it.
LEMMA BackwardWithout ==
    ASSUME NEW S, NEW n, NEW s, Row(S, n, s), NEW k \in 1..n,
           NEW pv, Backward(pv, n, s), NEW pv2, PrevSkips(pv2, pv, n, s, k)
    PROVE  Backward(pv2, n - 1, Without(n, s, k))
<1> USE DEF PrevSkips
<1> DEFINE q == Without(n, s, k)
<1>1. n \in Nat /\ k \in Nat /\ n - 1 \in Nat
  BY DEF Row
<1>2. \A i \in 1..(n - 1) : q[i] = IF i < k THEN s[i] ELSE s[i + 1]
  BY DEF Without
<1>3. \A i \in 1..n : pv[s[i]] = IF i = 1 THEN NULL ELSE s[i - 1]
  BY DEF Backward
<1>4. ASSUME NEW i \in 1..(n - 1) PROVE pv2[q[i]] = IF i = 1 THEN NULL ELSE q[i - 1]
  <2>1. i \in 1..n /\ i + 1 \in 1..n /\ (i # 1 => i - 1 \in 1..(n - 1) /\ i - 1 \in 1..n)
    BY <1>1
  <2>2. CASE i < k
    BY <1>1, <1>2, <1>3, <2>1, <2>2
  <2>3. CASE i = k
    BY <1>1, <1>2, <1>3, <2>1, <2>3
  <2>4. CASE i > k
    BY <1>1, <1>2, <1>3, <2>1, <2>4
  <2> QED BY <1>1, <2>2, <2>3, <2>4
<1> HIDE DEF q
<1> QED BY <1>4 DEF Backward, q

\* A sorted row stays sorted without its k-th timer.
LEMMA SortedWithout ==
    ASSUME NEW S, NEW n, NEW s, Row(S, n, s), NEW k \in 1..n,
           NEW ex, Sorted(ex, n, s), NEW ex2, \A i \in 1..n : i # k => ex2[s[i]] = ex[s[i]]
    PROVE  Sorted(ex2, n - 1, Without(n, s, k))
<1> DEFINE q == Without(n, s, k)
<1>1. n \in Nat /\ k \in Nat
  BY DEF Row
<1>2. ASSUME NEW i \in 1..(n - 1)
      PROVE  \E m \in 1..n : q[i] = s[m] /\ m # k /\ m = IF i < k THEN i ELSE i + 1
  <2>1. q[i] = IF i < k THEN s[i] ELSE s[i + 1]
    BY DEF Without
  <2> QED BY <1>1, <2>1
<1>3. ASSUME NEW i \in 1..(n - 1), NEW j \in 1..(n - 1), i <= j
      PROVE  ex2[q[i]] <= ex2[q[j]]
  <2>1. PICK m \in 1..n : q[i] = s[m] /\ m # k /\ m = IF i < k THEN i ELSE i + 1
    BY <1>2
  <2>2. PICK l \in 1..n : q[j] = s[l] /\ l # k /\ l = IF j < k THEN j ELSE j + 1
    BY <1>2
  <2>3. m <= l
    BY <1>1, <1>3, <2>1, <2>2
  <2> QED BY <2>1, <2>2, <2>3 DEF Sorted
<1> HIDE DEF q
<1> QED BY <1>3 DEF Sorted, q

\* A node is put in behind the k-th.
LEMMA RowWith ==
    ASSUME NEW S, NEW n, NEW s, Row(S, n, s), NEW k \in 0..n, NEW t, t \notin S
    PROVE  Row(S \cup {t}, n + 1, With(n, s, k, t))
<1> DEFINE q == With(n, s, k, t)
<1>1. n \in Nat /\ k \in Nat /\ n + 1 \in Nat /\ s \in [1..n -> S]
  BY DEF Row
<1>2. \A i \in 1..(n + 1) : q[i] = IF i <= k THEN s[i] ELSE IF i = k + 1 THEN t ELSE s[i - 1]
  BY DEF With
<1>3. \A i \in 1..(n + 1) : (i <= k => i \in 1..n) /\ (i > k + 1 => i - 1 \in 1..n)
  BY <1>1
<1>4. \A i, j \in 1..n : s[i] = s[j] => i = j
  BY DEF Row
<1>5. q \in [1..(n + 1) -> S \cup {t}]
  <2>1. \A i \in 1..(n + 1) : q[i] \in S \cup {t}
    BY <1>1, <1>2, <1>3
  <2> QED BY <2>1 DEF With
<1>6. ASSUME NEW u \in S \cup {t} PROVE \E i \in 1..(n + 1) : q[i] = u
  <2>1. CASE u = t
    <3>1. k + 1 \in 1..(n + 1) /\ q[k + 1] = t
      BY <1>1, <1>2
    <3> QED BY <2>1, <3>1
  <2>2. CASE u # t
    <3>1. PICK i \in 1..n : s[i] = u
      BY <2>2 DEF Row
    <3>2. CASE i <= k
      <4>1. i \in 1..(n + 1) /\ q[i] = u
        BY <1>1, <1>2, <3>1, <3>2
      <4> QED BY <4>1
    <3>3. CASE i > k
      <4>1. i + 1 \in 1..(n + 1) /\ ~(i + 1 <= k) /\ i + 1 # k + 1 /\ (i + 1) - 1 = i
        BY <1>1, <3>3
      <4>2. q[i + 1] = u
        BY <1>2, <3>1, <4>1
      <4> QED BY <4>1, <4>2
    <3> QED BY <1>1, <3>2, <3>3
  <2> QED BY <2>1, <2>2
<1>7. ASSUME NEW i \in 1..(n + 1), NEW j \in 1..(n + 1), q[i] = q[j] PROVE i = j
  <2>1. \A m \in 1..n : s[m] # t
    BY <1>1
  <2> QED BY <1>1, <1>2, <1>3, <1>4, <1>7, <2>1
<1> QED BY <1>1, <1>5, <1>6, <1>7 DEF Row

\* Linking t in behind the k-th timer makes head, tail and next those of the row with it.
LEMMA ForwardWith ==
    ASSUME NEW S, NEW n, NEW s, Row(S, n, s), NEW k \in 0..n, NEW t, t \notin S,
           NEW h, NEW tl, NEW nx, Forward(h, tl, nx, n, s),
           NEW h2, NEW tl2, NEW nx2,
           EndsSplit(h2, tl2, h, tl, n, s, k, t), NextSplit(nx2, nx, n, s, k, t)
    PROVE  Forward(h2, tl2, nx2, n + 1, With(n, s, k, t))
<1> USE DEF EndsSplit, NextSplit
<1> DEFINE q == With(n, s, k, t)
<1>1. n \in Nat /\ k \in Nat /\ n + 1 \in Nat
  BY DEF Row
<1>2. \A i \in 1..(n + 1) : q[i] = IF i <= k THEN s[i] ELSE IF i = k + 1 THEN t ELSE s[i - 1]
  BY DEF With
<1>3. \A i \in 1..n : nx[s[i]] = IF i = n THEN NULL ELSE s[i + 1]
  BY DEF Forward
<1>4. ASSUME NEW i \in 1..(n + 1) PROVE nx2[q[i]] = IF i = n + 1 THEN NULL ELSE q[i + 1]
  <2>1. i # n + 1 => i \in 1..n /\ i + 1 \in 1..(n + 1)
    BY <1>1
  <2>2. CASE i < k
    BY <1>1, <1>2, <1>3, <2>1, <2>2
  <2>3. CASE i = k
    BY <1>1, <1>2, <2>1, <2>3
  <2>4. CASE i = k + 1
    BY <1>1, <1>2, <2>1, <2>4
  <2>5. CASE i > k + 1
    <3>1. i - 1 \in 1..n /\ i - 1 # k
      BY <1>1, <2>5
    <3> QED BY <1>1, <1>2, <1>3, <2>1, <2>5, <3>1
  <2> QED BY <1>1, <2>2, <2>3, <2>4, <2>5
<1>5. h2 = q[1] /\ tl2 = q[n + 1]
  BY <1>1, <1>2 DEF Forward
<1> HIDE DEF q
<1> QED BY <1>1, <1>4, <1>5 DEF Forward, q

\* The same of the prev pointers.
LEMMA BackwardWith ==
    ASSUME NEW S, NEW n, NEW s, Row(S, n, s), NEW k \in 0..n, NEW t, t \notin S,
           NEW pv, Backward(pv, n, s), NEW pv2, PrevSplit(pv2, pv, n, s, k, t)
    PROVE  Backward(pv2, n + 1, With(n, s, k, t))
<1> USE DEF PrevSplit
<1> DEFINE q == With(n, s, k, t)
<1>1. n \in Nat /\ k \in Nat /\ n + 1 \in Nat
  BY DEF Row
<1>2. \A i \in 1..(n + 1) : q[i] = IF i <= k THEN s[i] ELSE IF i = k + 1 THEN t ELSE s[i - 1]
  BY DEF With
<1>3. \A i \in 1..n : pv[s[i]] = IF i = 1 THEN NULL ELSE s[i - 1]
  BY DEF Backward
<1>4. ASSUME NEW i \in 1..(n + 1) PROVE pv2[q[i]] = IF i = 1 THEN NULL ELSE q[i - 1]
  <2>1. i # 1 => i - 1 \in 1..n /\ i - 1 \in 1..(n + 1)
    BY <1>1
  <2>2. CASE i <= k
    <3>1. i \in 1..n
      BY <1>1, <2>2
    <3> QED BY <1>1, <1>2, <1>3, <2>1, <2>2, <3>1
  <2>3. CASE i = k + 1
    BY <1>1, <1>2, <2>1, <2>3
  <2>4. CASE i = k + 2
    BY <1>1, <1>2, <2>1, <2>4
  <2>5. CASE i > k + 2
    BY <1>1, <1>2, <1>3, <2>1, <2>5
  <2> QED BY <1>1, <2>2, <2>3, <2>4, <2>5
<1> HIDE DEF q
<1> QED BY <1>4 DEF Backward, q

\* A sorted row stays sorted if t expires no earlier than the one before and no later than
\* the one behind it.
LEMMA SortedWith ==
    ASSUME NEW S, NEW n, NEW s, Row(S, n, s), NEW k \in 0..n, NEW t, t \notin S,
           NEW ex, Sorted(ex, n, s), ex[t] \in Nat, \A u \in S : ex[u] \in Nat,
           k > 0 => ex[s[k]] <= ex[t],
           k < n => ex[t] <= ex[s[k + 1]]
    PROVE  Sorted(ex, n + 1, With(n, s, k, t))
<1> DEFINE q == With(n, s, k, t)
<1>1. n \in Nat /\ k \in Nat /\ \A i \in 1..n : s[i] \in S /\ ex[s[i]] \in Nat
  BY DEF Row
<1>2. \A i \in 1..(n + 1) : q[i] = IF i <= k THEN s[i] ELSE IF i = k + 1 THEN t ELSE s[i - 1]
  BY DEF With
<1>3. /\ \A i \in 1..n : i <= k => ex[s[i]] <= ex[t]
      /\ \A i \in 1..n : i > k => ex[t] <= ex[s[i]]
  <2>1. ASSUME NEW i \in 1..n, i <= k PROVE ex[s[i]] <= ex[t]
    <3>1. ex[s[i]] <= ex[s[k]]
      BY <1>1, <2>1 DEF Sorted
    <3> QED BY <1>1, <2>1, <3>1
  <2>2. ASSUME NEW i \in 1..n, i > k PROVE ex[t] <= ex[s[i]]
    <3>1. k + 1 \in 1..n /\ ex[s[k + 1]] <= ex[s[i]]
      BY <1>1, <2>2 DEF Sorted
    <3> QED BY <1>1, <2>2, <3>1
  <2> QED BY <2>1, <2>2
<1>4. ASSUME NEW i \in 1..(n + 1), NEW j \in 1..(n + 1), i <= j
      PROVE  ex[q[i]] <= ex[q[j]]
  <2>1. (i <= k => i \in 1..n) /\ (i > k + 1 => i - 1 \in 1..n)
    BY <1>1
  <2>2. (j <= k => j \in 1..n) /\ (j > k + 1 => j - 1 \in 1..n)
    BY <1>1
  <2>3. CASE i <= k /\ j <= k
    BY <1>2, <1>4, <2>1, <2>2, <2>3 DEF Sorted
  <2>4. CASE i <= k /\ j = k + 1
    BY <1>1, <1>2, <1>3, <2>1, <2>4
  <2>5. CASE i <= k /\ j > k + 1
    BY <1>1, <1>2, <2>1, <2>2, <2>5 DEF Sorted
  <2>6. CASE i = k + 1 /\ j = k + 1
    BY <1>1, <1>2, <2>6
  <2>7. CASE i = k + 1 /\ j > k + 1
    BY <1>1, <1>2, <1>3, <2>2, <2>7
  <2>8. CASE i > k + 1 /\ j > k + 1
    BY <1>1, <1>2, <1>4, <2>1, <2>2, <2>8 DEF Sorted
  <2> QED BY <1>1, <1>4, <2>3, <2>4, <2>5, <2>6, <2>7, <2>8
<1> HIDE DEF q
<1> QED BY <1>4 DEF Sorted, q

-----------------------------------------------------------------------------
(* The inductive invariant                                                 *)

\* The nodes the pointers should chain: adjust_timer() has taken the one it
\* moves out, and add_timer() not put its own in, while the walk is on.
Members == IF pc = "walk" THEN live \ {timer} ELSE live

\* tail is not kept when tick() empties the list, prev not by the destructor.
Shape(n, s) ==
    /\ Row(Members, n, s)
    /\ Forward(head, tail, next, n, s)
    /\ pc # "end" => Backward(prev, n, s)
    /\ ~setback => Sorted(expire, n, s)

Chained == \E n \in Nat : \E s \in [1..n -> Timers] : Shape(n, s)

\* What "new" may return: the constructor sets next and prev to NULL.
Blank == \A t \in Timers \ live : next[t] = NULL /\ prev[t] = NULL

\* The walk is at a node the timer belongs behind; what the timer itself points
\* to, before it is put in, are its old neighbours.
Walking ==
    pc = "walk" =>
        /\ at \in Members /\ expire[at] <= expire[timer]
        /\ next[timer] \in Members \cup {NULL} /\ prev[timer] \in Members \cup {NULL}

\* No deadline lies further ahead than the next one to be given.
Recent == ~setback => \A t \in live : expire[t] <= now + TTL

IInv == TypeOK /\ Chained /\ Blank /\ Walking /\ Recent

-----------------------------------------------------------------------------
(* Type correctness                                                        *)

\* t is the k-th node of the chain.
Place(n, s, t, k) ==
    /\ s[k] = t
    /\ head = t <=> k = 1
    /\ tail = t <=> k = n
    /\ next[t] = IF k = n THEN NULL ELSE s[k + 1]
    /\ pc # "end" => prev[t] = IF k = 1 THEN NULL ELSE s[k - 1]

\* Where the nodes of a chain are, and what points to and from them.
LEMMA Located ==
    ASSUME TypeOK, NEW n \in Nat, NEW s \in [1..n -> Timers], Shape(n, s), NEW t \in Members
    PROVE  \E k \in 1..n : Place(n, s, t, k)
<1>1. PICK k \in 1..n : s[k] = t
  BY DEF Shape, Row
<1>2. n # 0 /\ 1 \in 1..n /\ n \in 1..n
  BY <1>1
<1>3. head = s[1] /\ tail = s[n]
  BY <1>2 DEF Shape, Forward
<1>4. \A i, j \in 1..n : s[i] = s[j] => i = j
  BY DEF Shape, Row
<1>5. next[t] = IF k = n THEN NULL ELSE s[k + 1]
  BY <1>1 DEF Shape, Forward
<1>6. pc # "end" => prev[t] = IF k = 1 THEN NULL ELSE s[k - 1]
  BY <1>1 DEF Shape, Backward
<1> QED BY <1>1, <1>2, <1>3, <1>4, <1>5, <1>6 DEF Place

\* The head is the first of the chain, if there is one.
LEMMA HeadOfChain ==
    ASSUME TypeOK, NEW n \in Nat, NEW s \in [1..n -> Timers], Shape(n, s)
    PROVE  /\ head = NULL => n = 0 /\ Members = {}
           /\ head # NULL => n > 0 /\ head = s[1] /\ head \in Members /\ tail \in Members
<1>1. Row(Members, n, s) /\ (IF n = 0 THEN head = NULL ELSE head = s[1] /\ tail = s[n])
  BY DEF Shape, Forward
<1>2. NULL \notin Timers
  BY TimerAssumption
<1>3. CASE n = 0
  BY <1>1, <1>3 DEF Row
<1>4. CASE n # 0
  <2>1. s[1] \in Members /\ s[n] \in Members /\ s[1] \in Timers
    BY <1>1, <1>4 DEF Row
  <2> QED BY <1>1, <1>2, <1>4, <2>1
<1> QED BY <1>3, <1>4

\* What next and prev of a node lead to.
LEMMA Neighbours ==
    ASSUME TypeOK, Chained, NEW t \in Members
    PROVE  /\ head \in Members /\ tail \in Members
           /\ next[t] \in (Members \ {t}) \cup {NULL}
           /\ t # tail => next[t] # NULL
           /\ pc # "end" => prev[t] \in (Members \ {t}) \cup {NULL} /\ (t # head => prev[t] # NULL)
<1>1. PICK n \in Nat : \E s \in [1..n -> Timers] : Shape(n, s)
  BY DEF Chained
<1>2. PICK s \in [1..n -> Timers] : Shape(n, s)
  BY <1>1
<1>3. PICK k \in 1..n : Place(n, s, t, k)
  BY <1>2, Located
<1>4. /\ \A i \in 1..n : s[i] \in Members /\ s[i] \in Timers
      /\ \A i, j \in 1..n : s[i] = s[j] => i = j
  BY <1>2 DEF Shape, Row
<1>5. head \in Members /\ tail \in Members
  <2>1. 1 \in 1..n /\ n \in 1..n /\ n # 0
    OBVIOUS
  <2> QED BY <1>2, <1>4, <2>1 DEF Shape, Forward
<1>6. NULL \notin Timers
  BY TimerAssumption
<1>7. (k # n => k + 1 \in 1..n /\ k + 1 # k) /\ (k # 1 => k - 1 \in 1..n /\ k - 1 # k)
  OBVIOUS
<1> QED BY <1>3, <1>4, <1>5, <1>6, <1>7 DEF Place

\* An empty list has no head, a list with a head is not empty.
LEMMA HeadIsMember ==
    ASSUME TypeOK, Chained
    PROVE  IF head = NULL THEN Members = {} ELSE head \in Members /\ tail \in Members
  BY HeadOfChain DEF Chained

\* The disjuncts of Next, flattened once for all the step proofs.
LEMMA NextCases ==
    ASSUME Next
    PROVE  \/ \E t \in Timers : AddFirst(t) \/ AddBeforeHead(t) \/ AddAfterHead(t)
           \/ \E t \in Timers : AdjustInPlace(t) \/ AdjustHead(t) \/ AdjustInner(t)
           \/ \E t \in Timers : DelOnly(t) \/ DelHead(t) \/ DelTail(t) \/ DelInner(t)
           \/ WalkOn \/ InsertBetween \/ InsertLast \/ TickFire \/ TickEnd \/ DestroyHead
           \/ TickBegin \/ Exit \/ Elapse \/ SetBack
  BY DEF Next, Operation, Loop, Add, Adjust, Del

\* delete and the pointers redirected before it keep their types.
LEMMA DeleteType ==
    ASSUME TypeOK, NEW t \in live, NEW n \in [Timers -> Node], NEW p \in [Timers -> Node],
           Delete(t, n, p), pc # "walk", head' \in Node, tail' \in Node
    PROVE  TypeOK'
<1>1. NULL \in Node
  BY DEF Node
<1>2. next' \in [Timers -> Node] /\ prev' \in [Timers -> Node]
  BY <1>1 DEF Delete
<1>3. expire' \in [Timers -> Nat]
  BY DEF Delete, TypeOK
<1>4. live' \in SUBSET Timers /\ UNCHANGED <<now, setback, cur, pc, timer, at>>
  BY DEF Delete, TypeOK, clock
<1> QED BY <1>2, <1>3, <1>4 DEF TypeOK

\* Every action keeps the types: no NULL is followed.
LEMMA TypeStep ==
    ASSUME IInv, [Next]_vars
    PROVE  TypeOK'
<1>0. TypeOK /\ Chained
  BY DEF IInv
<1>n. live \subseteq Timers /\ NULL \in Node /\ Timers \subseteq Node /\ NULL \notin Timers
  BY <1>0, TimerAssumption DEF TypeOK, Node
<1>i. pc # "walk" => Members = live
  BY DEF Members
<1> USE TimerAssumption DEF list, clock
<1>1. ASSUME NEW t \in Timers, AddFirst(t) \/ AddBeforeHead(t) \/ AddAfterHead(t) PROVE TypeOK'
  <2>1. Allocate(t) /\ pc = "idle"
    BY <1>1 DEF AddFirst, AddBeforeHead, AddAfterHead, Goto
  <2>2. live' \in SUBSET Timers /\ t \in live' /\ live \subseteq live' /\ expire' \in [Timers -> Nat]
    BY <1>0, <2>1 DEF Allocate, TypeOK
  <2>3. head # NULL => head \in live
    BY <1>0, <1>i, <2>1, HeadIsMember
  <2>4. CASE AddFirst(t) \/ AddBeforeHead(t)
    <3>1. next' \in [Timers -> Node] /\ prev' \in [Timers -> Node] /\ head' \in Node /\ tail' \in Node
      BY <1>0, <1>n, <2>3, <2>4 DEF AddFirst, AddBeforeHead, TypeOK
    <3>2. UNCHANGED <<now, setback, pc, timer, at, cur>>
      BY <2>4 DEF AddFirst, AddBeforeHead
    <3> QED BY <1>0, <2>1, <2>2, <3>1, <3>2 DEF TypeOK
  <2>5. CASE AddAfterHead(t)
    <3>1. /\ UNCHANGED <<next, prev, head, tail, now, setback, cur>>
          /\ pc' = "walk" /\ timer' = t /\ at' = head /\ head \in live
      BY <2>3, <2>5 DEF AddAfterHead, Goto
    <3> QED BY <1>0, <1>n, <2>2, <3>1 DEF TypeOK
  <2> QED BY <1>1, <2>4, <2>5
<1>2. ASSUME NEW t \in Timers, AdjustInPlace(t) \/ AdjustHead(t) \/ AdjustInner(t) PROVE TypeOK'
  <2>1. Postpone(t) /\ t \in live /\ pc = "idle"
    BY <1>2 DEF AdjustInPlace, AdjustHead, AdjustInner, Postpone, Goto
  <2>2. expire' \in [Timers -> Nat]
    BY <1>0, <2>1 DEF Postpone, TypeOK
  <2>3. next[t] \in live \cup {NULL} /\ prev[t] \in live \cup {NULL}
    BY <1>0, <1>i, <2>1, Neighbours
  <2>4. CASE AdjustInPlace(t)
    BY <1>0, <2>2, <2>4 DEF AdjustInPlace, TypeOK
  <2>5. CASE AdjustHead(t) \/ AdjustInner(t)
    <3>1. /\ UNCHANGED <<tail, live, now, setback, cur>>
          /\ pc' = "walk" /\ timer' = t /\ at' = next[t] /\ next[t] # NULL
      BY <2>5 DEF AdjustHead, AdjustInner, Goto
    <3>2. head' \in Node
      BY <1>0, <1>n, <2>3, <2>5 DEF AdjustHead, AdjustInner, TypeOK
    <3>3. next' \in [Timers -> Node] /\ prev' \in [Timers -> Node]
      BY <1>0, <1>n, <2>3, <2>5 DEF AdjustHead, AdjustInner, TypeOK
    <3> QED BY <1>0, <1>n, <2>1, <2>2, <2>3, <3>1, <3>2, <3>3 DEF TypeOK
  <2> QED BY <1>2, <2>4, <2>5
<1>3. ASSUME NEW t \in Timers, DelOnly(t) \/ DelHead(t) \/ DelTail(t) \/ DelInner(t) PROVE TypeOK'
  <2>1. t \in live /\ pc = "idle"
    BY <1>3 DEF DelOnly, DelHead, DelTail, DelInner
  <2>2. next[t] \in Node /\ prev[t] \in Node
    BY <1>0, <1>n, <2>1 DEF TypeOK
  <2>3. next \in [Timers -> Node] /\ prev \in [Timers -> Node] /\ head \in Node /\ tail \in Node
    BY <1>0 DEF TypeOK
  <2>4. CASE DelOnly(t)
    BY <1>0, <1>n, <2>1, <2>3, <2>4, DeleteType DEF DelOnly
  <2>5. CASE DelHead(t)
    BY <1>0, <1>n, <2>1, <2>2, <2>3, <2>5, DeleteType DEF DelHead
  <2>6. CASE DelTail(t)
    BY <1>0, <1>n, <2>1, <2>2, <2>3, <2>6, DeleteType DEF DelTail
  <2>7. CASE DelInner(t)
    BY <1>0, <1>n, <2>1, <2>2, <2>3, <2>7, DeleteType DEF DelInner
  <2> QED BY <1>3, <2>4, <2>5, <2>6, <2>7
<1>4. CASE WalkOn \/ InsertBetween \/ InsertLast
  <2>1. pc = "walk" /\ timer \in live /\ at \in live
    BY <1>0, <1>4 DEF WalkOn, InsertBetween, InsertLast, Goto, TypeOK
  <2>2. next[at] \in live \cup {NULL} /\ at \in Members
    BY <1>0, <2>1, <1>4, Neighbours DEF Members, IInv, Walking
  <2>3. CASE WalkOn
    BY <1>0, <1>n, <2>2, <2>3 DEF WalkOn, TypeOK
  <2>4. CASE InsertBetween \/ InsertLast
    <3>1. /\ UNCHANGED <<head, expire, live, now, setback, cur>>
          /\ pc' = "idle" /\ timer' = NULL /\ at' = NULL /\ tail' \in {tail, timer}
      BY <2>4 DEF InsertBetween, InsertLast, Goto
    <3>2. next' \in [Timers -> Node] /\ prev' \in [Timers -> Node]
      BY <1>0, <1>n, <2>1, <2>2, <2>4 DEF InsertBetween, InsertLast, TypeOK
    <3> QED BY <1>0, <1>n, <2>1, <3>1, <3>2 DEF TypeOK
  <2> QED BY <1>4, <2>3, <2>4
<1>5. CASE TickFire \/ DestroyHead
  <2>1. head # NULL /\ pc # "walk" /\ tail' = tail /\ head' = next[head]
    BY <1>5 DEF TickFire, DestroyHead
  <2>2. head \in live /\ next[head] \in Node /\ tail \in Node
    BY <1>0, <1>i, <1>n, <2>1, HeadIsMember DEF TypeOK
  <2>3. next \in [Timers -> Node] /\ prev \in [Timers -> Node]
        /\ [t \in Timers |-> IF t = next[head] THEN NULL ELSE prev[t]] \in [Timers -> Node]
    BY <1>0, <1>n DEF TypeOK
  <2> QED BY <1>0, <1>5, <2>1, <2>2, <2>3, DeleteType DEF TickFire, DestroyHead
<1>6. CASE TickBegin \/ TickEnd \/ Exit \/ Elapse \/ SetBack
  <2>1. CASE TickBegin \/ TickEnd \/ Exit
    BY <1>0, <2>1 DEF TickBegin, TickEnd, Exit, Goto, TypeOK
  <2>2. CASE Elapse \/ SetBack
    <3>1. now' \in Nat
      BY <1>0, <2>2 DEF Elapse, SetBack, TypeOK
    <3>3. setback' \in BOOLEAN
      BY <1>0, <2>2 DEF Elapse, SetBack, TypeOK
    <3>2. UNCHANGED <<list, pc, timer, at, cur>>
      BY <2>2 DEF Elapse, SetBack
    <3> QED BY <1>0, <3>1, <3>2, <3>3 DEF TypeOK
  <2> QED BY <1>6, <2>1, <2>2
<1>7. CASE UNCHANGED vars
  BY <1>0, <1>7 DEF vars, TypeOK
<1> QED BY <1>1, <1>2, <1>3, <1>4, <1>5, <1>6, <1>7, NextCases

-----------------------------------------------------------------------------
(* The chain in every step                                                 *)

\* The same chain still, with its nodes and order.
LEMMA ChainKept ==
    ASSUME Chained, Members' = Members, UNCHANGED <<head, tail, next, prev>>,
           pc = "end" => pc' = "end",
           \A n \in Nat : \A s \in [1..n -> Timers] :
               Shape(n, s) /\ ~setback' => ~setback /\ Sorted(expire', n, s)
    PROVE  Chained'
<1>1. PICK n \in Nat : \E s \in [1..n -> Timers] : Shape(n, s)
  BY DEF Chained
<1>2. PICK s \in [1..n -> Timers] : Shape(n, s)
  BY <1>1
<1>3. Shape(n, s)'
  BY <1>2 DEF Shape
<1> QED BY <1>3 DEF Chained

\* A node is out of the chain, with the pointers around it redirected.
LEMMA TakenOut ==
    ASSUME NEW n \in Nat, NEW s \in [1..n -> Timers], Shape(n, s), NEW k \in 1..n,
           Members' = Members \ {s[k]},
           EndsSkip(head', tail', head, tail, next, n, s, k), NextSkips(next', next, n, s, k),
           pc' # "end" => pc # "end" /\ PrevSkips(prev', prev, n, s, k),
           setback' = setback,
           \A i \in 1..n : i # k => expire'[s[i]] = expire[s[i]]
    PROVE  Chained'
<1> DEFINE q == Without(n, s, k)
<1>1. Row(Members, n, s)
  BY DEF Shape
<1>2. Row(Members', n - 1, q)
  BY <1>1, RowWithout
<1>3. Forward(head', tail', next', n - 1, q)
  <2>1. Forward(head, tail, next, n, s)
    BY DEF Shape
  <2> QED BY <1>1, <2>1, ForwardWithout
<1>4. ASSUME pc' # "end" PROVE Backward(prev', n - 1, q)
  <2>1. Backward(prev, n, s)
    BY <1>4 DEF Shape
  <2>2. PrevSkips(prev', prev, n, s, k)
    BY <1>4
  <2> QED BY <1>1, <2>1, <2>2, BackwardWithout
<1>5. ~setback' => Sorted(expire', n - 1, q)
  BY <1>1, SortedWithout DEF Shape
<1>6. n - 1 \in Nat /\ q \in [1..(n - 1) -> Timers]
  <2>1. n - 1 \in Nat
    OBVIOUS
  <2>2. \A i \in 1..(n - 1) : q[i] \in Timers
    BY DEF Without
  <2> QED BY <2>1, <2>2 DEF Without
<1> HIDE DEF q
<1>7. Shape(n - 1, q)'
  BY <1>2, <1>3, <1>4, <1>5 DEF Shape
<1> QED BY <1>6, <1>7 DEF Chained

\* A node is put into the chain behind the k-th, with the pointers around set.
LEMMA PutIn ==
    ASSUME NEW n \in Nat, NEW s \in [1..n -> Timers], Shape(n, s), NEW k \in 0..n,
           NEW t \in Timers, t \notin Members, Members' = Members \cup {t},
           EndsSplit(head', tail', head, tail, n, s, k, t), NextSplit(next', next, n, s, k, t),
           pc # "end", PrevSplit(prev', prev, n, s, k, t),
           setback' = setback,
           expire' \in [Timers -> Nat],
           \A i \in 1..n : expire'[s[i]] = expire[s[i]],
           k > 0 => expire[s[k]] <= expire'[t],
           k < n => expire'[t] <= expire[s[k + 1]]
    PROVE  Chained'
<1> DEFINE q == With(n, s, k, t)
<1>1. Row(Members, n, s)
  BY DEF Shape
<1>2. Row(Members', n + 1, q)
  BY <1>1, RowWith
<1>3. Forward(head', tail', next', n + 1, q)
  <2>1. Forward(head, tail, next, n, s)
    BY DEF Shape
  <2> QED BY <1>1, <2>1, ForwardWith
<1>4. Backward(prev', n + 1, q)
  <2>1. Backward(prev, n, s)
    BY DEF Shape
  <2> QED BY <1>1, <2>1, BackwardWith
<1>5. ASSUME ~setback' PROVE Sorted(expire', n + 1, q)
  <2>1. Sorted(expire', n, s)
    BY <1>5 DEF Shape, Sorted
  <2>2. \A i \in 1..n : s[i] \in Members /\ s[i] \in Timers
    BY <1>1 DEF Row
  <2>3. \A u \in Members : u \in Timers
    BY <1>1, <2>2 DEF Row
  <2>4. expire'[t] \in Nat /\ \A u \in Members : expire'[u] \in Nat
    BY <2>3
  <2>5. (k > 0 => expire'[s[k]] <= expire'[t]) /\ (k < n => expire'[t] <= expire'[s[k + 1]])
    OBVIOUS
  <2> QED BY <1>1, <2>1, <2>4, <2>5, SortedWith
<1>6. n + 1 \in Nat /\ q \in [1..(n + 1) -> Timers]
  <2>1. n + 1 \in Nat
    OBVIOUS
  <2>2. \A i \in 1..(n + 1) : q[i] \in Timers
    BY DEF With
  <2> QED BY <2>1, <2>2 DEF With
<1> HIDE DEF q
<1>7. Shape(n + 1, q)'
  BY <1>2, <1>3, <1>4, <1>5 DEF Shape
<1> QED BY <1>6, <1>7 DEF Chained

\* add_timer() at the ends of the list, and before its walk.
LEMMA AddChain ==
    ASSUME IInv, TypeOK', NEW t \in Timers, AddFirst(t) \/ AddBeforeHead(t) \/ AddAfterHead(t)
    PROVE  Chained'
<1>0. TypeOK /\ Chained /\ Blank
  BY DEF IInv
<1>1. PICK n \in Nat : \E s \in [1..n -> Timers] : Shape(n, s)
  BY <1>0 DEF Chained
<1>2. PICK s \in [1..n -> Timers] : Shape(n, s)
  BY <1>1
<1>3. pc = "idle" /\ Allocate(t) /\ t \notin live /\ Members = live
  BY DEF AddFirst, AddBeforeHead, AddAfterHead, Allocate, Goto, Members
<1>4. /\ live' = live \cup {t} /\ expire' = [expire EXCEPT ![t] = now + TTL]
      /\ now + TTL \in Nat /\ expire \in [Timers -> Nat] /\ expire' \in [Timers -> Nat]
      /\ next \in [Timers -> Node] /\ prev \in [Timers -> Node]
  BY <1>0, <1>3, TimerAssumption DEF Allocate, TypeOK
<1>5. /\ \A i \in 1..n : s[i] \in Members /\ s[i] # t /\ expire'[s[i]] = expire[s[i]]
      /\ \A i, j \in 1..n : s[i] = s[j] => i = j
  BY <1>2, <1>3, <1>4 DEF Shape, Row
<1>6. next[t] = NULL /\ prev[t] = NULL
  BY <1>0, <1>3 DEF Blank
<1>7. CASE AddFirst(t)
  <2>1. n = 0
    BY <1>0, <1>2, <1>7, HeadOfChain DEF AddFirst
  <2>2. /\ head' = t /\ tail' = t /\ next' = next /\ prev' = prev /\ setback' = setback
        /\ Members' = Members \cup {t}
    BY <1>3, <1>4, <1>7 DEF AddFirst, Members, clock
  <2>3. EndsSplit(head', tail', head, tail, n, s, 0, t)
    BY <2>1, <2>2 DEF EndsSplit
  <2>4. NextSplit(next', next, n, s, 0, t) /\ PrevSplit(prev', prev, n, s, 0, t)
    BY <1>6, <2>1, <2>2 DEF NextSplit, PrevSplit
  <2>5. /\ 0 \in 0..n /\ (0 > 0 => expire[s[0]] <= expire'[t])
        /\ 0 < n => expire'[t] <= expire[s[0 + 1]]
    BY <2>1
  <2> QED BY <1>2, <1>3, <1>4, <1>5, <2>1, <2>2, <2>3, <2>4, <2>5, PutIn
<1>8. CASE AddBeforeHead(t)
  <2>1. n > 0 /\ head = s[1] /\ head \in Timers /\ head # t
    BY <1>0, <1>2, <1>5, <1>8, HeadOfChain DEF AddBeforeHead
  <2>2. /\ head' = t /\ tail' = tail /\ setback' = setback
        /\ next' = [next EXCEPT ![t] = s[1]] /\ prev' = [prev EXCEPT ![s[1]] = t]
        /\ Members' = Members \cup {t} /\ now + TTL < expire[s[1]]
    BY <1>3, <1>4, <1>8, <2>1 DEF AddBeforeHead, Members, clock
  <2>3. EndsSplit(head', tail', head, tail, n, s, 0, t)
    BY <2>1, <2>2 DEF EndsSplit
  <2>4. NextSplit(next', next, n, s, 0, t)
    BY <1>4, <1>5, <2>1, <2>2 DEF NextSplit
  <2>5. PrevSplit(prev', prev, n, s, 0, t)
    <3>1. \A i \in 1..n : i = 1 <=> s[i] = s[1]
      BY <1>5, <2>1
    <3> QED BY <1>4, <1>5, <1>6, <2>1, <2>2, <3>1 DEF PrevSplit
  <2>6. /\ 0 \in 0..n /\ (0 > 0 => expire[s[0]] <= expire'[t])
        /\ 0 < n => expire'[t] <= expire[s[0 + 1]]
    <3>1. 0 + 1 = 1 /\ 1 \in 1..n /\ expire[s[1]] \in Nat
      BY <1>4, <2>1
    <3> QED BY <1>4, <2>1, <2>2, <3>1
  <2> QED BY <1>2, <1>3, <1>4, <1>5, <2>2, <2>3, <2>4, <2>5, <2>6, PutIn
<1>9. CASE AddAfterHead(t)
  <2>1. /\ UNCHANGED <<head, tail, next, prev, setback>> /\ Members' = Members
    BY <1>3, <1>4, <1>9 DEF AddAfterHead, Members, clock, Goto
  <2>2. ASSUME NEW m \in Nat, NEW q \in [1..m -> Timers], Shape(m, q), ~setback'
        PROVE  ~setback /\ Sorted(expire', m, q)
    <3>1. \A i \in 1..m : q[i] # t /\ q[i] \in Timers
      BY <1>3, <2>2 DEF Shape, Row
    <3> QED BY <1>4, <2>1, <2>2, <3>1 DEF Shape, Sorted
  <2> QED BY <1>0, <1>3, <2>1, <2>2, ChainKept
<1> QED BY <1>7, <1>8, <1>9

\* The walk of add_timer() and its end.
LEMMA WalkChain ==
    ASSUME IInv, WalkOn \/ InsertBetween \/ InsertLast
    PROVE  Chained'
<1>0. TypeOK /\ Chained /\ Walking /\ pc = "walk" /\ timer \in live /\ timer \in Timers
  BY DEF IInv, WalkOn, InsertBetween, InsertLast, Goto, TypeOK
<1>1. PICK n \in Nat : \E s \in [1..n -> Timers] : Shape(n, s)
  BY <1>0 DEF Chained
<1>2. PICK s \in [1..n -> Timers] : Shape(n, s)
  BY <1>1
<1>3. Members = live \ {timer} /\ at \in Members /\ expire[at] <= expire[timer]
  BY <1>0 DEF Members, Walking
<1>4. PICK k \in 1..n : Place(n, s, at, k)
  BY <1>0, <1>2, <1>3, Located
<1>5. s[k] = at /\ next[at] = IF k = n THEN NULL ELSE s[k + 1]
  BY <1>4 DEF Place
<1>6. /\ \A i \in 1..n : s[i] \in Members /\ s[i] # timer /\ s[i] \in Timers
      /\ \A i, j \in 1..n : s[i] = s[j] => i = j
  BY <1>2, <1>3 DEF Shape, Row
<1>7. /\ next \in [Timers -> Node] /\ prev \in [Timers -> Node] /\ expire \in [Timers -> Nat]
      /\ NULL \notin Timers
  BY <1>0, TimerAssumption DEF TypeOK
<1>8. CASE WalkOn
  <2>1. UNCHANGED <<head, tail, next, prev, expire, setback, pc>> /\ Members' = Members
    BY <1>8 DEF WalkOn, list, clock, Members
  <2>2. \A m \in Nat : \A q \in [1..m -> Timers] :
           Shape(m, q) /\ ~setback' => ~setback /\ Sorted(expire', m, q)
    BY <2>1 DEF Shape
  <2> QED BY <1>0, <2>1, <2>2, ChainKept
<1>9. CASE InsertBetween \/ InsertLast
  <2>1. /\ UNCHANGED <<head, expire, setback>> /\ Members' = Members \cup {timer}
        /\ expire' \in [Timers -> Nat]
    BY <1>0, <1>3, <1>7, <1>9 DEF InsertBetween, InsertLast, clock, Members, Goto
  <2>2. (k = n <=> InsertLast) /\ (k # n => InsertBetween /\ expire[timer] < expire[s[k + 1]])
    <3>1. k # n => k + 1 \in 1..n /\ s[k + 1] \in Timers /\ next[at] = s[k + 1]
      BY <1>5, <1>6
    <3>2. k = n <=> next[at] = NULL
      BY <1>5, <1>7, <3>1
    <3> QED BY <1>9, <3>1, <3>2 DEF InsertBetween, InsertLast
  <2>3. EndsSplit(head', tail', head, tail, n, s, k, timer)
    BY <2>1, <2>2 DEF EndsSplit, InsertLast, InsertBetween
  <2>4. NextSplit(next', next, n, s, k, timer)
    <3>1. next' = [next EXCEPT ![s[k]] = timer, ![timer] = IF k = n THEN NULL ELSE s[k + 1]]
      BY <1>5, <2>2 DEF InsertLast, InsertBetween
    <3>2. \A i \in 1..n : i = k <=> s[i] = s[k]
      BY <1>6
    <3> QED BY <1>0, <1>6, <1>7, <3>1, <3>2 DEF NextSplit
  <2>5. PrevSplit(prev', prev, n, s, k, timer)
    <3>1. CASE k = n
      <4>1. prev' = [prev EXCEPT ![timer] = s[k]]
        BY <1>5, <2>2, <3>1 DEF InsertLast
      <4> QED BY <1>0, <1>6, <1>7, <3>1, <4>1 DEF PrevSplit
    <3>2. CASE k # n
      <4>1. prev' = [prev EXCEPT ![s[k + 1]] = timer, ![timer] = s[k]]
        BY <1>5, <2>2, <3>2 DEF InsertBetween
      <4>2. \A i \in 1..n : i = k + 1 <=> s[i] = s[k + 1]
        BY <1>6, <3>2
      <4> QED BY <1>0, <1>6, <1>7, <4>1, <4>2 DEF PrevSplit
    <3> QED BY <3>1, <3>2
  <2>6. /\ k \in 0..n /\ timer \notin Members /\ pc # "end"
        /\ expire[s[k]] <= expire'[timer]
        /\ k < n => expire'[timer] <= expire[s[k + 1]]
    <3>1. k < n => k + 1 \in 1..n /\ expire[s[k + 1]] \in Nat
      BY <1>6, <1>7
    <3> QED BY <1>0, <1>3, <1>5, <1>7, <2>1, <2>2, <3>1
  <2> QED BY <1>0, <1>2, <2>1, <2>3, <2>4, <2>5, <2>6, PutIn
<1> QED BY <1>8, <1>9

\* adjust_timer() raises a deadline: the node stays, or comes out for a walk.
LEMMA AdjustChain ==
    ASSUME IInv, NEW t \in Timers, AdjustInPlace(t) \/ AdjustHead(t) \/ AdjustInner(t)
    PROVE  Chained'
<1>0. TypeOK /\ Chained /\ Recent /\ pc = "idle" /\ Postpone(t) /\ t \in live /\ Members = live
  BY DEF IInv, AdjustInPlace, AdjustHead, AdjustInner, Goto, Postpone, Members
<1>1. /\ expire' = [expire EXCEPT ![t] = now + TTL] /\ now + TTL \in Nat
      /\ expire \in [Timers -> Nat] /\ NULL \notin Timers
      /\ next \in [Timers -> Node] /\ prev \in [Timers -> Node]
  BY <1>0, TimerAssumption DEF Postpone, TypeOK
<1>2. CASE AdjustInPlace(t)
  <2>1. UNCHANGED <<head, tail, next, prev, setback, pc>> /\ Members' = Members
    BY <1>2 DEF AdjustInPlace, clock, Members
  <2>2. ASSUME NEW n \in Nat, NEW s \in [1..n -> Timers], Shape(n, s), ~setback'
        PROVE  ~setback /\ Sorted(expire', n, s)
    <3>1. PICK k \in 1..n : Place(n, s, t, k)
      BY <1>0, <2>2, Located
    <3>2. s[k] = t /\ next[t] = IF k = n THEN NULL ELSE s[k + 1]
      BY <3>1 DEF Place
    <3>3. /\ \A i \in 1..n : s[i] \in live /\ s[i] \in Timers
          /\ \A i, j \in 1..n : s[i] = s[j] => i = j
          /\ \A i, j \in 1..n : i <= j => expire[s[i]] <= expire[s[j]]
          /\ ~setback
      BY <1>0, <2>1, <2>2 DEF Shape, Row, Sorted
    <3>4. k = n
      <4>1. SUFFICES ASSUME k # n PROVE FALSE
        OBVIOUS
      <4>2. k + 1 \in 1..n /\ s[k + 1] \in Timers /\ s[k + 1] \in live
        BY <3>3, <4>1
      <4>3. now + TTL < expire[s[k + 1]]
        BY <1>1, <1>2, <3>2, <4>1, <4>2 DEF AdjustInPlace
      <4>4. expire[s[k + 1]] <= now + TTL
        BY <1>0, <3>3, <4>2 DEF Recent
      <4> QED BY <1>1, <4>2, <4>3, <4>4
    <3>5. \A i \in 1..n : expire[s[i]] <= now + TTL /\ expire[s[i]] \in Nat
      BY <1>0, <1>1, <3>3 DEF Recent
    <3>6. \A i \in 1..n : expire'[s[i]] = IF i = n THEN now + TTL ELSE expire[s[i]]
      BY <1>1, <3>2, <3>3, <3>4
    <3> QED BY <1>1, <3>3, <3>5, <3>6 DEF Sorted
  <2> QED BY <1>0, <2>1, <2>2, ChainKept
<1>3. CASE AdjustHead(t) \/ AdjustInner(t)
  <2>1. PICK n \in Nat : \E s \in [1..n -> Timers] : Shape(n, s)
    BY <1>0 DEF Chained
  <2>2. PICK s \in [1..n -> Timers] : Shape(n, s)
    BY <2>1
  <2>3. PICK k \in 1..n : Place(n, s, t, k)
    BY <1>0, <2>2, Located
  <2>4. /\ s[k] = t /\ (t = head <=> k = 1)
        /\ next[t] = IF k = n THEN NULL ELSE s[k + 1]
        /\ prev[t] = IF k = 1 THEN NULL ELSE s[k - 1]
    BY <1>0, <2>3 DEF Place
  <2>5. /\ \A i \in 1..n : s[i] \in Timers
        /\ \A i, j \in 1..n : s[i] = s[j] => i = j
    BY <2>2 DEF Shape, Row
  <2>6. k # n /\ k + 1 \in 1..n /\ next[t] = s[k + 1] /\ head = s[1]
    <3>1. k # n
      BY <1>3, <2>4 DEF AdjustHead, AdjustInner
    <3>2. head = s[1]
      BY <2>2 DEF Shape, Forward
    <3> QED BY <2>4, <3>1, <3>2
  <2>7. /\ Members' = Members \ {s[k]} /\ setback' = setback /\ tail' = tail
        /\ \A i \in 1..n : i # k => expire'[s[i]] = expire[s[i]]
    <3>1. Members' = Members \ {s[k]}
      BY <1>0, <1>3, <2>4 DEF AdjustHead, AdjustInner, Goto, Members
    <3>2. setback' = setback /\ tail' = tail
      BY <1>3 DEF AdjustHead, AdjustInner, clock
    <3> QED BY <1>1, <2>4, <2>5, <3>1, <3>2
  <2>8. /\ head' = IF k = 1 THEN s[2] ELSE head
        /\ prev' = [prev EXCEPT ![s[k + 1]] = prev[t]]
        /\ next' = IF k = 1 THEN [next EXCEPT ![t] = NULL] ELSE [next EXCEPT ![s[k - 1]] = s[k + 1]]
    <3>1. CASE k = 1
      BY <1>3, <2>4, <2>6, <3>1 DEF AdjustHead, AdjustInner
    <3>2. CASE k # 1
      BY <1>3, <2>4, <2>6, <3>2 DEF AdjustHead, AdjustInner
    <3> QED BY <3>1, <3>2
  <2>9. EndsSkip(head', tail', head, tail, next, n, s, k)
    BY <2>4, <2>6, <2>7, <2>8 DEF EndsSkip
  <2>10. NextSkips(next', next, n, s, k)
    <3>1. CASE k = 1
      BY <1>1, <2>4, <2>5, <2>8, <3>1 DEF NextSkips
    <3>2. CASE k # 1
      <4>1. k - 1 \in 1..n
        BY <3>2
      <4> QED BY <1>1, <2>4, <2>5, <2>6, <2>8, <3>2, <4>1 DEF NextSkips
    <3> QED BY <3>1, <3>2
  <2>11. PrevSkips(prev', prev, n, s, k)
    BY <1>1, <2>4, <2>5, <2>6, <2>8 DEF PrevSkips
  <2> QED BY <1>0, <2>2, <2>7, <2>9, <2>10, <2>11, TakenOut
<1> QED BY <1>2, <1>3

\* del_timer(), one branch for each place of the node.
LEMMA DelChain ==
    ASSUME IInv, NEW t \in Timers, DelOnly(t) \/ DelHead(t) \/ DelTail(t) \/ DelInner(t)
    PROVE  Chained'
<1>0. TypeOK /\ Chained /\ pc = "idle" /\ t \in live /\ Members = live
  BY DEF IInv, DelOnly, DelHead, DelTail, DelInner, Members
<1>1. PICK n \in Nat : \E s \in [1..n -> Timers] : Shape(n, s)
  BY <1>0 DEF Chained
<1>2. PICK s \in [1..n -> Timers] : Shape(n, s)
  BY <1>1
<1>3. PICK k \in 1..n : Place(n, s, t, k)
  BY <1>0, <1>2, Located
<1>4. /\ s[k] = t /\ (t = head <=> k = 1) /\ (t = tail <=> k = n)
      /\ next[t] = IF k = n THEN NULL ELSE s[k + 1]
      /\ prev[t] = IF k = 1 THEN NULL ELSE s[k - 1]
  BY <1>0, <1>3 DEF Place
<1>5. /\ \A i \in 1..n : s[i] \in Timers
      /\ \A i, j \in 1..n : s[i] = s[j] => i = j
      /\ head = s[1] /\ tail = s[n]
  BY <1>2 DEF Shape, Row, Forward
<1>6. /\ expire \in [Timers -> Nat]
      /\ next \in [Timers -> Node] /\ prev \in [Timers -> Node]
  BY <1>0 DEF TypeOK
<1>7. /\ live' = live \ {t} /\ expire' = [expire EXCEPT ![t] = 0]
      /\ UNCHANGED <<setback, pc>>
  BY DEF DelOnly, DelHead, DelTail, DelInner, Delete, clock
<1>8. /\ Members' = Members \ {s[k]} /\ setback' = setback /\ pc' # "end" /\ pc # "end"
      /\ \A i \in 1..n : i # k => expire'[s[i]] = expire[s[i]]
  <2>1. Members' = Members \ {s[k]} /\ pc' # "end" /\ pc # "end"
    BY <1>0, <1>4, <1>7 DEF Members
  <2> QED BY <1>4, <1>5, <1>6, <1>7, <2>1
<1>9. /\ k # 1 => k - 1 \in 1..n /\ prev[t] = s[k - 1] /\ s[k - 1] # t /\ s[k - 1] \in Timers
      /\ k # n => k + 1 \in 1..n /\ next[t] = s[k + 1] /\ s[k + 1] # t /\ s[k + 1] \in Timers
  <2>1. k # 1 => k - 1 \in 1..n /\ k - 1 # k
    OBVIOUS
  <2>2. k # n => k + 1 \in 1..n /\ k + 1 # k
    OBVIOUS
  <2> QED BY <1>4, <1>5, <2>1, <2>2
<1>10. EndsSkip(head', tail', head, tail, next, n, s, k)
  <2>1. head' = IF k = 1 THEN next[s[1]] ELSE head
    BY <1>4, <1>5, <1>9 DEF DelOnly, DelHead, DelTail, DelInner
  <2>2. n > 1 => tail' = IF k = n THEN s[n - 1] ELSE tail
    BY <1>4, <1>5, <1>9 DEF DelOnly, DelHead, DelTail, DelInner
  <2> QED BY <2>1, <2>2 DEF EndsSkip
<1>11. \A u \in Timers : u # t =>
          next'[u] = IF k # 1 /\ u = s[k - 1] THEN next[t] ELSE next[u]
  <2>1. CASE DelOnly(t) \/ DelHead(t)
    BY <1>4, <1>6, <2>1 DEF DelOnly, DelHead, Delete
  <2>2. CASE DelTail(t)
    BY <1>4, <1>6, <1>9, <2>2 DEF DelTail, Delete
  <2>3. CASE DelInner(t)
    BY <1>4, <1>6, <1>9, <2>3 DEF DelInner, Delete
  <2> QED BY <2>1, <2>2, <2>3
<1>12. \A u \in Timers : u # t =>
          prev'[u] = IF k # n /\ u = s[k + 1] THEN prev[t] ELSE prev[u]
  <2>1. CASE DelOnly(t) \/ DelTail(t)
    BY <1>4, <1>6, <2>1 DEF DelOnly, DelTail, Delete
  <2>2. CASE DelHead(t)
    BY <1>4, <1>6, <1>9, <2>2 DEF DelHead, Delete
  <2>3. CASE DelInner(t)
    BY <1>4, <1>6, <1>9, <2>3 DEF DelInner, Delete
  <2> QED BY <2>1, <2>2, <2>3
<1>13. NextSkips(next', next, n, s, k)
  <2> SUFFICES ASSUME NEW i \in 1..n, i # k
               PROVE  next'[s[i]] = IF i = k - 1 THEN next[s[k]] ELSE next[s[i]]
    BY DEF NextSkips
  <2>1. s[i] \in Timers /\ s[i] # t
    BY <1>4, <1>5
  <2>2. (k # 1 /\ s[i] = s[k - 1]) <=> i = k - 1
    BY <1>5, <1>9
  <2> QED BY <1>4, <1>11, <2>1, <2>2
<1>14. PrevSkips(prev', prev, n, s, k)
  <2> SUFFICES ASSUME NEW i \in 1..n, i # k
               PROVE  prev'[s[i]] = IF i = k + 1 THEN prev[s[k]] ELSE prev[s[i]]
    BY DEF PrevSkips
  <2>1. s[i] \in Timers /\ s[i] # t
    BY <1>4, <1>5
  <2>2. (k # n /\ s[i] = s[k + 1]) <=> i = k + 1
    BY <1>5, <1>9
  <2> QED BY <1>4, <1>12, <2>1, <2>2
<1> QED BY <1>2, <1>8, <1>10, <1>13, <1>14, TakenOut

\* tick() and the destructor delete from the head on; the destructor leaves prev.
LEMMA FireChain ==
    ASSUME IInv, TickFire \/ DestroyHead
    PROVE  Chained'
<1>0. TypeOK /\ Chained /\ pc # "walk" /\ Members = live /\ head # NULL
  BY DEF IInv, TickFire, DestroyHead, Members
<1>1. PICK n \in Nat : \E s \in [1..n -> Timers] : Shape(n, s)
  BY <1>0 DEF Chained
<1>2. PICK s \in [1..n -> Timers] : Shape(n, s)
  BY <1>1
<1>3. n > 0 /\ head = s[1] /\ tail = s[n]
  BY <1>0, <1>2, HeadOfChain DEF Shape, Forward
<1>4. /\ \A i \in 1..n : s[i] \in Timers
      /\ \A i, j \in 1..n : s[i] = s[j] => i = j
      /\ \A i \in 1..n : i # 1 => s[i] # s[1]
  BY <1>2, <1>3 DEF Shape, Row
<1>5. /\ expire \in [Timers -> Nat]
      /\ next \in [Timers -> Node] /\ prev \in [Timers -> Node]
  BY <1>0 DEF TypeOK
<1>6. /\ live' = live \ {s[1]} /\ expire' = [expire EXCEPT ![s[1]] = 0]
      /\ next' = [next EXCEPT ![s[1]] = NULL]
      /\ UNCHANGED <<setback, pc, tail>> /\ head' = next[s[1]]
  BY <1>3 DEF TickFire, DestroyHead, Delete, clock
<1>7. /\ Members' = Members \ {s[1]}
      /\ \A i \in 1..n : i # 1 => expire'[s[i]] = expire[s[i]]
  <2>1. Members' = Members \ {s[1]}
    BY <1>0, <1>6 DEF Members
  <2> QED BY <1>4, <1>5, <1>6, <2>1
<1>8. EndsSkip(head', tail', head, tail, next, n, s, 1)
  BY <1>3, <1>6 DEF EndsSkip
<1>9. NextSkips(next', next, n, s, 1)
  BY <1>4, <1>5, <1>6 DEF NextSkips
<1>10. ASSUME pc' # "end" PROVE pc # "end" /\ PrevSkips(prev', prev, n, s, 1)
  <2>1. pc # "end" /\ TickFire
    BY <1>6, <1>10 DEF DestroyHead
  <2>2. prev' = [[u \in Timers |-> IF u = next[s[1]] THEN NULL ELSE prev[u]] EXCEPT ![s[1]] = NULL]
    BY <1>3, <2>1 DEF TickFire, Delete
  <2>3. prev[s[1]] = NULL /\ next[s[1]] = IF n = 1 THEN NULL ELSE s[2]
    BY <1>2, <1>3, <2>1 DEF Shape, Backward, Forward
  <2> SUFFICES ASSUME NEW i \in 1..n, i # 1
               PROVE  prev'[s[i]] = IF i = 1 + 1 THEN prev[s[1]] ELSE prev[s[i]]
    BY <2>1 DEF PrevSkips
  <2>4. s[i] \in Timers /\ s[i] # s[1] /\ n # 1 /\ (s[i] = s[2] <=> i = 2)
    BY <1>4
  <2> QED BY <2>2, <2>3, <2>4
<1>11. 1 \in 1..n
  BY <1>3
<1> QED BY <1>2, <1>6, <1>7, <1>8, <1>9, <1>10, <1>11, TakenOut

\* Every action keeps the chain.
LEMMA ChainStep ==
    ASSUME IInv, TypeOK', [Next]_vars
    PROVE  Chained'
<1>1. CASE TickBegin \/ TickEnd \/ Exit \/ Elapse \/ SetBack \/ UNCHANGED vars
  <2>1. UNCHANGED <<head, tail, next, prev, expire, live, timer>>
    BY <1>1 DEF TickBegin, TickEnd, Exit, Elapse, SetBack, vars, list
  <2>2. (pc = "end" => pc' = "end") /\ (pc' = "walk" <=> pc = "walk")
    BY <1>1 DEF TickBegin, TickEnd, Exit, Elapse, SetBack, vars, Goto
  <2>3. ~setback' => ~setback
    BY <1>1 DEF TickBegin, TickEnd, Exit, Elapse, SetBack, vars, clock
  <2>4. Members' = Members
    BY <2>1, <2>2 DEF Members
  <2>5. \A m \in Nat : \A q \in [1..m -> Timers] :
           Shape(m, q) /\ ~setback' => ~setback /\ Sorted(expire', m, q)
    BY <2>1, <2>3 DEF Shape
  <2> QED BY <2>1, <2>2, <2>4, <2>5, ChainKept DEF IInv
<1> QED BY <1>1, AddChain, WalkChain, AdjustChain, DelChain, FireChain, NextCases

-----------------------------------------------------------------------------
(* The rest of the invariant                                               *)

\* Nodes not in use are not written to, and reset when deleted.
LEMMA BlankStep ==
    ASSUME IInv, [Next]_vars
    PROVE  Blank'
<1>0. TypeOK /\ Chained /\ Blank
  BY DEF IInv
<1>1. /\ next \in [Timers -> Node] /\ prev \in [Timers -> Node] /\ live \subseteq Timers
      /\ (pc # "walk" => Members = live) /\ NULL \notin Timers
  BY <1>0, TimerAssumption DEF TypeOK, Members
<1>2. ASSUME NEW t \in Timers, AddFirst(t) \/ AddBeforeHead(t) \/ AddAfterHead(t) PROVE Blank'
  <2>1. live' = live \cup {t} /\ pc = "idle"
    BY <1>2 DEF AddFirst, AddBeforeHead, AddAfterHead, Allocate, Goto
  <2>2. head # NULL => head \in live
    BY <1>0, <1>1, <2>1, HeadIsMember
  <2>3. \A u \in Timers \ live' : next'[u] = next[u] /\ prev'[u] = prev[u]
    BY <1>1, <1>2, <2>1, <2>2 DEF AddFirst, AddBeforeHead, AddAfterHead
  <2> QED BY <1>0, <2>1, <2>3 DEF Blank
<1>3. ASSUME NEW t \in Timers, AdjustInPlace(t) \/ AdjustHead(t) \/ AdjustInner(t) PROVE Blank'
  <2>1. live' = live /\ pc = "idle" /\ t \in live
    BY <1>3 DEF AdjustInPlace, AdjustHead, AdjustInner, Postpone, Goto
  <2>2. next[t] \in live \cup {NULL} /\ (t # head => prev[t] \in live)
    BY <1>0, <1>1, <2>1, Neighbours
  <2>3. \A u \in Timers \ live' : next'[u] = next[u] /\ prev'[u] = prev[u]
    BY <1>1, <1>3, <2>1, <2>2 DEF AdjustInPlace, AdjustHead, AdjustInner
  <2> QED BY <1>0, <2>1, <2>3 DEF Blank
<1>4. ASSUME NEW t \in Timers, DelOnly(t) \/ DelHead(t) \/ DelTail(t) \/ DelInner(t) PROVE Blank'
  <2>1. live' = live \ {t} /\ pc = "idle" /\ t \in live
    BY <1>4 DEF DelOnly, DelHead, DelTail, DelInner, Delete
  <2>2. /\ t # head => prev[t] \in live
        /\ t # tail => next[t] \in live
    BY <1>0, <1>1, <2>1, Neighbours
  <2>3. next'[t] = NULL /\ prev'[t] = NULL
    BY <1>1, <1>4, <2>2 DEF DelOnly, DelHead, DelTail, DelInner, Delete
  <2>4. \A u \in Timers \ live : next'[u] = next[u] /\ prev'[u] = prev[u]
    <3>1. CASE DelOnly(t) \/ DelHead(t)
      BY <1>1, <2>1, <2>2, <3>1 DEF DelOnly, DelHead, Delete
    <3>2. CASE DelTail(t)
      BY <1>1, <2>1, <2>2, <3>2 DEF DelTail, Delete
    <3>3. CASE DelInner(t)
      BY <1>1, <2>1, <2>2, <3>3 DEF DelInner, Delete
    <3> QED BY <1>4, <3>1, <3>2, <3>3
  <2> QED BY <1>0, <2>1, <2>3, <2>4 DEF Blank
<1>5. CASE WalkOn \/ InsertBetween \/ InsertLast
  <2>1. pc = "walk" /\ timer \in live /\ at \in live /\ live' = live
    BY <1>0, <1>5 DEF WalkOn, InsertBetween, InsertLast, Goto, TypeOK, list
  <2>2. next[at] \in live \cup {NULL}
    BY <2>1, Neighbours DEF Members, IInv, Walking
  <2>3. \A u \in Timers \ live' : next'[u] = next[u] /\ prev'[u] = prev[u]
    BY <1>1, <1>5, <2>1, <2>2 DEF WalkOn, InsertBetween, InsertLast, list
  <2> QED BY <1>0, <2>1, <2>3 DEF Blank
<1>6. CASE TickFire \/ DestroyHead
  <2>1. head # NULL /\ pc # "walk" /\ live' = live \ {head}
    BY <1>6 DEF TickFire, DestroyHead, Delete
  <2>2. head \in live /\ next[head] \in live \cup {NULL}
    BY <1>0, <1>1, <2>1, HeadIsMember, Neighbours
  <2>3. next'[head] = NULL /\ prev'[head] = NULL
    BY <1>1, <1>6, <2>2 DEF TickFire, DestroyHead, Delete
  <2>4. \A u \in Timers \ live : next'[u] = next[u] /\ prev'[u] = prev[u]
    BY <1>1, <1>6, <2>2 DEF TickFire, DestroyHead, Delete
  <2> QED BY <1>0, <2>1, <2>3, <2>4 DEF Blank
<1>7. CASE TickBegin \/ TickEnd \/ Exit \/ Elapse \/ SetBack \/ UNCHANGED vars
  BY <1>0, <1>7 DEF TickBegin, TickEnd, Exit, Elapse, SetBack, vars, list, Blank
<1> QED BY <1>2, <1>3, <1>4, <1>5, <1>6, <1>7, NextCases

\* A walk begins behind a node not younger than the timer, and goes on from one
\* such node to the next.
LEMMA WalkingStep ==
    ASSUME IInv, TypeOK', [Next]_vars
    PROVE  Walking'
<1>0. TypeOK /\ Chained /\ Blank /\ Walking
  BY DEF IInv
<1>1. /\ next \in [Timers -> Node] /\ prev \in [Timers -> Node] /\ live \subseteq Timers
      /\ expire \in [Timers -> Nat] /\ now + TTL \in Nat
      /\ (pc # "walk" => Members = live) /\ NULL \notin Timers
  BY <1>0, TimerAssumption DEF TypeOK, Members
<1>2. ASSUME NEW t \in Timers, AddFirst(t) \/ AddBeforeHead(t) PROVE Walking'
  BY <1>2 DEF AddFirst, AddBeforeHead, Walking
<1>3. ASSUME NEW t \in Timers, AddAfterHead(t) PROVE Walking'
  <2>1. /\ t \notin live /\ live' = live \cup {t} /\ expire' = [expire EXCEPT ![t] = now + TTL]
        /\ pc = "idle" /\ pc' = "walk" /\ timer' = t /\ at' = head /\ head # NULL
        /\ now + TTL >= expire[head] /\ UNCHANGED <<next, prev>>
    BY <1>3 DEF AddAfterHead, Allocate, Goto
  <2>2. head \in live /\ Members' = live
    BY <1>0, <1>1, <2>1, HeadIsMember DEF Members
  <2>3. expire'[head] <= expire'[t]
    BY <1>1, <2>1, <2>2
  <2>4. next[t] = NULL /\ prev[t] = NULL
    BY <1>0, <2>1 DEF Blank
  <2> QED BY <2>1, <2>2, <2>3, <2>4 DEF Walking
<1>4. ASSUME NEW t \in Timers, AdjustInPlace(t) PROVE Walking'
  BY <1>4 DEF AdjustInPlace, Walking
<1>5. ASSUME NEW t \in Timers, AdjustHead(t) \/ AdjustInner(t) PROVE Walking'
  <2>1. /\ t \in live /\ live' = live /\ expire' = [expire EXCEPT ![t] = now + TTL]
        /\ pc = "idle" /\ pc' = "walk" /\ timer' = t /\ at' = next[t] /\ next[t] # NULL
        /\ now + TTL >= expire[next[t]]
    BY <1>5 DEF AdjustHead, AdjustInner, Goto, Postpone
  <2>2. /\ next[t] \in live \ {t} /\ prev[t] \in (live \ {t}) \cup {NULL}
        /\ t # head => prev[t] # NULL
    BY <1>0, <1>1, <2>1, Neighbours
  <2>3. Members' = live \ {t}
    BY <2>1 DEF Members
  <2>4. expire'[next[t]] <= expire'[t]
    BY <1>1, <2>1, <2>2
  <2>5. next'[t] \in {next[t], NULL} /\ prev'[t] = prev[t]
    BY <1>1, <1>5, <2>2 DEF AdjustHead, AdjustInner
  <2> QED BY <2>1, <2>2, <2>3, <2>4, <2>5 DEF Walking
<1>6. ASSUME NEW t \in Timers, DelOnly(t) \/ DelHead(t) \/ DelTail(t) \/ DelInner(t) PROVE Walking'
  BY <1>6 DEF DelOnly, DelHead, DelTail, DelInner, Delete, Walking
<1>7. CASE WalkOn
  <2>1. /\ pc = "walk" /\ next[at] # NULL /\ expire[timer] >= expire[next[at]]
        /\ at' = next[at] /\ UNCHANGED <<next, prev, expire, live, pc, timer>>
    BY <1>7 DEF WalkOn, list
  <2>2. at \in Members /\ next[at] \in Members /\ next[at] \in Timers /\ timer \in Timers
    BY <1>0, <1>1, <2>1, Neighbours DEF Walking, Members, TypeOK
  <2>3. Members' = Members /\ expire'[at'] <= expire'[timer']
    BY <1>1, <2>1, <2>2 DEF Members
  <2> QED BY <1>0, <2>1, <2>2, <2>3 DEF Walking
<1>8. CASE InsertBetween \/ InsertLast \/ TickEnd \/ TickBegin \/ Exit
  BY <1>8 DEF InsertBetween, InsertLast, TickEnd, TickBegin, Exit, Goto, Walking
<1>9. CASE TickFire \/ DestroyHead
  BY <1>9 DEF TickFire, DestroyHead, Delete, Walking
<1>10. CASE Elapse \/ SetBack \/ UNCHANGED vars
  BY <1>0, <1>10 DEF Elapse, SetBack, vars, list, Walking, Members
<1> QED BY <1>2, <1>3, <1>4, <1>5, <1>6, <1>7, <1>8, <1>9, <1>10, NextCases

\* A deadline given lies TTL ahead, and the clock does not go back to it.
LEMMA RecentStep ==
    ASSUME IInv, [Next]_vars
    PROVE  Recent'
<1>0. TypeOK /\ Recent
  BY DEF IInv
<1>1. expire \in [Timers -> Nat] /\ now \in Nat /\ TTL \in Nat /\ live \subseteq Timers
      /\ setback \in BOOLEAN
  BY <1>0, TimerAssumption DEF TypeOK
<1>2. ASSUME NEW t \in Timers,
             AddFirst(t) \/ AddBeforeHead(t) \/ AddAfterHead(t)
                 \/ AdjustInPlace(t) \/ AdjustHead(t) \/ AdjustInner(t)
      PROVE  Recent'
  <2>1. /\ live' \subseteq live \cup {t} /\ expire' = [expire EXCEPT ![t] = now + TTL]
        /\ UNCHANGED <<now, setback>>
    BY <1>2 DEF AddFirst, AddBeforeHead, AddAfterHead, AdjustInPlace, AdjustHead, AdjustInner,
                Allocate, Postpone, clock
  <2> QED BY <1>0, <1>1, <2>1 DEF Recent
<1>3. ASSUME NEW t \in Timers, DelOnly(t) \/ DelHead(t) \/ DelTail(t) \/ DelInner(t) PROVE Recent'
  <2>1. /\ live' = live \ {t} /\ expire' = [expire EXCEPT ![t] = 0] /\ UNCHANGED <<now, setback>>
    BY <1>3 DEF DelOnly, DelHead, DelTail, DelInner, Delete, clock
  <2> QED BY <1>0, <1>1, <2>1 DEF Recent
<1>4. CASE TickFire \/ DestroyHead
  <2>1. /\ live' = live \ {head} /\ expire' = [expire EXCEPT ![head] = 0] /\ UNCHANGED <<now, setback>>
    BY <1>4 DEF TickFire, DestroyHead, Delete, clock
  <2> QED BY <1>0, <1>1, <2>1 DEF Recent
<1>5. CASE Elapse
  <2>1. now' = now + 1 /\ UNCHANGED <<live, expire, setback>>
    BY <1>5 DEF Elapse, list
  <2> QED BY <1>0, <1>1, <2>1 DEF Recent
<1>6. CASE SetBack
  BY <1>6 DEF SetBack, Recent
<1>7. CASE WalkOn \/ InsertBetween \/ InsertLast \/ TickBegin \/ TickEnd \/ Exit \/ UNCHANGED vars
  BY <1>0, <1>7 DEF WalkOn, InsertBetween, InsertLast, TickBegin, TickEnd, Exit, vars, list, clock, Recent
<1> QED BY <1>2, <1>3, <1>4, <1>5, <1>6, <1>7, NextCases

\* Initially the chain is empty.
LEMMA InvInit == Init => IInv
<1> SUFFICES ASSUME Init PROVE IInv
  OBVIOUS
<1> USE TimerAssumption DEF Init
<1>1. TypeOK
  <2>1. next \in [Timers -> Node] /\ prev \in [Timers -> Node] /\ head \in Node /\ tail \in Node
    BY DEF Node
  <2>2. expire \in [Timers -> Nat] /\ timer \in Node /\ at \in Node
    BY DEF Node
  <2> QED BY <2>1, <2>2 DEF TypeOK
<1>2. Members = {} /\ 0 \in Nat /\ 1..0 = {}
  BY DEF Members
<1>3. Shape(0, [i \in 1..0 |-> NULL]) /\ [i \in 1..0 |-> NULL] \in [1..0 -> Timers]
  BY <1>2 DEF Shape, Row, Forward, Backward, Sorted
<1>4. Chained
  BY <1>2, <1>3 DEF Chained
<1>5. Blank /\ Walking /\ Recent
  BY DEF Blank, Walking, Recent
<1> QED BY <1>1, <1>4, <1>5 DEF IInv

\* The conjunction of all the parts is inductive.
LEMMA Invariant == Spec => []IInv
<1>1. ASSUME IInv, [Next]_vars PROVE IInv'
  <2>1. TypeOK'
    BY <1>1, TypeStep
  <2>2. Chained' /\ Blank' /\ Walking' /\ Recent'
    BY <1>1, <2>1, ChainStep, BlankStep, WalkingStep, RecentStep
  <2> QED BY <2>1, <2>2 DEF IInv
<1> QED BY InvInit, <1>1, PTL DEF Spec

-----------------------------------------------------------------------------
(* The theorems                                                            *)

\* Every field keeps its type, and no action follows a NULL or a deleted node.
THEOREM TypeCorrect == Spec => []TypeOK
<1>1. IInv => TypeOK
  BY DEF IInv
<1> QED BY Invariant, <1>1, PTL

\* Between operations, and during a tick, the list is one chain of exactly the
\* live timers, from head to tail, its next and prev pointers in agreement.
THEOREM OneChain == Spec => []Linked
<1>1. IInv => Linked
  <2> SUFFICES ASSUME IInv, pc \in {"idle", "tick"}
               PROVE  Linked
    BY DEF Linked
  <2>0. TypeOK /\ Chained /\ Members = live
    BY DEF IInv, Members
  <2>1. PICK n \in Nat : \E s \in [1..n -> Timers] : Shape(n, s)
    BY <2>0 DEF Chained
  <2>2. PICK s \in [1..n -> Timers] : Shape(n, s)
    BY <2>1
  <2>3. /\ s \in [1..n -> live]
        /\ \A t \in live : \E i \in 1..n : s[i] = t
        /\ \A i, j \in 1..n : s[i] = s[j] => i = j
    BY <2>0, <2>2 DEF Shape, Row
  <2>4. s \in Bijection(1..n, live)
    BY <2>3 DEF Bijection, Injection, Surjection, IsInjective
  <2>5. Cardinality(live) = n
    BY <2>4, FS_CountingElements DEF ExistsBijection
  <2> DEFINE rank == [t \in live |-> CHOOSE i \in 1..n : s[i] = t]
  <2>6. \A t \in live : rank[t] \in 1..n /\ s[rank[t]] = t
    BY <2>3
  <2>7. \A i \in 1..n : rank[s[i]] = i
    BY <2>3, <2>6
  <2>8. rank \in [live -> 1..Cardinality(live)]
    BY <2>5, <2>6
  <2> HIDE DEF rank
  <2>9. \A t \in live : Place(n, s, t, rank[t])
    <3> SUFFICES ASSUME NEW t \in live PROVE Place(n, s, t, rank[t])
      OBVIOUS
    <3>1. PICK k \in 1..n : Place(n, s, t, k)
      BY <2>0, <2>2, Located
    <3>2. k = rank[t]
      BY <2>7, <3>1 DEF Place
    <3> QED BY <3>1, <3>2
  <2>10. ASSUME NEW t \in live, NEW u \in live
         PROVE  /\ rank[t] = rank[u] => t = u
                /\ next[t] = u <=> rank[u] = rank[t] + 1
                /\ prev[u] = t <=> rank[u] = rank[t] + 1
    <3>1. rank[t] \in 1..n /\ rank[u] \in 1..n /\ s[rank[t]] = t /\ s[rank[u]] = u
      BY <2>6
    <3>2. u # NULL /\ t # NULL
      BY <2>0, TimerAssumption DEF TypeOK
    <3>3. next[t] = IF rank[t] = n THEN NULL ELSE s[rank[t] + 1]
      BY <2>9 DEF Place
    <3>4. prev[u] = IF rank[u] = 1 THEN NULL ELSE s[rank[u] - 1]
      BY <2>9 DEF Place
    <3>5. next[t] = u <=> rank[u] = rank[t] + 1
      <4>1. rank[t] # n => rank[t] + 1 \in 1..n
        BY <3>1
      <4> QED BY <2>3, <3>1, <3>2, <3>3, <4>1
    <3>6. prev[u] = t <=> rank[u] = rank[t] + 1
      <4>1. rank[u] # 1 => rank[u] - 1 \in 1..n
        BY <3>1
      <4> QED BY <2>3, <3>1, <3>2, <3>4, <4>1
    <3> QED BY <3>1, <3>5, <3>6
  <2>11. \A t \in live : (head = t <=> rank[t] = 1) /\ (tail = t <=> rank[t] = Cardinality(live))
    BY <2>5, <2>9 DEF Place
  <2>12. \A t \in live : next[t] \in live \cup {NULL} /\ prev[t] \in live \cup {NULL}
    BY <2>0, Neighbours
  <2>13. head \in live \cup {NULL}
    BY <2>0, HeadIsMember
  <2>14. /\ \A t, u \in live : rank[t] = rank[u] => t = u
         /\ \A t, u \in live : next[t] = u <=> rank[u] = rank[t] + 1
         /\ \A t, u \in live : prev[u] = t <=> rank[u] = rank[t] + 1
    BY <2>10
  <2>15. /\ \A t \in live : head = t <=> rank[t] = 1
         /\ \A t \in live : tail = t <=> rank[t] = Cardinality(live)
    BY <2>11
  <2> SUFFICES \E r \in [live -> 1..Cardinality(live)] :
                  /\ \A t, u \in live : r[t] = r[u] => t = u
                  /\ \A t \in live : head = t <=> r[t] = 1
                  /\ \A t \in live : tail = t <=> r[t] = Cardinality(live)
                  /\ \A t, u \in live : next[t] = u <=> r[u] = r[t] + 1
                  /\ \A t, u \in live : prev[u] = t <=> r[u] = r[t] + 1
    BY <2>12, <2>13 DEF Linked
  <2> WITNESS rank \in [live -> 1..Cardinality(live)]
  <2> QED BY <2>14, <2>15
<1> QED BY Invariant, <1>1, PTL

\* In the middle of an operation too, no pointer the code may follow leads to a
\* deleted timer: not from the timer adjust_timer() has taken out, not from tail
\* after a tick that emptied the list, not from next while the destructor runs.
THEOREM NothingDangles == Spec => []NoDanglingPointer
<1>1. IInv => NoDanglingPointer
  <2> SUFFICES ASSUME IInv PROVE NoDanglingPointer
    OBVIOUS
  <2>0. TypeOK /\ Chained /\ Walking
    BY DEF IInv
  <2>1. Members \subseteq live /\ \A t \in live : t \in Members \/ (pc = "walk" /\ t = timer)
    BY DEF Members
  <2>2. head \in live \cup {NULL} /\ (head # NULL => tail \in live)
    BY <2>0, <2>1, HeadIsMember
  <2>3. ASSUME NEW t \in live
        PROVE  next[t] \in live \cup {NULL} /\ (pc # "end" => prev[t] \in live \cup {NULL})
    <3>1. CASE t \in Members
      BY <2>0, <2>1, <3>1, Neighbours
    <3>2. CASE pc = "walk" /\ t = timer
      BY <2>0, <2>1, <3>2 DEF Walking
    <3> QED BY <2>1, <3>1, <3>2
  <2> QED BY <2>2, <2>3 DEF NoDanglingPointer
<1> QED BY Invariant, <1>1, PTL

\* The list is in the order of the deadlines as long as the clock was never set
\* back: the walk puts each timer in its place.
THEOREM StaysAscending == Spec => []AscendingIfMonotone
<1>1. IInv => AscendingIfMonotone
  <2> SUFFICES ASSUME IInv, ~setback, pc = "idle", NEW t \in live, next[t] # NULL
               PROVE  expire[t] <= expire[next[t]]
    BY DEF AscendingIfMonotone, Ascending
  <2>0. TypeOK /\ Chained /\ Members = live
    BY DEF IInv, Members
  <2>1. PICK n \in Nat : \E s \in [1..n -> Timers] : Shape(n, s)
    BY <2>0 DEF Chained
  <2>2. PICK s \in [1..n -> Timers] : Shape(n, s)
    BY <2>1
  <2>3. PICK k \in 1..n : Place(n, s, t, k)
    BY <2>0, <2>2, Located
  <2>4. k + 1 \in 1..n /\ t = s[k] /\ next[t] = s[k + 1]
    BY <2>3 DEF Place
  <2> QED BY <2>2, <2>4 DEF Shape, Sorted
<1> QED BY Invariant, <1>1, PTL

\* The walk goes along the chain: the nodes behind the one it is at are closed under next
\* and do not have it among them, so it never comes back to it.  A tick and the
\* destructor delete a node each turn.
THEOREM NoTurnInVain == Spec => LoopsShorten
<1>1. ASSUME IInv, WalkOn PROVE InFront' \subseteq InFront /\ InFront' # InFront
  <2>0. /\ TypeOK /\ Chained /\ pc = "walk" /\ pc' = "walk" /\ at \in Members
        /\ at' = next[at] /\ next[at] # NULL /\ next' = next /\ live' = live
    BY <1>1 DEF IInv, WalkOn, Walking, list
  <2>1. PICK n \in Nat : \E s \in [1..n -> Timers] : Shape(n, s)
    BY <2>0 DEF Chained
  <2>2. PICK s \in [1..n -> Timers] : Shape(n, s)
    BY <2>1
  <2>3. PICK k \in 1..n : Place(n, s, at, k)
    BY <2>0, <2>2, Located
  <2>4. /\ \A i \in 1..n : s[i] \in live /\ next[s[i]] = (IF i = n THEN NULL ELSE s[i + 1])
        /\ \A i, j \in 1..n : s[i] = s[j] => i = j
    BY <2>0, <2>2 DEF Shape, Row, Forward, Members
  <2>5. k + 1 \in 1..n /\ s[k] = at /\ s[k + 1] = next[at] /\ k \in Nat
    BY <2>0, <2>3 DEF Place
  <2> DEFINE behind == {s[i] : i \in (k + 1)..n}
  <2>6. behind \in SUBSET live /\ next[at] \in behind /\ Closed(behind)
    <3>1. \A i \in (k + 1)..n : i \in 1..n /\ (i # n => i + 1 \in (k + 1)..n)
      BY <2>5
    <3>2. k + 1 \in (k + 1)..n
      BY <2>5
    <3>3. \A i \in (k + 1)..n : next[s[i]] \in behind \cup {NULL}
      BY <2>4, <3>1
    <3> QED BY <2>4, <2>5, <3>1, <3>2, <3>3 DEF Closed
  <2>7. at \notin behind
    <3>1. \A i \in (k + 1)..n : i \in 1..n /\ i # k
      BY <2>5
    <3> QED BY <2>4, <2>5, <3>1
  <2> HIDE DEF behind
  <2>8. at \in InFront
    <3>1. at \in live
      BY <2>4, <2>5
    <3> QED BY <2>0, <3>1 DEF InFront
  <2>9. InFront' = {t \in live : \A S \in SUBSET live : next[at] \in S /\ Closed(S) => t \in S}
    BY <2>0 DEF InFront, Closed
  <2>10. at \notin InFront'
    BY <2>6, <2>7, <2>9
  <2>11. \A S \in SUBSET live : at \in S /\ Closed(S) => next[at] \in S
    BY <2>0 DEF Closed
  <2>12. InFront' \subseteq InFront
    BY <2>0, <2>9, <2>11 DEF InFront
  <2> QED BY <2>8, <2>10, <2>12
<1>2. ASSUME IInv, TickFire \/ DestroyHead PROVE InFront' \subseteq InFront /\ InFront' # InFront
  <2>1. /\ pc # "walk" /\ pc' = pc /\ head # NULL /\ live' = live \ {head}
    BY <1>2 DEF TickFire, DestroyHead, Delete
  <2>2. head \in live
    <3>1. TypeOK /\ Chained /\ Members = live
      BY <1>2, <2>1 DEF IInv, Members
    <3> QED BY <2>1, <3>1, HeadIsMember
  <2> QED BY <2>1, <2>2 DEF InFront
<1>3. ASSUME IInv, [Next]_vars
      PROVE  [pc # "idle" /\ pc' = pc => InFront' \subseteq InFront /\ InFront' # InFront]_<<list, pc, at>>
  <2> SUFFICES ASSUME pc # "idle", pc' = pc, Next
               PROVE  \/ InFront' \subseteq InFront /\ InFront' # InFront
                      \/ UNCHANGED <<list, pc, at>>
    BY <1>3 DEF vars
  <2>1. \A t \in Timers : ~(AddFirst(t) \/ AddBeforeHead(t) \/ AddAfterHead(t))
    BY DEF AddFirst, AddBeforeHead, AddAfterHead, Goto
  <2>2. \A t \in Timers : ~(AdjustInPlace(t) \/ AdjustHead(t) \/ AdjustInner(t))
    BY DEF AdjustInPlace, AdjustHead, AdjustInner, Goto
  <2>3. \A t \in Timers : ~(DelOnly(t) \/ DelHead(t) \/ DelTail(t) \/ DelInner(t))
    BY DEF DelOnly, DelHead, DelTail, DelInner
  <2>4. ~(InsertBetween \/ InsertLast \/ TickEnd \/ TickBegin \/ Exit)
    BY DEF InsertBetween, InsertLast, TickEnd, TickBegin, Exit, Goto
  <2>5. Elapse \/ SetBack => UNCHANGED <<list, pc, at>>
    BY DEF Elapse, SetBack
  <2> QED BY <1>1, <1>2, <1>3, <2>1, <2>2, <2>3, <2>4, <2>5, NextCases
<1> QED BY Invariant, <1>3, PTL DEF Spec, LoopsShorten

-----------------------------------------------------------------------------
(* The refinement                                                          *)

\* While the clock was never set back, no timer is older than the head.
LEMMA HeadIsOldest ==
    ASSUME IInv, pc \in {"idle", "tick"}, head # NULL, ~setback
    PROVE  \A t \in live : expire[head] <= expire[t]
<1>0. TypeOK /\ Chained /\ Members = live
  BY DEF IInv, Members
<1>1. PICK n \in Nat : \E s \in [1..n -> Timers] : Shape(n, s)
  BY <1>0 DEF Chained
<1>2. PICK s \in [1..n -> Timers] : Shape(n, s)
  BY <1>1
<1>3. n > 0 /\ head = s[1] /\ 1 \in 1..n
  BY <1>0, <1>2, HeadOfChain
<1> SUFFICES ASSUME NEW t \in live PROVE expire[head] <= expire[t]
  OBVIOUS
<1>4. PICK k \in 1..n : Place(n, s, t, k)
  BY <1>0, <1>2, Located
<1>5. t = s[k] /\ 1 <= k
  BY <1>4 DEF Place
<1> QED BY <1>2, <1>3, <1>5 DEF Shape, Sorted

\* Every step of the list is a step of TimerSet, or none.
LEMMA RefinesStep ==
    ASSUME IInv, [Next]_vars
    PROVE  [Promise!Next]_(Promise!vars)
<1> DEFINE Pending == IF pc = "end" THEN {} ELSE live
           Deadline == [t \in Timers |-> IF pc = "end" THEN 0 ELSE expire[t]]
           Still == UNCHANGED <<Pending, Deadline, now, setback, (pc = "tick"), cur>>
<1>0. TypeOK /\ Chained
  BY DEF IInv
<1>1. /\ expire \in [Timers -> Nat] /\ live \subseteq Timers
      /\ (pc # "walk" => Members = live) /\ NULL \notin Timers
      /\ now \in Nat /\ TTL \in Nat
  BY <1>0, TimerAssumption DEF TypeOK, Members
<1>s. Still => [Promise!Next]_(Promise!vars)
  BY DEF Promise!vars
<1>2. ASSUME NEW t \in Timers,
             AddFirst(t) \/ AddBeforeHead(t) \/ AddAfterHead(t)
                 \/ AdjustInPlace(t) \/ AdjustHead(t) \/ AdjustInner(t)
      PROVE  Promise!Next
  <2>1. /\ live' = live \cup {t} /\ expire' = [expire EXCEPT ![t] = now + TTL]
        /\ pc = "idle" /\ pc' \in {"idle", "walk"} /\ UNCHANGED <<now, setback, cur>>
    BY <1>2 DEF AddFirst, AddBeforeHead, AddAfterHead, AdjustInPlace, AdjustHead, AdjustInner,
                Allocate, Postpone, clock, Goto
  <2>2. Deadline' = [Deadline EXCEPT ![t] = now + TTL]
    BY <1>1, <2>1
  <2>3. Promise!Start(t)
    BY <2>1, <2>2 DEF Promise!Start
  <2> QED BY <2>3 DEF Promise!Next
<1>3. ASSUME NEW t \in Timers, DelOnly(t) \/ DelHead(t) \/ DelTail(t) \/ DelInner(t)
      PROVE  Promise!Next
  <2>1. /\ t \in live /\ live' = live \ {t} /\ expire' = [expire EXCEPT ![t] = 0]
        /\ pc = "idle" /\ pc' = pc /\ UNCHANGED <<now, setback, cur>>
    BY <1>3 DEF DelOnly, DelHead, DelTail, DelInner, Delete, clock
  <2>2. Deadline' = [Deadline EXCEPT ![t] = 0]
    BY <1>1, <2>1
  <2>3. Promise!Cancel(t)
    BY <2>1, <2>2 DEF Promise!Cancel
  <2> QED BY <2>3 DEF Promise!Next
<1>4. CASE WalkOn \/ InsertBetween \/ InsertLast
  <2>1. /\ UNCHANGED <<live, expire, now, setback, cur>>
        /\ pc = "walk" /\ pc' \in {"walk", "idle"}
    BY <1>4 DEF WalkOn, InsertBetween, InsertLast, Goto, list, clock
  <2> QED BY <2>1, <1>s
<1>5. CASE TickFire
  <2>1. /\ pc = "tick" /\ pc' = pc /\ head # NULL /\ cur >= expire[head]
        /\ live' = live \ {head} /\ expire' = [expire EXCEPT ![head] = 0]
        /\ UNCHANGED <<now, setback, cur>>
    BY <1>5 DEF TickFire, Delete, clock
  <2>2. head \in live /\ head \in Timers
    BY <1>0, <1>1, <2>1, HeadIsMember
  <2>3. setback \/ \A u \in live : expire[head] <= expire[u]
    BY <2>1, HeadIsOldest
  <2>4. Deadline' = [Deadline EXCEPT ![head] = 0] /\ \A u \in live : Deadline[u] = expire[u]
    BY <1>1, <2>1
  <2>5. expire[head] <= cur
    BY <1>0, <1>1, <2>1, <2>2 DEF TypeOK
  <2>6. Deadline[head] <= cur /\ (setback \/ \A u \in live : Deadline[head] <= Deadline[u])
    BY <2>2, <2>3, <2>4, <2>5
  <2>7. Pending = live /\ Pending' = live \ {head}
    BY <2>1
  <2> HIDE DEF Deadline, Pending
  <2>8. /\ pc = "tick" /\ head \in Pending /\ Deadline[head] <= cur
        /\ setback \/ \A u \in Pending : Deadline[head] <= Deadline[u]
        /\ Pending' = Pending \ {head} /\ Deadline' = [Deadline EXCEPT ![head] = 0]
        /\ UNCHANGED <<now, setback, (pc = "tick"), cur>>
    BY <2>1, <2>2, <2>4, <2>6, <2>7
  <2>9. PICK t \in Timers : t = head
    BY <2>2
  <2>10. Promise!Fire(t)
    BY <2>8, <2>9 DEF Promise!Fire, Deadline, Pending
  <2> QED BY <2>10 DEF Promise!Next
<1>6. CASE TickBegin
  <2>1. /\ pc = "idle" /\ pc' = "tick" /\ head # NULL /\ cur' = now
        /\ UNCHANGED <<live, expire, now, setback>>
    BY <1>6 DEF TickBegin, Goto, list, clock
  <2>2. live # {}
    BY <1>0, <1>1, <2>1, HeadIsMember
  <2>3. Promise!TickBegin
    BY <2>1, <2>2 DEF Promise!TickBegin
  <2> QED BY <2>3 DEF Promise!Next
<1>7. CASE TickEnd
  <2>1. /\ pc = "tick" /\ pc' = "idle" /\ (head # NULL => cur < expire[head]) /\ cur' = 0
        /\ UNCHANGED <<live, expire, now, setback>>
    BY <1>7 DEF TickEnd, Goto, list, clock
  <2>2. setback \/ \A u \in live : expire[u] > cur
    <3>1. CASE head = NULL
      BY <1>0, <1>1, <2>1, <3>1, HeadIsMember
    <3>2. CASE head # NULL
      <4>1. head \in live /\ cur \in Nat
        BY <1>0, <1>1, <2>1, <3>2, HeadIsMember DEF TypeOK
      <4>2. setback \/ \A u \in live : expire[head] <= expire[u]
        BY <2>1, <3>2, HeadIsOldest
      <4> QED BY <1>1, <2>1, <3>2, <4>1, <4>2
    <3> QED BY <3>1, <3>2
  <2>3. \A u \in live : Deadline[u] = expire[u]
    BY <1>1, <2>1
  <2>4. Promise!TickEnd
    BY <2>1, <2>2, <2>3 DEF Promise!TickEnd
  <2> QED BY <2>4 DEF Promise!Next
<1>8. CASE Exit
  <2>1. /\ pc = "idle" /\ pc' = "end" /\ UNCHANGED <<now, setback, cur>>
    BY <1>8 DEF Exit, Goto, clock
  <2>2. Promise!Discard
    BY <2>1 DEF Promise!Discard
  <2> QED BY <2>2 DEF Promise!Next
<1>9. CASE DestroyHead
  <2>1. pc = "end" /\ pc' = pc /\ UNCHANGED <<now, setback, cur>>
    BY <1>9 DEF DestroyHead, Delete, clock
  <2> QED BY <2>1, <1>s
<1>10. CASE Elapse
  <2>1. now' = now + 1 /\ UNCHANGED <<live, expire, setback, pc, cur>>
    BY <1>10 DEF Elapse, list
  <2>2. Promise!Elapse
    BY <2>1 DEF Promise!Elapse
  <2> QED BY <2>2 DEF Promise!Next
<1>11. CASE SetBack
  <2>1. now > 0 /\ now' = now - 1 /\ setback' = TRUE /\ UNCHANGED <<live, expire, pc, cur>>
    BY <1>11 DEF SetBack, list
  <2>2. Promise!SetBack
    BY <2>1 DEF Promise!SetBack
  <2> QED BY <2>2 DEF Promise!Next
<1>12. CASE UNCHANGED vars
  <2>1. Still
    BY <1>12 DEF vars, list, clock
  <2> QED BY <2>1, <1>s
<1> QED BY <1>2, <1>3, <1>4, <1>5, <1>6, <1>7, <1>8, <1>9, <1>10, <1>11, <1>12, NextCases

\* The list implements the set of timers, whatever the clock does: none is lost,
\* none fires before its time, and, until the clock is set back, a tick fires
\* every expired timer, oldest first.
THEOREM ListImplementsSet == Spec => ImplementsTimerSet
<1>1. Init => Promise!Init
  BY DEF Init, Promise!Init
<1>2. IInv /\ [Next]_vars => [Promise!Next]_(Promise!vars)
  BY RefinesStep
<1> QED BY Invariant, <1>1, <1>2, PTL DEF Spec, ImplementsTimerSet, Promise!Spec
=============================================================================

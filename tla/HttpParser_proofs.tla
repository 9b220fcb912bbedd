-------------------------- MODULE HttpParser_proofs --------------------------
(***************************************************************************)
(* What HttpParser keeps, for every buffer size, every set of requests and *)
(* every way the network cuts them.  The inductive invariant is IInv.      *)
(***************************************************************************)
EXTENDS HttpParser, SequenceTheorems, ProofLemmas, TLAPS

-----------------------------------------------------------------------------
(* Places and strings                                                      *)

\* The least element of a set of natural numbers is Min of it.
LEMMA MinOfNats ==
    ASSUME NEW T, T \subseteq Nat, T # {}
    PROVE  Min(T) \in T /\ \A n \in T : Min(T) <= n
<1>1. PICK m \in T : \A n \in T : m <= n
  BY LeastNat
<1> QED BY <1>1 DEF Min

\* Min of two numbers.
LEMMA MinOfTwo ==
    ASSUME NEW a \in Int, NEW b \in Int
    PROVE  Min({a, b}) = IF a <= b THEN a ELSE b
<1> DEFINE m == IF a <= b THEN a ELSE b
<1>1. m \in {a, b} /\ \A n \in {a, b} : m <= n
  OBVIOUS
<1>2. \A x \in {a, b} : (\A n \in {a, b} : x <= n) => x = m
  OBVIOUS
<1> HIDE DEF m
<1>3. Min({a, b}) = m
  BY <1>1, <1>2 DEF Min
<1> QED BY <1>3 DEF m

\* A piece of m_readbuf is a sequence of tokens.
LEMMA SliceType ==
    ASSUME buf \in [0..(BufSize - 1) -> Token], BufSize \in Nat,
           NEW i \in Nat, NEW j \in Nat, j <= BufSize
    PROVE  /\ Slice(i, j) \in Seq(Token)
           /\ i <= j => Len(Slice(i, j)) = j - i
           /\ j <= i => Slice(i, j) = <<>>
           /\ \A k \in 1..(j - i) : Slice(i, j)[k] = buf[i + k - 1]
<1>1. \A k \in 1..(j - i) : buf[i + k - 1] \in Token
  OBVIOUS
<1>2. CASE i <= j
  <2>1. j - i \in Nat
    BY <1>2
  <2>2. [k \in 1..(j - i) |-> buf[i + k - 1]] \in Seq(Token)
    BY <2>1, <1>1, IsASeq
  <2>3. Len([k \in 1..(j - i) |-> buf[i + k - 1]]) = j - i
    BY <2>1
  <2>4. j <= i => Slice(i, j) = <<>>
    <3> SUFFICES ASSUME j <= i PROVE Slice(i, j) = <<>>
      OBVIOUS
    <3>1. Len(Slice(i, j)) = 0 /\ Slice(i, j) \in Seq(Token)
      BY <1>2, <2>2, <2>3 DEF Slice
    <3> QED BY <3>1, EmptySeq
  <2> QED BY <2>2, <2>3, <2>4 DEF Slice
<1>3. CASE j < i
  <2>1. 1..(j - i) = 1..0
    BY <1>3
  <2>2. Slice(i, j) = [k \in 1..0 |-> buf[i + k - 1]]
    BY <2>1 DEF Slice
  <2>3. [k \in 1..0 |-> buf[i + k - 1]] \in Seq(Token) /\ Len([k \in 1..0 |-> buf[i + k - 1]]) = 0
    BY IsASeq
  <2>4. Slice(i, j) \in Seq(Token) /\ Len(Slice(i, j)) = 0
    BY <2>2, <2>3
  <2>5. Slice(i, j) = <<>>
    BY <2>4, EmptySeq
  <2> QED BY <2>1, <2>4, <2>5, <1>3
<1> QED BY <1>2, <1>3

\* Where a string in m_readbuf ends.
StringEnd(n, i) == Min({j \in i..(n - 1) : buf[j] = NUL} \cup {n})

\* A string ends in front of n and in front of the first zero byte.
LEMMA StringEndIs ==
    ASSUME NEW n \in Nat, NEW i \in Nat
    PROVE  /\ StringEnd(n, i) \in Nat /\ StringEnd(n, i) <= n
           /\ StringEnd(n, i) = n \/ (i <= StringEnd(n, i) /\ buf[StringEnd(n, i)] = NUL)
           /\ \A j \in i..(StringEnd(n, i) - 1) : buf[j] # NUL
<1> DEFINE T == {j \in i..(n - 1) : buf[j] = NUL} \cup {n}
<1>1. T \subseteq Nat /\ n \in T
  OBVIOUS
<1>2. Min(T) \in T /\ \A k \in T : Min(T) <= k
  <2>1. T # {}
    BY <1>1
  <2> HIDE DEF T
  <2> QED BY <1>1, <2>1, MinOfNats
<1>3. Min(T) \in Nat /\ Min(T) <= n
  BY <1>1, <1>2
<1>4. ASSUME NEW j \in i..(Min(T) - 1) PROVE buf[j] # NUL
  <2>1. j \in i..(n - 1) /\ ~(Min(T) <= j)
    BY <1>3
  <2>2. j \notin T
    BY <1>2, <2>1
  <2> QED BY <2>1, <2>2
<1>5. Min(T) = n \/ (i <= Min(T) /\ buf[Min(T)] = NUL)
  BY <1>2
<1>6. StringEnd(n, i) = Min(T)
  BY DEF StringEnd
<1> QED BY <1>3, <1>4, <1>5, <1>6

\* A string in m_readbuf is a sequence of tokens.
LEMMA StringType ==
    ASSUME buf \in [0..(BufSize - 1) -> Token], BufSize \in Nat,
           NEW n \in Nat, NEW i \in Nat, n <= BufSize
    PROVE  StringUpTo(n, i) = Slice(i, StringEnd(n, i)) /\ StringUpTo(n, i) \in Seq(Token)
<1>1. StringUpTo(n, i) = Slice(i, StringEnd(n, i))
  BY DEF StringUpTo, StringEnd
<1>2. StringEnd(n, i) \in Nat /\ StringEnd(n, i) <= BufSize
  BY StringEndIs, SMTT(30)
<1> QED BY <1>1, <1>2, SliceType

-----------------------------------------------------------------------------
(* What the client sends                                                   *)

\* The header lines of a request follow each other; each is 3 tokens long if it ends
\* in CR LF.
LEMMA HeaderLines ==
    ASSUME NEW hs \in Seq(Token), NEW eol \in Seq(Token), hs # <<>>
    PROVE  LET lines == FlattenSeq([i \in DOMAIN hs |-> <<hs[i]>> \o eol]) IN
           /\ lines \in Seq(Token) /\ Len(lines) >= 1 /\ lines[1] = hs[1]
           /\ Len(eol) = 2 =>
               /\ Len(lines) = 3 * Len(hs)
               /\ \A h \in 1..Len(hs) :
                   /\ lines[3 * h - 2] = hs[h]
                   /\ lines[3 * h - 1] = eol[1] /\ lines[3 * h] = eol[2]
<1> DEFINE parts == [i \in DOMAIN hs |-> <<hs[i]>> \o eol]
           n == Len(hs)
<1>1. n \in Nat /\ n >= 1 /\ DOMAIN hs = 1..n /\ \A i \in 1..n : hs[i] \in Token
  BY EmptySeq, LenProperties, ElementOfSeq
<1>2. ASSUME NEW i \in 1..n
      PROVE  /\ <<hs[i]>> \o eol \in Seq(Token) /\ Len(<<hs[i]>> \o eol) = 1 + Len(eol)
             /\ (<<hs[i]>> \o eol)[1] = hs[i]
             /\ Len(eol) = 2 => (<<hs[i]>> \o eol)[2] = eol[1] /\ (<<hs[i]>> \o eol)[3] = eol[2]
  <2>1. <<hs[i]>> \in Seq(Token) /\ Len(<<hs[i]>>) = 1 /\ <<hs[i]>>[1] = hs[i]
    BY <1>1
  <2>2. Len(eol) \in Nat
    BY LenProperties
  <2> HIDE DEF n
  <2>3. /\ <<hs[i]>> \o eol \in Seq(Token) /\ Len(<<hs[i]>> \o eol) = 1 + Len(eol)
        /\ \A k \in 1..(1 + Len(eol)) :
             (<<hs[i]>> \o eol)[k] = IF k <= 1 THEN <<hs[i]>>[k] ELSE eol[k - 1]
    BY <2>1, ConcatProperties
  <2> QED BY <2>1, <2>2, <2>3
<1>3. parts \in Seq(Seq(Token)) /\ Len(parts) = n /\ \A i \in 1..n : parts[i] = <<hs[i]>> \o eol
  <2>1. parts = [i \in 1..n |-> <<hs[i]>> \o eol]
    BY <1>1
  <2>2. [i \in 1..n |-> <<hs[i]>> \o eol] \in Seq(Seq(Token))
    BY <1>1, <1>2, IsASeq
  <2>3. Len([i \in 1..n |-> <<hs[i]>> \o eol]) = n
    BY <1>1
  <2>4. \A i \in 1..n : [j \in 1..n |-> <<hs[j]>> \o eol][i] = <<hs[i]>> \o eol
    OBVIOUS
  <2> HIDE DEF parts, n
  <2> QED BY <2>1, <2>2, <2>3, <2>4
<1> HIDE DEF parts
<1>4. parts # <<>>
  BY <1>1, <1>3
<1>5. PICK flat \in [1..n -> Seq(Token)] :
        /\ flat[1] = parts[1]
        /\ \A i \in 2..n : flat[i] = flat[i - 1] \o parts[i]
        /\ FlattenSeq(parts) = flat[n]
  <2> HIDE DEF n
  <2>1. \E flat \in [1..Len(parts) -> Seq(Token)] :
          /\ flat[1] = parts[1]
          /\ \A i \in 2..Len(parts) : flat[i] = flat[i - 1] \o parts[i]
          /\ FlattenSeq(parts) = flat[Len(parts)]
    BY <1>3, <1>4, FlattenSteps, Zenon
  <2>2. Len(parts) = n
    BY <1>3
  <2> QED BY <2>1, <2>2
<1> HIDE DEF n
<1> DEFINE Good(k) ==
             /\ Len(flat[k]) >= 1 /\ flat[k][1] = hs[1]
             /\ Len(eol) = 2 =>
                 /\ Len(flat[k]) = 3 * k
                 /\ \A h \in 1..k :
                     /\ flat[k][3 * h - 2] = hs[h]
                     /\ flat[k][3 * h - 1] = eol[1] /\ flat[k][3 * h] = eol[2]
           Bad == {k \in 1..n : ~Good(k)}
<1>6. Len(eol) \in Nat
  BY LenProperties
<1>7. Good(1)
  <2>1. flat[1] = <<hs[1]>> \o eol /\ 1 \in 1..n
    BY <1>1, <1>3, <1>5
  <2>2. Len(flat[1]) >= 1 /\ flat[1][1] = hs[1]
    BY <2>1, <1>2, <1>6
  <2>3. ASSUME Len(eol) = 2 PROVE Len(flat[1]) = 3 /\ flat[1][2] = eol[1] /\ flat[1][3] = eol[2]
    BY <2>1, <2>3, <1>2
  <2>4. \A h \in 1..1 : h = 1 /\ 3 * h - 2 = 1 /\ 3 * h - 1 = 2 /\ 3 * h = 3
    OBVIOUS
  <2> QED BY <2>2, <2>3, <2>4
<1>8. ASSUME NEW k \in 2..n, Good(k - 1) PROVE Good(k)
  <2> DEFINE f == flat[k - 1]
             p == <<hs[k]>> \o eol
  <2>1. flat[k] = f \o p /\ f \in Seq(Token) /\ p \in Seq(Token) /\ Len(p) = 1 + Len(eol)
    <3>1. k \in 1..n /\ k - 1 \in 1..n
      BY <1>1
    <3>2. parts[k] = p /\ p \in Seq(Token) /\ Len(p) = 1 + Len(eol)
      BY <3>1, <1>2, <1>3
    <3> QED BY <3>1, <3>2, <1>5
  <2>2. /\ p[1] = hs[k] /\ (Len(eol) = 2 => p[2] = eol[1] /\ p[3] = eol[2])
        /\ Len(f) >= 1 /\ f[1] = hs[1]
    BY <1>1, <1>2, <1>8
  <2>3. ASSUME Len(eol) = 2
        PROVE  /\ Len(f) = 3 * (k - 1)
               /\ \A h \in 1..(k - 1) : /\ f[3 * h - 2] = hs[h]
                                        /\ f[3 * h - 1] = eol[1] /\ f[3 * h] = eol[2]
    BY <2>3, <1>8
  <2> HIDE DEF f, p
  <2>4. Len(f) \in Nat /\ Len(p) \in Nat
    BY <2>1, LenProperties
  <2>5. /\ Len(flat[k]) = Len(f) + Len(p)
        /\ \A i \in 1..(Len(f) + Len(p)) : flat[k][i] = IF i <= Len(f) THEN f[i] ELSE p[i - Len(f)]
    BY <2>1, ConcatProperties
  <2>6. Len(flat[k]) >= 1 /\ flat[k][1] = hs[1]
    BY <2>2, <2>4, <2>5
  <2>7. ASSUME Len(eol) = 2
        PROVE  /\ Len(flat[k]) = 3 * k
               /\ \A h \in 1..k : /\ flat[k][3 * h - 2] = hs[h]
                                  /\ flat[k][3 * h - 1] = eol[1] /\ flat[k][3 * h] = eol[2]
    <3>1. Len(f) = 3 * k - 3 /\ Len(p) = 3 /\ k \in Nat
      BY <2>1, <2>3, <2>7, <1>1
    <3>2. Len(flat[k]) = 3 * k
      BY <3>1, <2>5
    <3>3. \A i \in 1..(3 * k) : flat[k][i] = IF i <= 3 * k - 3 THEN f[i] ELSE p[i - (3 * k - 3)]
      BY <3>1, <2>5
    <3>4. ASSUME NEW h \in 1..(k - 1)
          PROVE  /\ flat[k][3 * h - 2] = hs[h]
                 /\ flat[k][3 * h - 1] = eol[1] /\ flat[k][3 * h] = eol[2]
      <4>1. \A j \in {0, 1, 2} : 3 * h - j \in 1..(3 * k) /\ 3 * h - j <= 3 * k - 3
        BY <3>1
      <4>2. \A j \in {0, 1, 2} : flat[k][3 * h - j] = f[3 * h - j]
        BY <3>3, <4>1
      <4> QED BY <2>3, <2>7, <4>2
    <3>5. /\ flat[k][3 * k - 2] = hs[k]
          /\ flat[k][3 * k - 1] = eol[1] /\ flat[k][3 * k] = eol[2]
      <4>1. \A j \in {0, 1, 2} : /\ 3 * k - j \in 1..(3 * k) /\ ~(3 * k - j <= 3 * k - 3)
                                 /\ 3 * k - j - (3 * k - 3) = 3 - j
        BY <3>1
      <4>2. \A j \in {0, 1, 2} : flat[k][3 * k - j] = p[3 - j]
        BY <3>3, <4>1
      <4>3. flat[k][3 * k - 2] = p[1] /\ flat[k][3 * k - 1] = p[2] /\ flat[k][3 * k] = p[3]
        <5>1. 3 * k - 0 = 3 * k /\ 3 - 0 = 3 /\ 3 - 1 = 2 /\ 3 - 2 = 1
          BY <3>1
        <5> QED BY <4>2, <5>1
      <4> QED BY <2>2, <2>7, <4>3
    <3>6. \A h \in 1..k : h = k \/ h \in 1..(k - 1)
      BY <3>1
    <3> QED BY <3>2, <3>4, <3>5, <3>6
  <2> QED BY <2>6, <2>7
<1>9. Bad = {}
  <2> SUFFICES ASSUME Bad # {} PROVE FALSE
    OBVIOUS
  <2>1. Bad \subseteq Nat /\ \A j \in Bad : j \in 1..n /\ ~Good(j)
    BY <1>1
  <2>2. \A j \in 1..n : j \notin Bad => Good(j)
    OBVIOUS
  <2> HIDE DEF Bad, Good
  <2>3. PICK k \in Bad : \A j \in Bad : k <= j
    BY <2>1, LeastNat
  <2>4. k # 1 /\ k \in 2..n /\ k - 1 \in 1..n /\ ~(k <= k - 1)
    BY <1>1, <1>7, <2>1
  <2>5. Good(k - 1)
    BY <2>2, <2>3, <2>4
  <2> QED BY <1>8, <2>1, <2>4, <2>5
<1>10. Good(n) /\ flat[n] \in Seq(Token)
  <2>1. n \in 1..n
    BY <1>1
  <2>2. \A j \in 1..n : j \notin Bad => Good(j)
    OBVIOUS
  <2> HIDE DEF Bad, Good
  <2>3. Good(n)
    BY <1>9, <2>1, <2>2
  <2> QED BY <2>1, <2>3, <1>5
<1> QED BY <1>5, <1>10 DEF parts, n

\* Where the body of a request begins if its lines end in CR LF.
HeadLen(m) == 3 * Len(m.headers) + 5

\* The places of a request's tokens in m_readbuf, where they count from 0.
Sent(m, i) == Encode(m)[i + 1]

Layout(m) ==
    /\ Len(Encode(m)) = HeadLen(m) + Len(m.body)
    /\ Sent(m, 1) = CR /\ Sent(m, 2) = LF
    /\ \A h \in 1..Len(m.headers) :
        /\ Sent(m, 3 * h) = m.headers[h]
        /\ Sent(m, 3 * h + 1) = CR /\ Sent(m, 3 * h + 2) = LF
    /\ Sent(m, HeadLen(m) - 2) = CR /\ Sent(m, HeadLen(m) - 1) = LF
    /\ \A i \in 1..Len(m.body) : Sent(m, HeadLen(m) + i - 1) = m.body[i]

\* What a request of the client consists of.
LEMMA MessageParts ==
    ASSUME NEW m \in Messages
    PROVE  /\ m.line \in LinesOfUse \cup {"bad"} /\ m.line \in Token
           /\ m.headers \in Seq(Header) /\ m.headers \in Seq(Token)
           /\ m.body \in Seq(Token)
           /\ m.eol \in {<<CR, LF>>, <<CR>>, <<LF>>} /\ m.eol \in Seq(Token)
           /\ Len(m.headers) \in Nat /\ Len(m.body) \in Nat
<1>1. m \in Message
  BY ParserAssumption
<1>2. /\ m.line \in LinesOfUse \cup {"bad"} /\ m.headers \in Seq(Header)
      /\ m.body \in Seq(Data \cup {CR, LF, NUL}) /\ m.eol \in {<<CR, LF>>, <<CR>>, <<LF>>}
  BY <1>1 DEF Message
<1>3. LinesOfUse \cup {"bad"} \subseteq Token /\ Header \subseteq Token
      /\ Data \cup {CR, LF, NUL} \subseteq Token /\ CR \in Token /\ LF \in Token
  BY DEF Token
<1>4. m.headers \in Seq(Token) /\ m.body \in Seq(Token)
  <2>1. \A i \in 1..Len(m.headers) : m.headers[i] \in Token
    BY <1>2, <1>3, ElementOfSeq
  <2> QED BY <1>2, <1>3, SeqMonotonic
<1>5. <<CR, LF>> \in Seq(Token) /\ <<CR>> \in Seq(Token) /\ <<LF>> \in Seq(Token)
  BY <1>3
<1>6. m.eol \in Seq(Token)
  BY <1>2, <1>5
<1>7. m.line \in Token
  BY <1>2, <1>3
<1> QED BY <1>2, <1>4, <1>6, <1>7, LenProperties

\* An element of two sequences one behind the other is one of the first or the second.
LEMMA ConcatAt ==
    ASSUME NEW S, NEW s \in Seq(S), NEW t \in Seq(S)
    PROVE  /\ s \o t \in Seq(S) /\ Len(s \o t) = Len(s) + Len(t)
           /\ Len(s) \in Nat /\ Len(t) \in Nat
           /\ \A i \in 1..Len(s) : (s \o t)[i] = s[i]
           /\ \A i \in 1..Len(t) : (s \o t)[Len(s) + i] = t[i]
<1>1. Len(s) \in Nat /\ Len(t) \in Nat
  BY LenProperties
<1>2. /\ s \o t \in Seq(S) /\ Len(s \o t) = Len(s) + Len(t)
      /\ \A i \in 1..(Len(s) + Len(t)) : (s \o t)[i] = IF i <= Len(s) THEN s[i] ELSE t[i - Len(s)]
  BY ConcatProperties
<1>3. \A i \in 1..Len(s) : i \in 1..(Len(s) + Len(t)) /\ i <= Len(s)
  BY <1>1
<1>4. \A i \in 1..Len(t) : /\ Len(s) + i \in 1..(Len(s) + Len(t)) /\ ~(Len(s) + i <= Len(s))
                           /\ Len(s) + i - Len(s) = i
  BY <1>1
<1>5. \A i \in 1..Len(s) : (s \o t)[i] = s[i]
  BY <1>2, <1>3
<1>6. \A i \in 1..Len(t) : (s \o t)[Len(s) + i] = t[i]
  BY <1>2, <1>4
<1> QED BY <1>1, <1>2, <1>5, <1>6

\* A request goes out as its line, its headers, an empty line and its body.
LEMMA EncodeIs ==
    ASSUME NEW m \in Messages
    PROVE  /\ Encode(m) \in Seq(Token) /\ Sent(m, 0) = m.line /\ Sent(m, 1) = m.eol[1]
           /\ Len(Encode(m)) >= 2
           /\ m.eol = <<CR>> => Sent(m, 2) # LF
           /\ m.eol = <<CR, LF>> => Layout(m)
<1> DEFINE hs == m.headers
           parts == [i \in DOMAIN hs |-> <<hs[i]>> \o m.eol]
           L == FlattenSeq(parts)
           n == Len(hs)
           a == <<m.line>>
           ab == a \o m.eol
           abc == ab \o L
           abcd == abc \o m.eol
<1>0. /\ m.line \in Token /\ hs \in Seq(Token) /\ hs \in Seq(Header) /\ m.body \in Seq(Token)
      /\ m.eol \in Seq(Token) /\ m.eol \in {<<CR, LF>>, <<CR>>, <<LF>>} /\ n \in Nat
      /\ Len(m.body) \in Nat
  BY MessageParts
<1>1. Encode(m) = abcd \o m.body
  BY DEF Encode
<1>2. /\ L \in Seq(Token) /\ Len(L) \in Nat
      /\ n >= 1 => Len(L) >= 1 /\ L[1] = hs[1]
      /\ n = 0 => Len(L) = 0
      /\ Len(m.eol) = 2 =>
           /\ Len(L) = 3 * n
           /\ \A h \in 1..n : /\ L[3 * h - 2] = hs[h]
                              /\ L[3 * h - 1] = m.eol[1] /\ L[3 * h] = m.eol[2]
  <2>1. CASE n = 0
    <3>1. hs = <<>> /\ DOMAIN hs = 1..0
      BY <1>0, <2>1, EmptySeq, LenProperties
    <3>2. parts = [i \in 1..0 |-> <<hs[i]>> \o m.eol]
      BY <3>1
    <3>3. [i \in 1..0 |-> <<hs[i]>> \o m.eol] \in Seq(Token) /\ Len([i \in 1..0 |-> <<hs[i]>> \o m.eol]) = 0
      BY IsASeq
    <3>4. parts \in Seq(Token) /\ Len(parts) = 0
      BY <3>2, <3>3
    <3> HIDE DEF parts
    <3>5. L = parts
      BY <3>4 DEF FlattenSeq
    <3> QED BY <2>1, <3>4, <3>5
  <2>2. CASE n # 0
    <3>1. hs # <<>> /\ n >= 1
      BY <1>0, <2>2
    <3>2. /\ L \in Seq(Token) /\ Len(L) >= 1 /\ L[1] = hs[1]
          /\ Len(m.eol) = 2 =>
               /\ Len(L) = 3 * n
               /\ \A h \in 1..n : /\ L[3 * h - 2] = hs[h]
                                  /\ L[3 * h - 1] = m.eol[1] /\ L[3 * h] = m.eol[2]
      BY <1>0, <3>1, HeaderLines
    <3>3. Len(L) \in Nat
      BY <3>2, LenProperties
    <3> HIDE DEF L, n, hs
    <3> QED BY <2>2, <3>1, <3>2, <3>3
  <2> QED BY <2>1, <2>2
<1> HIDE DEF L
<1>3. a \in Seq(Token) /\ Len(a) = 1 /\ a[1] = m.line
  BY <1>0
<1> HIDE DEF a
<1>4. /\ ab \in Seq(Token) /\ Len(ab) = 1 + Len(m.eol) /\ Len(m.eol) \in Nat
      /\ \A i \in 1..1 : ab[i] = a[i]
      /\ \A i \in 1..Len(m.eol) : ab[1 + i] = m.eol[i]
  BY <1>0, <1>3, ConcatAt
<1> HIDE DEF ab
<1>5. /\ abc \in Seq(Token) /\ Len(abc) = Len(ab) + Len(L)
      /\ \A i \in 1..Len(ab) : abc[i] = ab[i]
      /\ \A i \in 1..Len(L) : abc[Len(ab) + i] = L[i]
  <2>1. ab \in Seq(Token) /\ L \in Seq(Token)
    BY <1>2, <1>4
  <2> QED BY <2>1, ConcatAt
<1> HIDE DEF abc
<1>6. /\ abcd \in Seq(Token) /\ Len(abcd) = Len(abc) + Len(m.eol)
      /\ \A i \in 1..Len(abc) : abcd[i] = abc[i]
      /\ \A i \in 1..Len(m.eol) : abcd[Len(abc) + i] = m.eol[i]
  <2>1. abc \in Seq(Token) /\ m.eol \in Seq(Token)
    BY <1>0, <1>5
  <2> QED BY <2>1, ConcatAt
<1> HIDE DEF abcd
<1>7. /\ Encode(m) \in Seq(Token) /\ Len(Encode(m)) = Len(abcd) + Len(m.body)
      /\ \A i \in 1..Len(abcd) : Encode(m)[i] = abcd[i]
      /\ \A i \in 1..Len(m.body) : Encode(m)[Len(abcd) + i] = m.body[i]
  <2>1. abcd \in Seq(Token) /\ m.body \in Seq(Token)
    BY <1>0, <1>6
  <2> QED BY <1>1, <2>1, ConcatAt
<1> DEFINE c == Len(m.eol)
           l == Len(L)
           b == Len(m.body)
<1>8. /\ c \in Nat /\ l \in Nat /\ b \in Nat /\ n \in Nat
      /\ Len(ab) = 1 + c /\ Len(abc) = 1 + c + l /\ Len(abcd) = 1 + c + l + c
      /\ Len(Encode(m)) = 1 + c + l + c + b
  BY <1>0, <1>2, <1>4, <1>5, <1>6, <1>7
<1>c. c = 1 \/ c = 2
  BY <1>0
<1>l. (n >= 1 => l >= 1 /\ L[1] = hs[1]) /\ (n = 0 => l = 0) /\ (c = 2 => l = 3 * n)
  BY <1>2
<1> HIDE DEF c, l, b, n, hs
<1>9. ASSUME NEW i \in 1..(1 + c) PROVE Encode(m)[i] = ab[i]
  <2>1. i \in 1..(1 + c + l) /\ i \in 1..(1 + c + l + c)
    BY <1>8
  <2>2. Encode(m)[i] = abcd[i] /\ abcd[i] = abc[i] /\ abc[i] = ab[i]
    BY <2>1, <1>5, <1>6, <1>7, <1>8
  <2> QED BY <2>2
<1>10. ASSUME NEW i \in 1..l PROVE Encode(m)[1 + c + i] = L[i]
  <2>1. 1 + c + i \in 1..(1 + c + l) /\ 1 + c + i \in 1..(1 + c + l + c)
    BY <1>8
  <2>2. Encode(m)[1 + c + i] = abcd[1 + c + i] /\ abcd[1 + c + i] = abc[1 + c + i]
    BY <2>1, <1>6, <1>7, <1>8
  <2>3. abc[1 + c + i] = L[i]
    BY <1>5, <1>8 DEF l
  <2> QED BY <2>2, <2>3
<1>11. ASSUME NEW i \in 1..c PROVE Encode(m)[1 + c + l + i] = m.eol[i]
  <2>1. 1 + c + l + i \in 1..(1 + c + l + c)
    BY <1>8
  <2>2. Encode(m)[1 + c + l + i] = abcd[1 + c + l + i]
    BY <2>1, <1>7, <1>8
  <2>3. abcd[1 + c + l + i] = m.eol[i]
    BY <1>6, <1>8 DEF c
  <2> QED BY <2>2, <2>3
<1>13. Sent(m, 0) = m.line /\ Sent(m, 1) = m.eol[1]
  <2>1. 1 \in 1..(1 + c) /\ 2 \in 1..(1 + c) /\ 1 \in 1..c
    BY <1>c
  <2>2. ab[1] = a[1] /\ ab[1 + 1] = m.eol[1]
    BY <1>4, <2>1 DEF c
  <2>3. Encode(m)[1] = a[1] /\ Encode(m)[2] = m.eol[1]
    <3>1. 1 + 1 = 2
      OBVIOUS
    <3> QED BY <1>9, <2>1, <2>2, <3>1
  <2>4. 0 + 1 = 1 /\ 1 + 1 = 2
    OBVIOUS
  <2> QED BY <1>3, <2>3, <2>4 DEF Sent
<1>14. Len(Encode(m)) >= 2
  <2>1. 1 + c + l + c + b >= 2
    BY <1>8, <1>c
  <2> QED BY <1>8, <2>1
<1>15. ASSUME m.eol = <<CR>> PROVE Sent(m, 2) # LF
  <2>1. c = 1 /\ m.eol[1] = CR
    BY <1>15 DEF c
  <2>2. CASE n = 0
    <3>1. Encode(m)[1 + c + l + 1] = CR
      BY <1>11, <2>1
    <3>2. 1 + c + l + 1 = 2 + 1
      BY <1>l, <2>1, <2>2
    <3> QED BY <3>1, <3>2 DEF Sent, CR, LF
  <2>3. CASE n # 0
    <3>1. n >= 1
      BY <1>8, <2>3
    <3>2. hs[1] \in Header
      BY <1>0, <3>1, ElementOfSeq DEF n, hs
    <3>3. 1 \in 1..l /\ 1 + c + 1 = 2 + 1
      BY <1>8, <1>l, <2>1, <3>1
    <3>4. Encode(m)[2 + 1] = hs[1]
      BY <1>10, <1>l, <3>1, <3>3
    <3>5. hs[1] # LF
      BY <3>2, ParserAssumption DEF Header, LF, CR, NUL
    <3> QED BY <3>4, <3>5 DEF Sent
  <2> QED BY <2>2, <2>3
<1>16. ASSUME m.eol = <<CR, LF>> PROVE Layout(m)
  <2>1. c = 2 /\ m.eol[1] = CR /\ m.eol[2] = LF
    BY <1>16 DEF c
  <2>h. HeadLen(m) = 3 * n + 5 /\ l = 3 * n
    BY <1>l, <2>1 DEF HeadLen, n, hs
  <2>2. Len(Encode(m)) = HeadLen(m) + Len(m.body)
    <3>1. 1 + c + l + c + b = HeadLen(m) + b
      BY <1>8, <2>1, <2>h
    <3> QED BY <3>1, <1>8 DEF b
  <2>3. Sent(m, 1) = CR /\ Sent(m, 2) = LF
    <3>1. 2 \in 1..c /\ 3 \in 1..(1 + c) /\ 1 + 2 = 3 /\ 2 + 1 = 3
      BY <2>1
    <3>2. ab[1 + 2] = m.eol[2]
      BY <1>4, <3>1 DEF c
    <3>3. Encode(m)[3] = m.eol[2]
      BY <1>9, <3>1, <3>2
    <3> QED BY <1>13, <2>1, <3>1, <3>3 DEF Sent
  <2>4. ASSUME NEW h \in 1..Len(m.headers)
        PROVE  /\ Sent(m, 3 * h) = m.headers[h]
               /\ Sent(m, 3 * h + 1) = CR /\ Sent(m, 3 * h + 2) = LF
    <3>1. h \in 1..n /\ m.headers[h] = hs[h] /\ h \in Nat
      BY <1>8 DEF n, hs
    <3>2. \A j \in {0, 1, 2} : 3 * h - j \in 1..l /\ 1 + c + (3 * h - j) = 3 * h + (3 - j)
      BY <1>8, <2>h, <2>1, <3>1
    <3>3. \A j \in {0, 1, 2} : Encode(m)[3 * h + (3 - j)] = L[3 * h - j]
      BY <1>10, <3>2
    <3>4. L[3 * h - 2] = hs[h] /\ L[3 * h - 1] = CR /\ L[3 * h - 0] = LF
      <4>1. 3 * h - 0 = 3 * h
        BY <3>1
      <4>2. \A k \in 1..n : L[3 * k - 2] = hs[k] /\ L[3 * k - 1] = m.eol[1] /\ L[3 * k] = m.eol[2]
        BY <1>2, <2>1 DEF c
      <4> QED BY <4>1, <4>2, <2>1, <3>1
    <3>5. 3 * h + (3 - 2) = 3 * h + 1 /\ 3 * h + (3 - 1) = 3 * h + 1 + 1 /\ 3 * h + (3 - 0) = 3 * h + 2 + 1
      BY <3>1
    <3>6. Encode(m)[3 * h + 1] = hs[h] /\ Encode(m)[3 * h + 1 + 1] = CR /\ Encode(m)[3 * h + 2 + 1] = LF
      BY <3>3, <3>4, <3>5
    <3> QED BY <3>1, <3>6 DEF Sent
  <2>5. Sent(m, HeadLen(m) - 2) = CR /\ Sent(m, HeadLen(m) - 1) = LF
    <3>1. HeadLen(m) - 2 + 1 = 1 + c + l + 1 /\ HeadLen(m) - 1 + 1 = 1 + c + l + 2
      BY <1>8, <2>1, <2>h
    <3>2. 1 \in 1..c /\ 2 \in 1..c
      BY <2>1
    <3> QED BY <3>1, <3>2, <1>11, <2>1 DEF Sent
  <2>6. ASSUME NEW i \in 1..Len(m.body) PROVE Sent(m, HeadLen(m) + i - 1) = m.body[i]
    <3> DEFINE at == Len(abcd)
               hd == HeadLen(m)
    <3>1. at = 1 + c + l + c /\ hd = 3 * n + 5 /\ l = 3 * n /\ c = 2 /\ n \in Nat
      BY <1>8, <2>1, <2>h
    <3> HIDE DEF at, hd
    <3>2. i \in Int
      OBVIOUS
    <3>3. hd + i - 1 + 1 = at + i
      BY <3>1, <3>2
    <3>4. HeadLen(m) + i - 1 + 1 = Len(abcd) + i
      BY <3>3 DEF at, hd
    <3> QED BY <3>4, <1>7 DEF Sent
  <2> QED BY <2>2, <2>3, <2>4, <2>5, <2>6 DEF Layout
<1> QED BY <1>7, <1>13, <1>14, <1>15, <1>16

-----------------------------------------------------------------------------
(* Type correctness                                                        *)

\* TypeOK in groups of variables.
NetTypes ==
    /\ msg \in Messages \cup {NoMsg} /\ rest \in Seq(Token) /\ sock \in Seq(Token)
    /\ gone \in BOOLEAN /\ asked \in 0..MaxRequests /\ pieces \in 0..MaxPieces

PhaseType == phase \in {"idle", "reading", "parsing", "deciding", "answering", "closed", "stuck"}

BufType == buf \in [0..(BufSize - 1) -> Token]

PlaceTypes ==
    readidx \in 0..BufSize /\ checkedidx \in 0..readidx /\ startline \in 0..checkedidx

ParsedTypes ==
    /\ check \in {"line", "header", "content"} /\ method \in {"get", "post"}
    /\ url \in -1..(BufSize - 1) /\ boundary \in -1..(BufSize - 1)
    /\ linger \in BOOLEAN /\ length \in Nat

FileTypes == tmp \in Seq(Token) \cup {NoFile} /\ tmplen \in Int /\ stored \in Seq(Token)

HistoryTypes == intact \in BOOLEAN /\ outside \in BOOLEAN /\ reply \in Answer \cup {NoReply}

\* A request that has not arrived has a piece left to arrive in: the last one takes the
\* rest.
PieceLeft == rest # <<>> => pieces < MaxPieces

\* TypeOK is the conjunction of its groups, which the steps below keep one at a time.
LEMMA TypeGroups ==
    TypeOK <=> /\ NetTypes /\ PhaseType /\ BufType /\ PlaceTypes
               /\ ParsedTypes /\ FileTypes /\ HistoryTypes
BY DEF TypeOK, NetTypes, PhaseType, BufType, PlaceTypes, ParsedTypes, FileTypes, HistoryTypes

\* A step of do_request() that gives an answer.
DecideStep == Upload \/ UploadUnsaved \/ UploadRefused \/ OtherRequest

\* The steps of the program and its client, by name.
LEMMA NextCases ==
    ASSUME [Next]_vars
    PROVE  \/ \E m \in Messages : Send(m)
           \/ \E n \in 1..Len(rest) : Arrive(n)
           \/ HangUp \/ Connect \/ CloseIdle
           \/ Event \/ Recv \/ WouldBlock \/ RecvFails \/ Spill \/ SpillWithoutFile
           \/ NoLine \/ RequestLine \/ BadRequestLine \/ HeaderLine \/ BlankLine
           \/ Content \/ ContentMore
           \/ Upload \/ UploadUnsaved \/ UploadStuck \/ UploadRefused \/ OtherRequest
           \/ Keep \/ Drop
           \/ UNCHANGED vars
BY DEF Next, Client, Read, ProcessRead, DoRequest

\* Tokens of m_readbuf as init() leaves it.
Zeroed == [i \in 0..(BufSize - 1) |-> NUL]

\* A zeroed m_readbuf is a buffer, and the lines of the program's own texts are of tokens.
LEMMA ZeroedType == Zeroed \in [0..(BufSize - 1) -> Token] /\ NUL \in Token /\ LinesOfUse \subseteq Token
BY DEF Zeroed, Token

\* What ParserAssumption says of the numbers.
LEMMA BufSizes ==
    /\ BufSize \in Nat /\ BufSize >= 1 /\ MaxRequests \in Nat
    /\ MaxPieces \in Nat /\ MaxPieces >= 1
    /\ \A h \in DOMAIN Length : Length[h] \in Nat /\ Length[h] # 0
BY ParserAssumption

\* recv() takes something and no more than there is and than m_readbuf has room for.
LEMMA Taken ==
    ASSUME TypeOK, Recv
    PROVE  \E n \in Nat :
              /\ n > 0 /\ n <= Len(sock) /\ n <= BufSize - readidx
              /\ n = Len(sock) \/ n = BufSize - readidx
              /\ Received(n)
<1> DEFINE n == Min({Len(sock), BufSize - readidx})
<1>1. sock \in Seq(Token) /\ readidx \in Nat /\ readidx < BufSize /\ BufSize \in Nat
  BY BufSizes DEF TypeOK, Recv
<1>2. Len(sock) \in Nat /\ BufSize - readidx \in Nat
  BY <1>1, LenProperties
<1>3. n = IF Len(sock) <= BufSize - readidx THEN Len(sock) ELSE BufSize - readidx
  BY <1>2, MinOfTwo
<1>4. Received(n)
  BY DEF Recv
<1> HIDE DEF n
<1>5. n > 0
  BY <1>4 DEF Received
<1>6. n \in Nat /\ n <= Len(sock) /\ n <= BufSize - readidx /\ (n = Len(sock) \/ n = BufSize - readidx)
  BY <1>2, <1>3
<1> QED BY <1>4, <1>5, <1>6

\* parse_line() stops within what is there to parse, and the line it finds ends there.
LEMMA StopIs ==
    ASSUME TypeOK
    PROVE  /\ Stop \in checkedidx..readidx
           /\ \A i \in checkedidx..(Stop - 1) : buf[i] \notin {CR, LF}
           /\ Stop < readidx => buf[Stop] \in {CR, LF}
<1> DEFINE T == {i \in checkedidx..(readidx - 1) : buf[i] \in {CR, LF}} \cup {readidx}
<1>1. checkedidx \in Nat /\ readidx \in Nat /\ checkedidx <= readidx
  BY DEF TypeOK
<1>2. T \subseteq Nat /\ T # {}
  BY <1>1
<1>3. Min(T) \in T /\ \A i \in T : Min(T) <= i
  <2> HIDE DEF T
  <2> QED BY <1>2, MinOfNats
<1>4. Min(T) \in checkedidx..readidx
  BY <1>1, <1>3
<1>5. ASSUME NEW i \in checkedidx..(Min(T) - 1) PROVE buf[i] \notin {CR, LF}
  <2>1. i \in checkedidx..(readidx - 1) /\ ~(Min(T) <= i)
    BY <1>1, <1>4
  <2>2. i \notin T
    BY <1>3, <2>1
  <2> QED BY <2>1, <2>2
<1>6. Min(T) < readidx => buf[Min(T)] \in {CR, LF}
  BY <1>1, <1>3
<1>7. Stop = Min(T)
  BY DEF Stop
<1> QED BY <1>4, <1>5, <1>6, <1>7

\* The line that parse_line() finds begins where the last one ended and lies in what was read.
LEMMA LineEndIs ==
    ASSUME TypeOK
    PROVE  \/ LineEnd = -1
           \/ /\ LineEnd \in Nat /\ startline <= LineEnd + 1 /\ LineEnd + 1 < readidx
              /\ LineEnd + 2 <= BufSize
<1> DEFINE stop == Stop
<1>1. /\ stop \in checkedidx..readidx /\ checkedidx \in Nat /\ readidx \in Nat /\ readidx <= BufSize
      /\ startline \in Nat /\ startline <= checkedidx /\ BufSize \in Nat
  BY StopIs, BufSizes DEF TypeOK
<1> HIDE DEF stop
<1>2. CASE stop + 1 < readidx /\ buf[stop] = CR /\ buf[stop + 1] = LF
  <2>1. LineEnd = stop
    BY <1>2 DEF LineEnd, stop, CR, LF
  <2> QED BY <1>1, <1>2, <2>1
<1>3. CASE ~(stop + 1 < readidx /\ buf[stop] = CR /\ buf[stop + 1] = LF)
           /\ stop < readidx /\ buf[stop] = LF /\ stop > 1 /\ buf[stop - 1] = CR
  <2>1. LineEnd = stop - 1
    BY <1>3 DEF LineEnd, stop
  <2> QED BY <1>1, <1>3, <2>1
<1>4. CASE /\ ~(stop + 1 < readidx /\ buf[stop] = CR /\ buf[stop + 1] = LF)
           /\ ~(stop < readidx /\ buf[stop] = LF /\ stop > 1 /\ buf[stop - 1] = CR)
  BY <1>4 DEF LineEnd, stop
<1> QED BY <1>2, <1>3, <1>4

\* What process_read() does with a line besides what the line says.
LEMMA TakenLine ==
    ASSUME TypeOK, TakeLine
    PROVE  /\ BufType' /\ PlaceTypes' /\ FileTypes'
           /\ startline \in 0..(BufSize - 1) /\ LineEnd \in Nat
           /\ UNCHANGED <<client, network, readidx, tmp, tmplen, stored, intact, outside>>
<1>1. /\ buf' = [buf EXCEPT ![LineEnd] = NUL, ![LineEnd + 1] = NUL]
      /\ checkedidx' = LineEnd + 2 /\ startline' = LineEnd + 2 /\ LineEnd # -1
      /\ UNCHANGED <<client, network, readidx, tmp, tmplen, stored, intact, outside>>
  BY DEF TakeLine
<1>2. /\ LineEnd \in Nat /\ startline <= LineEnd + 1 /\ LineEnd + 1 < readidx
      /\ LineEnd + 2 <= BufSize
  BY <1>1, LineEndIs
<1>3. BufType'
  BY <1>1, ZeroedType DEF BufType, TypeOK
<1>4. PlaceTypes' /\ startline \in 0..(BufSize - 1)
  BY <1>1, <1>2, BufSizes DEF PlaceTypes, TypeOK
<1>5. FileTypes'
  BY <1>1 DEF FileTypes, TypeOK
<1> QED BY <1>1, <1>2, <1>3, <1>4, <1>5

\* What an answer says of the request.
LEMMA ReplyType ==
    ASSUME TypeOK, NEW code \in {"bad", "stored", "unsaved", "page"}, Reply(code)
    PROVE  reply' \in Answer /\ reply' # NoReply
<1> DEFINE a == checkedidx + length
           j == Min({a, readidx})
<1>1. /\ checkedidx \in Nat /\ readidx \in Nat /\ readidx <= BufSize /\ length \in Nat
      /\ buf \in [0..(BufSize - 1) -> Token] /\ BufSize \in Nat
      /\ method \in {"get", "post"} /\ linger \in BOOLEAN
  BY BufSizes DEF TypeOK
<1>2. j = IF a <= readidx THEN a ELSE readidx
  <2>1. a \in Int
    BY <1>1
  <2> HIDE DEF a
  <2> QED BY <1>1, <2>1, MinOfTwo
<1>3. j \in Nat /\ j <= BufSize
  BY <1>1, <1>2
<1> HIDE DEF j
<1>4. Slice(checkedidx, j) \in Seq(Token)
  BY <1>1, <1>3, SliceType
<1>5. reply' = [code |-> code, method |-> method, linger |-> linger, body |-> Slice(checkedidx, j)]
  BY DEF Reply, j
<1>6. reply' \in Answer
  BY <1>1, <1>4, <1>5 DEF Answer
<1> QED BY <1>6, ParserAssumption

\* What is saved of an upload is a sequence of tokens.
LEMMA ContentType ==
    ASSUME TypeOK, HasFile
    PROVE  FileContent \in Seq(Token)
<1> DEFINE T == {i \in DOMAIN Form : Form[i] = "part"}
           start == Min(T)
           next == {i \in (start + 1)..Len(Form) : Form[i] \in {"part", "end"}}
<1>1. /\ checkedidx \in Nat /\ readidx \in Nat /\ readidx <= BufSize
      /\ buf \in [0..(BufSize - 1) -> Token] /\ BufSize \in Nat
  BY BufSizes DEF TypeOK
<1>2. Form \in Seq(Token)
  BY <1>1, StringType DEF Form, StringAt
<1>3. Len(Form) \in Nat /\ DOMAIN Form = 1..Len(Form) /\ \A i \in 1..Len(Form) : Form[i] \in Token
  BY <1>2, LenProperties, ElementOfSeq
<1>4. T \subseteq Nat /\ T # {}
  BY <1>3 DEF HasFile, Contains
<1>5. start \in 1..Len(Form)
  <2>1. start \in T
    <3> HIDE DEF T
    <3> QED BY <1>4, MinOfNats
  <2> HIDE DEF start
  <2> QED BY <1>3, <2>1
<1>6. CASE Boundary = <<>>
  <2>1. FileContent = <<>>
    BY <1>6 DEF FileContent
  <2> QED BY <2>1, EmptySeq
<1>7. CASE Boundary # <<>> /\ next # {}
  <2>1. FileContent = SubSeq(Form, start + 1, Min(next) - 1)
    BY <1>7 DEF FileContent
  <2> HIDE DEF start
  <2>2. next \subseteq Nat
    BY <1>3, <1>5
  <2>3. Min(next) \in next
    <3> HIDE DEF next
    <3> QED BY <1>7, <2>2, MinOfNats
  <2>4. Min(next) \in (start + 1)..Len(Form)
    BY <2>3
  <2> HIDE DEF next
  <2>5. /\ start + 1 \in Int /\ Min(next) - 1 \in Int
        /\ \A i \in (start + 1)..(Min(next) - 1) : i \in 1..Len(Form)
    BY <1>3, <1>5, <2>4
  <2>6. \A i \in (start + 1)..(Min(next) - 1) : Form[i] \in Token
    BY <1>3, <2>5
  <2>7. SubSeq(Form, start + 1, Min(next) - 1) \in Seq(Token)
    BY <2>5, <2>6, SubSeqProperties
  <2> QED BY <2>1, <2>7
<1>8. CASE Boundary # <<>> /\ next = {}
  <2>1. FileContent = Slice(checkedidx + start, readidx)
    BY <1>8 DEF FileContent
  <2> HIDE DEF start
  <2>2. checkedidx + start \in Nat
    BY <1>1, <1>3, <1>5
  <2>3. Slice(checkedidx + start, readidx) \in Seq(Token)
    BY <1>1, <2>2, SliceType
  <2> QED BY <2>1, <2>3
<1> QED BY <1>6, <1>7, <1>8

\* What is saved over another file is a sequence of tokens.
LEMMA OverType ==
    ASSUME NEW new \in Seq(Token), NEW old \in Seq(Token)
    PROVE  Over(new, old) \in Seq(Token)
<1>1. Len(new) \in Nat /\ Len(old) \in Nat
  BY LenProperties
<1>2. \A i \in (Len(new) + 1)..Len(old) : i \in 1..Len(old)
  BY <1>1
<1>3. \A i \in (Len(new) + 1)..Len(old) : old[i] \in Token
  BY <1>2, ElementOfSeq
<1>4. Len(new) + 1 \in Int /\ Len(old) \in Int
  BY <1>1
<1>5. SubSeq(old, Len(new) + 1, Len(old)) \in Seq(Token)
  BY <1>3, <1>4, SubSeqProperties
<1> QED BY <1>5, ConcatProperties DEF Over

\* Every step keeps the types; a request under way keeps a piece to arrive in.
LEMMA TypeStep ==
    ASSUME TypeOK, PieceLeft, [Next]_vars
    PROVE  TypeOK' /\ PieceLeft'
<1>0. /\ NetTypes /\ PhaseType /\ BufType /\ PlaceTypes /\ ParsedTypes /\ FileTypes /\ HistoryTypes
      /\ PieceLeft
  BY TypeGroups
<1>g. NetTypes' /\ PhaseType' /\ BufType' /\ PlaceTypes' /\ ParsedTypes' /\ FileTypes' /\ HistoryTypes'
        => TypeOK'
  BY DEF TypeOK, NetTypes, PhaseType, BufType, PlaceTypes, ParsedTypes, FileTypes, HistoryTypes
<1>b. /\ BufSize \in Nat /\ BufSize >= 1 /\ MaxRequests \in Nat
      /\ MaxPieces \in Nat /\ MaxPieces >= 1
      /\ \A h \in DOMAIN Length : Length[h] \in Nat
  BY BufSizes
<1> SUFFICES /\ NetTypes' /\ PhaseType' /\ BufType' /\ PlaceTypes'
             /\ ParsedTypes' /\ FileTypes' /\ HistoryTypes' /\ PieceLeft'
  BY <1>g
<1>net. ASSUME UNCHANGED <<client, network>> PROVE NetTypes' /\ PieceLeft'
  BY <1>0, <1>net DEF client, network, NetTypes, PieceLeft
<1>conn. ASSUME UNCHANGED conn, stored' = stored
         PROVE  BufType' /\ PlaceTypes' /\ ParsedTypes' /\ FileTypes'
  <2>1. BufType' /\ PlaceTypes'
    BY <1>0, <1>conn DEF conn, parsed, BufType, PlaceTypes
  <2>2. ParsedTypes'
    BY <1>0, <1>conn DEF conn, parsed, ParsedTypes
  <2>3. FileTypes'
    BY <1>0, <1>conn DEF conn, parsed, FileTypes
  <2> QED BY <2>1, <2>2, <2>3
<1>hist. ASSUME UNCHANGED history PROVE HistoryTypes'
  BY <1>0, <1>hist DEF history, HistoryTypes
<1>fresh. ASSUME Fresh, stored' = stored PROVE BufType' /\ PlaceTypes' /\ ParsedTypes' /\ FileTypes'
  <2>1. BufType'
    BY <1>fresh, ZeroedType DEF Fresh, BufType, Zeroed
  <2>2. PlaceTypes'
    BY <1>fresh, <1>b DEF Fresh, PlaceTypes
  <2>3. ParsedTypes'
    <3>1. -1 \in -1..(BufSize - 1) /\ 0 \in Nat
      BY <1>b
    <3>2. /\ check' = "line" /\ method' = "get" /\ url' = -1 /\ linger' = FALSE
          /\ length' = 0 /\ boundary' = -1
      BY <1>fresh DEF Fresh
    <3> QED BY <3>1, <3>2 DEF ParsedTypes
  <2>4. FileTypes'
    BY <1>0, <1>fresh DEF Fresh, FileTypes
  <2> QED BY <2>1, <2>2, <2>3, <2>4
<1>1. ASSUME NEW m \in Messages, Send(m)
      PROVE  /\ NetTypes' /\ PhaseType' /\ BufType' /\ PlaceTypes'
             /\ ParsedTypes' /\ FileTypes' /\ HistoryTypes' /\ PieceLeft'
  <2>1. /\ asked' = asked + 1 /\ asked < MaxRequests /\ msg' = m /\ rest' = Encode(m) /\ pieces' = 0
        /\ UNCHANGED <<sock, gone, phase, conn, stored>>
        /\ intact' = (readidx = 0 /\ sock = <<>>) /\ outside' = FALSE /\ reply' = NoReply
    BY <1>1 DEF Send
  <2>2. Encode(m) \in Seq(Token)
    BY EncodeIs
  <2>3. NetTypes' /\ PieceLeft'
    BY <1>0, <1>b, <2>1, <2>2 DEF NetTypes, PieceLeft
  <2>4. HistoryTypes'
    BY <2>1 DEF HistoryTypes
  <2>5. PhaseType'
    BY <1>0, <2>1 DEF PhaseType
  <2> QED BY <1>conn, <2>1, <2>3, <2>4, <2>5
<1>2. ASSUME NEW n \in 1..Len(rest), Arrive(n)
      PROVE  /\ NetTypes' /\ PhaseType' /\ BufType' /\ PlaceTypes'
             /\ ParsedTypes' /\ FileTypes' /\ HistoryTypes' /\ PieceLeft'
  <2>1. /\ pieces = MaxPieces - 1 => n = Len(rest)
        /\ pieces' = pieces + 1
        /\ sock' = sock \o SubSeq(rest, 1, n)
        /\ rest' = SubSeq(rest, n + 1, Len(rest))
        /\ UNCHANGED <<msg, gone, asked, phase, conn, stored, history>>
    BY <1>2 DEF Arrive
  <2>2. rest \in Seq(Token) /\ sock \in Seq(Token) /\ Len(rest) \in Nat
    BY <1>0, LenProperties DEF NetTypes
  <2>3. SubSeq(rest, 1, n) \in Seq(Token)
    <3>1. \A i \in 1..n : i \in 1..Len(rest)
      BY <2>2
    <3>2. \A i \in 1..n : rest[i] \in Token
      BY <2>2, <3>1, ElementOfSeq
    <3> QED BY <2>2, <3>2, SubSeqProperties
  <2>4. /\ SubSeq(rest, n + 1, Len(rest)) \in Seq(Token)
        /\ n = Len(rest) => SubSeq(rest, n + 1, Len(rest)) = <<>>
    <3>1. \A i \in (n + 1)..Len(rest) : i \in 1..Len(rest)
      BY <2>2
    <3>2. \A i \in (n + 1)..Len(rest) : rest[i] \in Token
      BY <2>2, <3>1, ElementOfSeq
    <3>3. n + 1 \in Int /\ Len(rest) \in Int
      BY <2>2
    <3>4. SubSeq(rest, n + 1, Len(rest)) \in Seq(Token)
      BY <3>2, <3>3, SubSeqProperties
    <3>5. n = Len(rest) => Len(rest) < n + 1
      BY <2>2
    <3> QED BY <3>3, <3>4, <3>5, SubSeqEmpty
  <2>5. rest # <<>>
    BY <2>2
  <2>6. sock' \in Seq(Token) /\ rest' \in Seq(Token)
    BY <2>1, <2>2, <2>3, <2>4, ConcatProperties
  <2>7. pieces' \in 0..MaxPieces /\ PieceLeft'
    <3>1. pieces \in Nat /\ MaxPieces \in Nat /\ pieces < MaxPieces
      BY <1>0, <1>b, <2>5 DEF NetTypes, PieceLeft
    <3>2. rest' # <<>> => pieces # MaxPieces - 1
      BY <2>1, <2>4
    <3>3. pieces' = pieces + 1
      BY <2>1
    <3> QED BY <3>1, <3>2, <3>3 DEF PieceLeft
  <2>8. NetTypes'
    BY <1>0, <2>1, <2>6, <2>7 DEF NetTypes
  <2>9. PhaseType'
    BY <1>0, <2>1 DEF PhaseType
  <2> QED BY <1>conn, <1>hist, <2>1, <2>7, <2>8, <2>9
<1>3. CASE HangUp
  <2>1. gone' = TRUE /\ UNCHANGED <<client, sock, phase, conn, stored, history>>
    BY <1>3 DEF HangUp
  <2>2. NetTypes' /\ PieceLeft'
    BY <1>0, <2>1 DEF NetTypes, PieceLeft, client
  <2>3. PhaseType'
    BY <1>0, <2>1 DEF PhaseType
  <2> QED BY <1>conn, <1>hist, <2>1, <2>2, <2>3
<1>4. CASE Connect
  <2>1. /\ phase' = "idle" /\ msg' = NoMsg /\ rest' = <<>> /\ sock' = <<>> /\ gone' = FALSE
        /\ pieces' = 0 /\ Fresh /\ reply' = NoReply
        /\ UNCHANGED <<asked, stored, intact, outside>>
    BY <1>4 DEF Connect, Goto
  <2>e. <<>> \in Seq(Token)
    BY EmptySeq
  <2>n. NetTypes'
    <3>1. msg' \in Messages \cup {NoMsg} /\ rest' \in Seq(Token) /\ sock' \in Seq(Token)
      BY <2>1, <2>e
    <3>2. gone' \in BOOLEAN /\ asked' \in 0..MaxRequests
      BY <1>0, <2>1 DEF NetTypes
    <3>3. pieces' \in 0..MaxPieces
      BY <1>b, <2>1
    <3> QED BY <3>1, <3>2, <3>3 DEF NetTypes
  <2>2. NetTypes' /\ PieceLeft'
    BY <2>1, <2>n DEF PieceLeft
  <2>3. PhaseType' /\ HistoryTypes'
    BY <1>0, <2>1 DEF PhaseType, HistoryTypes
  <2> QED BY <1>fresh, <2>1, <2>2, <2>3
<1>5. CASE CloseIdle \/ Event \/ WouldBlock \/ RecvFails \/ SpillWithoutFile \/ Drop
  <2>1. PhaseType'
    BY <1>5 DEF CloseIdle, Event, WouldBlock, RecvFails, SpillWithoutFile, Drop, Goto, PhaseType
  <2>2. UNCHANGED <<client, network, conn, stored, history>>
    BY <1>5 DEF CloseIdle, Event, WouldBlock, RecvFails, SpillWithoutFile, Drop
  <2> QED BY <1>net, <1>conn, <1>hist, <2>1, <2>2
<1>6. CASE Recv
  <2>1. PICK n \in Nat : /\ n > 0 /\ n <= Len(sock) /\ n <= BufSize - readidx /\ Received(n)
    BY <1>6, Taken
  <2>2. /\ buf' = [i \in DOMAIN buf |-> IF i < n THEN sock[i + 1] ELSE buf[i]]
        /\ sock' = SubSeq(sock, n + 1, Len(sock)) /\ readidx' = readidx + n
        /\ intact' = (intact /\ readidx = 0)
        /\ UNCHANGED <<client, gone, phase, parsed, tmp, tmplen, stored, outside, reply>>
    BY <2>1 DEF Received
  <2>3. sock \in Seq(Token) /\ Len(sock) \in Nat /\ \A i \in 1..Len(sock) : sock[i] \in Token
    BY <1>0, LenProperties, ElementOfSeq DEF NetTypes
  <2>4. BufType'
    <3>1. DOMAIN buf = 0..(BufSize - 1) /\ \A i \in 0..(BufSize - 1) : buf[i] \in Token
      BY <1>0 DEF BufType
    <3>2. \A i \in 0..(BufSize - 1) : i < n => i + 1 \in 1..Len(sock)
      BY <1>b, <2>1, <2>3
    <3>3. \A i \in 0..(BufSize - 1) : i < n => sock[i + 1] \in Token
      BY <2>3, <3>2
    <3> QED BY <2>2, <3>1, <3>3 DEF BufType
  <2>5. PlaceTypes'
    BY <1>0, <1>b, <2>1, <2>2 DEF PlaceTypes, parsed
  <2>6. sock' \in Seq(Token)
    <3>1. \A i \in (n + 1)..Len(sock) : i \in 1..Len(sock)
      BY <2>3
    <3>2. \A i \in (n + 1)..Len(sock) : sock[i] \in Token
      BY <2>3, <3>1
    <3>3. n + 1 \in Int /\ Len(sock) \in Int
      BY <2>3
    <3> QED BY <2>2, <3>2, <3>3, SubSeqProperties
  <2>7. NetTypes' /\ PieceLeft'
    BY <1>0, <2>2, <2>6 DEF NetTypes, PieceLeft, client
  <2>8. ParsedTypes'
    BY <1>0, <2>2 DEF ParsedTypes, parsed
  <2>9. FileTypes'
    BY <1>0, <2>2 DEF FileTypes
  <2>10. HistoryTypes'
    BY <1>0, <2>2 DEF HistoryTypes
  <2>11. PhaseType'
    BY <1>0, <2>2 DEF PhaseType
  <2> QED BY <2>4, <2>5, <2>7, <2>8, <2>9, <2>10, <2>11
<1>7. CASE Spill
  <2>1. /\ phase' = "parsing" /\ tmp' = (IF tmp = NoFile THEN <<>> ELSE tmp) \o sock
        /\ \E error \in {0, 1} : tmplen' = tmplen + Len(sock) - error
        /\ sock' = <<>>
        /\ UNCHANGED <<client, gone, buf, readidx, parsed, stored, history>>
    <3>1. \E error \in {0} \cup (IF gone THEN {1} ELSE {}) : tmplen' = tmplen + Len(sock) - error
      BY <1>7 DEF Spill
    <3>2. {0} \cup (IF gone THEN {1} ELSE {}) \subseteq {0, 1}
      OBVIOUS
    <3> QED BY <1>7, <3>1, <3>2 DEF Spill, Goto
  <2>2. sock \in Seq(Token) /\ Len(sock) \in Nat
    BY <1>0, LenProperties DEF NetTypes
  <2>3. tmp' \in Seq(Token)
    <3>1. (IF tmp = NoFile THEN <<>> ELSE tmp) \in Seq(Token)
      BY <1>0, EmptySeq DEF FileTypes
    <3> QED BY <2>1, <2>2, <3>1, ConcatProperties
  <2>4. tmplen' \in Int
    BY <1>0, <2>1, <2>2 DEF FileTypes
  <2>5. FileTypes'
    BY <1>0, <2>1, <2>3, <2>4 DEF FileTypes
  <2>6. NetTypes' /\ PieceLeft'
    BY <1>0, <2>1, EmptySeq DEF NetTypes, PieceLeft, client
  <2>7. BufType' /\ PlaceTypes'
    BY <1>0, <2>1 DEF BufType, PlaceTypes, parsed
  <2>8. ParsedTypes'
    BY <1>0, <2>1 DEF ParsedTypes, parsed
  <2>9. PhaseType'
    BY <2>1 DEF PhaseType
  <2> QED BY <1>hist, <2>1, <2>5, <2>6, <2>7, <2>8, <2>9
<1>8. CASE NoLine
  <2>1. /\ phase' = "idle" /\ checkedidx' = Stop
        /\ UNCHANGED <<client, network, buf, readidx, startline, check, method, url, linger,
                       length, boundary, tmp, tmplen, stored, history>>
    BY <1>8 DEF NoLine, Goto
  <2>2. PlaceTypes'
    BY <1>0, <2>1, StopIs, <1>b DEF PlaceTypes
  <2>3. BufType' /\ PhaseType'
    BY <1>0, <2>1 DEF BufType, PhaseType
  <2>4. ParsedTypes'
    BY <1>0, <2>1 DEF ParsedTypes
  <2>5. FileTypes'
    BY <1>0, <2>1 DEF FileTypes
  <2> QED BY <1>net, <1>hist, <2>1, <2>2, <2>3, <2>4, <2>5
<1>9. CASE RequestLine \/ BadRequestLine \/ HeaderLine \/ BlankLine
  <2>1. TakeLine
    BY <1>9 DEF RequestLine, BadRequestLine, HeaderLine, BlankLine
  <2>2. /\ BufType' /\ PlaceTypes' /\ FileTypes' /\ startline \in 0..(BufSize - 1)
        /\ UNCHANGED <<client, network, readidx, tmp, tmplen, stored, intact, outside>>
    BY <2>1, TakenLine
  <2>3. PhaseType'
    BY <1>0, <1>9 DEF RequestLine, BadRequestLine, HeaderLine, BlankLine, PhaseType
  <2>4. startline \in -1..(BufSize - 1)
    BY <1>b, <2>2
  <2>5. ParsedTypes'
    <3>1. CASE RequestLine
      <4>1. /\ \E line \in LinesOfUse : method' = IF line = "get" THEN "get" ELSE "post"
            /\ url' = startline /\ check' = "header"
            /\ UNCHANGED <<linger, length, boundary>>
        BY <3>1 DEF RequestLine
      <4>2. method' \in {"get", "post"}
        BY <4>1
      <4> QED BY <1>0, <2>4, <4>1, <4>2 DEF ParsedTypes
    <3>2. CASE BadRequestLine
      BY <1>0, <3>2 DEF BadRequestLine, ParsedTypes
    <3>3. CASE HeaderLine
      <4> DEFINE header == Line[1]
      <4>1. /\ linger' = IF header \in {"keep", "close"} THEN Line # <<"close">> ELSE linger
            /\ length' = IF header \in DOMAIN Length THEN Length[header] ELSE length
            /\ boundary' = IF header = "bound" THEN startline ELSE boundary
            /\ UNCHANGED <<check, method, url>>
        BY <3>3 DEF HeaderLine
      <4> HIDE DEF header
      <4>2. linger' \in BOOLEAN
        BY <1>0, <4>1 DEF ParsedTypes
      <4>3. length' \in Nat
        BY <1>0, <1>b, <4>1 DEF ParsedTypes
      <4>4. boundary' \in -1..(BufSize - 1)
        BY <1>0, <2>4, <4>1 DEF ParsedTypes
      <4> QED BY <1>0, <4>1, <4>2, <4>3, <4>4 DEF ParsedTypes
    <3>4. CASE BlankLine
      <4>1. /\ check' = IF length # 0 THEN "content" ELSE check
            /\ UNCHANGED <<method, url, linger, length, boundary>>
        BY <3>4 DEF BlankLine
      <4> QED BY <1>0, <4>1 DEF ParsedTypes
    <3> QED BY <1>9, <3>1, <3>2, <3>3, <3>4
  <2>6. HistoryTypes'
    <3>1. reply' = reply \/ Reply("bad")
      BY <1>9 DEF RequestLine, BadRequestLine, HeaderLine, BlankLine
    <3>2. reply' \in Answer \cup {NoReply}
      BY <1>0, <3>1, ReplyType DEF HistoryTypes
    <3> QED BY <1>0, <2>2, <3>2 DEF HistoryTypes
  <2> QED BY <1>net, <2>2, <2>3, <2>5, <2>6
<1>10. CASE Content
  <2> DEFINE at == checkedidx + length
  <2>1. /\ phase' = "deciding"
        /\ buf' = IF at < BufSize THEN [buf EXCEPT ![at] = NUL] ELSE buf
        /\ outside' = (outside \/ at >= BufSize)
        /\ startline' = checkedidx
        /\ UNCHANGED <<client, network, readidx, checkedidx, check, method, url, linger, length,
                       boundary, tmp, tmplen, stored, intact, reply>>
    BY <1>10 DEF Content, Goto
  <2>2. BufType'
    BY <1>0, <2>1, ZeroedType DEF BufType
  <2>3. PlaceTypes'
    BY <1>0, <2>1, <1>b DEF PlaceTypes
  <2>4. ParsedTypes'
    BY <1>0, <2>1 DEF ParsedTypes
  <2>5. FileTypes' /\ PhaseType'
    BY <1>0, <2>1 DEF FileTypes, PhaseType
  <2>6. HistoryTypes'
    BY <1>0, <2>1 DEF HistoryTypes
  <2> QED BY <1>net, <2>1, <2>2, <2>3, <2>4, <2>5, <2>6
<1>11. CASE ContentMore
  <2>1. /\ phase' = "idle" /\ startline' = checkedidx
        /\ UNCHANGED <<client, network, buf, readidx, checkedidx, check, method, url, linger,
                       length, boundary, tmp, tmplen, stored, history>>
    BY <1>11 DEF ContentMore, Goto
  <2>2. PlaceTypes'
    BY <1>0, <2>1, <1>b DEF PlaceTypes
  <2>3. BufType' /\ PhaseType'
    BY <1>0, <2>1 DEF BufType, PhaseType
  <2>4. ParsedTypes'
    BY <1>0, <2>1 DEF ParsedTypes
  <2>5. FileTypes'
    BY <1>0, <2>1 DEF FileTypes
  <2> QED BY <1>net, <1>hist, <2>1, <2>2, <2>3, <2>4, <2>5
<1>12. CASE DecideStep
  <2>1. PICK code \in {"bad", "stored", "unsaved", "page"} : Decide(code)
    BY <1>12 DEF DecideStep, Upload, UploadUnsaved, UploadRefused, OtherRequest
  <2>2. /\ phase' = "answering" /\ Reply(code)
        /\ UNCHANGED <<client, network, buf, readidx, parsed, intact, outside>>
    BY <2>1 DEF Decide, Goto
  <2>3. reply' \in Answer
    BY <2>2, ReplyType
  <2>4. HistoryTypes' /\ PhaseType'
    BY <1>0, <2>2, <2>3 DEF HistoryTypes, PhaseType
  <2>5. BufType' /\ PlaceTypes'
    BY <1>0, <2>2 DEF BufType, PlaceTypes, parsed
  <2>6. ParsedTypes'
    BY <1>0, <2>2 DEF ParsedTypes, parsed
  <2>7. FileTypes'
    <3>1. CASE Upload
      <4>1. /\ HasFile /\ stored' = Over(FileContent \o Spilled, stored)
            /\ tmplen' = tmplen + Len(Spilled) /\ tmp' = NoFile
        BY <3>1 DEF Upload
      <4>2. FileContent \in Seq(Token)
        BY <4>1, ContentType
      <4>3. Spilled \in Seq(Token)
        BY <1>0, EmptySeq DEF Spilled, FileTypes
      <4>4. Len(Spilled) \in Nat
        BY <4>3, LenProperties
      <4>5. FileContent \o Spilled \in Seq(Token)
        BY <4>2, <4>3, ConcatProperties
      <4>6. stored' \in Seq(Token)
        BY <1>0, <4>1, <4>5, OverType DEF FileTypes
      <4>7. tmplen' \in Int
        BY <1>0, <4>1, <4>4 DEF FileTypes
      <4> QED BY <4>1, <4>6, <4>7 DEF FileTypes
    <3>2. CASE UploadUnsaved \/ UploadRefused \/ OtherRequest
      BY <1>0, <3>2 DEF UploadUnsaved, UploadRefused, OtherRequest, FileTypes
    <3> QED BY <1>12, <3>1, <3>2 DEF DecideStep
  <2> QED BY <1>net, <2>2, <2>4, <2>5, <2>6, <2>7
<1>13. CASE Keep
  <2>1. phase' = "idle" /\ Fresh /\ UNCHANGED <<client, network, stored, history>>
    BY <1>13 DEF Keep, Goto
  <2>2. PhaseType'
    BY <2>1 DEF PhaseType
  <2> QED BY <1>net, <1>hist, <1>fresh, <2>1, <2>2
<1>14. CASE UNCHANGED vars
  <2>1. UNCHANGED <<client, network, conn, stored, history>> /\ phase' = phase
    BY <1>14 DEF vars
  <2>2. PhaseType'
    BY <1>0, <2>1 DEF PhaseType
  <2> QED BY <1>net, <1>conn, <1>hist, <2>1, <2>2
<1>15. CASE UploadStuck
  <2>1. /\ phase' = "stuck" /\ tmplen' = tmplen + Len(Spilled)
        /\ UNCHANGED <<client, network, buf, readidx, parsed, tmp, stored, history>>
    BY <1>15 DEF UploadStuck, Goto
  <2>2. Spilled \in Seq(Token)
    BY <1>0, EmptySeq DEF Spilled, FileTypes
  <2>3. tmplen' \in Int
    BY <1>0, <2>1, <2>2, LenProperties DEF FileTypes
  <2>4. FileTypes' /\ PhaseType'
    BY <1>0, <2>1, <2>3 DEF FileTypes, PhaseType
  <2>5. BufType' /\ PlaceTypes'
    BY <1>0, <2>1 DEF BufType, PlaceTypes, parsed
  <2>6. ParsedTypes'
    BY <1>0, <2>1 DEF ParsedTypes, parsed
  <2> QED BY <1>net, <1>hist, <2>1, <2>4, <2>5, <2>6
<1> QED BY <1>1, <1>2, <1>3, <1>4, <1>5, <1>6, <1>7, <1>8, <1>9, <1>10, <1>11, <1>12, <1>13,
           <1>14, <1>15, NextCases DEF DecideStep

-----------------------------------------------------------------------------
(* The inductive invariant                                                 *)

\* m_readbuf is empty only as init() leaves it, and never when it is to be parsed.
EmptyIsFresh ==
    readidx = 0 =>
        /\ buf = Zeroed /\ checkedidx = 0 /\ startline = 0
        /\ check = "line" /\ method = "get" /\ url = -1 /\ linger = FALSE
        /\ length = 0 /\ boundary = -1 /\ tmp = NoFile /\ tmplen = 0
        /\ phase \in {"idle", "reading", "closed"}
        /\ phase = "reading" => sock # <<>>

\* Only what m_readbuf has no room for goes to the temporary file.
SpilledFull == readidx # BufSize => tmp = NoFile /\ tmplen <= 0

\* Nothing arrives of a client that has sent nothing.
NothingUnsent == msg = NoMsg => readidx = 0 /\ sock = <<>> /\ rest = <<>> /\ reply = NoReply

AnswerSaid == phase = "answering" => reply # NoReply

\* Nothing is left to read of a request that was answered as it was sent, unless the
\* connection is to be closed.
NothingLeft ==
    intact /\ reply # NoReply =>
        /\ phase \in {"idle", "answering", "closed"}
        /\ phase = "idle" \/ (phase = "answering" /\ linger) => sock = <<>> /\ rest = <<>>

\* A request under way that recv() never stored over.
Alone == intact /\ msg # NoMsg /\ reply = NoReply /\ phase # "stuck"

\* What of it is not in m_readbuf: in the temporary file, with the kernel, under way.
Streamed ==
    /\ readidx <= Len(Encode(msg))
    /\ Spilled \o (sock \o rest) = SubSeq(Encode(msg), readidx + 1, Len(Encode(msg)))
    /\ tmplen <= Len(Spilled) /\ (gone \/ tmplen = Len(Spilled))

\* What of it is in m_readbuf: the lines not parsed are there as sent, the rest is zero.
Held ==
    /\ \A i \in startline..(readidx - 1) : buf[i] = Sent(msg, i)
    /\ \A i \in readidx..(BufSize - 1) : buf[i] = NUL

\* What process_read() knows after the request line and h headers.
Understood(h) ==
    /\ msg.eol = <<CR, LF>> /\ msg.line \in LinesOfUse
    /\ method = IF msg.line = "get" THEN "get" ELSE "post"
    /\ url = 0 /\ buf[0] = msg.line
    /\ linger <=> \E i \in 1..h : /\ msg.headers[i] = "keep"
                                  /\ \A j \in (i + 1)..h : msg.headers[j] # "close"
    /\ length \in {0, Len(msg.body)}
    /\ (\E i \in 1..h : msg.headers[i] \in DOMAIN Length) => length # 0
    /\ boundary = -1 <=> ~ \E i \in 1..h : msg.headers[i] = "bound"
    /\ boundary # -1 => /\ boundary + 1 < startline
                        /\ buf[boundary] = "bound" /\ buf[boundary + 1] = NUL

Nothing ==
    startline = 0 /\ linger = FALSE /\ length = 0 /\ boundary = -1

\* Of the line that is to be parsed nothing that parse_line() has passed ends it.
Passed == \A i \in startline..(checkedidx - 1) : buf[i] \notin {CR, LF}

HeadersRead(h) == startline = 3 * (h + 1) /\ Understood(h) /\ Passed

HeadRead ==
    /\ checkedidx = HeadLen(msg) /\ startline <= checkedidx
    /\ Understood(Len(msg.headers)) /\ length = Len(msg.body)

Parsed ==
    \/ check = "line" /\ phase # "deciding" /\ Nothing /\ Passed
    \/ check = "header" /\ phase # "deciding" /\ \E h \in 0..Len(msg.headers) : HeadersRead(h)
    \/ check = "content" /\ phase # "deciding" /\ HeadRead
    \/ /\ phase = "deciding" /\ HeadRead
       /\ readidx + Len(Spilled) >= Len(Encode(msg))

Undisturbed == Alone => Streamed /\ Held /\ Parsed

IInv ==
    /\ TypeOK /\ PieceLeft
    /\ EmptyIsFresh /\ SpilledFull /\ NothingUnsent /\ AnswerSaid
    /\ NothingLeft /\ Undisturbed /\ ParsedAsSent

-----------------------------------------------------------------------------
(* The control of the connection                                           *)

\* Steps that neither move nor parse anything.
StandStill ==
    /\ UNCHANGED <<msg, rest, sock, conn, intact, outside, reply, stored>>
    /\ gone => gone'
    /\ \/ phase' = phase
       \/ phase = "idle" /\ phase' = "reading" /\ sock # <<>>
       \/ phase = "reading" /\ phase' = "parsing" /\ sock = <<>>
       \/ phase = "reading" /\ phase' = "stuck" /\ readidx >= BufSize
       \/ phase \in {"idle", "reading", "answering"} /\ phase' = "closed"

\* The steps that do so, by name: events, timers, errors of recv() and the client's hang-up.
LEMMA StandStillSteps ==
    ASSUME HangUp \/ CloseIdle \/ Event \/ WouldBlock \/ RecvFails \/ SpillWithoutFile \/ Drop
             \/ UNCHANGED vars
    PROVE  StandStill
<1>1. CASE HangUp
  BY <1>1 DEF HangUp, StandStill, client, history
<1>2. CASE CloseIdle \/ Event \/ WouldBlock \/ RecvFails \/ Drop
  BY <1>2 DEF CloseIdle, Event, WouldBlock, RecvFails, Drop, Goto, StandStill, client, network, history
<1>3. CASE SpillWithoutFile
  BY <1>3 DEF SpillWithoutFile, Goto, StandStill, client, network, history
<1>4. CASE UNCHANGED vars
  BY <1>4 DEF vars, StandStill, client, network, history
<1> QED BY <1>1, <1>2, <1>3, <1>4

\* A step of process_read() takes a line or decides that there is none, from the buffer
\* alone.
ParseStep ==
    \/ NoLine \/ RequestLine \/ BadRequestLine \/ HeaderLine \/ BlankLine
    \/ Content \/ ContentMore

\* No step of process_read() receives or saves; the only answer it gives itself is to a bad
\* request line.
LEMMA ParseEffects ==
    ASSUME TypeOK, ParseStep
    PROVE  /\ phase = "parsing"
           /\ UNCHANGED <<msg, rest, sock, gone, readidx, tmp, tmplen, stored, intact>>
           /\ \/ reply' = reply /\ phase' \in {"idle", "parsing", "deciding"}
              \/ BadRequestLine /\ phase' = "answering" /\ Reply("bad")
<1>1. CASE NoLine \/ Content \/ ContentMore
  BY <1>1 DEF NoLine, Content, ContentMore, Goto, client, network, history
<1>2. CASE RequestLine \/ HeaderLine \/ BlankLine
  BY <1>2 DEF RequestLine, HeaderLine, BlankLine, TakeLine, client, network
<1>3. CASE BadRequestLine
  BY <1>3 DEF BadRequestLine, TakeLine, client, network
<1> QED BY <1>1, <1>2, <1>3 DEF ParseStep

\* do_request() answers whatever it decides; only an upload empties the temporary file.
LEMMA DecideEffects ==
    ASSUME TypeOK, DecideStep
    PROVE  /\ phase = "deciding" /\ phase' = "answering" /\ reply' # NoReply
           /\ UNCHANGED <<msg, rest, sock, buf, readidx, parsed, intact, outside>>
           /\ \/ UNCHANGED <<tmp, tmplen, stored>>
              \/ UploadUnsaved /\ tmp' = NoFile /\ UNCHANGED <<tmplen, stored>>
              \/ Upload /\ tmp' = NoFile /\ tmplen' = tmplen + Len(Spilled)
<1>1. PICK code \in {"bad", "stored", "unsaved", "page"} : Decide(code)
  BY DEF DecideStep, Upload, UploadUnsaved, UploadRefused, OtherRequest
<1>2. /\ phase = "deciding" /\ phase' = "answering" /\ Reply(code)
      /\ UNCHANGED <<msg, rest, sock, buf, readidx, parsed, intact, outside>>
  BY <1>1 DEF Decide, Goto, client, network
<1>3. reply' # NoReply
  BY <1>2, ReplyType
<1>4. \/ UNCHANGED <<tmp, tmplen, stored>>
      \/ UploadUnsaved /\ tmp' = NoFile /\ UNCHANGED <<tmplen, stored>>
      \/ Upload /\ tmp' = NoFile /\ tmplen' = tmplen + Len(Spilled)
  BY DEF DecideStep, Upload, UploadUnsaved, UploadRefused, OtherRequest
<1> QED BY <1>2, <1>3, <1>4

\* The steps of the program and its client, by what they do to the connection.
LEMMA StepKinds ==
    ASSUME TypeOK, [Next]_vars
    PROVE  \/ \E m \in Messages : Send(m)
           \/ \E n \in 1..Len(rest) : Arrive(n)
           \/ Connect \/ Keep \/ Recv \/ Spill
           \/ ParseStep
           \/ DecideStep \/ UploadStuck
           \/ StandStill
BY NextCases, StandStillSteps DEF ParseStep, DecideStep

\* When the buffer is empty, when the file is in use and when an answer is given: every step
\* keeps the four rules of the connection's control.
LEMMA ControlStep ==
    ASSUME IInv, [Next]_vars
    PROVE  EmptyIsFresh' /\ SpilledFull' /\ NothingUnsent' /\ AnswerSaid'
<1>0. /\ TypeOK /\ EmptyIsFresh /\ SpilledFull /\ NothingUnsent /\ AnswerSaid
      /\ BufSize \in Nat /\ BufSize >= 1 /\ readidx \in Nat /\ readidx <= BufSize
      /\ sock \in Seq(Token) /\ rest \in Seq(Token) /\ tmplen \in Int
  BY BufSizes DEF IInv, TypeOK
<1>p. phase \in {"parsing", "deciding", "answering", "stuck"} => readidx # 0
  BY <1>0 DEF EmptyIsFresh
<1>fresh. ASSUME Fresh, phase' = "idle" PROVE EmptyIsFresh' /\ SpilledFull' /\ readidx' = 0
  <2>1. SpilledFull' /\ readidx' = 0
    BY <1>fresh DEF SpilledFull, Fresh
  <2>2. EmptyIsFresh'
    BY <1>fresh DEF EmptyIsFresh, Fresh, Zeroed
  <2> QED BY <2>1, <2>2
<1>1. ASSUME NEW m \in Messages, Send(m)
      PROVE  EmptyIsFresh' /\ SpilledFull' /\ NothingUnsent' /\ AnswerSaid'
  <2>1. /\ phase = "idle" /\ UNCHANGED <<sock, phase, conn>> /\ msg' = m
        /\ rest = <<>> /\ (msg = NoMsg \/ reply # NoReply)
    BY <1>1 DEF Send
  <2>2. EmptyIsFresh' /\ SpilledFull' /\ AnswerSaid'
    BY <1>0, <2>1 DEF EmptyIsFresh, SpilledFull, AnswerSaid, conn, parsed, Zeroed
  <2>3. NothingUnsent'
    <3>1. m # NoMsg
      BY ParserAssumption
    <3> QED BY <2>1, <3>1 DEF NothingUnsent
  <2> QED BY <2>2, <2>3
<1>2. ASSUME NEW n \in 1..Len(rest), Arrive(n)
      PROVE  EmptyIsFresh' /\ SpilledFull' /\ NothingUnsent' /\ AnswerSaid'
  <2>1. /\ sock' = sock \o SubSeq(rest, 1, n) /\ UNCHANGED <<msg, phase, conn, history>>
        /\ phase \notin {"closed", "stuck"}
    BY <1>2 DEF Arrive
  <2>2. rest # <<>> /\ msg # NoMsg
    BY <1>0 DEF NothingUnsent
  <2>3. sock' # <<>>
    <3>1. Len(rest) \in Nat
      BY <1>0, LenProperties
    <3>2. \A i \in 1..n : i \in 1..Len(rest)
      BY <3>1
    <3>3. \A i \in 1..n : rest[i] \in Token
      BY <1>0, <3>2, ElementOfSeq
    <3>4. n \in Int /\ 1 <= n /\ n - 1 + 1 = n
      BY <3>1
    <3>5. SubSeq(rest, 1, n) \in Seq(Token) /\ Len(SubSeq(rest, 1, n)) = n
      BY <3>3, <3>4, SubSeqProperties
    <3>6. SubSeq(rest, 1, n) # <<>>
      BY <3>4, <3>5
    <3> DEFINE piece == SubSeq(rest, 1, n)
    <3> HIDE DEF piece
    <3>7. piece \in Seq(Token) /\ piece # <<>> /\ sock \in Seq(Token)
      BY <1>0, <3>5, <3>6 DEF piece
    <3>8. sock \o piece # <<>>
      BY <3>7, ConcatEqualIffEmpty
    <3> QED BY <2>1, <3>8 DEF piece
  <2>4. EmptyIsFresh' /\ SpilledFull' /\ AnswerSaid'
    BY <1>0, <2>1, <2>3 DEF EmptyIsFresh, SpilledFull, AnswerSaid, conn, parsed, Zeroed, history
  <2>5. NothingUnsent'
    BY <2>1, <2>2 DEF NothingUnsent
  <2> QED BY <2>4, <2>5
<1>3. CASE Connect
  <2>1. Fresh /\ phase' = "idle" /\ rest' = <<>> /\ sock' = <<>> /\ reply' = NoReply
    BY <1>3 DEF Connect, Goto
  <2> QED BY <1>fresh, <2>1 DEF NothingUnsent, AnswerSaid
<1>4. CASE Keep
  <2>1. Fresh /\ phase' = "idle" /\ UNCHANGED <<msg, rest, sock, reply>>
    BY <1>4 DEF Keep, Goto, client, network, history
  <2> QED BY <1>0, <1>fresh, <2>1 DEF NothingUnsent, AnswerSaid
<1>5. CASE Recv
  <2>1. PICK n \in Nat : n > 0 /\ n <= Len(sock) /\ n <= BufSize - readidx /\ Received(n)
    BY <1>0, <1>5, Taken
  <2>2. phase = "reading" /\ readidx < BufSize /\ readidx' = readidx + n
        /\ UNCHANGED <<msg, phase, tmp, tmplen>>
    BY <1>5, <2>1 DEF Recv, Received, client
  <2>3. readidx' # 0
    BY <1>0, <2>1, <2>2
  <2>4. sock # <<>> /\ msg # NoMsg
    BY <1>0, <2>1 DEF NothingUnsent
  <2>5. SpilledFull'
    BY <1>0, <2>2 DEF SpilledFull
  <2> QED BY <2>2, <2>3, <2>4, <2>5 DEF EmptyIsFresh, NothingUnsent, AnswerSaid
<1>6. CASE Spill
  <2>1. /\ phase' = "parsing" /\ readidx >= BufSize /\ sock' = <<>>
        /\ UNCHANGED <<msg, rest, readidx, reply>>
    BY <1>6 DEF Spill, Goto, client, history
  <2>2. readidx = BufSize
    BY <1>0, <2>1
  <2> QED BY <1>0, <2>1, <2>2 DEF EmptyIsFresh, SpilledFull, NothingUnsent, AnswerSaid
<1>7. CASE ParseStep
  <2>1. /\ phase = "parsing" /\ UNCHANGED <<msg, rest, sock, readidx, tmp, tmplen>>
        /\ \/ reply' = reply /\ phase' \in {"idle", "parsing", "deciding"}
           \/ BadRequestLine /\ phase' = "answering" /\ Reply("bad")
    BY <1>0, <1>7, ParseEffects
  <2>2. readidx # 0 /\ msg # NoMsg
    BY <1>0, <1>p, <2>1 DEF NothingUnsent
  <2>3. EmptyIsFresh' /\ SpilledFull' /\ NothingUnsent'
    BY <1>0, <2>1, <2>2 DEF EmptyIsFresh, SpilledFull, NothingUnsent
  <2>4. AnswerSaid'
    BY <1>0, <2>1, ReplyType DEF AnswerSaid
  <2> QED BY <2>3, <2>4
<1>8. CASE DecideStep
  <2>1. /\ phase = "deciding" /\ phase' = "answering" /\ reply' # NoReply
        /\ UNCHANGED <<msg, readidx>>
        /\ tmp' = tmp \/ tmp' = NoFile
        /\ tmplen' = tmplen \/ tmplen' = tmplen + Len(Spilled)
    BY <1>0, <1>8, DecideEffects
  <2>2. readidx # 0 /\ msg # NoMsg
    BY <1>0, <1>p, <2>1 DEF NothingUnsent
  <2>3. SpilledFull'
    <3>1. tmp = NoFile => Len(Spilled) = 0
      BY DEF Spilled
    <3> QED BY <1>0, <2>1, <3>1 DEF SpilledFull
  <2> QED BY <2>1, <2>2, <2>3 DEF EmptyIsFresh, NothingUnsent, AnswerSaid
<1>9. CASE StandStill
  <2>1. UNCHANGED <<msg, rest, sock, conn, reply>>
    BY <1>9 DEF StandStill
  <2>2. SpilledFull' /\ NothingUnsent'
    BY <1>0, <2>1 DEF SpilledFull, NothingUnsent, conn, parsed
  <2>3. AnswerSaid'
    BY <1>0, <1>9 DEF AnswerSaid, StandStill
  <2>4. readidx = 0 => /\ phase' \in {"idle", "reading", "closed"}
                       /\ phase' = "reading" => sock # <<>>
    BY <1>0, <1>9 DEF EmptyIsFresh, StandStill
  <2>5. EmptyIsFresh'
    BY <1>0, <2>1, <2>4 DEF EmptyIsFresh, conn, parsed, Zeroed
  <2> QED BY <2>2, <2>3, <2>5
<1>10. CASE UploadStuck
  <2>1. /\ phase = "deciding" /\ phase' = "stuck" /\ Spilled # <<>>
        /\ UNCHANGED <<msg, readidx, tmp>>
    BY <1>10 DEF UploadStuck, Goto, client
  <2>2. readidx # 0 /\ msg # NoMsg
    BY <1>0, <1>p, <2>1 DEF NothingUnsent
  <2>3. readidx = BufSize
    BY <1>0, <2>1 DEF SpilledFull, Spilled
  <2> QED BY <2>1, <2>2, <2>3 DEF EmptyIsFresh, SpilledFull, NothingUnsent, AnswerSaid
<1> QED BY <1>0, <1>1, <1>2, <1>3, <1>4, <1>5, <1>6, <1>7, <1>8, <1>9, <1>10, StepKinds

-----------------------------------------------------------------------------
(* The way of a request that recv() never stores over                      *)

\* What such a request is after a step, it was before; or it is just sent.
LEMMA AloneKinds ==
    ASSUME IInv, [Next]_vars, Alone'
    PROVE  \/ \E m \in Messages : Send(m)
           \/ /\ Alone /\ msg' = msg
              /\ \/ \E n \in 1..Len(rest) : Arrive(n)
                 \/ Recv /\ readidx = 0
                 \/ Spill
                 \/ ParseStep /\ reply' = reply
                 \/ StandStill
<1>0. TypeOK /\ AnswerSaid /\ HistoryTypes
  BY TypeGroups DEF IInv
<1>a. intact' /\ msg' # NoMsg /\ reply' = NoReply /\ phase' # "stuck"
  BY DEF Alone
<1>1. ASSUME NEW n \in 1..Len(rest), Arrive(n) PROVE Alone /\ msg' = msg
  BY <1>1, <1>a DEF Arrive, Alone, history
<1>2. ~Connect
  BY <1>a DEF Connect
<1>3. ~Keep
  BY <1>0, <1>a DEF Keep, Goto, AnswerSaid, history
<1>4. ASSUME Recv PROVE Alone /\ msg' = msg /\ readidx = 0
  <2>1. intact' = (intact /\ readidx = 0) /\ UNCHANGED <<msg, reply>>
    BY <1>4 DEF Recv, Received, client
  <2>2. intact /\ readidx = 0
    BY <1>0, <1>a, <2>1 DEF HistoryTypes
  <2>3. phase = "reading"
    BY <1>4 DEF Recv
  <2> QED BY <1>a, <2>1, <2>2, <2>3 DEF Alone
<1>5. ASSUME Spill PROVE Alone /\ msg' = msg
  BY <1>5, <1>a DEF Spill, Goto, Alone, history, client
<1>6. ASSUME ParseStep PROVE Alone /\ msg' = msg /\ reply' = reply
  <2>1. /\ UNCHANGED <<msg, intact>> /\ phase = "parsing"
        /\ reply' = reply \/ Reply("bad")
    BY <1>0, <1>6, ParseEffects
  <2>2. reply' = reply
    BY <1>0, <1>a, <2>1, ReplyType
  <2> QED BY <1>a, <2>1, <2>2 DEF Alone
<1>7. ~DecideStep
  BY <1>0, <1>a, DecideEffects
<1>8. ASSUME StandStill PROVE Alone /\ msg' = msg
  BY <1>8, <1>a DEF StandStill, Alone
<1>9. ~UploadStuck
  BY <1>a DEF UploadStuck, Goto
<1> QED BY <1>0, <1>1, <1>2, <1>3, <1>4, <1>5, <1>6, <1>7, <1>8, <1>9, StepKinds

\* What is left of two sequences behind a place in the first.
LEMMA RestOfConcat ==
    ASSUME NEW S, NEW s \in Seq(S), NEW t \in Seq(S), NEW n \in Nat, n <= Len(s)
    PROVE  /\ SubSeq(s, n + 1, Len(s)) \o t = SubSeq(s \o t, n + 1, Len(s \o t))
           /\ SubSeq(s, n + 1, Len(s)) \in Seq(S)
<1> DEFINE u == SubSeq(s, n + 1, Len(s))
           v == SubSeq(s \o t, n + 1, Len(s \o t))
           l == Len(s)
           k == Len(t)
<1>1. /\ l \in Nat /\ k \in Nat /\ s \o t \in Seq(S) /\ Len(s \o t) = l + k
      /\ \A i \in 1..l : (s \o t)[i] = s[i]
      /\ \A i \in 1..k : (s \o t)[l + i] = t[i]
  BY ConcatAt
<1>2. /\ u \in Seq(S) /\ Len(u) = l - n /\ \A i \in 1..(l - n) : u[i] = s[n + i]
  <2>1. \A i \in (n + 1)..l : i \in 1..Len(s)
    BY <1>1
  <2>2. \A i \in (n + 1)..l : s[i] \in S
    BY <2>1, ElementOfSeq
  <2>3. n + 1 \in Int /\ l \in Int
    BY <1>1
  <2>4. /\ u \in Seq(S) /\ Len(u) = IF n + 1 <= l THEN l - (n + 1) + 1 ELSE 0
        /\ \A i \in 1..(l - (n + 1) + 1) : u[i] = s[n + 1 + i - 1]
    BY <2>2, <2>3, SubSeqProperties
  <2> HIDE DEF u, l
  <2>5. l - (n + 1) + 1 = l - n /\ (n + 1 <= l \/ l = n) /\ \A i \in 1..(l - n) : n + 1 + i - 1 = n + i
    BY <1>1 DEF l
  <2>6. Len(u) = l - n
    BY <1>1, <2>4, <2>5
  <2>7. \A i \in 1..(l - n) : u[i] = s[n + i]
    BY <2>4, <2>5
  <2> QED BY <2>4, <2>6, <2>7
<1>3. /\ v \in Seq(S) /\ Len(v) = l + k - n /\ \A i \in 1..(l + k - n) : v[i] = (s \o t)[n + i]
  <2> DEFINE w == s \o t
             j == l + k
  <2>1. j \in Nat /\ n \in Nat /\ n <= j /\ w \in Seq(S) /\ Len(w) = j
    BY <1>1
  <2>0. v = SubSeq(w, n + 1, j)
    BY <1>1
  <2> HIDE DEF w, j, v
  <2>2. \A i \in (n + 1)..j : i \in 1..Len(w)
    BY <2>1
  <2>3. \A i \in (n + 1)..j : w[i] \in S
    BY <2>1, <2>2, ElementOfSeq
  <2>4. n + 1 \in Int /\ j \in Int
    BY <2>1
  <2>5. /\ SubSeq(w, n + 1, j) \in Seq(S)
        /\ Len(SubSeq(w, n + 1, j)) = IF n + 1 <= j THEN j - (n + 1) + 1 ELSE 0
        /\ \A i \in 1..(j - (n + 1) + 1) : SubSeq(w, n + 1, j)[i] = w[n + 1 + i - 1]
    BY <2>3, <2>4, SubSeqProperties
  <2>6. j - (n + 1) + 1 = j - n /\ (n + 1 <= j \/ j = n) /\ \A i \in 1..(j - n) : n + 1 + i - 1 = n + i
    BY <2>1
  <2>7. Len(v) = j - n
    BY <2>0, <2>1, <2>5, <2>6
  <2>8. \A i \in 1..(j - n) : v[i] = w[n + i]
    BY <2>0, <2>5, <2>6
  <2>9. v \in Seq(S)
    BY <2>0, <2>5
  <2>10. j = l + k
    BY DEF j
  <2>11. \A i \in 1..(j - n) : v[i] = (s \o t)[n + i]
    BY <2>8 DEF w
  <2> QED BY <2>7, <2>9, <2>10, <2>11
<1> HIDE DEF u, v
<1>4. /\ u \o t \in Seq(S) /\ Len(u \o t) = Len(u) + Len(t)
      /\ \A i \in 1..Len(u) : (u \o t)[i] = u[i]
      /\ \A i \in 1..Len(t) : (u \o t)[Len(u) + i] = t[i]
  <2>1. u \in Seq(S)
    BY <1>2
  <2> QED BY <2>1, ConcatAt
<1>5. n <= l
  OBVIOUS
<1> HIDE DEF l, k
<1>6. Len(u \o t) = Len(v)
  BY <1>1, <1>2, <1>3, <1>4, <1>5 DEF k
<1>7. ASSUME NEW i \in 1..(l + k - n) PROVE (u \o t)[i] = v[i]
  <2>1. CASE i <= l - n
    <3>1. i \in 1..(l - n) /\ n + i \in 1..l
      BY <1>1, <1>5, <2>1
    <3> QED BY <3>1, <1>1, <1>2, <1>3, <1>4, ZenonT(30)
  <2>2. CASE i > l - n
    <3>1. i - (l - n) \in 1..k /\ (l - n) + (i - (l - n)) = i /\ l + (i - (l - n)) = n + i
      BY <1>1, <1>5, <2>2
    <3>2. (u \o t)[(l - n) + (i - (l - n))] = t[i - (l - n)]
      BY <3>1, <1>2, <1>4 DEF k
    <3>3. (s \o t)[l + (i - (l - n))] = t[i - (l - n)]
      BY <3>1, <1>1
    <3> QED BY <3>1, <3>2, <3>3, <1>3
  <2>3. i <= l - n \/ i > l - n
    BY <1>1
  <2> QED BY <2>1, <2>2, <2>3
<1>8. \A i \in 1..Len(u \o t) : (u \o t)[i] = v[i]
  BY <1>3, <1>6, <1>7
<1>9. u \o t = v
  BY <1>3, <1>4, <1>6, <1>8, SeqEqual
<1> QED BY <1>2, <1>9 DEF u, v

\* What is not in m_readbuf only moves towards it.
LEMMA StreamStep ==
    ASSUME IInv, [Next]_vars, Alone'
    PROVE  Streamed'
<1>0. /\ TypeOK /\ EmptyIsFresh /\ SpilledFull /\ NothingUnsent
      /\ sock \in Seq(Token) /\ rest \in Seq(Token) /\ tmp \in Seq(Token) \cup {NoFile}
      /\ readidx \in Nat /\ tmplen \in Int /\ Len(sock) \in Nat /\ NoFile \notin Seq(Token)
  BY LenProperties, ParserAssumption DEF IInv, TypeOK
<1>n. Spilled \in Seq(Token) /\ Len(Spilled) \in Nat /\ <<>> \in Seq(Token)
  <2>1. Spilled \in Seq(Token) /\ <<>> \in Seq(Token)
    BY <1>0, EmptySeq DEF Spilled
  <2> QED BY <2>1, LenProperties
<1>1. ASSUME NEW m \in Messages, Send(m) PROVE Streamed'
  <2>1. /\ msg' = m /\ rest' = Encode(m) /\ UNCHANGED <<sock, readidx, tmp, tmplen>>
        /\ readidx = 0 /\ sock = <<>>
    BY <1>1 DEF Send, Alone, conn
  <2>2. tmp = NoFile /\ tmplen = 0
    BY <1>0, <2>1 DEF EmptyIsFresh
  <2>3. Encode(m) \in Seq(Token) /\ Len(Encode(m)) \in Nat
    BY EncodeIs, LenProperties
  <2>4. Encode(m) = SubSeq(Encode(m), 0 + 1, Len(Encode(m)))
    BY <2>3, SubSeqFull
  <2>5. <<>> \o (<<>> \o Encode(m)) = Encode(m)
    BY <2>3, ConcatEmptySeq
  <2>6. Spilled' = <<>>
    BY <2>1, <2>2 DEF Spilled
  <2>7. readidx' <= Len(Encode(m)) /\ tmplen' <= Len(Spilled') /\ tmplen' = Len(Spilled')
    BY <2>1, <2>2, <2>3, <2>6
  <2> QED BY <2>1, <2>4, <2>5, <2>6, <2>7 DEF Streamed
<1> DEFINE sent == Encode(msg)
<1>s. ASSUME Alone PROVE /\ msg \in Messages /\ sent \in Seq(Token) /\ Len(sent) \in Nat
                         /\ readidx <= Len(sent) /\ tmplen <= Len(Spilled)
                         /\ (gone \/ tmplen = Len(Spilled))
                         /\ Spilled \o (sock \o rest) = SubSeq(sent, readidx + 1, Len(sent))
  <2>1. msg \in Messages
    BY <1>s DEF Alone, IInv, TypeOK
  <2>2. sent \in Seq(Token) /\ Len(sent) \in Nat
    BY <2>1, EncodeIs, LenProperties
  <2>3. Streamed
    BY <1>s DEF IInv, Undisturbed
  <2> QED BY <2>1, <2>2, <2>3 DEF Streamed
<1>2. ASSUME NEW n \in 1..Len(rest), Arrive(n), Alone, msg' = msg PROVE Streamed'
  <2> DEFINE piece == SubSeq(rest, 1, n)
             later == SubSeq(rest, n + 1, Len(rest))
  <2>1. sock' = sock \o piece /\ rest' = later /\ UNCHANGED <<gone, readidx, tmp, tmplen>>
    BY <1>2 DEF Arrive, conn
  <2>2. Len(rest) \in Nat
    BY <1>0, LenProperties
  <2>3. 1 \in 1..(Len(rest) + 1) /\ n \in (1 - 1)..Len(rest) /\ Len(rest) \in n..Len(rest)
    BY <2>2
  <2>4. piece \o later = SubSeq(rest, 1, Len(rest)) /\ SubSeq(rest, 1, Len(rest)) = rest
    <3>1. piece \o later = SubSeq(rest, 1, Len(rest))
      BY <1>0, <2>3, ConcatAdjacentSubSeq
    <3>2. SubSeq(rest, 1, Len(rest)) = rest
      BY <1>0, SubSeqFull
    <3> QED BY <3>1, <3>2, Zenon
  <2>5. piece \in Seq(Token) /\ later \in Seq(Token)
    <3>1. \A i \in 1..n : i \in 1..Len(rest)
      BY <2>2
    <3>2. \A i \in (n + 1)..Len(rest) : i \in 1..Len(rest)
      BY <2>2
    <3>3. \A i \in 1..n : rest[i] \in Token
      BY <1>0, <3>1, ElementOfSeq
    <3>4. \A i \in (n + 1)..Len(rest) : rest[i] \in Token
      BY <1>0, <3>2, ElementOfSeq
    <3>5. n + 1 \in Int /\ Len(rest) \in Int /\ n \in Int /\ 1 \in Int
      BY <2>2
    <3>6. piece \in Seq(Token)
      BY <3>3, <3>5, SubSeqProperties
    <3>7. later \in Seq(Token)
      BY <3>4, <3>5, SubSeqProperties
    <3> QED BY <3>6, <3>7
  <2> HIDE DEF piece, later
  <2>6. (sock \o piece) \o later = sock \o (piece \o later)
    <3>1. sock \in Seq(Token) /\ piece \in Seq(Token) /\ later \in Seq(Token)
      BY <1>0, <2>5
    <3> QED BY <3>1, ConcatAssociative, SMTT(30)
  <2>7. sock' \o rest' = sock \o rest
    BY <2>1, <2>4, <2>6, Zenon
  <2>8. Spilled' = Spilled
    BY <2>1 DEF Spilled
  <2> HIDE DEF sent
  <2>9. sent' = sent
    BY <1>2 DEF sent
  <2> QED BY <1>s, <1>2, <2>1, <2>7, <2>8, <2>9 DEF Streamed, sent
<1>3. ASSUME Recv, readidx = 0, Alone, msg' = msg PROVE Streamed'
  <2>1. PICK n \in Nat : n > 0 /\ n <= Len(sock) /\ n <= BufSize - readidx /\ Received(n)
    BY <1>0, <1>3, Taken
  <2>2. /\ sock' = SubSeq(sock, n + 1, Len(sock)) /\ readidx' = n
        /\ UNCHANGED <<rest, tmp, tmplen>>
    BY <1>0, <1>3, <2>1 DEF Received, client
  <2>3. /\ Spilled = <<>> /\ Spilled' = <<>>
        /\ tmplen' <= Len(Spilled') /\ tmplen' = Len(Spilled')
    <3>1. tmp = NoFile /\ tmplen = 0
      BY <1>0, <1>3 DEF EmptyIsFresh
    <3>2. Spilled = <<>> /\ Spilled' = <<>>
      BY <2>2, <3>1 DEF Spilled
    <3>3. Len(<<>>) = 0 /\ tmplen' = 0
      BY <2>2, <3>1
    <3> QED BY <3>2, <3>3
  <2>4. sock \o rest = sent
    <3>1. sock \o rest \in Seq(Token)
      BY <1>0, ConcatProperties
    <3>2. <<>> \o (sock \o rest) = sock \o rest
      BY <3>1, ConcatEmptySeq
    <3>3. SubSeq(sent, 0 + 1, Len(sent)) = sent
      BY <1>s, <1>3, SubSeqFull
    <3> QED BY <1>s, <1>3, <2>3, <3>2, <3>3, Zenon
  <2>5. /\ SubSeq(sock, n + 1, Len(sock)) \o rest = SubSeq(sock \o rest, n + 1, Len(sock \o rest))
        /\ SubSeq(sock, n + 1, Len(sock)) \in Seq(Token)
    BY <1>0, <2>1, RestOfConcat
  <2>6. sock' \o rest' = SubSeq(sent, n + 1, Len(sent)) /\ sock' \o rest' \in Seq(Token)
    BY <1>0, <2>2, <2>4, <2>5, ConcatProperties
  <2>7. <<>> \o (sock' \o rest') = sock' \o rest'
    BY <2>6, ConcatEmptySeq
  <2>8. n <= Len(sent)
    <3>1. Len(sock \o rest) = Len(sock) + Len(rest) /\ Len(rest) \in Nat
      BY <1>0, ConcatProperties, LenProperties
    <3> QED BY <1>0, <2>1, <2>4, <3>1
  <2> HIDE DEF sent
  <2>9. sent' = sent
    BY <1>3 DEF sent
  <2> QED BY <2>2, <2>3, <2>6, <2>7, <2>8, <2>9 DEF Streamed, sent
<1>4. ASSUME Spill, Alone, msg' = msg PROVE Streamed'
  <2>1. /\ tmp' = Spilled \o sock /\ sock' = <<>> /\ UNCHANGED <<rest, readidx>>
        /\ tmplen' = tmplen + Len(sock) \/ tmplen' = tmplen + Len(sock) - 1
        /\ gone \/ tmplen' = tmplen + Len(sock)
        /\ gone' = gone
    <3>1. \E error \in {0} \cup (IF gone THEN {1} ELSE {}) : tmplen' = tmplen + Len(sock) - error
      BY <1>4 DEF Spill
    <3>2. PICK error \in {0} \cup (IF gone THEN {1} ELSE {}) : tmplen' = tmplen + Len(sock) - error
      BY <3>1
    <3>3. error = 0 \/ error = 1
      BY <3>2
    <3>4. gone \/ error = 0
      BY <3>2
    <3>5. error = 0 => tmplen' = tmplen + Len(sock)
      BY <1>0, <3>2
    <3> QED BY <1>4, <3>2, <3>3, <3>4, <3>5 DEF Spill, client, Spilled
  <2>2. Spilled \o sock \in Seq(Token) /\ Len(Spilled \o sock) = Len(Spilled) + Len(sock)
    BY <1>0, <1>n, ConcatProperties
  <2>3. Spilled' = Spilled \o sock
    BY <1>0, <2>1, <2>2 DEF Spilled
  <2>4. sock' \o rest' = rest
    BY <1>0, <2>1, ConcatEmptySeq
  <2>5. (Spilled \o sock) \o rest = Spilled \o (sock \o rest)
    <3>1. Spilled \in Seq(Token) /\ sock \in Seq(Token) /\ rest \in Seq(Token)
      BY <1>0, <1>n
    <3> QED BY <3>1, ConcatAssociative, SMTT(30)
  <2>6. Spilled' \o (sock' \o rest') = Spilled \o (sock \o rest)
    BY <2>3, <2>4, <2>5
  <2>7. tmplen' <= Len(Spilled') /\ (gone' \/ tmplen' = Len(Spilled'))
    <3>1. tmplen <= Len(Spilled) /\ (gone \/ tmplen = Len(Spilled))
      BY <1>s, <1>4
    <3>2. Len(Spilled') = Len(Spilled) + Len(sock)
      BY <2>2, <2>3
    <3>3. tmplen' <= Len(Spilled')
      BY <1>0, <1>n, <2>1, <3>1, <3>2
    <3>4. tmplen' = tmplen + Len(sock) /\ tmplen = Len(Spilled) => tmplen' = Len(Spilled')
      BY <3>2
    <3> QED BY <2>1, <3>1, <3>3, <3>4
  <2> HIDE DEF sent
  <2>8. sent' = sent
    BY <1>4 DEF sent
  <2> QED BY <1>s, <1>4, <2>1, <2>6, <2>7, <2>8 DEF Streamed, sent
<1>5. ASSUME ParseStep \/ StandStill, Alone, msg' = msg PROVE Streamed'
  <2>1. UNCHANGED <<rest, sock, readidx, tmp, tmplen>> /\ (gone => gone')
    BY <1>0, <1>5, ParseEffects DEF StandStill, conn
  <2>2. Spilled' = Spilled
    BY <2>1 DEF Spilled
  <2> HIDE DEF sent
  <2>3. sent' = sent
    BY <1>5 DEF sent
  <2> QED BY <1>s, <1>5, <2>1, <2>2, <2>3 DEF Streamed, sent
<1> QED BY <1>1, <1>2, <1>3, <1>4, <1>5, AloneKinds

-----------------------------------------------------------------------------
(* The lines of a request that recv() never stores over                    *)

\* parse_line() stops at the first CR or LF of a line, however often it was called.
LEMMA StopAt ==
    ASSUME TypeOK, Passed, NEW e \in Nat, startline <= e,
           \A i \in startline..(e - 1) : i < readidx => buf[i] \notin {CR, LF},
           e < readidx => buf[e] \in {CR, LF},
           Stop < readidx
    PROVE  Stop = e
<1> DEFINE stop == Stop
<1>1. /\ stop \in checkedidx..readidx /\ \A i \in checkedidx..(stop - 1) : buf[i] \notin {CR, LF}
      /\ buf[stop] \in {CR, LF}
      /\ checkedidx \in Nat /\ readidx \in Nat /\ startline \in Nat /\ startline <= checkedidx
  BY StopIs DEF TypeOK
<1>2. stop < readidx
  OBVIOUS
<1> HIDE DEF stop
<1>3. ~(stop < e)
  <2> SUFFICES ASSUME stop < e PROVE FALSE
    OBVIOUS
  <2>1. stop \in startline..(e - 1)
    BY <1>1
  <2> QED BY <1>1, <1>2, <2>1
<1>4. ~(stop > e)
  <2> SUFFICES ASSUME stop > e PROVE FALSE
    OBVIOUS
  <2>1. e < readidx
    BY <1>1
  <2>2. e \in startline..(checkedidx - 1) \/ e \in checkedidx..(stop - 1)
    BY <1>1
  <2>3. buf[e] \notin {CR, LF}
    BY <1>1, <2>2 DEF Passed
  <2> QED BY <2>1, <2>3
<1>5. stop = e
  BY <1>1, <1>3, <1>4
<1> QED BY <1>5 DEF stop

\* A LINE_OK is due to a CR LF.
LEMMA LineEndCases ==
    ASSUME TypeOK, LineEnd # -1
    PROVE  /\ Stop < readidx /\ Stop \in Nat
           /\ \/ LineEnd = Stop /\ Stop + 1 < readidx /\ buf[Stop] = CR /\ buf[Stop + 1] = LF
              \/ LineEnd = Stop - 1 /\ buf[Stop] = LF /\ Stop > 1
<1> DEFINE stop == Stop
<1>1. stop \in checkedidx..readidx /\ checkedidx \in Nat /\ readidx \in Nat
  BY StopIs DEF TypeOK
<1> HIDE DEF stop
<1>2. CASE stop + 1 < readidx /\ buf[stop] = CR /\ buf[stop + 1] = LF
  <2>1. LineEnd = stop
    BY <1>2 DEF LineEnd, stop, CR, LF
  <2> QED BY <1>1, <1>2, <2>1 DEF stop
<1>3. CASE ~(stop + 1 < readidx /\ buf[stop] = CR /\ buf[stop + 1] = LF)
           /\ stop < readidx /\ buf[stop] = LF /\ stop > 1 /\ buf[stop - 1] = CR
  <2>1. LineEnd = stop - 1
    BY <1>3 DEF LineEnd, stop
  <2> QED BY <1>1, <1>3, <2>1 DEF stop
<1>4. CASE /\ ~(stop + 1 < readidx /\ buf[stop] = CR /\ buf[stop + 1] = LF)
           /\ ~(stop < readidx /\ buf[stop] = LF /\ stop > 1 /\ buf[stop - 1] = CR)
  BY <1>4 DEF LineEnd, stop
<1> QED BY <1>2, <1>3, <1>4

\* Where a line that ends in CR LF ends.
LEMMA LineEndAt ==
    ASSUME TypeOK, Passed, NEW e \in Nat, startline <= e,
           \A i \in startline..(e - 1) : i < readidx => buf[i] \notin {CR, LF},
           e < readidx => buf[e] = CR,
           LineEnd # -1
    PROVE  LineEnd = e /\ e + 1 < readidx /\ buf[e + 1] = LF
<1>1. Stop < readidx
  BY LineEndCases
<1>2. e < readidx => buf[e] \in {CR, LF}
  OBVIOUS
<1>3. Stop = e
  BY <1>1, <1>2, StopAt
<1>4. buf[e] # LF
  BY <1>1, <1>3 DEF CR, LF
<1> QED BY <1>3, <1>4, LineEndCases

\* A string of one token.
LEMMA StringOfOne ==
    ASSUME TypeOK, NEW a \in Nat, NEW n \in Nat, a < n, n <= BufSize,
           buf[a] # NUL, n = a + 1 \/ buf[a + 1] = NUL
    PROVE  StringUpTo(n, a) = <<buf[a]>>
<1> DEFINE e == StringEnd(n, a)
<1>1. /\ e \in Nat /\ e <= n
      /\ e = n \/ (a <= e /\ buf[e] = NUL)
      /\ \A j \in a..(e - 1) : buf[j] # NUL
  BY StringEndIs
<1>2. buf \in [0..(BufSize - 1) -> Token] /\ BufSize \in Nat
  BY BufSizes DEF TypeOK
<1>3. StringUpTo(n, a) = Slice(a, e)
  BY <1>2, StringType
<1> HIDE DEF e
<1>4. e = a + 1
  <2>1. e > a
    BY <1>1
  <2>2. ASSUME e > a + 1 PROVE FALSE
    <3>1. a + 1 \in a..(e - 1) /\ n # a + 1
      BY <1>1, <2>2
    <3> QED BY <1>1, <3>1
  <2> QED BY <1>1, <2>1, <2>2
<1> DEFINE b == a + 1
<1>b. b \in Nat /\ b <= BufSize /\ a <= b /\ b - a = 1 /\ a + 1 - 1 = a
  BY <1>2
<1> HIDE DEF b
<1>5. /\ Slice(a, b) \in Seq(Token) /\ Len(Slice(a, b)) = b - a
      /\ \A k \in 1..(b - a) : Slice(a, b)[k] = buf[a + k - 1]
  BY <1>2, <1>b, SliceType
<1>7. Len(Slice(a, b)) = 1 /\ Slice(a, b)[1] = buf[a]
  <2>1. 1 \in 1..(b - a)
    BY <1>b
  <2> QED BY <1>5, <1>b, <2>1
<1>8. Slice(a, b) = <<buf[a]>>
  <2> DEFINE s == Slice(a, b)
  <2> HIDE DEF s
  <2>1. s \in Seq(Token) /\ Len(s) = 1 /\ s[1] = buf[a]
    BY <1>5, <1>7 DEF s
  <2>2. s = <<s[1]>>
    BY <2>1
  <2> QED BY <2>1, <2>2 DEF s
<1> QED BY <1>3, <1>4, <1>8 DEF b

\* What the state of a request under way is made of.
LEMMA AloneFacts ==
    ASSUME IInv, Alone
    PROVE  /\ TypeOK /\ Streamed /\ Held /\ Parsed /\ msg \in Messages
           /\ readidx \in Nat /\ readidx <= BufSize /\ checkedidx \in Nat /\ startline \in Nat
           /\ startline <= checkedidx /\ checkedidx <= readidx
           /\ BufSize \in Nat /\ buf \in [0..(BufSize - 1) -> Token]
           /\ Len(msg.headers) \in Nat /\ Len(msg.body) \in Nat /\ length \in Nat
           /\ boundary \in -1..(BufSize - 1)
           /\ readidx <= Len(Encode(msg)) /\ Len(Encode(msg)) \in Nat
<1>1. TypeOK /\ Streamed /\ Held /\ Parsed /\ msg \in Messages
  BY DEF IInv, Undisturbed, Alone, TypeOK
<1>2. Len(msg.headers) \in Nat /\ Len(msg.body) \in Nat
  BY <1>1, MessageParts
<1>3. Len(Encode(msg)) \in Nat
  BY <1>1, EncodeIs, LenProperties
<1> QED BY <1>1, <1>2, <1>3, BufSizes DEF TypeOK, Streamed

\* The first line is taken only if it ends in CR LF, and is the request line.
LEMMA FirstLine ==
    ASSUME IInv, Alone, phase = "parsing", check = "line", LineEnd # -1
    PROVE  /\ msg.eol = <<CR, LF>> /\ startline = 0 /\ Nothing
           /\ LineEnd = 1 /\ Line = <<msg.line>> /\ buf[0] = msg.line
<1>1. /\ TypeOK /\ Held /\ msg \in Messages /\ BufSize \in Nat /\ readidx \in Nat
      /\ readidx <= BufSize /\ Nothing /\ Passed /\ startline = 0
  BY AloneFacts DEF Parsed, Nothing
<1>2. /\ Sent(msg, 0) = msg.line /\ Sent(msg, 1) = msg.eol[1]
      /\ msg.eol = <<CR>> => Sent(msg, 2) # LF
      /\ msg.line \in LinesOfUse \cup {"bad"} /\ msg.eol \in {<<CR, LF>>, <<CR>>, <<LF>>}
  BY <1>1, EncodeIs, MessageParts
<1>3. \A i \in 0..(readidx - 1) : buf[i] = Sent(msg, i)
  BY <1>1 DEF Held
<1>4. msg.line \notin {CR, LF, NUL}
  BY <1>2 DEF LinesOfUse, CR, LF, NUL
<1>5. 0 < readidx => buf[0] = msg.line
  <2>1. 0 < readidx => 0 \in 0..(readidx - 1)
    BY <1>1
  <2> QED BY <1>2, <1>3, <2>1
<1>6. \A i \in startline..(1 - 1) : i < readidx => buf[i] \notin {CR, LF}
  <2>1. \A i \in startline..(1 - 1) : i = 0
    BY <1>1
  <2> QED BY <1>4, <1>5, <2>1
<1>7. 1 < readidx => buf[1] = msg.eol[1]
  <2>1. 1 < readidx => 1 \in 0..(readidx - 1)
    BY <1>1
  <2> QED BY <1>2, <1>3, <2>1
<1>8. msg.eol[1] \in {CR, LF}
  BY <1>2
<1>9. Stop = 1
  <2>1. 1 < readidx => buf[1] \in {CR, LF}
    BY <1>7, <1>8
  <2>2. startline <= 1 /\ 1 \in Nat
    BY <1>1
  <2>3. Stop < readidx
    BY <1>1, LineEndCases
  <2> QED BY <1>1, <1>6, <2>1, <2>2, <2>3, StopAt
<1>10. LineEnd = 1 /\ 2 < readidx /\ buf[1] = CR /\ buf[2] = LF
  <2>1. LineEnd = 1 /\ 1 + 1 < readidx /\ buf[1] = CR /\ buf[1 + 1] = LF
    BY <1>1, <1>9, LineEndCases
  <2>2. 1 + 1 = 2
    OBVIOUS
  <2> QED BY <2>1, <2>2
<1>11. msg.eol = <<CR, LF>>
  <2>1. Sent(msg, 2) = LF
    <3>1. 2 \in 0..(readidx - 1)
      BY <1>1, <1>10
    <3> QED BY <1>3, <1>10, <3>1
  <2>2. msg.eol[1] = CR
    <3>1. 1 < readidx
      BY <1>1, <1>10
    <3> QED BY <1>7, <1>10, <3>1
  <2>3. msg.eol # <<LF>>
    BY <2>2 DEF CR, LF
  <2> QED BY <1>2, <2>1, <2>3
<1>12. Line = <<msg.line>>
  <2>1. buf[0] = msg.line /\ 1 <= BufSize
    BY <1>1, <1>5, <1>10
  <2>2. StringUpTo(1, 0) = <<buf[0]>>
    <3>1. 0 \in Nat /\ 1 \in Nat /\ 0 < 1 /\ 1 = 0 + 1
      OBVIOUS
    <3>2. buf[0] # NUL
      BY <1>4, <2>1
    <3> QED BY <1>1, <2>1, <3>1, <3>2, StringOfOne
  <2> QED BY <1>1, <1>10, <2>1, <2>2 DEF Line
<1>13. buf[0] = msg.line
  BY <1>1, <1>5, <1>10
<1> QED BY <1>1, <1>10, <1>11, <1>12, <1>13

\* The lines behind it are the headers and then the empty line.
LEMMA NextLine ==
    ASSUME IInv, Alone, LineEnd # -1, NEW h \in 0..Len(msg.headers), HeadersRead(h)
    PROVE  /\ startline = 3 * h + 3 /\ LineEnd + 2 <= readidx /\ Layout(msg)
           /\ h < Len(msg.headers) =>
               /\ h + 1 \in 1..Len(msg.headers)
               /\ LineEnd = startline + 1 /\ Line = <<msg.headers[h + 1]>>
               /\ buf[startline] = msg.headers[h + 1]
           /\ h = Len(msg.headers) => LineEnd = startline /\ Line = <<>>
<1> DEFINE a == startline
           n == Len(msg.headers)
<1>1. /\ TypeOK /\ Held /\ msg \in Messages /\ BufSize \in Nat /\ readidx \in Nat
      /\ readidx <= BufSize /\ n \in Nat /\ h \in Nat /\ h <= n
  BY AloneFacts
<1>2. a = 3 * h + 3 /\ a \in Nat /\ Passed /\ msg.eol = <<CR, LF>>
  BY <1>1 DEF HeadersRead, Understood
<1>3. Layout(msg)
  BY <1>1, <1>2, EncodeIs
<1>4. \A i \in a..(readidx - 1) : buf[i] = Sent(msg, i)
  BY <1>1 DEF Held
<1>h. msg.headers \in Seq(Header)
  BY <1>1, MessageParts
<1> HIDE DEF a, n
<1>5. ASSUME h < n
      PROVE  /\ h + 1 \in 1..n /\ LineEnd = a + 1 /\ LineEnd + 2 <= readidx
             /\ Line = <<msg.headers[h + 1]>> /\ buf[a] = msg.headers[h + 1]
  <2>1. h + 1 \in 1..n /\ 3 * (h + 1) = a
    BY <1>1, <1>2, <1>5
  <2>2. Sent(msg, a) = msg.headers[h + 1] /\ Sent(msg, a + 1) = CR
    <3>1. \A k \in 1..n : Sent(msg, 3 * k) = msg.headers[k] /\ Sent(msg, 3 * k + 1) = CR
      BY <1>3 DEF Layout, n
    <3> QED BY <2>1, <3>1
  <2>3. msg.headers[h + 1] \notin {CR, LF, NUL}
    <3>1. msg.headers[h + 1] \in Header
      BY <1>h, <2>1, ElementOfSeq DEF n
    <3> QED BY <3>1, ParserAssumption DEF Header, CR, LF, NUL
  <2>4. a < readidx => buf[a] = msg.headers[h + 1]
    <3>1. a < readidx => a \in a..(readidx - 1)
      BY <1>1, <1>2
    <3> QED BY <1>4, <2>2, <3>1
  <2>5. a + 1 < readidx => buf[a + 1] = CR
    <3>1. a + 1 < readidx => a + 1 \in a..(readidx - 1)
      BY <1>1, <1>2
    <3> QED BY <1>4, <2>2, <3>1
  <2>6. \A i \in a..((a + 1) - 1) : i < readidx => buf[i] \notin {CR, LF}
    <3>1. \A i \in a..((a + 1) - 1) : i = a
      BY <1>2
    <3> QED BY <2>3, <2>4, <3>1
  <2>7. LineEnd = a + 1 /\ a + 1 + 1 < readidx
    <3> DEFINE e == a + 1
    <3>1. e \in Nat /\ startline <= e
      BY <1>2 DEF a
    <3>2. /\ \A i \in startline..(e - 1) : i < readidx => buf[i] \notin {CR, LF}
          /\ e < readidx => buf[e] = CR
      BY <2>5, <2>6 DEF a
    <3> HIDE DEF e
    <3>3. LineEnd = e /\ e + 1 < readidx
      BY <1>1, <1>2, <3>1, <3>2, LineEndAt
    <3> QED BY <3>3 DEF e
  <2>8. a < readidx /\ a + 1 \in Nat /\ a < a + 1 /\ a + 1 <= BufSize /\ LineEnd + 2 <= readidx
    BY <1>1, <1>2, <2>7
  <2>9. StringUpTo(a + 1, a) = <<buf[a]>>
    <3>1. buf[a] # NUL
      BY <2>3, <2>4, <2>8
    <3> QED BY <1>1, <1>2, <2>8, <3>1, StringOfOne
  <2> QED BY <2>1, <2>4, <2>7, <2>8, <2>9 DEF Line, a
<1>6. ASSUME h = n PROVE LineEnd = a /\ LineEnd + 2 <= readidx /\ Line = <<>>
  <2>1. Sent(msg, a) = CR
    <3>1. HeadLen(msg) - 2 = a
      BY <1>1, <1>2, <1>6 DEF HeadLen, n
    <3> QED BY <1>3, <3>1 DEF Layout
  <2>2. a < readidx => buf[a] = CR
    <3>1. a < readidx => a \in a..(readidx - 1)
      BY <1>1, <1>2
    <3> QED BY <1>4, <2>1, <3>1
  <2>3. \A i \in a..(a - 1) : i < readidx => buf[i] \notin {CR, LF}
    BY <1>2
  <2>4. LineEnd = a /\ a + 1 < readidx
    <3>1. a <= a
      BY <1>2
    <3> QED BY <1>1, <1>2, <2>2, <2>3, <3>1, LineEndAt DEF a
  <2>5. LineEnd + 2 <= readidx
    BY <1>1, <1>2, <2>4
  <2>6. StringUpTo(a, a) = <<>>
    <3> DEFINE e == StringEnd(a, a)
    <3>1. e \in Nat /\ e <= a
      BY <1>2, StringEndIs
    <3>2. buf \in [0..(BufSize - 1) -> Token] /\ a <= BufSize
      BY <1>1, <1>2, <2>4 DEF TypeOK
    <3>3. StringUpTo(a, a) = Slice(a, e)
      BY <1>1, <1>2, <3>2, StringType
    <3> HIDE DEF e
    <3>4. e <= BufSize
      BY <1>1, <1>2, <3>1, <3>2
    <3>5. Slice(a, e) = <<>>
      BY <1>1, <1>2, <3>1, <3>2, <3>4, SliceType
    <3> QED BY <3>3, <3>5
  <2> QED BY <2>4, <2>5, <2>6 DEF Line, a
<1>7. h < n \/ h = n
  BY <1>1
<1> QED BY <1>2, <1>3, <1>5, <1>6, <1>7 DEF a, n

\* Taking a line leaves what is behind it as it was sent.
LEMMA TakenHeld ==
    ASSUME IInv, Alone, TakeLine
    PROVE  /\ Held' /\ Passed'
           /\ LineEnd \in Nat /\ LineEnd + 2 <= readidx /\ startline <= LineEnd + 1
           /\ startline' = LineEnd + 2 /\ checkedidx' = LineEnd + 2 /\ LineEnd # -1
           /\ readidx' = readidx /\ msg' = msg /\ tmp' = tmp
           /\ \A i \in 0..(BufSize - 1) : i \notin {LineEnd, LineEnd + 1} => buf'[i] = buf[i]
           /\ buf'[LineEnd] = NUL
<1>1. /\ TypeOK /\ Held /\ readidx \in Nat /\ readidx <= BufSize /\ startline \in Nat
      /\ BufSize \in Nat /\ buf \in [0..(BufSize - 1) -> Token]
  BY AloneFacts
<1>2. /\ buf' = [buf EXCEPT ![LineEnd] = NUL, ![LineEnd + 1] = NUL]
      /\ checkedidx' = LineEnd + 2 /\ startline' = LineEnd + 2 /\ LineEnd # -1
      /\ readidx' = readidx /\ msg' = msg /\ tmp' = tmp
  BY DEF TakeLine, client
<1>3. /\ LineEnd \in Nat /\ startline <= LineEnd + 1 /\ LineEnd + 1 < readidx /\ LineEnd + 2 <= BufSize
  BY <1>1, <1>2, LineEndIs
<1> DEFINE e == LineEnd
<1>4. e \in Nat /\ startline <= e + 1 /\ e + 1 < readidx /\ e + 2 <= BufSize
      /\ buf' = [buf EXCEPT ![e] = NUL, ![e + 1] = NUL] /\ startline' = e + 2
  BY <1>2, <1>3
<1> HIDE DEF e
<1>5. /\ \A i \in 0..(BufSize - 1) : i \notin {e, e + 1} => buf'[i] = buf[i]
      /\ buf'[e] = NUL
  BY <1>1, <1>4
<1>6. Held'
  <2>1. ASSUME NEW i \in (e + 2)..(readidx - 1) PROVE buf'[i] = Sent(msg, i)
    <3>1. i \in 0..(BufSize - 1) /\ i \notin {e, e + 1} /\ i \in startline..(readidx - 1)
      BY <1>1, <1>4
    <3> QED BY <1>1, <1>5, <3>1 DEF Held
  <2>2. ASSUME NEW i \in readidx..(BufSize - 1) PROVE buf'[i] = NUL
    <3>1. i \in 0..(BufSize - 1) /\ i \notin {e, e + 1}
      BY <1>1, <1>4
    <3> QED BY <1>1, <1>5, <3>1 DEF Held
  <2> QED BY <1>2, <1>4, <2>1, <2>2 DEF Held
<1>7. Passed'
  <2>1. (e + 2)..((e + 2) - 1) = {}
    BY <1>4
  <2> QED BY <1>2, <2>1 DEF Passed, e
<1>8. LineEnd + 2 <= readidx
  BY <1>1, <1>3
<1> QED BY <1>2, <1>3, <1>5, <1>6, <1>7, <1>8 DEF e

\* The request line of a request under way is taken for what it is.
LEMMA RequestLineRead ==
    ASSUME IInv, Alone, RequestLine
    PROVE  Held' /\ Parsed'
<1>1. /\ phase = "parsing" /\ check = "line" /\ TakeLine /\ LineEnd # -1
      /\ url' = startline /\ check' = "header" /\ UNCHANGED <<phase, linger, length, boundary>>
      /\ \E line \in LinesOfUse : Line = <<line>> /\ method' = IF line = "get" THEN "get" ELSE "post"
  BY DEF RequestLine, TakeLine
<1>2. /\ msg.eol = <<CR, LF>> /\ startline = 0 /\ linger = FALSE /\ length = 0 /\ boundary = -1
      /\ LineEnd = 1 /\ Line = <<msg.line>> /\ buf[0] = msg.line
  BY <1>1, FirstLine DEF Nothing
<1>3. /\ Held' /\ Passed' /\ startline' = LineEnd + 2 /\ msg' = msg
      /\ \A i \in 0..(BufSize - 1) : i \notin {LineEnd, LineEnd + 1} => buf'[i] = buf[i]
  BY <1>1, TakenHeld
<1>4. msg.line \in LinesOfUse /\ method' = IF msg.line = "get" THEN "get" ELSE "post"
  <2>1. PICK line \in LinesOfUse : Line = <<line>> /\ method' = IF line = "get" THEN "get" ELSE "post"
    BY <1>1
  <2>2. line = msg.line
    BY <1>2, <2>1
  <2> QED BY <2>1, <2>2
<1>5. buf'[0] = msg.line
  <2>1. 0 \in 0..(BufSize - 1) /\ 0 \notin {LineEnd, LineEnd + 1}
    BY <1>2, BufSizes
  <2> QED BY <1>2, <1>3, <2>1
<1>6. Understood(0)'
  <2>1. \A P : ~ \E i \in 1..0 : i \in P
    OBVIOUS
  <2>2. 1..0 = {}
    OBVIOUS
  <2>3. /\ (msg.eol = <<CR, LF>> /\ msg.line \in LinesOfUse)'
        /\ method' = IF msg'.line = "get" THEN "get" ELSE "post"
        /\ url' = 0 /\ buf'[0] = msg'.line
    BY <1>1, <1>2, <1>3, <1>4, <1>5
  <2>4. linger' = FALSE /\ length' = 0 /\ boundary' = -1
    BY <1>1, <1>2
  <2> QED BY <2>2, <2>3, <2>4 DEF Understood
<1>7. startline' = 3 * (0 + 1)
  BY <1>2, <1>3
<1>8. 0 \in 0..Len(msg.headers)
  BY AloneFacts
<1>9. HeadersRead(0)'
  BY <1>3, <1>6, <1>7 DEF HeadersRead
<1> QED BY <1>1, <1>3, <1>8, <1>9 DEF Parsed

\* One more header may turn m_linger on or off.
LEMMA LingerStep ==
    ASSUME NEW hs, NEW h \in Nat, NEW b \in BOOLEAN,
           b <=> \E i \in 1..h : hs[i] = "keep" /\ \A j \in (i + 1)..h : hs[j] # "close"
    PROVE  (IF hs[h + 1] \in {"keep", "close"} THEN hs[h + 1] # "close" ELSE b)
             <=> \E i \in 1..(h + 1) : /\ hs[i] = "keep"
                                       /\ \A j \in (i + 1)..(h + 1) : hs[j] # "close"
<1> DEFINE g == h + 1
<1>1. g \in 1..g /\ (g + 1)..g = {} /\ h \in Nat
  OBVIOUS
<1>2. \A i \in 1..g : i = g \/ i \in 1..h
  OBVIOUS
<1>3. \A i \in 1..h : i \in 1..g /\ g \in (i + 1)..g /\ (i + 1)..g = (i + 1)..h \cup {g}
  OBVIOUS
<1> HIDE DEF g
<1>4. CASE hs[g] = "keep"
  <2>1. \E i \in 1..g : hs[i] = "keep" /\ \A j \in (i + 1)..g : hs[j] # "close"
    BY <1>1, <1>4
  <2> QED BY <1>4, <2>1 DEF g
<1>5. CASE hs[g] = "close"
  <2>1. ~ \E i \in 1..g : hs[i] = "keep" /\ \A j \in (i + 1)..g : hs[j] # "close"
    BY <1>2, <1>3, <1>5
  <2> QED BY <1>5, <2>1 DEF g
<1>6. CASE hs[g] \notin {"keep", "close"}
  <2>1. (\E i \in 1..h : hs[i] = "keep" /\ \A j \in (i + 1)..h : hs[j] # "close")
          <=> \E i \in 1..g : hs[i] = "keep" /\ \A j \in (i + 1)..g : hs[j] # "close"
    BY <1>2, <1>3, <1>6
  <2> QED BY <1>6, <2>1 DEF g
<1> QED BY <1>4, <1>5, <1>6

\* A header of a request under way is taken for what it is.
LEMMA HeaderLineRead ==
    ASSUME IInv, Alone, HeaderLine
    PROVE  Held' /\ Parsed'
<1> DEFINE hs == msg.headers
           header == Line[1]
           n == Len(hs)
<1>1. /\ check = "header" /\ phase = "parsing" /\ TakeLine /\ LineEnd # -1 /\ Line # <<>>
      /\ linger' = IF header \in {"keep", "close"} THEN Line # <<"close">> ELSE linger
      /\ length' = IF header \in DOMAIN Length THEN Length[header] ELSE length
      /\ boundary' = IF header = "bound" THEN startline ELSE boundary
      /\ UNCHANGED <<phase, check, method, url>>
  BY DEF HeaderLine, TakeLine
<1>2. /\ TypeOK /\ msg \in Messages /\ n \in Nat /\ startline \in Nat
      /\ readidx \in Nat /\ readidx <= BufSize /\ BufSize \in Nat /\ Len(msg.body) \in Nat
      /\ boundary \in -1..(BufSize - 1) /\ linger \in BOOLEAN
  BY AloneFacts DEF TypeOK
<1>3. PICK h \in 0..Len(msg.headers) : HeadersRead(h)
  BY <1>1, AloneFacts DEF Parsed
<1>4. /\ startline = 3 * h + 3
      /\ h < Len(msg.headers) => /\ h + 1 \in 1..Len(msg.headers)
                                 /\ LineEnd = startline + 1 /\ Line = <<msg.headers[h + 1]>>
                                 /\ buf[startline] = msg.headers[h + 1]
      /\ h = Len(msg.headers) => Line = <<>>
  BY <1>1, <1>3, NextLine
<1>5. /\ h \in Nat /\ h < n /\ h + 1 \in 1..n /\ LineEnd = startline + 1
      /\ Line = <<hs[h + 1]>> /\ buf[startline] = hs[h + 1]
  BY <1>1, <1>2, <1>4
<1>6. /\ Held' /\ Passed' /\ startline' = LineEnd + 2 /\ msg' = msg /\ LineEnd + 2 <= readidx
      /\ \A i \in 0..(BufSize - 1) : i \notin {LineEnd, LineEnd + 1} => buf'[i] = buf[i]
      /\ buf'[LineEnd] = NUL
  BY <1>1, TakenHeld
<1>7. header = hs[h + 1] /\ (Line # <<"close">> <=> header # "close")
  BY <1>5
<1>8. Understood(h)
  BY <1>3 DEF HeadersRead
<1> DEFINE a == startline
           g == h + 1
<1>9. /\ a \in Nat /\ a = 3 * h + 3 /\ LineEnd = a + 1 /\ a + 3 <= readidx /\ readidx <= BufSize
      /\ startline' = a + 3 /\ g \in 1..n /\ g \in Nat /\ a + 3 = 3 * (g + 1)
  BY <1>2, <1>4, <1>5, <1>6
<1>10. /\ \A i \in 0..(BufSize - 1) : i \notin {a + 1, a + 2} => buf'[i] = buf[i]
       /\ buf'[a + 1] = NUL
  <2>1. LineEnd = a + 1 /\ LineEnd + 1 = a + 2
    BY <1>9
  <2> QED BY <1>6, <2>1
<1>11. linger' <=> \E i \in 1..g : hs[i] = "keep" /\ \A j \in (i + 1)..g : hs[j] # "close"
  <2>1. linger <=> \E i \in 1..h : hs[i] = "keep" /\ \A j \in (i + 1)..h : hs[j] # "close"
    BY <1>8 DEF Understood
  <2> HIDE DEF hs
  <2>2. (IF hs[h + 1] \in {"keep", "close"} THEN hs[h + 1] # "close" ELSE linger)
          <=> \E i \in 1..(h + 1) : /\ hs[i] = "keep"
                                    /\ \A j \in (i + 1)..(h + 1) : hs[j] # "close"
    BY <1>2, <1>5, <2>1, LingerStep
  <2>3. linger' = IF hs[h + 1] \in {"keep", "close"} THEN hs[h + 1] # "close" ELSE linger
    BY <1>1, <1>7
  <2> QED BY <2>2, <2>3
<1> HIDE DEF header
<1>12. /\ length' \in {0, Len(msg.body)}
       /\ (\E i \in 1..g : hs[i] \in DOMAIN Length) => length' # 0
  <2>1. LengthsOf(msg) = {Len(msg.body)} \ {0} /\ \A x \in DOMAIN Length : Length[x] # 0
    BY <1>2, ParserAssumption
  <2>2. header \in DOMAIN Length => Length[header] \in LengthsOf(msg)
    <3>1. hs \in Seq(Token)
      BY <1>2, MessageParts
    <3>2. header \in ToSet(hs)
      BY <1>7, <1>9, <3>1 DEF ToSet
    <3> QED BY <3>2 DEF LengthsOf
  <2>3. length \in {0, Len(msg.body)} /\ ((\E i \in 1..h : hs[i] \in DOMAIN Length) => length # 0)
    BY <1>8 DEF Understood
  <2>4. length' \in {0, Len(msg.body)}
    BY <1>1, <2>1, <2>2, <2>3
  <2>5. ASSUME NEW i \in 1..g, hs[i] \in DOMAIN Length PROVE length' # 0
    <3>1. CASE i = g
      BY <1>1, <1>7, <2>1, <2>5, <3>1
    <3>2. CASE i # g
      <4>1. i \in 1..h
        BY <1>5, <3>2
      <4>2. length # 0
        BY <2>3, <2>5, <4>1
      <4> QED BY <1>1, <2>1, <4>2
    <3> QED BY <3>1, <3>2
  <2> QED BY <2>4, <2>5
<1>13. boundary' = -1 <=> ~ \E i \in 1..g : hs[i] = "bound"
  <2>1. boundary = -1 <=> ~ \E i \in 1..h : hs[i] = "bound"
    BY <1>8 DEF Understood
  <2>2. \A i \in 1..g : i = g \/ i \in 1..h
    BY <1>5
  <2>3. \A i \in 1..h : i \in 1..g
    BY <1>5
  <2>4. a # -1 /\ g \in 1..g
    BY <1>9
  <2>5. boundary' = IF hs[g] = "bound" THEN a ELSE boundary
    BY <1>1, <1>7
  <2> HIDE DEF a, g
  <2> QED BY <2>1, <2>2, <2>3, <2>4, <2>5
<1>14. ASSUME boundary' # -1
       PROVE  boundary' + 1 < a + 3 /\ buf'[boundary'] = "bound" /\ buf'[boundary' + 1] = NUL
  <2>1. CASE header = "bound"
    <3>1. boundary' = a /\ a \in 0..(BufSize - 1) /\ a \notin {a + 1, a + 2}
      BY <1>1, <1>2, <1>9, <2>1
    <3>2. buf'[a] = buf[a] /\ buf[a] = "bound"
      BY <1>5, <1>7, <1>10, <2>1, <3>1
    <3>3. a + 1 < a + 3
      BY <1>9
    <3> HIDE DEF a
    <3> QED BY <1>10, <3>1, <3>2, <3>3
  <2>2. CASE header # "bound"
    <3>1. boundary' = boundary
      BY <1>1, <2>2
    <3>2. boundary # -1
      BY <1>14, <3>1
    <3>3. boundary + 1 < a /\ buf[boundary] = "bound" /\ buf[boundary + 1] = NUL
      BY <1>8, <3>2 DEF Understood
    <3>4. /\ boundary \in 0..(BufSize - 1) /\ boundary \notin {a + 1, a + 2}
          /\ boundary + 1 \in 0..(BufSize - 1) /\ boundary + 1 \notin {a + 1, a + 2}
          /\ boundary + 1 < a + 3
      BY <1>2, <1>9, <3>2, <3>3
    <3>5. buf'[boundary] = buf[boundary] /\ buf'[boundary + 1] = buf[boundary + 1]
      BY <1>10, <3>4
    <3> HIDE DEF a
    <3> QED BY <3>1, <3>3, <3>4, <3>5
  <2> QED BY <2>1, <2>2
<1>15. buf'[0] = buf[0]
  <2>1. 0 \in 0..(BufSize - 1) /\ 0 \notin {a + 1, a + 2}
    BY <1>2, <1>9
  <2> QED BY <1>10, <2>1
<1>16. Understood(g)'
  <2>1. /\ (msg.eol = <<CR, LF>> /\ msg.line \in LinesOfUse)'
        /\ method' = IF msg'.line = "get" THEN "get" ELSE "post"
        /\ url' = 0 /\ buf'[0] = msg'.line
    BY <1>1, <1>6, <1>8, <1>15 DEF Understood
  <2>2. linger' <=> \E i \in 1..g : /\ msg'.headers[i] = "keep"
                                    /\ \A j \in (i + 1)..g : msg'.headers[j] # "close"
    BY <1>6, <1>11
  <2>3. /\ length' \in {0, Len(msg'.body)}
        /\ (\E i \in 1..g : msg'.headers[i] \in DOMAIN Length) => length' # 0
    BY <1>6, <1>12
  <2>4. boundary' = -1 <=> ~ \E i \in 1..g : msg'.headers[i] = "bound"
    BY <1>6, <1>13
  <2>5. boundary' # -1 => /\ boundary' + 1 < startline'
                          /\ buf'[boundary'] = "bound" /\ buf'[boundary' + 1] = NUL
    BY <1>9, <1>14
  <2> HIDE DEF g, a, hs
  <2> QED BY <2>1, <2>2, <2>3, <2>4, <2>5 DEF Understood
<1>17. g \in 0..Len(msg'.headers)
  <2>1. g \in 0..n
    BY <1>2, <1>9
  <2> QED BY <1>6, <2>1
<1>18. HeadersRead(g)'
  BY <1>6, <1>9, <1>16 DEF HeadersRead
<1> HIDE DEF g, a, hs
<1>19. check' = "header" /\ phase' # "deciding"
  BY <1>1
<1> QED BY <1>6, <1>17, <1>18, <1>19 DEF Parsed

\* What process_read() knows of the head stays as long as the places it points to are
\* not written.
LEMMA UnderstoodStays ==
    ASSUME NEW h \in Nat, Understood(h), boundary \in -1..(BufSize - 1), BufSize \in Nat,
           startline <= startline', startline \in Nat, startline' \in Nat, startline <= BufSize,
           UNCHANGED <<msg, method, url, linger, length, boundary>>, buf'[0] = buf[0],
           \A i \in 0..(startline - 1) : buf'[i] = buf[i]
    PROVE  Understood(h)'
<1>2. ASSUME boundary # -1
      PROVE  boundary + 1 < startline' /\ buf'[boundary] = "bound" /\ buf'[boundary + 1] = NUL
  <2>1. boundary + 1 < startline /\ buf[boundary] = "bound" /\ buf[boundary + 1] = NUL
    BY <1>2 DEF Understood
  <2>2. boundary \in 0..(startline - 1) /\ boundary + 1 \in 0..(startline - 1) /\ boundary + 1 < startline'
    BY <1>2, <2>1
  <2> QED BY <2>1, <2>2
<1>3. /\ msg'.eol = <<CR, LF>> /\ msg'.line \in LinesOfUse
      /\ method' = IF msg'.line = "get" THEN "get" ELSE "post"
      /\ url' = 0 /\ buf'[0] = msg'.line
  BY DEF Understood
<1>4. linger' <=> \E i \in 1..h : /\ msg'.headers[i] = "keep"
                                  /\ \A j \in (i + 1)..h : msg'.headers[j] # "close"
  BY DEF Understood
<1>5. /\ length' \in {0, Len(msg'.body)}
      /\ (\E i \in 1..h : msg'.headers[i] \in DOMAIN Length) => length' # 0
  BY DEF Understood
<1>6. boundary' = -1 <=> ~ \E i \in 1..h : msg'.headers[i] = "bound"
  BY DEF Understood
<1>7. boundary' # -1 => /\ boundary' + 1 < startline'
                        /\ buf'[boundary'] = "bound" /\ buf'[boundary' + 1] = NUL
  BY <1>2
<1> QED BY <1>3, <1>4, <1>5, <1>6, <1>7 DEF Understood

\* The empty line ends the head, and the body is waited for if there is one.
LEMMA BlankLineRead ==
    ASSUME IInv, Alone, BlankLine
    PROVE  Held' /\ Parsed'
<1> DEFINE n == Len(msg.headers)
           sent == Encode(msg)
<1>1. /\ check = "header" /\ phase = "parsing" /\ TakeLine /\ LineEnd # -1 /\ Line = <<>>
      /\ check' = IF length # 0 THEN "content" ELSE check
      /\ phase' = IF length # 0 THEN phase ELSE "deciding"
      /\ UNCHANGED <<method, url, linger, length, boundary>>
  BY DEF BlankLine, TakeLine
<1>2. /\ TypeOK /\ msg \in Messages /\ n \in Nat /\ startline \in Nat
      /\ readidx \in Nat /\ readidx <= BufSize /\ BufSize \in Nat /\ Len(msg.body) \in Nat
      /\ boundary \in -1..(BufSize - 1) /\ length \in Nat
  BY AloneFacts
<1>3. PICK h \in 0..Len(msg.headers) : HeadersRead(h)
  BY <1>1, AloneFacts DEF Parsed
<1>4. /\ startline = 3 * h + 3 /\ Layout(msg)
      /\ h < Len(msg.headers) => Line = <<msg.headers[h + 1]>>
      /\ h = Len(msg.headers) => LineEnd = startline
  BY <1>1, <1>3, NextLine
<1>5. h = n /\ LineEnd = startline /\ startline = 3 * n + 3
  <2>1. ~(h < n)
    BY <1>1, <1>4
  <2> QED BY <1>2, <1>4, <2>1
<1>6. /\ Held' /\ Passed' /\ msg' = msg /\ LineEnd + 2 <= readidx /\ readidx' = readidx /\ tmp' = tmp
      /\ startline' = LineEnd + 2 /\ checkedidx' = LineEnd + 2
      /\ \A i \in 0..(BufSize - 1) : i \notin {LineEnd, LineEnd + 1} => buf'[i] = buf[i]
  BY <1>1, TakenHeld
<1>7. Understood(n)
  BY <1>3, <1>5 DEF HeadersRead
<1>8. length = Len(msg.body)
  <2>1. /\ length \in {0, Len(msg.body)}
        /\ (\E i \in 1..n : msg.headers[i] \in DOMAIN Length) => length # 0
    BY <1>7 DEF Understood
  <2>2. ASSUME length = 0 PROVE Len(msg.body) = 0
    <3>1. msg.headers \in Seq(Token)
      BY <1>2, MessageParts
    <3>2. \A i \in 1..n : msg.headers[i] \notin DOMAIN Length
      BY <2>1, <2>2
    <3>3. ToSet(msg.headers) \cap DOMAIN Length = {}
      BY <3>1, <3>2 DEF ToSet
    <3>4. LengthsOf(msg) = {}
      BY <3>3 DEF LengthsOf
    <3>5. {Len(msg.body)} \ {0} = {}
      BY <1>2, <3>4, ParserAssumption
    <3> QED BY <3>5
  <2> QED BY <2>1, <2>2
<1>9. HeadLen(msg) = LineEnd + 2 /\ startline <= startline' /\ startline' \in Nat
      /\ startline <= BufSize /\ HeadLen(msg) <= readidx
  BY <1>2, <1>5, <1>6 DEF HeadLen
<1>10. Understood(n)'
  <2>1. \A i \in 0..(startline - 1) : i \in 0..(BufSize - 1) /\ i \notin {LineEnd, LineEnd + 1}
    <3>1. LineEnd = startline /\ startline \in Nat /\ startline <= BufSize /\ BufSize \in Nat
      BY <1>2, <1>5, <1>9
    <3> QED BY <3>1
  <2>0. 0 \in 0..(startline - 1)
    BY <1>2, <1>5
  <2>2. buf'[0] = buf[0] /\ \A i \in 0..(startline - 1) : buf'[i] = buf[i]
    BY <1>6, <2>0, <2>1
  <2> QED BY <1>1, <1>2, <1>6, <1>7, <1>9, <2>2, UnderstoodStays
<1>11. HeadRead'
  <2>1. HeadLen(msg') = HeadLen(msg) /\ Len(msg'.headers) = n /\ length' = Len(msg'.body)
    BY <1>1, <1>6, <1>8
  <2>2. checkedidx' = HeadLen(msg') /\ startline' <= checkedidx'
    BY <1>6, <1>9, <2>1
  <2> QED BY <1>10, <2>1, <2>2 DEF HeadRead
<1>12. CASE length # 0
  BY <1>1, <1>6, <1>11, <1>12 DEF Parsed
<1>13. CASE length = 0
  <2>1. sent' = sent
    BY <1>6
  <2>2. Len(sent) = HeadLen(msg) + Len(msg.body)
    BY <1>4 DEF Layout
  <2> HIDE DEF sent
  <2>3. Len(Spilled) \in Nat
    <3>1. Spilled \in Seq(Token)
      BY <1>2, EmptySeq DEF Spilled, TypeOK
    <3> QED BY <3>1, LenProperties
  <2>4. Len(Spilled)' = Len(Spilled)
    BY <1>6 DEF Spilled
  <2>5. Len(sent) <= readidx /\ Len(sent) \in Nat
    <3>1. /\ Len(sent) = HeadLen(msg) + Len(msg.body) /\ HeadLen(msg) <= readidx /\ readidx \in Nat
          /\ Len(msg.body) = 0
      BY <1>2, <1>8, <1>9, <1>13, <2>2
    <3>2. HeadLen(msg) \in Nat
      BY <1>2 DEF HeadLen
    <3> QED BY <3>1, <3>2
  <2>6. readidx' + Len(Spilled)' >= Len(sent)'
    BY <1>2, <1>6, <2>1, <2>3, <2>4, <2>5
  <2>7. phase' = "deciding"
    BY <1>1, <1>13
  <2> QED BY <1>6, <1>11, <2>6, <2>7 DEF Parsed, sent
<1> QED BY <1>12, <1>13

\* A line that has not come whole is waited for.
LEMMA NoLineRead ==
    ASSUME IInv, Alone, NoLine
    PROVE  Held' /\ Parsed'
<1>1. /\ phase = "parsing" /\ phase' = "idle" /\ check # "content" /\ checkedidx' = Stop
      /\ UNCHANGED <<msg, buf, readidx, startline, check, method, url, linger, length, boundary>>
  BY DEF NoLine, Goto, client
<1>2. TypeOK /\ Held /\ Parsed /\ startline \in Nat /\ checkedidx \in Nat
  BY AloneFacts
<1>3. Held'
  BY <1>1, <1>2 DEF Held, Sent
<1>4. ASSUME Passed PROVE Passed'
  <2> DEFINE stop == Stop
  <2>1. stop \in checkedidx..readidx /\ \A i \in checkedidx..(stop - 1) : buf[i] \notin {CR, LF}
    BY <1>2, StopIs
  <2>2. checkedidx' = stop
    BY <1>1
  <2> HIDE DEF stop
  <2>3. \A i \in startline..(stop - 1) : i \in startline..(checkedidx - 1) \/ i \in checkedidx..(stop - 1)
    BY <1>2
  <2>4. \A i \in startline..(stop - 1) : buf[i] \notin {CR, LF}
    BY <1>4, <2>1, <2>3 DEF Passed
  <2> QED BY <1>1, <2>2, <2>4 DEF Passed
<1>5. CASE check = "line"
  BY <1>1, <1>2, <1>3, <1>4, <1>5 DEF Parsed, Nothing
<1>6. CASE check # "line"
  <2>1. check = "header" /\ \E h \in 0..Len(msg.headers) : HeadersRead(h)
    BY <1>1, <1>2, <1>6 DEF Parsed
  <2>2. PICK h \in 0..Len(msg.headers) : HeadersRead(h)
    BY <2>1
  <2>3. Passed' /\ startline = 3 * (h + 1) /\ Understood(h)
    BY <1>4, <2>2 DEF HeadersRead
  <2>4. Understood(h)'
    BY <1>1, <2>3 DEF Understood
  <2>5. HeadersRead(h)' /\ h \in 0..Len(msg'.headers)
    BY <1>1, <2>3, <2>4 DEF HeadersRead
  <2>6. check' = "header" /\ phase' # "deciding"
    BY <1>1, <2>1
  <2> QED BY <1>3, <2>5, <2>6 DEF Parsed
<1> QED BY <1>3, <1>5, <1>6

\* Where the body of a request under way is looked for, and where it ends.
LEMMA BodyFacts ==
    ASSUME IInv, Alone, phase = "parsing", check = "content"
    PROVE  /\ HeadRead /\ checkedidx + length = Len(Encode(msg)) /\ checkedidx # 0
<1>1. /\ Parsed /\ msg \in Messages /\ Len(msg.headers) \in Nat /\ Len(msg.body) \in Nat
  BY AloneFacts
<1>2. HeadRead
  BY <1>1 DEF Parsed
<1>3. Layout(msg)
  BY <1>1, <1>2, EncodeIs DEF HeadRead, Understood
<1>4. checkedidx + length = Len(Encode(msg))
  BY <1>2, <1>3 DEF HeadRead, Layout
<1>5. checkedidx # 0
  BY <1>1, <1>2 DEF HeadRead, HeadLen
<1> QED BY <1>2, <1>4, <1>5

\* The body is decided on once it is there, and its end is cut off behind it.
LEMMA ContentRead ==
    ASSUME IInv, Alone, Content
    PROVE  Held' /\ Parsed'
<1> DEFINE at == checkedidx + length
           n == Len(msg.headers)
           sent == Encode(msg)
<1>1. /\ phase = "parsing" /\ phase' = "deciding" /\ check = "content" /\ Complete
      /\ buf' = IF at < BufSize THEN [buf EXCEPT ![at] = NUL] ELSE buf
      /\ startline' = checkedidx
      /\ UNCHANGED <<msg, readidx, checkedidx, method, url, linger, length, boundary, tmp, tmplen>>
  BY DEF Content, Goto, client
<1>2. /\ TypeOK /\ Held /\ Streamed /\ n \in Nat /\ startline \in Nat /\ checkedidx \in Nat
      /\ readidx \in Nat /\ readidx <= BufSize /\ BufSize \in Nat
      /\ startline <= checkedidx /\ checkedidx <= readidx /\ readidx <= Len(sent)
      /\ boundary \in -1..(BufSize - 1) /\ buf \in [0..(BufSize - 1) -> Token]
      /\ length \in Nat /\ Len(sent) \in Nat
  BY AloneFacts
<1>3. HeadRead /\ at = Len(sent) /\ checkedidx # 0
  BY <1>1, BodyFacts
<1>s. sent' = sent
  BY <1>1
<1> HIDE DEF at, sent
<1>4. \A i \in 0..(BufSize - 1) : i < at => buf'[i] = buf[i]
  BY <1>1, <1>2, <1>3
<1>5. \A i \in 0..(BufSize - 1) : buf'[i] = buf[i] \/ buf'[i] = NUL
  BY <1>1, <1>2
<1>6. Held'
  <2>1. ASSUME NEW i \in checkedidx..(readidx - 1) PROVE buf'[i] = Sent(msg, i)
    <3>1. i \in 0..(BufSize - 1) /\ i < at /\ i \in startline..(readidx - 1)
      BY <1>2, <1>3
    <3> QED BY <1>2, <1>4, <3>1 DEF Held
  <2>2. ASSUME NEW i \in readidx..(BufSize - 1) PROVE buf'[i] = NUL
    <3>1. i \in 0..(BufSize - 1)
      BY <1>2
    <3> QED BY <1>2, <1>5, <3>1 DEF Held
  <2>3. \A i \in checkedidx..(readidx - 1) : Sent(msg', i) = Sent(msg, i)
    BY <1>1
  <2> QED BY <1>1, <2>1, <2>2, <2>3 DEF Held
<1>7. Understood(n)'
  <2>1. \A i \in 0..(startline - 1) : i \in 0..(BufSize - 1) /\ i < at
    BY <1>2, <1>3
  <2>2. 0 \in 0..(BufSize - 1) /\ 0 < at
    BY <1>2, <1>3
  <2>3. buf'[0] = buf[0] /\ \A i \in 0..(startline - 1) : buf'[i] = buf[i]
    BY <1>4, <2>1, <2>2
  <2>4. startline <= startline' /\ startline' \in Nat /\ startline <= BufSize
    BY <1>1, <1>2
  <2> QED BY <1>1, <1>2, <1>3, <2>3, <2>4, UnderstoodStays DEF HeadRead
<1>8. HeadRead'
  <2>1. HeadLen(msg') = HeadLen(msg) /\ Len(msg'.headers) = n /\ length' = Len(msg'.body)
    BY <1>1, <1>3 DEF HeadRead
  <2>2. checkedidx' = HeadLen(msg') /\ startline' <= checkedidx'
    BY <1>1, <1>2, <1>3, <2>1 DEF HeadRead
  <2> QED BY <1>7, <2>1, <2>2 DEF HeadRead
<1>9. readidx' + Len(Spilled)' >= Len(sent)'
  <2>1. readidx + tmplen >= length + checkedidx /\ tmplen <= Len(Spilled) /\ tmplen \in Int
    BY <1>1, <1>2 DEF Complete, Streamed, TypeOK
  <2>2. Len(Spilled) \in Nat
    <3>1. Spilled \in Seq(Token)
      BY <1>2, EmptySeq DEF Spilled, TypeOK
    <3> QED BY <3>1, LenProperties
  <2>3. length + checkedidx = Len(sent)
    BY <1>2, <1>3 DEF at
  <2>4. readidx + Len(Spilled) >= Len(sent)
    BY <1>2, <2>1, <2>2, <2>3
  <2>5. Len(Spilled)' = Len(Spilled)
    BY <1>1 DEF Spilled
  <2> QED BY <1>1, <1>s, <2>4, <2>5
<1> QED BY <1>1, <1>6, <1>8, <1>9 DEF Parsed, sent

\* As long as it is not there the buffer stays as it is.
LEMMA ContentMoreRead ==
    ASSUME IInv, Alone, ContentMore
    PROVE  Held' /\ Parsed'
<1>1. /\ phase = "parsing" /\ phase' = "idle" /\ check = "content" /\ startline' = checkedidx
      /\ UNCHANGED <<msg, buf, readidx, checkedidx, check, method, url, linger, length, boundary>>
  BY DEF ContentMore, Goto, client
<1>2. /\ TypeOK /\ Held /\ Len(msg.headers) \in Nat /\ startline \in Nat /\ checkedidx \in Nat
      /\ readidx \in Nat /\ readidx <= BufSize /\ BufSize \in Nat
      /\ startline <= checkedidx /\ checkedidx <= readidx /\ boundary \in -1..(BufSize - 1)
  BY AloneFacts
<1>3. HeadRead
  BY <1>1, BodyFacts
<1>4. Held'
  <2>1. \A i \in checkedidx..(readidx - 1) : i \in startline..(readidx - 1) /\ Sent(msg', i) = Sent(msg, i)
    BY <1>1, <1>2
  <2> QED BY <1>1, <1>2, <2>1 DEF Held
<1>5. Understood(Len(msg.headers))'
  <2>1. startline <= startline' /\ startline' \in Nat /\ startline <= BufSize
    BY <1>1, <1>2
  <2> QED BY <1>1, <1>2, <1>3, <2>1, UnderstoodStays DEF HeadRead
<1>6. HeadRead'
  <2>1. HeadLen(msg') = HeadLen(msg) /\ Len(msg'.headers) = Len(msg.headers) /\ length' = Len(msg'.body)
    BY <1>1, <1>3 DEF HeadRead
  <2>2. checkedidx' = HeadLen(msg') /\ startline' <= checkedidx'
    BY <1>1, <1>2, <1>3, <2>1 DEF HeadRead
  <2> QED BY <1>5, <2>1, <2>2 DEF HeadRead
<1> QED BY <1>1, <1>4, <1>6 DEF Parsed

\* A request just sent finds the buffer as init() left it.
LEMMA SendRead ==
    ASSUME IInv, NEW m \in Messages, Send(m), Alone'
    PROVE  Held' /\ Parsed'
<1>1. /\ phase = "idle" /\ UNCHANGED <<phase, conn>> /\ readidx = 0
  BY DEF Send, Alone
<1>2. /\ buf = Zeroed /\ checkedidx = 0 /\ startline = 0 /\ check = "line"
      /\ linger = FALSE /\ length = 0 /\ boundary = -1
  BY <1>1 DEF IInv, EmptyIsFresh
<1>3. UNCHANGED <<phase, buf, readidx, checkedidx, startline, check, linger, length, boundary>>
  BY <1>1 DEF conn, parsed
<1>4. 0..(0 - 1) = {}
  OBVIOUS
<1>5. Held'
  <2>1. \A i \in 0..(BufSize - 1) : Zeroed[i] = NUL
    BY DEF Zeroed
  <2> QED BY <1>1, <1>2, <1>3, <1>4, <2>1 DEF Held
<1>6. Nothing' /\ Passed'
  BY <1>2, <1>3, <1>4 DEF Nothing, Passed
<1>7. check' = "line" /\ phase' # "deciding"
  BY <1>1, <1>2, <1>3
<1> QED BY <1>5, <1>6, <1>7 DEF Parsed

\* Steps that leave the buffer and what is known of it alone.
LEMMA SameRead ==
    ASSUME Held, Parsed, UNCHANGED <<msg, buf, readidx, parsed>>,
           (phase' # "deciding" /\ phase # "deciding") \/ (phase' = phase /\ tmp' = tmp)
    PROVE  Held' /\ Parsed'
<1>1. UNCHANGED <<checkedidx, startline, check, method, url, linger, length, boundary>>
  BY DEF parsed
<1>2. Held'
  BY <1>1 DEF Held, Sent
<1>4. Passed => Passed'
  BY <1>1 DEF Passed
<1>6. ASSUME HeadRead PROVE HeadRead'
  <2>1. Understood(Len(msg.headers))'
    BY <1>1, <1>6 DEF HeadRead, Understood
  <2>2. HeadLen(msg') = HeadLen(msg) /\ Len(msg'.headers) = Len(msg.headers) /\ length' = Len(msg'.body)
    BY <1>1, <1>6 DEF HeadRead
  <2> QED BY <1>1, <1>6, <2>1, <2>2 DEF HeadRead
<1>7. CASE check = "line" /\ phase # "deciding" /\ Nothing /\ Passed
  <2>1. Nothing' /\ Passed' /\ check' = "line" /\ phase' # "deciding"
    BY <1>1, <1>4, <1>7 DEF Nothing
  <2> QED BY <1>2, <2>1 DEF Parsed
<1>8. CASE check = "header" /\ phase # "deciding" /\ \E h \in 0..Len(msg.headers) : HeadersRead(h)
  <2>1. PICK h \in 0..Len(msg.headers) : HeadersRead(h)
    BY <1>8
  <2>2. HeadersRead(h)' /\ h \in 0..Len(msg'.headers)
    <3>1. Understood(h)'
      BY <1>1, <2>1 DEF HeadersRead, Understood
    <3> QED BY <1>1, <1>4, <2>1, <3>1 DEF HeadersRead
  <2>3. check' = "header" /\ phase' # "deciding"
    BY <1>1, <1>8
  <2> QED BY <1>2, <2>2, <2>3 DEF Parsed
<1>9. CASE check = "content" /\ phase # "deciding" /\ HeadRead
  <2>1. check' = "content" /\ phase' # "deciding"
    BY <1>1, <1>9
  <2> QED BY <1>2, <1>6, <1>9, <2>1 DEF Parsed
<1>10. CASE phase = "deciding" /\ HeadRead /\ readidx + Len(Spilled) >= Len(Encode(msg))
  <2>1. phase' = "deciding" /\ tmp' = tmp
    BY <1>10
  <2>2. readidx' + Len(Spilled)' >= Len(Encode(msg))'
    BY <1>10, <2>1 DEF Spilled
  <2> QED BY <1>2, <1>6, <1>10, <2>1, <2>2 DEF Parsed
<1> QED BY <1>7, <1>8, <1>9, <1>10 DEF Parsed

\* The first recv() for a request puts its beginning at the beginning.
LEMMA RecvRead ==
    ASSUME IInv, Alone, Recv, readidx = 0
    PROVE  Held' /\ Parsed'
<1> DEFINE sent == Encode(msg)
<1>1. /\ TypeOK /\ Streamed /\ BufSize \in Nat /\ msg \in Messages
      /\ sock \in Seq(Token) /\ rest \in Seq(Token) /\ phase = "reading"
  BY AloneFacts DEF TypeOK, Recv
<1>2. /\ buf = Zeroed /\ checkedidx = 0 /\ startline = 0 /\ check = "line"
      /\ linger = FALSE /\ length = 0 /\ boundary = -1 /\ tmp = NoFile
  BY DEF IInv, EmptyIsFresh
<1>3. PICK n \in Nat : n > 0 /\ n <= Len(sock) /\ n <= BufSize - readidx /\ Received(n)
  BY <1>1, Taken
<1>4. /\ buf' = [i \in DOMAIN buf |-> IF i < n THEN sock[i + 1] ELSE buf[i]]
      /\ readidx' = n /\ msg' = msg /\ phase' = phase
      /\ UNCHANGED <<checkedidx, startline, check, linger, length, boundary>>
  BY <1>3 DEF Received, parsed, client
<1>5. sent \in Seq(Token) /\ sock \o rest = sent
  <2>1. sent \in Seq(Token)
    BY <1>1, EncodeIs
  <2>2. <<>> \o (sock \o rest) = SubSeq(sent, 0 + 1, Len(sent))
    BY <1>1, <1>2 DEF Streamed, Spilled
  <2>3. SubSeq(sent, 0 + 1, Len(sent)) = sent
    BY <2>1, SubSeqFull
  <2> DEFINE all == sock \o rest
  <2>4. all \in Seq(Token)
    BY <1>1, ConcatProperties
  <2>6. <<>> \o all = sent
    BY <2>2, <2>3, Zenon
  <2> HIDE DEF sent, all
  <2>5. <<>> \o all = all
    BY <2>4, ConcatEmptySeq
  <2>7. all = sent
    BY <2>5, <2>6, Zenon
  <2> QED BY <2>1, <2>7 DEF all
<1>6. ASSUME NEW i \in 1..Len(sock) PROVE sock[i] = sent[i]
  <2>1. \A j \in 1..Len(sock) : (sock \o rest)[j] = sock[j]
    BY <1>1, ConcatAt
  <2> QED BY <1>5, <2>1
<1> HIDE DEF sent
<1>7. Len(sock) \in Nat
  BY <1>1, LenProperties
<1>8. DOMAIN buf = 0..(BufSize - 1) /\ \A i \in 0..(BufSize - 1) : buf[i] = NUL
  BY <1>2 DEF Zeroed
<1>9. Held'
  <2>1. ASSUME NEW i \in 0..(n - 1) PROVE buf'[i] = Sent(msg', i)
    <3>1. i \in 0..(BufSize - 1) /\ i < n /\ i + 1 \in 1..Len(sock)
      BY <1>1, <1>3, <1>7
    <3>2. buf'[i] = sock[i + 1]
      BY <1>4, <1>8, <3>1
    <3> QED BY <1>4, <1>6, <3>1, <3>2 DEF Sent, sent
  <2>2. ASSUME NEW i \in n..(BufSize - 1) PROVE buf'[i] = NUL
    <3>1. i \in 0..(BufSize - 1) /\ ~(i < n)
      BY <1>1, <1>3
    <3> QED BY <1>4, <1>8, <3>1
  <2> QED BY <1>2, <1>4, <2>1, <2>2 DEF Held
<1>10. Nothing' /\ Passed'
  <2>1. 0..(0 - 1) = {}
    OBVIOUS
  <2> QED BY <1>2, <1>4, <2>1 DEF Nothing, Passed
<1>11. check' = "line" /\ phase' # "deciding"
  BY <1>1, <1>2, <1>4
<1> QED BY <1>9, <1>10, <1>11 DEF Parsed

\* A request that recv() never stores over is in m_readbuf as it was sent, and what
\* process_read() knows of it is so.
LEMMA ReadStep ==
    ASSUME IInv, [Next]_vars, Alone'
    PROVE  Held' /\ Parsed'
<1>1. ASSUME NEW m \in Messages, Send(m) PROVE Held' /\ Parsed'
  BY <1>1, SendRead
<1>2. ASSUME Alone, NEW n \in 1..Len(rest), Arrive(n) PROVE Held' /\ Parsed'
  <2>1. UNCHANGED <<msg, buf, readidx, parsed>> /\ phase' = phase /\ tmp' = tmp
    BY <1>2 DEF Arrive, conn
  <2>2. Held /\ Parsed
    BY <1>2, AloneFacts
  <2> QED BY <2>1, <2>2, SameRead
<1>3. ASSUME Alone, Recv, readidx = 0 PROVE Held' /\ Parsed'
  BY <1>3, RecvRead
<1>4. ASSUME Alone, Spill PROVE Held' /\ Parsed'
  <2>1. UNCHANGED <<msg, buf, readidx, parsed>> /\ phase = "reading" /\ phase' = "parsing"
    BY <1>4 DEF Spill, Goto, client
  <2>2. Held /\ Parsed
    BY <1>4, AloneFacts
  <2> QED BY <2>1, <2>2, SameRead
<1>5. ASSUME Alone, StandStill PROVE Held' /\ Parsed'
  <2>1. /\ UNCHANGED <<msg, buf, readidx, parsed>> /\ tmp' = tmp
        /\ phase' = phase \/ (phase # "deciding" /\ phase' # "deciding")
    BY <1>5 DEF StandStill, conn
  <2>2. Held /\ Parsed
    BY <1>5, AloneFacts
  <2> QED BY <2>1, <2>2, SameRead
<1>6. ASSUME Alone, ParseStep, reply' = reply PROVE Held' /\ Parsed'
  <2>1. ~BadRequestLine
    <3> SUFFICES ASSUME BadRequestLine PROVE FALSE
      OBVIOUS
    <3>1. TypeOK /\ Reply("bad")
      BY DEF IInv, BadRequestLine
    <3>2. reply' # NoReply
      BY <3>1, ReplyType
    <3> QED BY <3>2 DEF Alone
  <2> QED BY <1>6, <2>1, NoLineRead, RequestLineRead, HeaderLineRead, BlankLineRead,
             ContentRead, ContentMoreRead DEF ParseStep
<1> QED BY <1>1, <1>2, <1>3, <1>4, <1>5, <1>6, AloneKinds

-----------------------------------------------------------------------------
(* The answer                                                              *)

\* What is answered as a request that recv() never stored over is one.
LEMMA AnswersAlone ==
    ASSUME IInv, intact, phase \in {"parsing", "deciding"}
    PROVE  Alone
<1>1. reply = NoReply
  BY DEF IInv, NothingLeft
<1>2. readidx # 0
  BY DEF IInv, EmptyIsFresh
<1>3. msg # NoMsg
  BY <1>2 DEF IInv, NothingUnsent
<1> QED BY <1>1, <1>3 DEF Alone

\* When a request is decided on, all of it has arrived: as much as m_readbuf has room
\* for is there, the rest in the temporary file.
LEMMA AllArrived ==
    ASSUME IInv, Alone, phase = "deciding"
    PROVE  /\ HeadRead /\ Layout(msg) /\ sock = <<>> /\ rest = <<>>
           /\ Spilled \in Seq(Token)
           /\ Spilled = SubSeq(Encode(msg), readidx + 1, Len(Encode(msg)))
           /\ readidx = Len(Encode(msg)) \/ readidx = BufSize
           /\ checkedidx + length = Len(Encode(msg)) /\ checkedidx = HeadLen(msg)
<1> DEFINE sent == Encode(msg)
           left == sock \o rest
           l == Len(sent)
<1>1. /\ TypeOK /\ Streamed /\ Parsed /\ msg \in Messages /\ readidx \in Nat
      /\ Len(msg.headers) \in Nat /\ Len(msg.body) \in Nat /\ readidx <= l /\ l \in Nat
  BY AloneFacts
<1>2. HeadRead /\ readidx + Len(Spilled) >= l
  BY <1>1 DEF Parsed
<1>3. sent \in Seq(Token)
  BY <1>1, EncodeIs
<1>4. Layout(msg)
  BY <1>1, <1>2, EncodeIs DEF HeadRead, Understood
<1>5. checkedidx + length = l /\ checkedidx = HeadLen(msg)
  BY <1>2, <1>4 DEF HeadRead, Layout
<1>6. sock \in Seq(Token) /\ rest \in Seq(Token) /\ Spilled \in Seq(Token) /\ left \in Seq(Token)
  BY <1>1, EmptySeq, ConcatProperties DEF TypeOK, Spilled
<1>7. Spilled \o left = SubSeq(sent, readidx + 1, l)
  BY <1>1 DEF Streamed
<1> HIDE DEF sent, l
<1>8. Len(SubSeq(sent, readidx + 1, l)) = l - readidx
  <2>1. \A i \in (readidx + 1)..l : i \in 1..Len(sent)
    BY <1>1 DEF l
  <2>2. \A i \in (readidx + 1)..l : sent[i] \in Token
    BY <1>3, <2>1, ElementOfSeq
  <2>3. readidx + 1 \in Int /\ l \in Int
    BY <1>1
  <2>4. Len(SubSeq(sent, readidx + 1, l)) = IF readidx + 1 <= l THEN l - (readidx + 1) + 1 ELSE 0
    BY <2>2, <2>3, SubSeqProperties
  <2> QED BY <1>1, <2>4
<1> DEFINE s == Spilled
<1>9. s \in Seq(Token) /\ s \o left = SubSeq(sent, readidx + 1, l) /\ readidx + Len(s) >= l
  BY <1>2, <1>6, <1>7 DEF l, sent
<1> HIDE DEF left, s
<1>10. Len(s \o left) = Len(s) + Len(left) /\ Len(s) \in Nat /\ Len(left) \in Nat
  BY <1>6, <1>9, ConcatAt
<1>11. Len(left) = 0
  BY <1>1, <1>8, <1>9, <1>10
<1>12. left = <<>>
  BY <1>6, <1>11, EmptySeq
<1>13. sock = <<>> /\ rest = <<>>
  BY <1>6, <1>12, ConcatEqualIffEmpty DEF left
<1>14. s = SubSeq(sent, readidx + 1, l)
  <2>1. s \o <<>> = s
    BY <1>9, ConcatEmptySeq
  <2> QED BY <1>9, <1>12, <2>1
<1>15. readidx = l \/ readidx = BufSize
  <2> SUFFICES ASSUME readidx # BufSize PROVE readidx = l
    OBVIOUS
  <2>1. tmp = NoFile
    BY DEF IInv, SpilledFull
  <2>2. Len(s) = 0
    BY <2>1 DEF s, Spilled
  <2> QED BY <1>1, <1>9, <2>2
<1> QED BY <1>2, <1>4, <1>5, <1>6, <1>13, <1>14, <1>15 DEF s, l, sent

\* A bad request line does not keep the connection.
LEMMA BadLine ==
    ASSUME IInv, intact, BadRequestLine
    PROVE  /\ msg.eol = <<CR, LF>> /\ msg.line = "bad" /\ linger = FALSE
           /\ phase' = "answering" /\ reply'.code = "bad"
           /\ UNCHANGED <<msg, rest, sock, linger>>
<1>1. /\ phase = "parsing" /\ check = "line" /\ LineEnd # -1
      /\ \A line \in LinesOfUse : Line # <<line>>
      /\ phase' = "answering" /\ Reply("bad") /\ UNCHANGED <<msg, rest, sock, linger>>
  BY DEF BadRequestLine, TakeLine, client, network
<1>2. Alone
  BY <1>1, AnswersAlone
<1>3. /\ msg.eol = <<CR, LF>> /\ linger = FALSE /\ Line = <<msg.line>>
  BY <1>1, <1>2, FirstLine DEF Nothing
<1>4. msg \in Messages
  BY <1>2, AloneFacts
<1>5. msg.line \in LinesOfUse \cup {"bad"}
  BY <1>4, MessageParts
<1>6. msg.line = "bad"
  BY <1>1, <1>3, <1>5
<1>7. reply'.code = "bad"
  BY <1>1 DEF Reply
<1> QED BY <1>1, <1>3, <1>6, <1>7

\* After the answer there is nothing left to read of the request, unless main() closes.
LEMMA NothingLeftStep ==
    ASSUME IInv, [Next]_vars
    PROVE  NothingLeft'
<1>0. TypeOK /\ NothingLeft /\ intact \in BOOLEAN
  BY DEF IInv, TypeOK
<1> SUFFICES ASSUME intact', reply' # NoReply
             PROVE  /\ phase' \in {"idle", "answering", "closed"}
                    /\ phase' = "idle" \/ (phase' = "answering" /\ linger')
                         => sock' = <<>> /\ rest' = <<>>
  BY DEF NothingLeft
<1>1. ASSUME NEW m \in Messages, Send(m) PROVE FALSE
  BY <1>1 DEF Send
<1>2. CASE Connect
  BY <1>2 DEF Connect
<1>3. ASSUME intact, reply # NoReply
      PROVE  /\ phase \in {"idle", "answering", "closed"}
             /\ phase = "idle" \/ (phase = "answering" /\ linger) => sock = <<>> /\ rest = <<>>
  BY <1>0, <1>3 DEF NothingLeft
<1>4. ASSUME NEW n \in 1..Len(rest), Arrive(n)
      PROVE  /\ phase' \in {"idle", "answering", "closed"}
             /\ phase' = "idle" \/ (phase' = "answering" /\ linger')
                  => sock' = <<>> /\ rest' = <<>>
  <2>1. UNCHANGED <<phase, linger, intact, reply>>
    BY <1>4 DEF Arrive, conn, parsed, history
  <2>2. rest # <<>>
    OBVIOUS
  <2> QED BY <1>3, <2>1, <2>2
<1>5. CASE Keep
  <2>1. /\ phase = "answering" /\ linger /\ phase' = "idle"
        /\ UNCHANGED <<rest, sock, intact, reply>>
    BY <1>5 DEF Keep, Goto, client, network, history
  <2> QED BY <1>3, <2>1
<1>6. CASE Recv
  <2>1. intact /\ reply # NoReply /\ phase = "reading"
    BY <1>0, <1>6 DEF Recv, Received
  <2> QED BY <1>3, <2>1
<1>7. CASE Spill
  <2>1. intact /\ reply # NoReply /\ phase = "reading"
    BY <1>7 DEF Spill, Goto, history
  <2> QED BY <1>3, <2>1
<1>8. CASE ParseStep
  <2>1. /\ phase = "parsing" /\ intact' = intact
        /\ reply' = reply \/ BadRequestLine
    BY <1>0, <1>8, ParseEffects
  <2>2. reply = NoReply
    BY <1>3, <2>1
  <2>3. BadRequestLine
    BY <2>1, <2>2
  <2>4. /\ linger' = FALSE /\ phase' = "answering" /\ reply'.code = "bad"
    BY <2>1, <2>3, BadLine
  <2> QED BY <2>4
<1>9. CASE DecideStep
  <2>1. /\ phase = "deciding" /\ phase' = "answering" /\ UNCHANGED <<rest, sock, intact>>
    BY <1>0, <1>9, DecideEffects
  <2>2. Alone
    BY <2>1, AnswersAlone
  <2>3. sock = <<>> /\ rest = <<>>
    BY <2>1, <2>2, AllArrived
  <2> QED BY <2>1, <2>3
<1>10. CASE StandStill
  <2>1. UNCHANGED <<rest, sock, linger, intact, reply>>
    BY <1>10 DEF StandStill, conn, parsed
  <2>2. phase \in {"idle", "answering", "closed"} /\ (phase = "idle" => sock = <<>>)
    BY <1>3, <2>1
  <2>3. phase' = phase \/ phase' = "closed"
    BY <1>10, <2>2 DEF StandStill
  <2> QED BY <1>3, <2>1, <2>3
<1>11. CASE UploadStuck
  <2>1. phase = "deciding" /\ UNCHANGED <<intact, reply>>
    BY <1>11 DEF UploadStuck, Goto, history
  <2> QED BY <1>3, <2>1
<1> QED BY <1>0, <1>1, <1>2, <1>4, <1>5, <1>6, <1>7, <1>8, <1>9, <1>10, <1>11, StepKinds

\* What m_readbuf holds of the body when the request is decided on: as much as it has
\* room for, as it was sent.
LEMMA BodyHeld ==
    ASSUME IInv, Alone, phase = "deciding"
    PROVE  \E held \in Nat :
              /\ held = readidx - checkedidx
              /\ held = IF Len(msg.body) <= Room(msg) THEN Len(msg.body) ELSE Room(msg)
              /\ held <= Len(msg.body)
              /\ held = Len(msg.body) <=> Len(Encode(msg)) <= BufSize
              /\ \A k \in 1..held : buf[checkedidx + k - 1] = msg.body[k]
              /\ msg.body \in Seq(Token) /\ Len(msg.body) \in Nat
<1> DEFINE sent == Encode(msg)
           body == msg.body
           b == Len(body)
           c == checkedidx
           held == readidx - c
<1>1. /\ Held /\ msg \in Messages /\ readidx \in Nat /\ readidx <= BufSize /\ c \in Nat
      /\ c <= readidx /\ startline <= c /\ startline \in Nat /\ BufSize \in Nat
      /\ readidx <= Len(sent) /\ b \in Nat
  BY AloneFacts
<1>2. /\ Layout(msg) /\ c = HeadLen(msg) /\ (readidx = Len(sent) \/ readidx = BufSize)
  BY AllArrived
<1>3. Len(sent) = c + b /\ \A i \in 1..b : Sent(msg, c + i - 1) = body[i]
  BY <1>2 DEF Layout
<1>4. Room(msg) = BufSize - c
  BY <1>1, <1>3 DEF Room
<1>5. body \in Seq(Token)
  BY <1>1, MessageParts
<1>h. \A i \in startline..(readidx - 1) : buf[i] = Sent(msg, i)
  BY <1>1 DEF Held
<1> HIDE DEF sent, body, b, c
<1>6. held \in Nat /\ held <= b
  BY <1>1, <1>3
<1> DEFINE l == Len(sent)
           room == Room(msg)
<1>l. /\ l = c + b /\ room = BufSize - c /\ (readidx = l \/ readidx = BufSize)
      /\ readidx \in Nat /\ readidx <= BufSize /\ readidx <= l
      /\ c \in Nat /\ b \in Nat /\ BufSize \in Nat
  BY <1>1, <1>2, <1>3, <1>4
<1> HIDE DEF l, room
<1>7. held = IF b <= room THEN b ELSE room
  BY <1>l
<1>8. held = b <=> l <= BufSize
  BY <1>l
<1>9. ASSUME NEW k \in 1..held PROVE buf[c + k - 1] = body[k]
  <2>1. c + k - 1 \in startline..(readidx - 1) /\ k \in 1..b
    BY <1>1, <1>6
  <2> QED BY <1>3, <1>h, <2>1
<1> QED BY <1>1, <1>5, <1>6, <1>7, <1>8, <1>9 DEF sent, body, b, c, l, room

\* The string that the form is searched in is the body up to its first zero byte or to
\* where m_readbuf ends.
LEMMA FormIs ==
    ASSUME IInv, Alone, phase = "deciding", NEW held \in Nat, held = readidx - checkedidx,
           \A k \in 1..held : buf[checkedidx + k - 1] = msg.body[k]
    PROVE  /\ Form \in Seq(Token) /\ Len(Form) \in Nat /\ Len(Form) <= held
           /\ \A k \in 1..Len(Form) : Form[k] = msg.body[k] /\ msg.body[k] # NUL
           /\ Len(Form) = held \/ msg.body[Len(Form) + 1] = NUL
<1> DEFINE c == checkedidx
           e == StringEnd(BufSize, c)
           body == msg.body
<1>1. /\ TypeOK /\ Held /\ readidx \in Nat /\ readidx <= BufSize /\ c \in Nat /\ c <= readidx
      /\ BufSize \in Nat /\ buf \in [0..(BufSize - 1) -> Token]
  BY AloneFacts
<1>2. /\ e \in Nat /\ e <= BufSize
      /\ e = BufSize \/ (c <= e /\ buf[e] = NUL)
      /\ \A j \in c..(e - 1) : buf[j] # NUL
  BY <1>1, StringEndIs
<1>3. Form = Slice(c, e)
  BY <1>1, StringType DEF Form, StringAt
<1>h. \A i \in readidx..(BufSize - 1) : buf[i] = NUL
  BY <1>1 DEF Held
<1>e. held = readidx - c /\ \A k \in 1..held : buf[c + k - 1] = body[k]
  OBVIOUS
<1> HIDE DEF e, c, body
<1>4. e <= readidx
  <2> SUFFICES ASSUME e > readidx PROVE FALSE
    BY <1>1, <1>2
  <2>1. readidx \in readidx..(BufSize - 1) /\ readidx \in c..(e - 1)
    BY <1>1, <1>2
  <2> QED BY <1>2, <1>h, <2>1
<1>5. c <= e
  BY <1>1, <1>2
<1>6. /\ Slice(c, e) \in Seq(Token) /\ Len(Slice(c, e)) = e - c
      /\ \A k \in 1..(e - c) : Slice(c, e)[k] = buf[c + k - 1]
  BY <1>1, <1>2, <1>5, SliceType
<1>7. Len(Form) = e - c /\ Form \in Seq(Token) /\ \A k \in 1..(e - c) : Form[k] = buf[c + k - 1]
  BY <1>3, <1>6
<1>8. Len(Form) \in Nat /\ Len(Form) <= held
  BY <1>1, <1>2, <1>4, <1>5, <1>7, <1>e
<1>9. ASSUME NEW k \in 1..Len(Form) PROVE Form[k] = body[k] /\ body[k] # NUL
  <2>1. k \in 1..(e - c) /\ k \in 1..held /\ c + k - 1 \in c..(e - 1)
    BY <1>1, <1>2, <1>7, <1>8
  <2> QED BY <1>2, <1>7, <1>e, <2>1
<1>10. Len(Form) = held \/ body[Len(Form) + 1] = NUL
  <2> SUFFICES ASSUME Len(Form) # held PROVE body[Len(Form) + 1] = NUL
    OBVIOUS
  <2>1. e < readidx /\ e # BufSize
    BY <1>1, <1>2, <1>4, <1>7, <1>e
  <2>2. e - c + 1 \in 1..held /\ c + (e - c + 1) - 1 = e
    BY <1>1, <1>2, <1>5, <1>e, <2>1
  <2>3. buf[e] = body[e - c + 1]
    BY <1>e, <2>2
  <2> QED BY <1>2, <1>7, <2>1, <2>3
<1> QED BY <1>7, <1>8, <1>9, <1>10 DEF body

\* The boundary that is searched for is that of the request.
LEMMA BoundaryIs ==
    ASSUME IInv, Alone, phase = "deciding", boundary # -1
    PROVE  Boundary = <<"bound">>
<1>1. /\ TypeOK /\ BufSize \in Nat /\ boundary \in -1..(BufSize - 1) /\ startline \in Nat
      /\ startline <= checkedidx /\ checkedidx <= readidx /\ readidx <= BufSize
      /\ checkedidx \in Nat /\ readidx \in Nat
  BY AloneFacts
<1>2. boundary + 1 < startline /\ buf[boundary] = "bound" /\ buf[boundary + 1] = NUL
  BY AllArrived DEF HeadRead, Understood
<1>3. boundary \in Nat /\ boundary < BufSize
  BY <1>1
<1>4. buf[boundary] # NUL
  BY <1>2 DEF NUL
<1>5. StringUpTo(BufSize, boundary) = <<buf[boundary]>>
  BY <1>1, <1>2, <1>3, <1>4, StringOfOne
<1> QED BY <1>2, <1>5 DEF Boundary, StringAt

\* A part is found in a request's form if one is there, announced, and in m_readbuf.
LEMMA HasFileIs ==
    ASSUME IInv, Alone, phase = "deciding"
    PROVE  HasFile <=> /\ "bound" \in ToSet(msg.headers)
                       /\ Contains(msg.body, "part") /\ Room(msg) > 0
<1> DEFINE body == msg.body
<1>1. PICK held \in Nat :
        /\ held = readidx - checkedidx
        /\ held = IF Len(msg.body) <= Room(msg) THEN Len(msg.body) ELSE Room(msg)
        /\ held <= Len(msg.body)
        /\ \A k \in 1..held : buf[checkedidx + k - 1] = msg.body[k]
        /\ body \in Seq(Token) /\ Len(body) \in Nat
  BY BodyHeld
<1>2. /\ Form \in Seq(Token) /\ Len(Form) \in Nat /\ Len(Form) <= held
      /\ \A k \in 1..Len(Form) : Form[k] = body[k] /\ body[k] # NUL
      /\ Len(Form) = held \/ body[Len(Form) + 1] = NUL
  BY <1>1, FormIs
<1>3. boundary # -1 <=> "bound" \in ToSet(msg.headers)
  <2>1. boundary = -1 <=> ~ \E i \in 1..Len(msg.headers) : msg.headers[i] = "bound"
    BY AllArrived DEF HeadRead, Understood
  <2>2. msg.headers \in Seq(Token)
    BY AloneFacts, MessageParts
  <2>3. ToSet(msg.headers) = {msg.headers[i] : i \in 1..Len(msg.headers)}
    BY <2>2 DEF ToSet
  <2> QED BY <2>1, <2>3
<1>4. boundary # -1 => Boundary \in {<<"bound">>, <<>>}
  BY BoundaryIs
<1>o. Contains(body, "part") => body[1] = "part"
  BY AloneFacts, ParserAssumption DEF OnePart
<1>r. Room(msg) \in Int /\ Len(body) \in Nat
  <2>1. BufSize \in Nat /\ Len(Encode(msg)) \in Nat /\ Len(msg.body) \in Nat
    BY AloneFacts
  <2> QED BY <2>1 DEF Room
<1> HIDE DEF body
<1>5. ASSUME Contains(Form, "part") PROVE Contains(body, "part") /\ Room(msg) > 0
  <2>1. PICK k \in 1..Len(Form) : Form[k] = "part"
    BY <1>2, <1>5 DEF Contains
  <2>2. body[k] = "part" /\ k \in 1..Len(body) /\ held > 0
    BY <1>1, <1>2, <2>1 DEF body
  <2>3. Contains(body, "part")
    BY <2>2 DEF Contains
  <2>4. Room(msg) > 0
    BY <1>1, <1>r, <2>2 DEF body
  <2> QED BY <2>3, <2>4
<1>6. ASSUME Contains(body, "part"), Room(msg) > 0 PROVE Contains(Form, "part")
  <2>1. PICK k \in 1..Len(body) : body[k] = "part"
    BY <1>6 DEF Contains
  <2>2. held > 0
    <3>1. Len(body) >= 1
      BY <1>r, <2>1
    <3> QED BY <1>1, <1>6, <1>r, <3>1 DEF body
  <2>3. body[1] = "part"
    BY <1>6, <1>o
  <2>4. Len(Form) # 0
    <3> SUFFICES ASSUME Len(Form) = 0 PROVE FALSE
      OBVIOUS
    <3>1. body[1] = NUL
      <4>1. Len(Form) + 1 = 1 /\ Len(Form) # held
        BY <2>2
      <4> QED BY <1>2, <4>1
    <3> QED BY <2>3, <3>1 DEF NUL
  <2>5. 1 \in 1..Len(Form)
    BY <1>2, <2>4
  <2>6. Form[1] = "part"
    BY <1>2, <2>3, <2>5
  <2> QED BY <1>2, <2>5, <2>6 DEF Contains
<1> QED BY <1>3, <1>4, <1>5, <1>6 DEF HasFile, body

\* What such a request is answered as.
LEMMA CodeIs ==
    ASSUME IInv, Alone, phase = "deciding"
    PROVE  Due(msg) = IF IsUpload THEN (IF HasFile THEN "stored" ELSE "bad") ELSE "page"
<1>1. /\ msg.line \in LinesOfUse /\ method = IF msg.line = "get" THEN "get" ELSE "post"
      /\ url = 0 /\ buf[0] = msg.line
  BY AllArrived DEF HeadRead, Understood
<1>2. IsUpload <=> msg.line = "upload"
  BY <1>1 DEF IsUpload
<1>3. msg.line # "bad"
  BY <1>1 DEF LinesOfUse
<1> QED BY <1>2, <1>3, HasFileIs DEF Due

\* What is handed on of the body is as much of it as m_readbuf has room for.
LEMMA BodyAnswered ==
    ASSUME IInv, Alone, phase = "deciding"
    PROVE  Slice(checkedidx, Min({checkedidx + length, readidx}))
             = SubSeq(msg.body, 1, Min({Len(msg.body), Room(msg)}))
<1> DEFINE body == msg.body
           room == Room(msg)
           s == Slice(checkedidx, readidx)
<1>1. PICK held \in Nat :
        /\ held = readidx - checkedidx
        /\ held = IF Len(body) <= room THEN Len(body) ELSE room
        /\ held <= Len(body)
        /\ \A k \in 1..held : buf[checkedidx + k - 1] = body[k]
        /\ body \in Seq(Token) /\ Len(body) \in Nat
  BY BodyHeld
<1>2. /\ TypeOK /\ readidx \in Nat /\ readidx <= BufSize /\ checkedidx \in Nat /\ checkedidx <= readidx
      /\ BufSize \in Nat /\ buf \in [0..(BufSize - 1) -> Token] /\ Len(Encode(msg)) \in Nat
      /\ readidx <= Len(Encode(msg)) /\ Len(msg.body) \in Nat
  BY AloneFacts
<1>3. Min({checkedidx + length, readidx}) = readidx
  <2> DEFINE t == Len(Encode(msg))
  <2>1. checkedidx + length = t /\ readidx <= t /\ t \in Nat
    BY <1>2, AllArrived
  <2> HIDE DEF t
  <2>2. Min({t, readidx}) = readidx
    <3>1. t \in Int /\ readidx \in Int
      BY <1>2, <2>1
    <3>2. Min({t, readidx}) = IF t <= readidx THEN t ELSE readidx
      BY <3>1, MinOfTwo
    <3> QED BY <1>2, <2>1, <3>2
  <2> QED BY <2>1, <2>2
<1>4. room \in Int
  BY <1>2 DEF Room
<1>5. Min({Len(body), room}) = held
  <2> DEFINE l == Len(body)
  <2>1. l \in Int /\ held = IF l <= room THEN l ELSE room
    BY <1>1
  <2> HIDE DEF l, room
  <2>2. Min({l, room}) = IF l <= room THEN l ELSE room
    BY <1>4, <2>1, MinOfTwo
  <2> QED BY <2>1, <2>2 DEF l
<1>6. s \in Seq(Token) /\ Len(s) = held /\ \A k \in 1..held : s[k] = buf[checkedidx + k - 1]
  <2>1. held = readidx - checkedidx
    BY <1>1
  <2>2. /\ s \in Seq(Token) /\ Len(s) = readidx - checkedidx
        /\ \A k \in 1..(readidx - checkedidx) : s[k] = buf[checkedidx + k - 1]
    BY <1>2, SliceType
  <2> HIDE DEF s
  <2> QED BY <2>1, <2>2
<1> HIDE DEF body, s, room
<1>7. /\ SubSeq(body, 1, held) \in Seq(Token) /\ Len(SubSeq(body, 1, held)) = held
      /\ \A k \in 1..held : SubSeq(body, 1, held)[k] = body[k]
  <2>1. \A i \in 1..held : i \in 1..Len(body)
    BY <1>1
  <2>2. \A i \in 1..held : body[i] \in Token
    BY <1>1, <2>1, ElementOfSeq
  <2>3. 1 \in Int /\ held \in Int
    OBVIOUS
  <2>4. /\ SubSeq(body, 1, held) \in Seq(Token)
        /\ Len(SubSeq(body, 1, held)) = IF 1 <= held THEN held - 1 + 1 ELSE 0
        /\ \A i \in 1..(held - 1 + 1) : SubSeq(body, 1, held)[i] = body[1 + i - 1]
    BY <2>2, <2>3, SubSeqProperties
  <2>5. held - 1 + 1 = held /\ (1 <= held \/ held = 0) /\ \A i \in 1..held : 1 + i - 1 = i
    OBVIOUS
  <2>6. Len(SubSeq(body, 1, held)) = held
    BY <2>4, <2>5
  <2>7. \A k \in 1..held : SubSeq(body, 1, held)[k] = body[k]
    BY <2>4, <2>5
  <2> QED BY <2>4, <2>6, <2>7
<1> DEFINE p == SubSeq(body, 1, held)
<1>8. p \in Seq(Token) /\ Len(p) = Len(s) /\ \A k \in 1..Len(s) : s[k] = p[k]
  BY <1>1, <1>6, <1>7
<1> HIDE DEF p
<1>9. s = p
  BY <1>6, <1>8, SeqEqual
<1> QED BY <1>3, <1>5, <1>9 DEF s, p, body, room

\* An answer of do_request() is due to the request as it was sent.
LEMMA DecidedAsSent ==
    ASSUME IInv, Alone, phase = "deciding", NEW code, Decide(code),
           \/ code = IF IsUpload THEN (IF HasFile THEN "stored" ELSE "bad") ELSE "page"
           \/ code = "unsaved" /\ IsUpload /\ HasFile
    PROVE  ParsedAsSent'
<1>1. /\ reply' = [code |-> code, method |-> method, linger |-> linger,
                   body |-> Slice(checkedidx, Min({checkedidx + length, readidx}))]
      /\ msg' = msg
  BY DEF Decide, Reply, client
<1>2. reply'.body = SubSeq(msg.body, 1, Min({Len(msg.body), Room(msg)}))
  BY <1>1, BodyAnswered
<1>3. /\ msg.eol = <<CR, LF>> /\ method = IF msg.line = "get" THEN "get" ELSE "post"
      /\ linger <=> \E i \in 1..Len(msg.headers) :
            /\ msg.headers[i] = "keep"
            /\ \A j \in (i + 1)..Len(msg.headers) : msg.headers[j] # "close"
  BY AllArrived DEF HeadRead, Understood
<1>4. reply'.code = Due(msg) \/ (reply'.code = "unsaved" /\ Due(msg) = "stored")
  BY <1>1, CodeIs
<1>5. reply'.method = IF msg.line = "get" THEN "get" ELSE "post"
  BY <1>1, <1>3
<1>6. reply'.linger = Lasting(msg)
  <2>1. linger \in BOOLEAN /\ Lasting(msg) \in BOOLEAN
    BY AloneFacts DEF TypeOK, Lasting
  <2>2. msg.headers \in Seq(Token)
    BY AloneFacts, MessageParts
  <2>3. DOMAIN msg.headers = 1..Len(msg.headers)
    BY <2>2, LenProperties
  <2>4. linger <=> Lasting(msg)
    BY <1>3, <2>3 DEF Lasting
  <2> QED BY <1>1, <2>1, <2>4
<1>7. /\ (msg'.eol = <<CR, LF>>)
      /\ reply'.code = Due(msg') \/ (reply'.code = "unsaved" /\ Due(msg') = "stored")
      /\ reply'.method = IF msg'.line = "get" THEN "get" ELSE "post"
      /\ reply'.linger = Lasting(msg')
      /\ reply'.body = SubSeq(msg'.body, 1, Min({Len(msg'.body), Room(msg')}))
  BY <1>1, <1>2, <1>3, <1>4, <1>5, <1>6
<1> QED BY <1>7 DEF ParsedAsSent

\* A request is answered as it was sent, if recv() never stored over it.
LEMMA AnswerStep ==
    ASSUME IInv, [Next]_vars
    PROVE  ParsedAsSent'
<1>0. TypeOK /\ ParsedAsSent /\ intact \in BOOLEAN
  BY DEF IInv, TypeOK
<1>p. ParseStep => /\ msg' = msg /\ intact' = intact
                   /\ reply' = reply \/ BadRequestLine
  BY <1>0, ParseEffects
<1> SUFFICES ASSUME intact', reply' # NoReply PROVE ParsedAsSent'
  BY DEF ParsedAsSent
<1>same. ASSUME UNCHANGED <<msg, reply>>, intact PROVE ParsedAsSent'
  BY <1>0, <1>same DEF ParsedAsSent
<1>1. ASSUME NEW m \in Messages, Send(m) PROVE FALSE
  BY <1>1 DEF Send
<1>2. CASE Connect
  BY <1>2 DEF Connect
<1>3. ASSUME NEW n \in 1..Len(rest), Arrive(n) PROVE ParsedAsSent'
  BY <1>3, <1>same DEF Arrive, history
<1>4. CASE Keep
  BY <1>4, <1>same DEF Keep, client, history
<1>5. CASE Recv
  <2>1. UNCHANGED <<msg, reply>> /\ intact' = (intact /\ readidx = 0) /\ intact \in BOOLEAN
    BY <1>0, <1>5 DEF Recv, Received, client, TypeOK
  <2> QED BY <1>same, <2>1
<1>6. CASE Spill
  BY <1>6, <1>same DEF Spill, client, history
<1>7. CASE StandStill
  BY <1>7, <1>same DEF StandStill
<1>8. CASE ParseStep
  <2>1. /\ msg' = msg /\ intact
        /\ reply' = reply \/ BadRequestLine
    BY <1>0, <1>8, <1>p
  <2>2. CASE BadRequestLine
    <3>1. msg'.eol = <<CR, LF>> /\ msg'.line = "bad" /\ reply'.code = "bad"
      BY <2>1, <2>2, BadLine
    <3>2. Due(msg') = "bad"
      BY <3>1 DEF Due
    <3> QED BY <3>1, <3>2 DEF ParsedAsSent
  <2> QED BY <1>same, <2>1, <2>2
<1>9. CASE DecideStep
  <2>1. phase = "deciding" /\ UNCHANGED intact
    BY <1>0, <1>9, DecideEffects
  <2>2. Alone
    BY <2>1, AnswersAlone
  <2>3. CASE UploadUnsaved
    BY <2>1, <2>2, <2>3, DecidedAsSent DEF UploadUnsaved
  <2>4. CASE Upload \/ UploadRefused \/ OtherRequest
    <3>1. Decide(IF IsUpload THEN (IF HasFile THEN "stored" ELSE "bad") ELSE "page")
      BY <2>4 DEF Upload, UploadRefused, OtherRequest
    <3> QED BY <2>1, <2>2, <3>1, DecidedAsSent
  <2> QED BY <1>9, <2>3, <2>4 DEF DecideStep
<1>10. CASE UploadStuck
  BY <1>10, <1>same DEF UploadStuck, client, history
<1> QED BY <1>0, <1>1, <1>2, <1>3, <1>4, <1>5, <1>6, <1>7, <1>8, <1>9, <1>10, StepKinds

\* Nothing of a request that recv() never stored over gets lost.
LEMMA UndisturbedStep ==
    ASSUME IInv, [Next]_vars
    PROVE  Undisturbed'
<1> SUFFICES ASSUME Alone' PROVE Streamed' /\ Held' /\ Parsed'
  BY DEF Undisturbed
<1> QED BY StreamStep, ReadStep

\* The invariant holds at the beginning.
LEMMA InvInit == Init => IInv
<1> SUFFICES ASSUME Init PROVE IInv
  OBVIOUS
<1>1. /\ msg = NoMsg /\ rest = <<>> /\ sock = <<>> /\ gone = FALSE
      /\ asked = 0 /\ pieces = 0
      /\ phase = "idle" /\ buf = Zeroed
      /\ readidx = 0 /\ checkedidx = 0 /\ startline = 0
      /\ check = "line" /\ method = "get" /\ url = -1 /\ linger = FALSE
      /\ length = 0 /\ boundary = -1
      /\ tmp = NoFile /\ tmplen = 0 /\ stored = <<>>
      /\ intact = TRUE /\ outside = FALSE /\ reply = NoReply
  BY DEF Init, Zeroed
<1>b. BufSize \in Nat /\ BufSize >= 1 /\ MaxRequests \in Nat /\ MaxPieces \in Nat
  BY BufSizes
<1>2. TypeOK
  <2>1. <<>> \in Seq(Token)
    BY EmptySeq
  <2>2. NetTypes
    <3>1. msg \in Messages \cup {NoMsg} /\ rest \in Seq(Token) /\ sock \in Seq(Token)
      BY <1>1, <2>1
    <3>2. gone \in BOOLEAN
      BY <1>1
    <3>3. 0 \in 0..MaxRequests /\ 0 \in 0..MaxPieces
      BY <1>b
    <3>4. asked \in 0..MaxRequests /\ pieces \in 0..MaxPieces
      BY <1>1, <3>3
    <3> QED BY <3>1, <3>2, <3>4 DEF NetTypes
  <2>3. PhaseType /\ HistoryTypes
    BY <1>1 DEF PhaseType, HistoryTypes
  <2>4. BufType
    BY <1>1, ZeroedType DEF BufType
  <2>5. PlaceTypes
    BY <1>1, <1>b DEF PlaceTypes
  <2>6. ParsedTypes
    <3>1. -1 \in -1..(BufSize - 1) /\ 0 \in Nat
      BY <1>b
    <3> QED BY <1>1, <3>1 DEF ParsedTypes
  <2>7. FileTypes
    BY <1>1, <2>1 DEF FileTypes
  <2> QED BY <2>2, <2>3, <2>4, <2>5, <2>6, <2>7, TypeGroups
<1>3. PieceLeft /\ SpilledFull /\ NothingUnsent /\ AnswerSaid
  BY <1>1 DEF PieceLeft, SpilledFull, NothingUnsent, AnswerSaid
<1>4. EmptyIsFresh
  BY <1>1 DEF EmptyIsFresh
<1>5. NothingLeft /\ Undisturbed /\ ParsedAsSent
  BY <1>1 DEF NothingLeft, Undisturbed, Alone, ParsedAsSent
<1> QED BY <1>2, <1>3, <1>4, <1>5 DEF IInv

\* IInv is an inductive invariant of the specification.
LEMMA Invariant == Spec => []IInv
<1>1. IInv /\ [Next]_vars => IInv'
  <2> SUFFICES ASSUME IInv, [Next]_vars PROVE IInv'
    OBVIOUS
  <2>1. TypeOK' /\ PieceLeft'
    BY TypeStep DEF IInv
  <2>2. EmptyIsFresh' /\ SpilledFull' /\ NothingUnsent' /\ AnswerSaid'
    BY ControlStep
  <2>3. NothingLeft' /\ Undisturbed' /\ ParsedAsSent'
    BY NothingLeftStep, UndisturbedStep, AnswerStep
  <2> QED BY <2>1, <2>2, <2>3 DEF IInv
<1> QED BY InvInit, <1>1, PTL DEF Spec

\* What is saved of an upload is what the client sent, whether m_readbuf took all of it
\* or the temporary file the rest.
LEMMA SavedIs ==
    ASSUME IInv, Alone, phase = "deciding", HasFile
    PROVE  FileContent \o Spilled = Saved(msg)
<1> DEFINE body == msg.body
           sent == Encode(msg)
           c == checkedidx
           b == Len(body)
           f == Len(Form)
           T == {i \in DOMAIN Form : Form[i] = "part"}
           next == {i \in (Min(T) + 1)..Len(Form) : Form[i] \in {"part", "end"}}
           cut == /\ Len(sent) <= BufSize
                  /\ ~Contains(SubSeq(body, 1, Len(body) - 1), NUL)
<1>1. PICK held \in Nat :
        /\ held = readidx - c
        /\ held <= b
        /\ held = b <=> Len(sent) <= BufSize
        /\ \A k \in 1..held : buf[c + k - 1] = body[k]
        /\ body \in Seq(Token) /\ b \in Nat
  BY BodyHeld
<1>2. /\ Form \in Seq(Token) /\ f \in Nat /\ f <= held
      /\ \A k \in 1..f : Form[k] = body[k] /\ body[k] # NUL
      /\ f = held \/ body[f + 1] = NUL
  BY <1>1, FormIs
<1>3. /\ TypeOK /\ readidx \in Nat /\ readidx <= BufSize /\ c \in Nat /\ c <= readidx
      /\ BufSize \in Nat /\ buf \in [0..(BufSize - 1) -> Token] /\ Len(sent) \in Nat
      /\ msg \in Messages
  BY AloneFacts
<1>4. /\ Layout(msg) /\ c = HeadLen(msg) /\ Spilled \in Seq(Token)
      /\ Spilled = SubSeq(sent, readidx + 1, Len(sent))
  BY AllArrived
<1>5. /\ Len(sent) = c + b /\ sent \in Seq(Token)
      /\ \A i \in 1..b : sent[c + i] = body[i]
  <2>1. Len(sent) = c + b /\ \A i \in 1..b : sent[c + i - 1 + 1] = body[i]
    BY <1>4 DEF Layout, Sent
  <2>2. \A i \in 1..b : c + i - 1 + 1 = c + i
    BY <1>1, <1>3
  <2>3. sent \in Seq(Token)
    BY <1>3, EncodeIs
  <2>4. \A i \in 1..b : sent[c + i] = body[i]
    BY <2>1, <2>2
  <2> QED BY <2>1, <2>3, <2>4
<1>6. Boundary = <<"bound">> /\ Boundary # <<>>
  BY BoundaryIs DEF HasFile
<1>7. Contains(Form, "part") /\ Contains(body, "part")
  BY HasFileIs DEF HasFile
<1>8. /\ body[1] = "part" /\ body[b] = "end"
      /\ \A i \in 2..(b - 1) : body[i] \notin {"part", "end"}
  BY <1>3, <1>7, ParserAssumption DEF OnePart
<1>9. FileContent = IF next # {} THEN SubSeq(Form, Min(T) + 1, Min(next) - 1)
                    ELSE Slice(c + Min(T), readidx)
  BY <1>6 DEF FileContent
<1>10. Saved(msg) = SubSeq(body, 2, b - (IF cut THEN 1 ELSE 0))
  BY DEF Saved
<1>11. f >= 1 /\ b >= 2 /\ DOMAIN Form = 1..f
  <2>1. \E k \in 1..f : Form[k] = "part"
    BY <1>2, <1>7 DEF Contains
  <2>2. f >= 1 /\ b >= 1
    BY <1>1, <1>2, <2>1
  <2>3. b # 1
    BY <1>8
  <2>4. DOMAIN Form = 1..f
    BY <1>2, LenProperties
  <2> HIDE DEF f, b
  <2> QED BY <1>1, <2>2, <2>3, <2>4
<1>12. Min(T) = 1
  <2> DEFINE first == Min(T)
  <2>f. f \in Nat /\ f >= 1
    <3> HIDE DEF f
    <3> QED BY <1>2, <1>11
  <2>t. T = {i \in 1..f : Form[i] = "part"}
    BY <1>11
  <2>p. 1 \in 1..f => Form[1] = "part"
    BY <1>2, <1>8
  <2> HIDE DEF f, T
  <2>1. T \subseteq 1..f /\ 1 \in T
    BY <2>f, <2>t, <2>p
  <2>2. T \subseteq Nat /\ T # {}
    BY <2>1
  <2>3. first \in T /\ first <= 1
    BY <2>1, <2>2, MinOfNats
  <2> HIDE DEF first
  <2>4. first = 1
    BY <2>1, <2>3
  <2> QED BY <2>4 DEF first
<1> DEFINE tail == {i \in 2..f : Form[i] \in {"part", "end"}}
<1>13. next = tail
  <2>1. Min(T) + 1 = 2
    <3> HIDE DEF T
    <3> QED BY <1>12
  <2> HIDE DEF T
  <2> QED BY <2>1
<1>14. FileContent = IF tail # {} THEN SubSeq(Form, 2, Min(tail) - 1) ELSE Slice(c + 1, readidx)
  <2>1. Min(T) + 1 = 2 /\ c + Min(T) = c + 1
    BY <1>12
  <2> HIDE DEF T, tail, next, c
  <2> QED BY <1>9, <1>13, <2>1
<1> HIDE DEF T, next, c, b, f, sent, body
<1>15. CASE cut
  <2>1. held = b /\ readidx = Len(sent)
    BY <1>1, <1>3, <1>5, <1>15
  <2>2. \A i \in 1..(b - 1) : body[i] # NUL
    <3> DEFINE p == SubSeq(body, 1, b - 1)
    <3>1. \A i \in 1..(b - 1) : i \in 1..Len(body)
      BY <1>1 DEF b
    <3>2. \A i \in 1..(b - 1) : body[i] \in Token
      BY <1>1, <3>1, ElementOfSeq
    <3>3. 1 \in Int /\ b - 1 \in Int
      BY <1>1
    <3>4. /\ p \in Seq(Token) /\ Len(p) = IF 1 <= b - 1 THEN (b - 1) - 1 + 1 ELSE 0
          /\ \A i \in 1..((b - 1) - 1 + 1) : p[i] = body[1 + i - 1]
      BY <3>2, <3>3, SubSeqProperties
    <3>5. 1 <= b - 1 /\ (b - 1) - 1 + 1 = b - 1 /\ \A i \in 1..(b - 1) : 1 + i - 1 = i
      BY <1>1, <1>11
    <3>6. Len(p) = b - 1 /\ \A i \in 1..(b - 1) : p[i] = body[i]
      BY <3>4, <3>5
    <3>7. ~Contains(p, NUL)
      BY <1>15 DEF b
    <3> HIDE DEF p
    <3>8. \A i \in 1..Len(p) : p[i] # NUL
      BY <3>7 DEF Contains
    <3> QED BY <3>6, <3>8
  <2>3. f = b
    <3> SUFFICES ASSUME f # b PROVE FALSE
      OBVIOUS
    <3>1. body[f + 1] = NUL /\ f + 1 \in 1..b
      BY <1>1, <1>2, <2>1
    <3>2. f + 1 = b \/ f + 1 \in 1..(b - 1)
      BY <1>1, <1>2, <3>1
    <3>3. body[b] # NUL
      BY <1>8 DEF NUL
    <3> QED BY <2>2, <3>1, <3>2, <3>3
  <2>4. tail = {b}
    <3>1. \A i \in 2..f : Form[i] = body[i] /\ (i = b \/ i \in 2..(b - 1))
      BY <1>1, <1>2, <1>11, <2>3
    <3>2. b \in 2..f /\ Form[b] = "end"
      BY <1>2, <1>1, <1>8, <1>11, <2>3
    <3> QED BY <1>8, <3>1, <3>2
  <2>5. Min(tail) = b
    <3>1. tail \subseteq Nat /\ tail # {}
      BY <1>1, <2>4
    <3> HIDE DEF tail
    <3>2. Min(tail) \in tail
      BY <3>1, MinOfNats
    <3> QED BY <2>4, <3>2
  <2>6. Spilled = <<>>
    <3>1. readidx + 1 \in Int /\ Len(sent) \in Int /\ Len(sent) < readidx + 1
      BY <1>3, <2>1
    <3> QED BY <1>4, <3>1, SubSeqEmpty
  <2>7. Form = body
    <3>1. Len(Form) = Len(body) /\ \A i \in 1..Len(Form) : Form[i] = body[i]
      BY <1>2, <2>3 DEF f, b
    <3> QED BY <1>1, <1>2, <3>1, SeqEqual
  <2>8. FileContent = SubSeq(body, 2, b - 1)
    <3> HIDE DEF tail
    <3>1. tail # {}
      BY <2>4
    <3> QED BY <1>14, <2>5, <2>7, <3>1
  <2>9. Saved(msg) = SubSeq(body, 2, b - 1)
    BY <1>10, <1>15
  <2>10. FileContent \in Seq(Token)
    BY <1>3, ContentType
  <2>11. FileContent \o <<>> = FileContent
    BY <2>10, ConcatEmptySeq
  <2> QED BY <2>6, <2>8, <2>9, <2>11
<1>16. CASE ~cut
  <2>1. f <= b - 1
    <3>1. CASE ~(Len(sent) <= BufSize)
      BY <1>1, <1>2, <3>1
    <3>2. CASE Contains(SubSeq(body, 1, Len(body) - 1), NUL)
      <4> DEFINE p == SubSeq(body, 1, b - 1)
      <4>1. \A i \in 1..(b - 1) : i \in 1..Len(body)
        BY <1>1 DEF b
      <4>2. \A i \in 1..(b - 1) : body[i] \in Token
        BY <1>1, <4>1, ElementOfSeq
      <4>3. 1 \in Int /\ b - 1 \in Int
        BY <1>1
      <4>4. /\ p \in Seq(Token) /\ Len(p) = IF 1 <= b - 1 THEN (b - 1) - 1 + 1 ELSE 0
            /\ \A i \in 1..((b - 1) - 1 + 1) : p[i] = body[1 + i - 1]
        BY <4>2, <4>3, SubSeqProperties
      <4>5. 1 <= b - 1 /\ (b - 1) - 1 + 1 = b - 1 /\ \A i \in 1..(b - 1) : 1 + i - 1 = i
        BY <1>1, <1>11
      <4>6. Len(p) = b - 1 /\ \A i \in 1..(b - 1) : p[i] = body[i]
        BY <4>4, <4>5
      <4>7. Contains(p, NUL)
        BY <3>2 DEF b
      <4> HIDE DEF p
      <4>8. PICK i \in 1..Len(p) : p[i] = NUL
        BY <4>7 DEF Contains
      <4>9. i \in 1..(b - 1) /\ body[i] = NUL
        BY <4>6, <4>8
      <4>10. i \notin 1..f
        BY <1>2, <4>9
      <4> QED BY <1>1, <1>2, <4>9, <4>10
    <3> QED BY <1>16, <3>1, <3>2
  <2>2. tail = {}
    <3>1. \A i \in 2..f : Form[i] = body[i] /\ i \in 2..(b - 1)
      BY <1>1, <1>2, <2>1
    <3> QED BY <1>8, <3>1
  <2>3. FileContent = Slice(c + 1, readidx)
    BY <1>14, <2>2
  <2> DEFINE x == Slice(c + 1, readidx)
             y == Spilled
             z == SubSeq(body, 2, b)
             d == c + 1
  <2>4. /\ x \in Seq(Token) /\ Len(x) = held - 1
        /\ \A k \in 1..(held - 1) : x[k] = body[k + 1]
    <3>1. d \in Nat /\ d <= readidx /\ readidx - d = held - 1
      BY <1>1, <1>2, <1>3, <1>11
    <3>2. x = Slice(d, readidx)
      OBVIOUS
    <3> HIDE DEF d, x
    <3>3. /\ x \in Seq(Token) /\ Len(x) = readidx - d
          /\ \A k \in 1..(readidx - d) : x[k] = buf[d + k - 1]
      BY <1>3, <3>1, <3>2, SliceType
    <3>4. \A k \in 1..(held - 1) : k + 1 \in 1..held /\ d + k - 1 = c + (k + 1) - 1
      BY <1>1, <1>3 DEF d
    <3>5. ASSUME NEW k \in 1..(held - 1) PROVE x[k] = body[k + 1]
      BY <1>1, <3>1, <3>3, <3>4
    <3> QED BY <3>1, <3>3, <3>5
  <2>5. /\ y \in Seq(Token) /\ Len(y) = b - held
        /\ \A k \in 1..(b - held) : y[k] = body[held + k]
    <3> DEFINE l == Len(sent)
               r == readidx + 1
    <3>1. l \in Int /\ r \in Int /\ r <= l + 1 /\ l - r + 1 = b - held /\ r >= 1
      BY <1>1, <1>3, <1>5
    <3>2. \A i \in r..l : i \in 1..Len(sent)
      BY <1>3
    <3>3. \A i \in r..l : sent[i] \in Token
      BY <1>5, <3>2, ElementOfSeq
    <3>4. y = SubSeq(sent, r, l) /\ y \in Seq(Token)
      BY <1>4
    <3>5. \A k \in 1..(b - held) : r + k - 1 = c + (held + k) /\ held + k \in 1..b
      BY <1>1, <1>3
    <3> HIDE DEF l, r, y
    <3>6. /\ Len(y) = IF r <= l THEN l - r + 1 ELSE 0
          /\ \A k \in 1..(l - r + 1) : y[k] = sent[r + k - 1]
      BY <3>1, <3>3, <3>4, SubSeqProperties
    <3>7. Len(y) = b - held
      BY <3>1, <3>6
    <3>8. ASSUME NEW k \in 1..(b - held) PROVE y[k] = body[held + k]
      BY <1>5, <3>1, <3>5, <3>6
    <3> QED BY <3>4, <3>7, <3>8
  <2>6. /\ z \in Seq(Token) /\ Len(z) = b - 1
        /\ \A k \in 1..(b - 1) : z[k] = body[k + 1]
    <3>1. \A i \in 2..b : i \in 1..Len(body)
      BY <1>1 DEF b
    <3>2. \A i \in 2..b : body[i] \in Token
      BY <1>1, <3>1, ElementOfSeq
    <3>3. 2 \in Int /\ b \in Int
      BY <1>1
    <3>4. /\ z \in Seq(Token) /\ Len(z) = IF 2 <= b THEN b - 2 + 1 ELSE 0
          /\ \A k \in 1..(b - 2 + 1) : z[k] = body[2 + k - 1]
      BY <3>2, <3>3, SubSeqProperties
    <3>5. 2 <= b /\ b - 2 + 1 = b - 1 /\ \A k \in 1..(b - 1) : 2 + k - 1 = k + 1
      BY <1>1, <1>11
    <3> HIDE DEF z
    <3> QED BY <3>4, <3>5
  <2>7. Saved(msg) = z
    <3>1. b - 0 = b
      BY <1>1
    <3> QED BY <1>10, <1>16, <3>1
  <2> HIDE DEF x, y, z
  <2>8. /\ x \o y \in Seq(Token) /\ Len(x \o y) = Len(x) + Len(y)
        /\ \A i \in 1..Len(x) : (x \o y)[i] = x[i]
        /\ \A i \in 1..Len(y) : (x \o y)[Len(x) + i] = y[i]
    <3>1. x \in Seq(Token) /\ y \in Seq(Token)
      BY <2>4, <2>5
    <3> QED BY <3>1, ConcatAt
  <2>9. held \in Nat /\ held >= 1 /\ held <= b /\ b \in Nat
    BY <1>1, <1>2, <1>11
  <2>10. Len(x \o y) = Len(z)
    BY <2>4, <2>5, <2>6, <2>8, <2>9
  <2>11. ASSUME NEW i \in 1..(b - 1) PROVE (x \o y)[i] = z[i]
    <3>1. CASE i <= held - 1
      <4>1. i \in 1..(held - 1)
        BY <2>9, <3>1
      <4> QED BY <2>4, <2>6, <2>8, <4>1
    <3>2. CASE ~(i <= held - 1)
      <4>1. i - (held - 1) \in 1..(b - held) /\ held - 1 + (i - (held - 1)) = i
            /\ held + (i - (held - 1)) = i + 1
        BY <2>9, <3>2
      <4>2. (x \o y)[held - 1 + (i - (held - 1))] = y[i - (held - 1)]
        BY <2>4, <2>5, <2>8, <4>1
      <4>3. y[i - (held - 1)] = body[held + (i - (held - 1))]
        BY <2>5, <4>1
      <4> QED BY <2>6, <4>1, <4>2, <4>3
    <3> QED BY <3>1, <3>2
  <2>12. x \o y = z
    <3>1. \A i \in 1..Len(x \o y) : (x \o y)[i] = z[i]
      BY <2>6, <2>10, <2>11
    <3> QED BY <2>6, <2>8, <2>10, <3>1, SeqEqual
  <2> QED BY <2>3, <2>7, <2>12 DEF x, y
<1> QED BY <1>15, <1>16

-----------------------------------------------------------------------------
(* What is proved                                                          *)

\* Every variable keeps its type: recv() never takes more than m_readbuf has room for,
\* and the places process_read() goes by stay in order and within what was read.
THEOREM TypeCorrect == Spec => []TypeOK
<1>1. IInv => TypeOK
  BY DEF IInv
<1> QED BY Invariant, <1>1, PTL

\* A request that recv() never stored over is understood as it was sent, wherever the
\* network cut it and whatever the connection was used for before.
THEOREM UnderstoodAsSent == Spec => []ParsedAsSent
<1>1. IInv => ParsedAsSent
  BY DEF IInv
<1> QED BY Invariant, <1>1, PTL

\* The answer to a request that recv() never stored over saves what the request uploads,
\* every token of it, whether it came in m_readbuf or through the temporary file, if it is
\* "stored"; any other, that of an upload whose file could not be opened too, saves nothing.
THEOREM UploadsSaved == Spec => StoredIsUploaded
<1>1. IInv /\ [Next]_vars =>
        [reply' # reply /\ reply' # NoReply /\ intact
           => stored' = IF reply'.code = "stored" THEN Over(Saved(msg), stored) ELSE stored]_vars
  <2> SUFFICES ASSUME IInv, [Next]_vars, reply' # reply, reply' # NoReply, intact
               PROVE  stored' = IF reply'.code = "stored" THEN Over(Saved(msg), stored) ELSE stored
    OBVIOUS
  <2>0. TypeOK
    BY DEF IInv
  <2>c. \A code : Reply(code) => reply'.code = code
    BY DEF Reply
  <2>1. ~ \E m \in Messages : Send(m)
    BY DEF Send
  <2>2. ~ \E n \in 1..Len(rest) : Arrive(n)
    BY DEF Arrive, history
  <2>3. ~(Connect \/ Keep \/ Recv \/ Spill \/ StandStill \/ UploadStuck)
    BY DEF Connect, Keep, Recv, Received, Spill, StandStill, UploadStuck, history
  <2>4. CASE ParseStep
    <3>1. Reply("bad") /\ stored' = stored
      BY <2>0, <2>4, ParseEffects
    <3> QED BY <2>c, <3>1
  <2>5. CASE UploadUnsaved \/ UploadRefused \/ OtherRequest
    <3>1. Reply("unsaved") \/ Reply("bad") \/ Reply("page")
      BY <2>5 DEF UploadUnsaved, UploadRefused, OtherRequest, Decide
    <3>2. stored' = stored
      BY <2>5 DEF UploadUnsaved, UploadRefused, OtherRequest
    <3> QED BY <2>c, <3>1, <3>2
  <2>6. CASE Upload
    <3>1. /\ phase = "deciding" /\ HasFile /\ Reply("stored")
          /\ stored' = Over(FileContent \o Spilled, stored)
      BY <2>6 DEF Upload, Decide, Goto
    <3>2. FileContent \o Spilled = Saved(msg)
      BY <3>1, AnswersAlone, SavedIs
    <3> QED BY <2>c, <3>1, <3>2
  <2> QED BY <2>0, <2>1, <2>2, <2>3, <2>4, <2>5, <2>6, StepKinds DEF DecideStep
<1> QED BY Invariant, <1>1, PTL DEF Spec, StoredIsUploaded

\* However often read() comes back for more, what m_readbuf has no room for goes through the
\* temporary file in order, once, and tmplen counts it but for the error of a reset.
THEOREM SpilledInOrder == Spec => []SpillComplete
<1>1. IInv => SpillComplete
  <2> SUFFICES ASSUME IInv, msg # NoMsg, intact, reply = NoReply, readidx = BufSize,
                      phase # "stuck"
               PROVE  /\ Spilled \o sock \o rest
                           = SubSeq(Encode(msg), BufSize + 1, Len(Encode(msg)))
                      /\ tmplen <= Len(Spilled)
                      /\ gone \/ tmplen = Len(Spilled)
    BY DEF SpillComplete
  <2>1. Alone
    BY DEF Alone
  <2>2. TypeOK /\ Streamed
    BY <2>1, AloneFacts
  <2>3. Spilled \in Seq(Token) /\ sock \in Seq(Token) /\ rest \in Seq(Token)
    BY <2>2, EmptySeq DEF TypeOK, Spilled
  <2>4. (Spilled \o sock) \o rest = Spilled \o (sock \o rest)
    BY <2>3, ConcatAssociative, SMTT(30)
  <2> QED BY <2>2, <2>4 DEF Streamed
<1> QED BY Invariant, <1>1, PTL

\* The zero behind the body is written behind m_readbuf only when a request fills it.
THEOREM TerminatorKept == Spec => TerminatorInside
<1>1. IInv /\ [Next]_vars => [outside' => outside \/ readidx = BufSize]_vars
  <2> SUFFICES ASSUME IInv, [Next]_vars, outside', ~outside PROVE readidx = BufSize
    OBVIOUS
  <2>0. /\ TypeOK /\ SpilledFull /\ readidx \in Nat /\ readidx <= BufSize /\ BufSize \in Nat
        /\ checkedidx \in Nat /\ length \in Nat /\ tmplen \in Int
    BY BufSizes DEF IInv, TypeOK
  <2>1. Content
    BY <2>0, StepKinds
       DEF Send, Arrive, Connect, Keep, Recv, Received, Spill, StandStill, history,
           ParseStep, NoLine, RequestLine, BadRequestLine, HeaderLine, BlankLine, TakeLine,
           ContentMore, UploadStuck, DecideStep, Upload, UploadUnsaved, UploadRefused,
           OtherRequest, Decide
  <2>2. Complete /\ outside' = (outside \/ checkedidx + length >= BufSize)
    BY <2>1 DEF Content
  <2>3. checkedidx + length >= BufSize
    BY <2>2
  <2>4. readidx + tmplen >= length + checkedidx
    BY <2>2 DEF Complete
  <2> QED BY <2>0, <2>3, <2>4 DEF SpilledFull
<1> QED BY Invariant, <1>1, PTL DEF Spec, TerminatorInside

\* recv()'s loop in read() stops at the end of m_readbuf, the loop over the lines in
\* process_read() at the end of what was read: each turn brings the one or the other
\* nearer, so neither goes on for ever.  IntactIsAnswered rests on it.
THEOREM LoopsEnd == Spec => LoopsAdvance
<1>1. TypeOK /\ [Next]_vars =>
        [/\ phase = "reading" /\ phase' = "reading" => readidx' > readidx
         /\ phase = "parsing" /\ phase' = "parsing" => startline' > startline]_conn
  <2> SUFFICES ASSUME TypeOK, [Next]_vars, conn' # conn
               PROVE  /\ phase = "reading" /\ phase' = "reading" => readidx' > readidx
                      /\ phase = "parsing" /\ phase' = "parsing" => startline' > startline
    OBVIOUS
  <2>0. ~(\E m \in Messages : Send(m)) /\ ~(\E n \in 1..Len(rest) : Arrive(n)) /\ ~StandStill
    BY DEF Send, Arrive, StandStill
  <2>1. ASSUME phase = "reading", phase' = "reading" PROVE readidx' > readidx
    <3>1. Recv
      <4>1. ~(Connect \/ Keep \/ Spill)
        BY <2>1 DEF Connect, Keep, Spill, Goto
      <4>2. ~ParseStep
        BY <2>1, ParseEffects
      <4>3. ~DecideStep
        BY <2>1, DecideEffects
      <4>4. ~UploadStuck
        BY <2>1 DEF UploadStuck, Goto
      <4> QED BY <2>0, <4>1, <4>2, <4>3, <4>4, StepKinds
    <3>2. PICK n \in Nat : n > 0 /\ Received(n)
      BY <3>1, Taken
    <3>3. readidx' = readidx + n /\ readidx \in Nat
      BY <3>2 DEF Received, TypeOK
    <3> QED BY <3>2, <3>3
  <2>2. ASSUME phase = "parsing", phase' = "parsing" PROVE startline' > startline
    <3>1. ParseStep
      <4>1. ~(Connect \/ Keep \/ Recv \/ Spill \/ UploadStuck)
        BY <2>2 DEF Connect, Keep, Recv, Spill, UploadStuck, Goto
      <4>2. ~DecideStep
        BY <2>2, DecideEffects
      <4> QED BY <2>0, <4>1, <4>2, StepKinds
    <3>2. ~(NoLine \/ Content \/ ContentMore)
      BY <2>2 DEF NoLine, Content, ContentMore, Goto
    <3>3. TakeLine
      BY <3>1, <3>2 DEF ParseStep, RequestLine, BadRequestLine, HeaderLine, BlankLine
    <3>4. startline' = LineEnd + 2 /\ LineEnd # -1 /\ startline \in Nat
      BY <3>3 DEF TakeLine, TypeOK
    <3>5. LineEnd \in Nat /\ startline <= LineEnd + 1
      BY <3>4, LineEndIs
    <3> QED BY <3>4, <3>5
  <2> QED BY <2>1, <2>2
<1> QED BY TypeCorrect, <1>1, PTL DEF Spec, LoopsAdvance
=============================================================================

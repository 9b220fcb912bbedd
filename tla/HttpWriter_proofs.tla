--------------------------- MODULE HttpWriter_proofs ---------------------------
(***************************************************************************)
(* Proofs about HttpWriter for every buffer and file size: type            *)
(* correctness, that what the client has is a prefix of the response as    *)
(* long as send() takes m_writebuf whole, that a response announces what   *)
(* follows its header, that every file opened is closed but for one per    *)
(* connection closed in mid-response, and that no step of write() is in    *)
(* vain while the file is there.                                           *)
(***************************************************************************)
EXTENDS HttpWriter, SequenceTheorems, TLAPS

-----------------------------------------------------------------------------
(* The inductive invariant                                                 *)

USE DEF counters, place

Responding == pc \in {"out", "send", "file", "test"}

\* Between two responses everything is as init() leaves it.
Cleaned ==
    pc \in {"read", "process"} =>
        /\ buf = <<>> /\ toSend = 0 /\ haveSent = 0
        /\ file = "none" /\ len = 0 /\ offset = 0 /\ declared = 0

\* The two counters share out m_writebuf, m_len and m_offset the file.
Counted == haveSent + toSend = Len(buf) /\ len + offset = declared

\* As long as send() took all or nothing: nothing is sent, or m_writebuf and as much of
\* the file as m_offset says.
SentWhole ==
    /\ pc = "process" => wire = <<>>
    /\ Responding => buf # <<>>
    /\ Responding /\ ~short =>
          \/ haveSent = 0 /\ offset = 0 /\ wire = <<>>
          \/ toSend = 0 /\ wire = buf \o Bytes("file", offset)

\* Unless it vanished, the file of a response is open and as long as its header says, or
\* there is nothing of it to send.
Present ==
    Responding /\ ~vanished => IF file = "open" THEN size = declared ELSE len = 0

IInv ==
    /\ TypeOK /\ Cleaned /\ Counted /\ SentWhole
    /\ Present
    /\ LengthAnnounced /\ FileClosed

-----------------------------------------------------------------------------
(* Sequences, by index                                                     *)

Names == {"status", "type", "length", "connection", "blank", "body", "file", "stray"}

\* A function on 1..n is a sequence of length n.
LEMMA SeqOfFunction ==
    ASSUME NEW S, NEW n \in Nat, NEW f \in [1..n -> S]
    PROVE  f \in Seq(S) /\ Len(f) = n
<1>1. f \in Seq(S)
  BY SeqDef
<1>2. Len(f) \in Nat /\ DOMAIN f = 1..Len(f)
  BY <1>1, LenProperties
<1>3. 1..Len(f) = 1..n
  BY <1>2
<1>4. \A j, k \in Nat : 1..j = 1..k => j = k
  OBVIOUS
<1> QED BY <1>1, <1>2, <1>3, <1>4

\* n bytes of one kind.
LEMMA BytesSeq ==
    ASSUME NEW name \in Names, NEW n \in Nat
    PROVE  /\ Bytes(name, n) \in Seq(Byte) /\ Len(Bytes(name, n)) = n
           /\ \A i \in 1..n : Bytes(name, n)[i] = <<name, i>>
<1>1. \A i \in 1..n : <<name, i>> \in Byte
  BY DEF Names, Byte
<1>2. Bytes(name, n) \in [1..n -> Byte]
  BY <1>1 DEF Bytes
<1> QED BY <1>2, SeqOfFunction DEF Bytes

\* A sequence is a prefix of what has the same members at its places.
LEMMA PrefixByIndex ==
    ASSUME NEW S, NEW s \in Seq(S), NEW t \in Seq(S), Len(s) <= Len(t),
           \A i \in 1..Len(s) : s[i] = t[i]
    PROVE  IsPrefix(s, t)
<1>1. Len(s) \in Nat /\ Len(t) \in Nat
  BY LenProperties
<1>2. SubSeq(s, 1, Len(s)) = s
  BY SubSeqFull
<1>3. \A i \in 1..Len(s) : t[i] \in S
  BY <1>1, ElementOfSeq
<1>4. /\ SubSeq(t, 1, Len(s)) \in Seq(S)
      /\ Len(SubSeq(t, 1, Len(s))) = IF 1 <= Len(s) THEN Len(s) - 1 + 1 ELSE 0
      /\ \A i \in 1..(Len(s) - 1 + 1) : SubSeq(t, 1, Len(s))[i] = t[1 + i - 1]
  BY <1>1, <1>3, SubSeqProperties
<1>5. Len(SubSeq(t, 1, Len(s))) = Len(s)
  BY <1>1, <1>4
<1>6. \A i \in 1..Len(s) : SubSeq(t, 1, Len(s))[i] = s[i]
  BY <1>1, <1>4
<1>7. SubSeq(t, 1, Len(s)) = s
  BY <1>4, <1>5, <1>6, SeqEqual
<1> QED BY <1>2, <1>7 DEF IsPrefix

\* Prefixes behind the same sequence.
LEMMA PrefixBehind ==
    ASSUME NEW S, NEW b \in Seq(S), NEW p \in Seq(S), NEW q \in Seq(S), Len(p) <= Len(q),
           \A i \in 1..Len(p) : p[i] = q[i]
    PROVE  b \o p \in Seq(S) /\ b \o q \in Seq(S) /\ IsPrefix(b \o p, b \o q)
<1>1. Len(b) \in Nat /\ Len(p) \in Nat /\ Len(q) \in Nat
  BY LenProperties
<1>2. /\ b \o p \in Seq(S) /\ Len(b \o p) = Len(b) + Len(p)
      /\ \A i \in 1..(Len(b) + Len(p)) : (b \o p)[i] = IF i <= Len(b) THEN b[i] ELSE p[i - Len(b)]
  BY ConcatProperties
<1>3. /\ b \o q \in Seq(S) /\ Len(b \o q) = Len(b) + Len(q)
      /\ \A i \in 1..(Len(b) + Len(q)) : (b \o q)[i] = IF i <= Len(b) THEN b[i] ELSE q[i - Len(b)]
  BY ConcatProperties
<1>4. ASSUME NEW i \in 1..(Len(b) + Len(p)) PROVE (b \o p)[i] = (b \o q)[i]
  <2>1. i \in 1..(Len(b) + Len(q))
    BY <1>1
  <2>2. CASE i <= Len(b)
    BY <1>2, <1>3, <2>1, <2>2
  <2>3. CASE ~(i <= Len(b))
    <3>1. i - Len(b) \in 1..Len(p)
      BY <1>1, <2>3
    <3> QED BY <1>2, <1>3, <2>1, <2>3, <3>1
  <2> QED BY <2>2, <2>3
<1>5. Len(b \o p) <= Len(b \o q)
  BY <1>1, <1>2, <1>3
<1> QED BY <1>2, <1>3, <1>4, <1>5, PrefixByIndex

\* The sequence whose members are those of two, one behind the other.
LEMMA ConcatIs ==
    ASSUME NEW S, NEW p \in Seq(S), NEW q \in Seq(S), NEW r \in Seq(S),
           Len(r) = Len(p) + Len(q),
           \A i \in 1..Len(p) : r[i] = p[i],
           \A i \in 1..Len(q) : r[Len(p) + i] = q[i]
    PROVE  p \o q = r
<1>1. Len(p) \in Nat /\ Len(q) \in Nat
  BY LenProperties
<1>2. /\ p \o q \in Seq(S) /\ Len(p \o q) = Len(p) + Len(q)
      /\ \A i \in 1..(Len(p) + Len(q)) : (p \o q)[i] = IF i <= Len(p) THEN p[i] ELSE q[i - Len(p)]
  BY ConcatProperties
<1>3. ASSUME NEW i \in 1..(Len(p) + Len(q)) PROVE (p \o q)[i] = r[i]
  <2>1. CASE i <= Len(p)
    <3>1. i \in 1..Len(p)
      BY <1>1, <2>1
    <3> QED BY <1>2, <2>1, <3>1
  <2>2. CASE ~(i <= Len(p))
    <3>1. i - Len(p) \in 1..Len(q) /\ Len(p) + (i - Len(p)) = i
      BY <1>1, <2>2
    <3>2. r[Len(p) + (i - Len(p))] = q[i - Len(p)]
      BY <3>1
    <3> QED BY <1>2, <2>2, <3>1, <3>2
  <2> QED BY <2>1, <2>2
<1> QED BY <1>2, <1>3, SeqEqual

\* m_writebuf with the first n bytes of the file is a prefix of it with the first m.
LEMMA WithFile ==
    ASSUME NEW b \in Seq(Byte), NEW n \in Nat, NEW m \in Nat, n <= m
    PROVE  /\ b \o Bytes("file", n) \in Seq(Byte)
           /\ IsPrefix(b \o Bytes("file", n), b \o Bytes("file", m))
<1>1. "file" \in Names
  BY DEF Names
<1>2. /\ Bytes("file", n) \in Seq(Byte) /\ Len(Bytes("file", n)) = n
      /\ \A i \in 1..n : Bytes("file", n)[i] = <<"file", i>>
  BY <1>1, BytesSeq
<1>3. /\ Bytes("file", m) \in Seq(Byte) /\ Len(Bytes("file", m)) = m
      /\ \A i \in 1..m : Bytes("file", m)[i] = <<"file", i>>
  BY <1>1, BytesSeq
<1>4. \A i \in 1..n : i \in 1..m
  OBVIOUS
<1>5. \A i \in 1..n : Bytes("file", n)[i] = Bytes("file", m)[i]
  BY <1>2, <1>3, <1>4
<1> DEFINE p == Bytes("file", n)
           q == Bytes("file", m)
<1>6. p \in Seq(Byte) /\ q \in Seq(Byte) /\ Len(p) <= Len(q) /\ \A i \in 1..Len(p) : p[i] = q[i]
  BY <1>2, <1>3, <1>5
<1> HIDE DEF p, q
<1>7. b \o p \in Seq(Byte) /\ IsPrefix(b \o p, b \o q)
  BY <1>6, PrefixBehind
<1> QED BY <1>7 DEF p, q

\* sendfile() of the next n bytes.
LEMMA MoreOfFile ==
    ASSUME NEW b \in Seq(Byte), NEW o \in Nat, NEW n \in Nat
    PROVE  /\ [i \in 1..n |-> <<"file", o + i>>] \in Seq(Byte)
           /\ (b \o Bytes("file", o)) \o [i \in 1..n |-> <<"file", o + i>>]
                 = b \o Bytes("file", o + n)
<1>0. "file" \in Names /\ o + n \in Nat
  BY DEF Names
<1> DEFINE more == [i \in 1..n |-> <<"file", o + i>>]
           p == Bytes("file", o)
           r == Bytes("file", o + n)
<1>1. \A i \in 1..n : <<"file", o + i>> \in Byte
  BY DEF Byte
<1>2. more \in [1..n -> Byte]
  BY <1>1
<1>3. more \in Seq(Byte) /\ Len(more) = n /\ \A i \in 1..n : more[i] = <<"file", o + i>>
  BY <1>2, SeqOfFunction
<1>4. p \in Seq(Byte) /\ Len(p) = o /\ \A i \in 1..o : p[i] = <<"file", i>>
  BY <1>0, BytesSeq
<1>5. r \in Seq(Byte) /\ Len(r) = o + n /\ \A i \in 1..(o + n) : r[i] = <<"file", i>>
  BY <1>0, BytesSeq
<1> HIDE DEF more, p, r
<1>6. \A i \in 1..o : r[i] = p[i]
  <2>1. \A i \in 1..o : i \in 1..(o + n)
    OBVIOUS
  <2> QED BY <1>4, <1>5, <2>1
<1>7. \A i \in 1..n : r[o + i] = more[i]
  <2>1. \A i \in 1..n : o + i \in 1..(o + n)
    OBVIOUS
  <2> QED BY <1>3, <1>5, <2>1
<1>8. p \o more = r
  <2>1. /\ Len(r) = Len(p) + Len(more) /\ \A i \in 1..Len(p) : r[i] = p[i]
        /\ \A i \in 1..Len(more) : r[Len(p) + i] = more[i]
    BY <1>3, <1>4, <1>5, <1>6, <1>7
  <2>2. p \in Seq(Byte) /\ more \in Seq(Byte) /\ r \in Seq(Byte)
    BY <1>3, <1>4, <1>5
  <2> QED BY <2>1, <2>2, ConcatIs
<1>9. (b \o p) \o more = b \o (p \o more)
  <2>1. p \in Seq(Byte) /\ more \in Seq(Byte)
    BY <1>3, <1>4
  <2> QED BY <2>1, ConcatAssociative
<1> QED BY <1>3, <1>8, <1>9 DEF more, p, r

-----------------------------------------------------------------------------
(* What the worker puts into m_writebuf                                    *)

\* The header behind the lines b.
Headed(b, n) == b \o << <<"length", n>> >> \o Bytes("connection", 1) \o Bytes("blank", 1)

\* What fits is added.
LEMMA AddFits ==
    ASSUME NEW b \in Seq(Byte), NEW part \in Seq(Byte), Len(b) + Len(part) < BufSize
    PROVE  /\ Add(b, part) = b \o part /\ b \o part \in Seq(Byte)
           /\ Len(b \o part) = Len(b) + Len(part)
<1>1. Len(b) \in Nat /\ Len(part) \in Nat /\ BufSize \in Nat
  BY LenProperties, WriterAssumption
<1>2. ~(Len(part) >= BufSize - Len(b))
  BY <1>1
<1> QED BY <1>2, ConcatProperties DEF Add

\* Three single lines fit behind two.
LEMMA LinesFit ==
    ASSUME NEW b \in Seq(Byte), Len(b) <= 2,
           NEW x \in Seq(Byte), NEW y \in Seq(Byte), NEW z \in Seq(Byte),
           Len(x) = 1, Len(y) = 1, Len(z) = 1
    PROVE  /\ Add(Add(Add(b, x), y), z) = b \o x \o y \o z
           /\ b \o x \o y \o z \in Seq(Byte) /\ Len(b \o x \o y \o z) = Len(b) + 3
           /\ (b \o x \o y \o z)[Len(b) + 1] = x[1]
<1>0. Len(b) \in Nat /\ BufSize \in Nat /\ BufSize > 6
  BY LenProperties, WriterAssumption
<1>1. Add(b, x) = b \o x /\ b \o x \in Seq(Byte) /\ Len(b \o x) = Len(b) + 1
  <2>1. Len(b) + Len(x) < BufSize
    BY <1>0
  <2>2. Add(b, x) = b \o x /\ b \o x \in Seq(Byte) /\ Len(b \o x) = Len(b) + Len(x)
    BY <2>1, AddFits
  <2> QED BY <2>2
<1>2. (b \o x)[Len(b) + 1] = x[1]
  BY <1>0, ConcatProperties, SMTT(30)
<1> DEFINE c == b \o x
<1> HIDE DEF c
<1>3. c \in Seq(Byte) /\ Len(c) = Len(b) + 1 /\ c[Len(b) + 1] = x[1]
  BY <1>1, <1>2 DEF c
<1>4. Add(c, y) = c \o y /\ c \o y \in Seq(Byte) /\ Len(c \o y) = Len(b) + 2
  <2>1. Len(c) + Len(y) < BufSize
    BY <1>0, <1>3
  <2>2. Add(c, y) = c \o y /\ c \o y \in Seq(Byte) /\ Len(c \o y) = Len(c) + Len(y)
    BY <1>3, <2>1, AddFits
  <2> QED BY <1>0, <1>3, <2>2
<1>5. (c \o y)[Len(b) + 1] = x[1]
  BY <1>0, <1>3, ConcatProperties
<1> DEFINE d == c \o y
<1> HIDE DEF d
<1>6. d \in Seq(Byte) /\ Len(d) = Len(b) + 2 /\ d[Len(b) + 1] = x[1]
  BY <1>4, <1>5 DEF d
<1>7. Add(d, z) = d \o z /\ d \o z \in Seq(Byte) /\ Len(d \o z) = Len(b) + 3
  <2>1. Len(d) + Len(z) < BufSize
    BY <1>0, <1>6
  <2>2. Add(d, z) = d \o z /\ d \o z \in Seq(Byte) /\ Len(d \o z) = Len(d) + Len(z)
    BY <1>6, <2>1, AddFits
  <2> QED BY <1>0, <1>6, <2>2
<1>8. (d \o z)[Len(b) + 1] = x[1]
  BY <1>0, <1>6, ConcatProperties
<1> QED BY <1>1, <1>4, <1>7, <1>8 DEF c, d

\* A header fits behind two lines, and its length is in its first.
LEMMA HeadersFit ==
    ASSUME NEW b \in Seq(Byte), Len(b) <= 2, NEW n \in Nat
    PROVE  /\ AddHeaders(b, n) = Headed(b, n)
           /\ Headed(b, n) \in Seq(Byte) /\ Len(Headed(b, n)) = Len(b) + 3
           /\ Headed(b, n)[Len(b) + 1] = <<"length", n>>
<1> DEFINE x == << <<"length", n>> >>
           y == Bytes("connection", 1)
           z == Bytes("blank", 1)
<1>1. x \in Seq(Byte) /\ Len(x) = 1 /\ x[1] = <<"length", n>>
  <2>1. <<"length", n>> \in Byte
    BY DEF Byte
  <2> QED BY <2>1
<1>2. y \in Seq(Byte) /\ Len(y) = 1
  BY BytesSeq DEF Names
<1>3. z \in Seq(Byte) /\ Len(z) = 1
  BY BytesSeq DEF Names
<1>4. AddHeaders(b, n) = Add(Add(Add(b, x), y), z) /\ Headed(b, n) = b \o x \o y \o z
  BY DEF AddHeaders, AddLine, Headed
<1> HIDE DEF x, y, z
<1>5. /\ Add(Add(Add(b, x), y), z) = b \o x \o y \o z
      /\ b \o x \o y \o z \in Seq(Byte) /\ Len(b \o x \o y \o z) = Len(b) + 3
      /\ (b \o x \o y \o z)[Len(b) + 1] = x[1]
  BY <1>1, <1>2, <1>3, LinesFit, SMTT(30)
<1> QED BY <1>1, <1>4, <1>5

\* The response that begins with the lines b, whose header says n.
IsResponse(r, n, decl) ==
    \E type \in {<<>>, Bytes("type", 1)} :
        LET b == Bytes("status", 1) \o type IN
        \/ r = Headed(b, n) \o Bytes("body", n) /\ decl = 0
        \/ r = Headed(b, n) /\ (n = decl \/ Len(r) + n >= BufSize)

\* The lines in front of the header.
LEMMA FirstLines ==
    /\ Bytes("status", 1) \in Seq(Byte) /\ Len(Bytes("status", 1)) = 1
    /\ <<>> \in Seq(Byte) /\ Len(<<>>) = 0
    /\ Bytes("type", 1) \in Seq(Byte) /\ Len(Bytes("type", 1)) = 1
    /\ StatusLine = Bytes("status", 1) \o <<>>
    /\ AddLine(StatusLine, "type") = Bytes("status", 1) \o Bytes("type", 1)
<1> DEFINE st == Bytes("status", 1)
           ty == Bytes("type", 1)
<1>1. st \in Seq(Byte) /\ Len(st) = 1
  BY BytesSeq DEF Names
<1>2. ty \in Seq(Byte) /\ Len(ty) = 1
  BY BytesSeq DEF Names
<1>3. <<>> \in Seq(Byte) /\ Len(<<>>) = 0
  BY EmptySeq
<1>4. BufSize \in Nat /\ BufSize > 6
  BY WriterAssumption
<1>5. StatusLine = Add(<<>>, st) /\ AddLine(StatusLine, "type") = Add(StatusLine, ty)
  BY DEF StatusLine, AddLine
<1> HIDE DEF st, ty
<1>6. Add(<<>>, st) = <<>> \o st
  <2>1. Len(<<>>) + Len(st) < BufSize
    BY <1>1, <1>3, <1>4
  <2> QED BY <1>1, <1>3, <2>1, AddFits
<1>7. <<>> \o st = st /\ st \o <<>> = st
  BY <1>1, ConcatEmptySeq
<1>8. Add(st, ty) = st \o ty
  <2>1. Len(st) + Len(ty) < BufSize
    BY <1>1, <1>2, <1>4
  <2> QED BY <1>1, <1>2, <2>1, AddFits
<1> QED BY <1>1, <1>2, <1>3, <1>5, <1>6, <1>7, <1>8 DEF st, ty

\* A response announces what it is.
LEMMA AnnouncedBy ==
    ASSUME NEW type \in Seq(Byte), Len(type) <= 1, NEW r, NEW n \in Nat,
           \/ r = Headed(Bytes("status", 1) \o type, n)
           \/ r = Headed(Bytes("status", 1) \o type, n) \o Bytes("body", n)
    PROVE  r[Len(type) + 2] = <<"length", n>>
<1> DEFINE b == Bytes("status", 1) \o type
           body == Bytes("body", n)
<1>0. Len(type) \in Nat
  BY LenProperties
<1>1. b \in Seq(Byte) /\ Len(b) = 1 + Len(type)
  <2> DEFINE st == Bytes("status", 1)
  <2>1. st \in Seq(Byte) /\ Len(st) = 1
    BY FirstLines
  <2> HIDE DEF st
  <2>2. st \o type \in Seq(Byte) /\ Len(st \o type) = Len(st) + Len(type)
    BY <2>1, ConcatProperties
  <2> QED BY <2>1, <2>2 DEF st
<1>2. body \in Seq(Byte) /\ Len(body) \in Nat
  BY BytesSeq, LenProperties DEF Names
<1>3. r = Headed(b, n) \/ r = Headed(b, n) \o body
  OBVIOUS
<1> HIDE DEF b, body
<1>4. Len(b) <= 2 /\ Len(b) + 1 = Len(type) + 2 /\ Len(b) \in Nat
  BY <1>0, <1>1
<1>5. /\ Headed(b, n) \in Seq(Byte) /\ Len(Headed(b, n)) = Len(b) + 3
      /\ Headed(b, n)[Len(b) + 1] = <<"length", n>>
  BY <1>1, <1>4, HeadersFit
<1>6. (Headed(b, n) \o body)[Len(b) + 1] = Headed(b, n)[Len(b) + 1]
  <2>1. /\ Len(b) + 1 \in 1..(Len(Headed(b, n)) + Len(body))
        /\ Len(b) + 1 <= Len(Headed(b, n))
    BY <1>2, <1>4, <1>5
  <2> QED BY <1>2, <1>5, <2>1, ConcatProperties
<1> QED BY <1>3, <1>4, <1>5, <1>6

\* A response announces what it is.
LEMMA Announced ==
    ASSUME NEW r, NEW n \in Nat, NEW decl \in Nat, IsResponse(r, n, decl)
    PROVE  \E type \in {<<>>, Bytes("type", 1)} :
              LET k == r[Len(type) + 2][2]
                  head == Bytes("status", 1) \o type \o << <<"length", k>> >>
                            \o Bytes("connection", 1) \o Bytes("blank", 1) IN
              \/ r = head \o Bytes("body", k) /\ decl = 0
              \/ r = head /\ (k = decl \/ Len(r) + k >= BufSize)
<1>1. PICK type \in {<<>>, Bytes("type", 1)} :
         LET b == Bytes("status", 1) \o type IN
         \/ r = Headed(b, n) \o Bytes("body", n) /\ decl = 0
         \/ r = Headed(b, n) /\ (n = decl \/ Len(r) + n >= BufSize)
  BY DEF IsResponse
<1>2. type \in Seq(Byte) /\ (Len(type) = 0 \/ Len(type) = 1)
  BY FirstLines
<1>3. Len(type) <= 1
  <2>1. \A k : k = 0 \/ k = 1 => k <= 1
    OBVIOUS
  <2> QED BY <1>2, <2>1, Zenon
<1>4. r[Len(type) + 2][2] = n
  <2>1. r[Len(type) + 2] = <<"length", n>>
    BY <1>1, <1>2, <1>3, AnnouncedBy
  <2> QED BY <2>1
<1>5. WITNESS type \in {<<>>, Bytes("type", 1)}
<1> QED BY <1>1, <1>4 DEF Headed

\* One of the bodies a header is followed by: it fits as a whole, or is left out.
LEMMA Filled ==
    ASSUME NEW type \in {<<>>, Bytes("type", 1)}, NEW n \in Nat,
           NEW h, h = AddHeaders(Bytes("status", 1) \o type, n)
    PROVE  /\ h \in Seq(Byte) /\ Len(h) >= 4 /\ Len(h) <= 5 /\ Len(h) < BufSize /\ h # <<>>
           /\ IsResponse(h, n, n)
           /\ Add(h, Bytes("body", n)) \in Seq(Byte) /\ Len(Add(h, Bytes("body", n))) < BufSize
           /\ Add(h, Bytes("body", n)) # <<>>
           /\ IsResponse(Add(h, Bytes("body", n)), n, 0)
<1> DEFINE b == Bytes("status", 1) \o type
           body == Bytes("body", n)
<1>0. BufSize \in Nat /\ BufSize > 6
  BY WriterAssumption
<1>1. type \in Seq(Byte) /\ (Len(type) = 0 \/ Len(type) = 1)
  BY FirstLines
<1>2. b \in Seq(Byte) /\ (Len(b) = 1 \/ Len(b) = 2)
  <2> DEFINE st == Bytes("status", 1)
  <2>1. st \in Seq(Byte) /\ Len(st) = 1
    BY FirstLines
  <2> HIDE DEF st
  <2>2. st \o type \in Seq(Byte) /\ Len(st \o type) = Len(st) + Len(type)
    BY <1>1, <2>1, ConcatProperties
  <2>3. b = st \o type
    BY DEF st
  <2> HIDE DEF b
  <2> QED BY <1>1, <2>1, <2>2, <2>3
<1>3. body \in Seq(Byte) /\ Len(body) = n
  BY BytesSeq DEF Names
<1>4. ASSUME NEW r, \/ r = Headed(b, n) \o body
                    \/ r = Headed(b, n) /\ Len(r) + n >= BufSize
      PROVE  IsResponse(r, n, 0)
  BY <1>4 DEF IsResponse
<1>5. ASSUME NEW r, r = Headed(b, n) PROVE IsResponse(r, n, n)
  BY <1>5 DEF IsResponse
<1>6. h = AddHeaders(b, n)
  OBVIOUS
<1> HIDE DEF b, body
<1>7. Len(b) <= 2 /\ Len(b) >= 1 /\ Len(b) \in Nat
  <2>1. \A k : k = 1 \/ k = 2 => k <= 2 /\ k >= 1 /\ k \in Nat
    OBVIOUS
  <2> QED BY <1>2, <2>1, Zenon
<1>8. h = Headed(b, n) /\ h \in Seq(Byte) /\ Len(h) = Len(b) + 3
  BY <1>2, <1>6, <1>7, HeadersFit
<1>9. Len(h) >= 4 /\ Len(h) <= 5 /\ Len(h) \in Nat /\ Len(h) < BufSize
  BY <1>0, <1>7, <1>8
<1>10. \A r \in Seq(Byte) : Len(r) >= 4 => r # <<>>
  BY EmptySeq
<1>11. h # <<>>
  BY <1>8, <1>9, <1>10
<1>12. IsResponse(h, n, n)
  BY <1>5, <1>8
<1>13. CASE Len(h) + n < BufSize
  <2>1. Len(h) + Len(body) < BufSize
    BY <1>3, <1>13
  <2>2. Add(h, body) = h \o body /\ h \o body \in Seq(Byte) /\ Len(h \o body) = Len(h) + Len(body)
    BY <1>3, <1>8, <2>1, AddFits
  <2>3. Len(h \o body) >= 4 /\ Len(h \o body) < BufSize
    BY <1>3, <1>9, <1>13, <2>2
  <2>4. IsResponse(Add(h, body), n, 0)
    BY <1>4, <1>8, <2>2
  <2> QED BY <1>8, <1>9, <1>10, <1>11, <1>12, <2>2, <2>3, <2>4 DEF body
<1>14. CASE ~(Len(h) + n < BufSize)
  <2>1. n >= BufSize - Len(h) /\ Len(h) + n >= BufSize
    BY <1>0, <1>9, <1>14
  <2>2. Add(h, body) = h
    BY <1>3, <2>1 DEF Add
  <2>3. IsResponse(h, n, 0)
    BY <1>4, <1>8, <2>1
  <2> QED BY <1>8, <1>9, <1>11, <1>12, <2>2, <2>3 DEF body
<1> QED BY <1>13, <1>14

\* What a worker leaves to write(), whatever the request was.
LEMMA WorkerStep ==
    ASSUME TypeOK, Cleaned, Worker
    PROVE  /\ pc = "process" /\ pc' = "out"
           /\ buf' \in Seq(Byte) /\ Len(buf') < BufSize /\ buf' # <<>>
           /\ \E n \in Nat : IsResponse(buf', n, declared')
           /\ toSend' = Len(buf') /\ haveSent' = 0 /\ offset' = 0
           /\ declared' \in Nat /\ len' = declared' /\ size' \in Nat
           /\ file' \in {"none", "open"} /\ vanished' \in BOOLEAN
           /\ UNCHANGED <<linger, wire, short, lost>>
<1> DEFINE Common ==
           /\ pc = "process" /\ pc' = "out" /\ toSend' = Len(buf') /\ haveSent' = 0 /\ offset' = 0
           /\ UNCHANGED <<linger, wire, short, lost>>
<1>1. ASSUME NEW b, Ready(b) PROVE Common /\ buf' = b
  BY <1>1 DEF Ready, Goto, Cleaned
<1>2. ASSUME NoFile, pc = "process"
      PROVE  /\ declared' = 0 /\ len' = 0 /\ size' \in Nat
             /\ file' \in {"none", "open"} /\ vanished' \in BOOLEAN
  BY <1>2 DEF NoFile, Cleaned, TypeOK
<1>3. <<>> \in {<<>>, Bytes("type", 1)} /\ Bytes("type", 1) \in {<<>>, Bytes("type", 1)}
  OBVIOUS
<1>6. ASSUME NEW n \in Sizes, RespondList(n)
      PROVE  /\ Common
             /\ buf' \in Seq(Byte) /\ Len(buf') < BufSize /\ buf' # <<>>
             /\ \E k \in Nat : IsResponse(buf', k, declared')
             /\ declared' \in Nat /\ len' = declared' /\ size' \in Nat
             /\ file' \in {"none", "open"} /\ vanished' \in BOOLEAN
  <2>0. n \in Nat
    BY WriterAssumption
  <2>1. /\ Common /\ NoFile
        /\ buf' = Add(AddHeaders(AddLine(StatusLine, "type"), n), Bytes("body", n))
    BY <1>1, <1>6 DEF RespondList
  <2>2. buf' \in Seq(Byte) /\ Len(buf') < BufSize /\ buf' # <<>> /\ IsResponse(buf', n, 0)
    BY <1>3, <2>0, <2>1, Filled, FirstLines
  <2>3. declared' = 0 /\ len' = 0 /\ size' \in Nat
           /\ file' \in {"none", "open"} /\ vanished' \in BOOLEAN
    BY <1>2, <2>1
  <2> QED BY <2>0, <2>1, <2>2, <2>3
<1>7. ASSUME NEW n \in Sizes, RespondFile(n)
      PROVE  /\ Common
             /\ buf' \in Seq(Byte) /\ Len(buf') < BufSize /\ buf' # <<>>
             /\ \E k \in Nat : IsResponse(buf', k, declared')
             /\ declared' \in Nat /\ len' = declared' /\ size' \in Nat
             /\ file' \in {"none", "open"} /\ vanished' \in BOOLEAN
  <2>0. n \in Nat
    BY WriterAssumption
  <2>1. Common /\ buf' = AddHeaders(StatusLine, n)
    BY <1>1, <1>7 DEF RespondFile
  <2>2. buf' \in Seq(Byte) /\ Len(buf') < BufSize /\ buf' # <<>> /\ IsResponse(buf', n, n)
    BY <1>3, <2>0, <2>1, Filled, FirstLines
  <2>3. declared' = n /\ len' = n /\ size' = n /\ file' \in {"none", "open"}
    BY <1>7 DEF RespondFile
  <2>4. vanished' \in BOOLEAN
    BY <1>7 DEF RespondFile
  <2> QED BY <2>0, <2>1, <2>2, <2>3, <2>4
<1>8. (\E n \in Sizes : RespondList(n)) \/ (\E n \in Sizes : RespondFile(n)) \/ RespondError \/ RespondDone
  BY DEF Worker
<1>9. CASE RespondError \/ RespondDone
  <2>1. /\ Common
        /\ buf' \in Seq(Byte) /\ Len(buf') < BufSize /\ buf' # <<>>
        /\ \E k \in Nat : IsResponse(buf', k, declared')
        /\ declared' \in Nat /\ len' = declared' /\ size' \in Nat
        /\ file' \in {"none", "open"} /\ vanished' \in BOOLEAN
    <3>1. CASE RespondError
      <4>1. Common /\ buf' = Add(AddHeaders(StatusLine, 1), Bytes("body", 1)) /\ NoFile
        BY <1>1, <3>1 DEF RespondError
      <4>2. buf' \in Seq(Byte) /\ Len(buf') < BufSize /\ buf' # <<>> /\ IsResponse(buf', 1, 0)
        BY <1>3, <4>1, Filled, FirstLines
      <4> QED BY <1>2, <4>1, <4>2
    <3>2. CASE RespondDone
      <4>1. Common /\ buf' = AddHeaders(StatusLine, 0) /\ NoFile
        BY <1>1, <3>2 DEF RespondDone
      <4>2. buf' \in Seq(Byte) /\ Len(buf') < BufSize /\ buf' # <<>> /\ IsResponse(buf', 0, 0)
        BY <1>3, <4>1, Filled, FirstLines
      <4> QED BY <1>2, <4>1, <4>2
    <3> QED BY <1>9, <3>1, <3>2
  <2> QED BY <2>1
<1> QED BY <1>6, <1>7, <1>8, <1>9

-----------------------------------------------------------------------------
(* The invariant holds                                                     *)

\* TypeOK by groups of variables: the place and the flags, the numbers, the bytes, the files.
FlagsOK ==
    /\ pc \in {"read", "process", "out", "send", "file", "test", "closed"}
    /\ file \in {"none", "open"}
    /\ linger \in BOOLEAN /\ short \in BOOLEAN /\ vanished \in BOOLEAN
NumbersOK ==
    /\ toSend \in Int /\ haveSent \in Nat
    /\ len \in Nat /\ offset \in Nat /\ size \in Nat /\ declared \in Nat
BytesOK == buf \in Seq(Byte) /\ Len(buf) < BufSize /\ wire \in Seq(Byte)
FilesOK == fds \in Nat /\ lost \in Nat

\* The groups are all there is to it.
LEMMA TypeGroups == TypeOK => FlagsOK /\ NumbersOK /\ BytesOK /\ FilesOK
  BY DEF TypeOK, FlagsOK, NumbersOK, BytesOK, FilesOK

\* With Counted, they are TypeOK.
LEMMA GroupsType == FlagsOK /\ NumbersOK /\ BytesOK /\ FilesOK /\ Counted => TypeOK
  BY DEF TypeOK, FlagsOK, NumbersOK, BytesOK, FilesOK, Counted

\* Init and init().
LEMMA InvInit == ASSUME Init PROVE IInv
<1>1. <<>> \in Seq(Byte) /\ Len(<<>>) = 0
  BY EmptySeq
<1>2. BytesOK
  BY <1>1, WriterAssumption DEF Init, BytesOK
<1>3. NumbersOK
  BY DEF Init, NumbersOK
<1>4. FlagsOK
  BY DEF Init, FlagsOK
<1>5. Counted
  BY <1>1 DEF Init, Counted
<1>6. Cleaned /\ SentWhole /\ Present /\ FilesOK /\ FileClosed
  BY DEF Init, Cleaned, SentWhole, Present, Responding, FilesOK, FileClosed, InWrite
<1>7. LengthAnnounced
  BY DEF Init, LengthAnnounced
<1> QED BY <1>2, <1>3, <1>4, <1>5, <1>6, <1>7, GroupsType DEF IInv

\* The steps that leave the response as it is but for closing its file.
Steady ==
    /\ UNCHANGED <<buf, toSend, haveSent, len, offset, declared, linger, wire, short>>
    /\ vanished' \in BOOLEAN /\ size' \in Nat
    /\ file' = file \/ file' = "none"
    /\ pc' \in {"out", "send", "file", "test", "closed"}
    /\ pc' \in {"out", "send", "file", "test"} => Responding

\* All the steps, in groups.
LEMMA NextCases ==
    ASSUME TypeOK, [Next]_vars
    PROVE  \/ Request \/ Worker
           \/ \E n \in 1..Len(buf) : Send(n)
           \/ \E n \in 0..len : SendFile(n)
           \/ Cleared /\ pc' = "read" /\ UNCHANGED <<wire, history>>
           \/ Steady
           \/ UNCHANGED vars
           \/ FileShrinks
<1> USE DEF Goto, Responding, Steady, response, history
<1>0. FlagsOK /\ NumbersOK
  BY TypeGroups
<1>1. CASE WriteBegin
  <2>1. CASE Nothing
    BY <1>1, <2>1 DEF WriteBegin
  <2>2. CASE ~Nothing
    BY <1>0, <1>1, <2>2 DEF WriteBegin, FlagsOK, NumbersOK
  <2> QED BY <2>1, <2>2
<1>2. CASE HeadSent \/ SendAgain \/ FileAgain \/ NoFileTurn \/ LoopAgain
  BY <1>0, <1>2 DEF HeadSent, SendAgain, FileAgain, NoFileTurn, LoopAgain, FlagsOK, NumbersOK
<1>3. CASE SendFails \/ FileFails \/ HangUp
  BY <1>0, <1>3 DEF SendFails, FileFails, HangUp, FlagsOK, NumbersOK
<1>4. CASE NotKept
  BY <1>0, <1>4 DEF NotKept, FlagsOK, NumbersOK
<1>5. CASE Kept \/ Connect
  BY <1>5 DEF Kept, Connect
<1> QED BY <1>1, <1>2, <1>3, <1>4, <1>5 DEF Next, WriteStep

\* The types of what a step leaves.
LEMMA TypeStep ==
    ASSUME IInv, [Next]_vars
    PROVE  FlagsOK' /\ NumbersOK' /\ BytesOK'
<1>0. TypeOK /\ FlagsOK /\ NumbersOK /\ BytesOK /\ Cleaned /\ Counted
  BY TypeGroups DEF IInv
<1>e. <<>> \in Seq(Byte) /\ Len(<<>>) = 0
  BY EmptySeq
<1>1. CASE Request
  <2>1. /\ pc' = "process" /\ linger' \in BOOLEAN /\ wire' = <<>> /\ short' = FALSE /\ vanished' = FALSE
        /\ UNCHANGED <<buf, toSend, haveSent, file, len, offset, size, declared>>
    BY <1>1 DEF Request, Goto
  <2>2. FlagsOK'
    BY <1>0, <2>1 DEF FlagsOK
  <2>3. NumbersOK'
    BY <1>0, <2>1 DEF NumbersOK
  <2>4. BytesOK'
    BY <1>0, <1>e, <2>1 DEF BytesOK
  <2> QED BY <2>2, <2>3, <2>4
<1>2. CASE Worker
  <2>1. /\ pc' = "out"
        /\ buf' \in Seq(Byte) /\ Len(buf') < BufSize
        /\ toSend' = Len(buf') /\ haveSent' = 0 /\ offset' = 0
        /\ declared' \in Nat /\ len' = declared' /\ size' \in Nat
        /\ file' \in {"none", "open"} /\ vanished' \in BOOLEAN
        /\ UNCHANGED <<linger, wire, short, lost>>
    BY <1>0, <1>2, WorkerStep
  <2>2. FlagsOK'
    BY <1>0, <2>1 DEF FlagsOK
  <2>3. NumbersOK'
    <3>1. Len(buf') \in Nat
      BY <2>1, LenProperties
    <3> QED BY <2>1, <3>1 DEF NumbersOK
  <2>4. BytesOK'
    BY <1>0, <2>1 DEF BytesOK
  <2> QED BY <2>2, <2>3, <2>4
<1>3. ASSUME NEW n \in 1..Len(buf), Send(n) PROVE FlagsOK' /\ NumbersOK' /\ BytesOK'
  <2>1. /\ pc' = "file" /\ wire' = wire \o Outgoing(n) /\ toSend' = toSend - n
        /\ haveSent' = haveSent + n /\ short' = (short \/ n < Len(buf))
        /\ UNCHANGED <<buf, file, len, offset, size, declared, linger, vanished>>
    BY <1>3 DEF Send, Goto
  <2>2. FlagsOK'
    BY <1>0, <2>1 DEF FlagsOK
  <2>3. n \in Nat /\ Len(buf) \in Nat
    BY <1>0, LenProperties DEF BytesOK
  <2>4. NumbersOK'
    BY <1>0, <2>1, <2>3 DEF NumbersOK
  <2>5. ASSUME NEW i \in 1..n
        PROVE  (IF haveSent + i <= Len(buf) THEN buf[haveSent + i] ELSE <<"stray", 0>>) \in Byte
    <3>1. CASE haveSent + i <= Len(buf)
      <4>1. haveSent + i \in 1..Len(buf)
        BY <1>0, <2>3, <3>1 DEF NumbersOK
      <4> QED BY <1>0, <3>1, <4>1, ElementOfSeq DEF BytesOK
    <3>2. CASE ~(haveSent + i <= Len(buf))
      BY <3>2 DEF Byte
    <3> QED BY <3>1, <3>2
  <2>6. Outgoing(n) \in [1..n -> Byte]
    BY <2>5 DEF Outgoing
  <2>7. Outgoing(n) \in Seq(Byte)
    BY <2>3, <2>6, SeqOfFunction
  <2>8. wire' \in Seq(Byte)
    BY <1>0, <2>1, <2>7, ConcatProperties DEF BytesOK
  <2>9. BytesOK'
    BY <1>0, <2>1, <2>8 DEF BytesOK
  <2> QED BY <2>2, <2>4, <2>9
<1>4. ASSUME NEW n \in 0..len, SendFile(n) PROVE FlagsOK' /\ NumbersOK' /\ BytesOK'
  <2>1. /\ pc' = "test" /\ wire' = wire \o [i \in 1..n |-> <<"file", offset + i>>]
        /\ offset' = offset + n /\ len' = len - n
        /\ UNCHANGED <<buf, toSend, haveSent, file, size, declared, linger, history>>
    BY <1>4 DEF SendFile, Goto
  <2>2. FlagsOK'
    BY <1>0, <2>1 DEF FlagsOK, history
  <2>3. n \in Nat /\ offset \in Nat
    BY <1>0 DEF NumbersOK
  <2>4. NumbersOK'
    BY <1>0, <2>1 DEF NumbersOK
  <2>5. [i \in 1..n |-> <<"file", offset + i>>] \in Seq(Byte)
    BY <2>3, <1>e, MoreOfFile
  <2>6. wire' \in Seq(Byte)
    BY <1>0, <2>1, <2>5, ConcatProperties DEF BytesOK
  <2>7. BytesOK'
    BY <1>0, <2>1, <2>6 DEF BytesOK
  <2> QED BY <2>2, <2>4, <2>7
<1>5. CASE Cleared /\ pc' = "read" /\ UNCHANGED <<wire, history>>
  <2>1. FlagsOK'
    BY <1>0, <1>5 DEF FlagsOK, Cleared, history
  <2>2. NumbersOK'
    BY <1>5 DEF NumbersOK, Cleared
  <2>3. BytesOK'
    BY <1>0, <1>5, <1>e, WriterAssumption DEF BytesOK, Cleared
  <2> QED BY <2>1, <2>2, <2>3
<1>6. CASE Steady
  <2>1. FlagsOK'
    BY <1>0, <1>6 DEF FlagsOK, Steady
  <2>2. NumbersOK'
    BY <1>0, <1>6 DEF NumbersOK, Steady
  <2>3. BytesOK'
    BY <1>0, <1>6 DEF BytesOK, Steady
  <2> QED BY <2>1, <2>2, <2>3
<1>7. CASE UNCHANGED vars
  <2>1. FlagsOK'
    BY <1>0, <1>7 DEF FlagsOK, vars, response, history
  <2>2. NumbersOK' /\ BytesOK'
    BY <1>0, <1>7 DEF NumbersOK, BytesOK, vars, response, history
  <2> QED BY <2>1, <2>2
<1>8. CASE FileShrinks
  <2>1. FlagsOK'
    BY <1>0, <1>8 DEF FlagsOK, FileShrinks
  <2>2. NumbersOK' /\ BytesOK'
    BY <1>0, <1>8 DEF NumbersOK, BytesOK, FileShrinks
  <2> QED BY <2>1, <2>2
<1> QED BY <1>0, <1>1, <1>2, <1>3, <1>4, <1>5, <1>6, <1>7, <1>8, NextCases

\* No step changes what one has to send and the file of it but init(), which clears
\* both, and the worker.
LEMMA CountedStep ==
    ASSUME IInv, [Next]_vars
    PROVE  Counted' /\ Cleaned'
<1>0. TypeOK /\ FlagsOK /\ NumbersOK /\ BytesOK /\ Cleaned /\ Counted
  BY TypeGroups DEF IInv
<1>e. Len(<<>>) = 0
  BY EmptySeq
<1> USE DEF Responding, Cleaned
<1>1. CASE Request
  <2>1. /\ pc = "read" /\ pc' = "process"
        /\ UNCHANGED <<buf, toSend, haveSent, file, len, offset, size, declared>>
    BY <1>1 DEF Request, Goto
  <2>2. Counted'
    BY <1>0, <2>1 DEF Counted
  <2>3. Cleaned'
    BY <1>0, <2>1
  <2> QED BY <2>2, <2>3
<1>2. CASE Worker
  <2>1. /\ pc' = "out" /\ buf' \in Seq(Byte)
        /\ toSend' = Len(buf') /\ haveSent' = 0 /\ offset' = 0
        /\ declared' \in Nat /\ len' = declared'
    BY <1>0, <1>2, WorkerStep
  <2>2. Counted'
    <3>1. Len(buf') \in Nat
      BY <2>1, LenProperties
    <3>2. \A k \in Nat : 0 + k = k /\ k + 0 = k
      OBVIOUS
    <3>3. haveSent' + toSend' = Len(buf')
      <4>1. 0 + Len(buf') = Len(buf')
        BY <3>1, <3>2
      <4> QED BY <2>1, <4>1, Zenon
    <3>4. len' + offset' = declared'
      <4>1. declared' + 0 = declared'
        BY <2>1, <3>2
      <4> QED BY <2>1, <4>1, Zenon
    <3> QED BY <3>3, <3>4, Zenon DEF Counted
  <2> QED BY <2>1, <2>2
<1>3. ASSUME NEW n \in 1..Len(buf), Send(n) PROVE Counted' /\ Cleaned'
  <2>1. /\ pc' = "file" /\ toSend' = toSend - n /\ haveSent' = haveSent + n
        /\ UNCHANGED <<buf, len, offset, declared>>
    BY <1>3 DEF Send, Goto
  <2>2. Counted'
    BY <1>0, <2>1 DEF NumbersOK, Counted
  <2> QED BY <2>1, <2>2
<1>4. ASSUME NEW n \in 0..len, SendFile(n) PROVE Counted' /\ Cleaned'
  <2>1. /\ pc' = "test" /\ offset' = offset + n /\ len' = len - n
        /\ UNCHANGED <<buf, toSend, haveSent, declared>>
    BY <1>4 DEF SendFile, Goto
  <2>2. Counted'
    BY <1>0, <2>1 DEF NumbersOK, Counted
  <2> QED BY <2>1, <2>2
<1>5. CASE Cleared /\ pc' = "read" /\ UNCHANGED <<wire, history>>
  BY <1>5, <1>e DEF Counted, Cleared
<1>6. CASE Steady
  <2>1. Counted'
    BY <1>0, <1>6 DEF Counted, Steady
  <2>2. Cleaned'
    BY <1>6 DEF Steady
  <2> QED BY <2>1, <2>2
<1>7. CASE UNCHANGED vars
  BY <1>0, <1>7 DEF vars, response, history, Counted
<1>8. CASE FileShrinks
  BY <1>0, <1>8 DEF FileShrinks, Counted
<1> QED BY <1>0, <1>1, <1>2, <1>3, <1>4, <1>5, <1>6, <1>7, <1>8, NextCases

\* open() takes a descriptor, close() gives it back, and a connection closed in between
\* loses it; init() only comes when there is none.
LEMMA FilesStep ==
    ASSUME IInv, [Next]_vars
    PROVE  FilesOK' /\ FileClosed'
<1>0. FlagsOK /\ FilesOK /\ Cleaned /\ FileClosed
  BY TypeGroups DEF IInv
<1> USE DEF FilesOK, FileClosed, InWrite, Goto, response, history
<1>1. CASE Request
  BY <1>0, <1>1 DEF Request, Cleaned
<1>2. CASE Worker
  <2>1. pc = "process" /\ file = "none" /\ fds = lost /\ pc' = "out" /\ lost' = lost
    BY <1>0, <1>2 DEF Worker, RespondError, RespondDone, RespondList, RespondFile, Ready, Cleaned
  <2>2. (file' = "open" /\ fds' = fds + 1) \/ (file' = "none" /\ fds' = fds)
    <3>1. RespondError \/ RespondDone \/ (\E n \in Sizes : RespondList(n))
             => file' = file /\ fds' = fds
      BY DEF RespondError, RespondDone, RespondList, NoFile
    <3>2. \A n \in Sizes : RespondFile(n)
             => (file' = "open" /\ fds' = fds + 1) \/ (file' = "none" /\ fds' = fds)
      BY DEF RespondFile
    <3>3. RespondError \/ RespondDone \/ \E n \in Sizes : RespondList(n) \/ RespondFile(n)
      BY <1>2 DEF Worker
    <3> QED BY <2>1, <3>1, <3>2, <3>3
  <2> QED BY <1>0, <2>1, <2>2
<1>3. CASE FileShrinks
  BY <1>0, <1>3 DEF FileShrinks
<1>4. CASE WriteBegin
  <2>1. CASE Nothing
    BY <1>0, <1>4, <2>1 DEF WriteBegin, Nothing, Cleared
  <2>2. CASE ~Nothing
    BY <1>0, <1>4, <2>2 DEF WriteBegin
  <2> QED BY <2>1, <2>2
<1>5. CASE \E n \in 1..Len(buf) : Send(n)
  BY <1>0, <1>5 DEF Send
<1>6. CASE \E n \in 0..len : SendFile(n)
  BY <1>0, <1>6 DEF SendFile
<1>7. CASE HeadSent \/ SendAgain \/ FileAgain \/ NoFileTurn \/ LoopAgain
  BY <1>0, <1>7 DEF HeadSent, SendAgain, FileAgain, NoFileTurn, LoopAgain
<1>8. CASE SendFails \/ HangUp
  <2>1. (pc \in {"out", "send"} \/ (pc = "read" /\ file = "none")) /\ pc' = "closed"
        /\ fds' = fds /\ lost' = IF file = "open" THEN lost + 1 ELSE lost
    BY <1>0, <1>8 DEF SendFails, HangUp, CloseConn, Cleaned
  <2> QED BY <1>0, <2>1
<1>9. CASE FileFails \/ Kept \/ NotKept
  <2>1. pc \in {"file", "test"} /\ pc' \in {"read", "closed"} /\ file' = "none" /\ lost' = lost
        /\ fds' = IF file = "open" THEN fds - 1 ELSE fds
    BY <1>9 DEF FileFails, FileTurn, Kept, NotKept, FileIsClosed, Cleared
  <2> QED BY <1>0, <2>1
<1>10. CASE Connect
  BY <1>0, <1>10 DEF Connect, Cleared
<1>11. CASE UNCHANGED vars
  BY <1>0, <1>11 DEF vars
<1> QED
  BY <1>1, <1>2, <1>3, <1>4, <1>5, <1>6, <1>7, <1>8, <1>9, <1>10, <1>11 DEF Next, WriteStep

\* The client has nothing, or all of m_writebuf and the file up to m_offset.
LEMMA SentStep ==
    ASSUME IInv, [Next]_vars
    PROVE  SentWhole'
<1>0. TypeOK /\ FlagsOK /\ NumbersOK /\ BytesOK /\ Cleaned /\ Counted /\ SentWhole /\ Len(buf) \in Nat
  BY TypeGroups, LenProperties DEF IInv, BytesOK
<1> USE DEF Responding
<1>1. CASE Request
  BY <1>1 DEF Request, Goto, SentWhole
<1>2. CASE Worker
  <2>1. /\ pc = "process" /\ pc' = "out" /\ buf' # <<>> /\ haveSent' = 0 /\ offset' = 0
        /\ wire' = wire
    BY <1>0, <1>2, WorkerStep
  <2>2. wire' = <<>>
    BY <1>0, <2>1 DEF SentWhole
  <2> QED BY <2>1, <2>2 DEF SentWhole
<1>3. ASSUME NEW n \in 1..Len(buf), Send(n) PROVE SentWhole'
  <2>1. /\ pc = "send" /\ pc' = "file" /\ toSend > 0 /\ wire' = wire \o Outgoing(n)
        /\ toSend' = toSend - n
        /\ haveSent' = haveSent + n /\ short' = (short \/ n < Len(buf))
        /\ UNCHANGED <<buf, offset>>
    BY <1>3 DEF Send, Goto
  <2>2. ASSUME ~short' PROVE toSend' = 0 /\ wire' = buf \o Bytes("file", offset')
    <3>1. ~short /\ n = Len(buf)
      <4>1. ~short /\ ~(n < Len(buf))
        BY <2>1, <2>2, Zenon
      <4>2. \A k \in Nat : \A j \in 1..k : ~(j < k) => j = k
        OBVIOUS
      <4>3. n = Len(buf)
        BY <1>0, <1>3, <4>1, <4>2
      <4> QED BY <4>1, <4>3
    <3>2. haveSent = 0 /\ offset = 0 /\ wire = <<>>
      BY <1>0, <2>1, <3>1 DEF SentWhole, NumbersOK
    <3>3. toSend = Len(buf)
      BY <1>0, <3>2 DEF Counted, NumbersOK
    <3>4. buf \in Seq(Byte) /\ DOMAIN buf = 1..Len(buf)
      BY <1>0, LenProperties DEF BytesOK
    <3>5. Outgoing(n) = [i \in 1..Len(buf) |-> buf[i]]
      BY <1>0, <3>1, <3>2 DEF Outgoing
    <3>6. Outgoing(n) = buf
      <4>1. [i \in DOMAIN buf |-> buf[i]] = buf
        BY <3>4, LenProperties
      <4> QED BY <3>4, <3>5, <4>1
    <3>7. wire' = buf
      BY <2>1, <3>2, <3>4, <3>6, ConcatEmptySeq
    <3>8. Bytes("file", 0) = <<>>
      BY SMTT(30) DEF Bytes
    <3>9. buf \o Bytes("file", 0) = buf
      BY <3>4, <3>8, ConcatEmptySeq, Zenon
    <3>10. toSend' = 0
      BY <1>0, <2>1, <3>1, <3>3
    <3> QED BY <2>1, <3>2, <3>7, <3>9, <3>10
  <2>3. buf' # <<>>
    BY <1>0, <2>1 DEF SentWhole
  <2> QED BY <2>1, <2>2, <2>3 DEF SentWhole
<1>4. ASSUME NEW n \in 0..len, SendFile(n) PROVE SentWhole'
  <2>1. /\ pc = "file" /\ pc' = "test" /\ toSend <= 0
        /\ wire' = wire \o [i \in 1..n |-> <<"file", offset + i>>]
        /\ offset' = offset + n
        /\ UNCHANGED <<buf, toSend, haveSent, short>>
    BY <1>4 DEF SendFile, Goto, FileTurn, history
  <2>2. ASSUME ~short' PROVE toSend' = 0 /\ wire' = buf \o Bytes("file", offset')
    <3>1. buf # <<>> /\ (\/ haveSent = 0 /\ offset = 0 /\ wire = <<>>
                         \/ toSend = 0 /\ wire = buf \o Bytes("file", offset))
      BY <1>0, <2>1, <2>2 DEF SentWhole
    <3>2. Len(buf) # 0
      BY <1>0, <3>1, EmptySeq DEF BytesOK
    <3>3. haveSent # 0
      BY <1>0, <2>1, <3>2 DEF Counted, NumbersOK
    <3>4. toSend = 0 /\ wire = buf \o Bytes("file", offset)
      BY <3>1, <3>3
    <3>5. n \in Nat /\ offset \in Nat /\ buf \in Seq(Byte)
      BY <1>0 DEF NumbersOK, BytesOK
    <3>6. wire' = buf \o Bytes("file", offset + n)
      BY <2>1, <3>4, <3>5, MoreOfFile
    <3> QED BY <2>1, <3>4, <3>6
  <2>3. buf' # <<>>
    BY <1>0, <2>1 DEF SentWhole
  <2> QED BY <2>1, <2>2, <2>3 DEF SentWhole
<1>5. CASE Cleared /\ pc' = "read" /\ UNCHANGED <<wire, history>>
  BY <1>5 DEF SentWhole
<1>6. CASE Steady
  BY <1>0, <1>6 DEF SentWhole, Steady
<1>7. CASE UNCHANGED vars
  BY <1>0, <1>7 DEF vars, response, history, SentWhole
<1>8. CASE FileShrinks
  BY <1>0, <1>8 DEF FileShrinks, SentWhole
<1> QED BY <1>0, <1>1, <1>2, <1>3, <1>4, <1>5, <1>6, <1>7, <1>8, NextCases

\* A file is missing or short only when open() failed or it shrank, which is noted.
LEMMA PresentStep ==
    ASSUME IInv, [Next]_vars
    PROVE  Present'
<1>0. FlagsOK /\ NumbersOK /\ Cleaned /\ Present
  BY TypeGroups DEF IInv
<1> USE DEF Responding, Present, Goto, response, history
<1>1. CASE Worker
  <2>1. CASE RespondError \/ RespondDone \/ \E n \in Sizes : RespondList(n)
    <3>1. pc = "process" /\ UNCHANGED <<file, len>>
      BY <2>1 DEF RespondError, RespondDone, RespondList, Ready, NoFile
    <3>2. file = "none" /\ len = 0
      BY <1>0, <3>1 DEF Cleaned
    <3> QED BY <3>1, <3>2
  <2>2. ASSUME NEW n \in Sizes, RespondFile(n) PROVE Present'
    <3>1. /\ file' \in {"open", "none"} /\ len' = n /\ size' = n /\ declared' = n
          /\ vanished' = (file' = "none" /\ n > 0)
      BY <2>2 DEF RespondFile
    <3>2. n \in Nat
      BY WriterAssumption
    <3>3. n > 0 \/ n = 0
      BY <3>2
    <3> QED BY <3>1, <3>3
  <2> QED BY <1>1, <2>1, <2>2 DEF Worker
<1>2. CASE Request
  BY <1>2 DEF Request
<1>3. CASE FileShrinks
  BY <1>3 DEF FileShrinks
<1>4. CASE WriteBegin
  <2>1. CASE Nothing
    BY <1>4, <2>1 DEF WriteBegin
  <2>2. CASE ~Nothing
    BY <1>0, <1>4, <2>2 DEF WriteBegin
  <2> QED BY <2>1, <2>2
<1>5. ASSUME NEW n \in 1..Len(buf), Send(n) PROVE Present'
  BY <1>0, <1>5 DEF Send
<1>6. CASE HeadSent \/ SendAgain \/ FileAgain \/ NoFileTurn \/ LoopAgain
  BY <1>0, <1>6 DEF HeadSent, SendAgain, FileAgain, NoFileTurn, LoopAgain
<1>7. CASE SendFails \/ FileFails \/ NotKept \/ Kept \/ HangUp \/ Connect
  BY <1>7 DEF SendFails, FileFails, NotKept, Kept, HangUp, Connect
<1>8. ASSUME NEW n \in 0..len, SendFile(n) PROVE Present'
  BY <1>0, <1>8 DEF SendFile, FileTurn
<1>9. CASE UNCHANGED vars
  BY <1>0, <1>9 DEF vars
<1> QED BY <1>1, <1>2, <1>3, <1>4, <1>5, <1>6, <1>7, <1>8, <1>9 DEF Next, WriteStep

\* The announced length is that of the response as long as there is one.
LEMMA AnnouncedStep ==
    ASSUME IInv, [Next]_vars
    PROVE  LengthAnnounced'
<1>0. TypeOK /\ Cleaned /\ LengthAnnounced
  BY DEF IInv
<1>1. CASE Worker
  <2>1. declared' \in Nat /\ \E n \in Nat : IsResponse(buf', n, declared')
    BY <1>0, <1>1, WorkerStep
  <2>2. PICK n \in Nat : IsResponse(buf', n, declared')
    BY <2>1
  <2> QED BY <2>1, <2>2, Announced DEF LengthAnnounced
<1>2. CASE Cleared /\ pc' = "read" /\ UNCHANGED <<wire, history>>
  BY <1>2 DEF Cleared, LengthAnnounced
<1>3. CASE UNCHANGED <<buf, declared>>
  BY <1>0, <1>3 DEF LengthAnnounced
<1>4. Request \/ Steady \/ FileShrinks \/ UNCHANGED vars => UNCHANGED <<buf, declared>>
  BY DEF Request, Steady, FileShrinks, vars, response
<1>5. \A n : Send(n) \/ SendFile(n) => UNCHANGED <<buf, declared>>
  BY DEF Send, SendFile
<1> QED BY <1>0, <1>1, <1>2, <1>3, <1>4, <1>5, NextCases

\* The invariant is never lost.
LEMMA Invariant == Spec => []IInv
<1>1. ASSUME IInv, [Next]_vars PROVE IInv'
  <2>1. FlagsOK' /\ NumbersOK' /\ BytesOK' /\ Counted'
    BY <1>1, TypeStep, CountedStep
  <2>2. FilesOK' /\ FileClosed'
    BY <1>1, FilesStep
  <2>3. TypeOK'
    <3>1. FlagsOK' /\ NumbersOK' /\ BytesOK' /\ FilesOK' /\ Counted' => TypeOK'
      BY GroupsType, PTL
    <3> QED BY <2>1, <2>2, <3>1
  <2> QED BY <1>1, <2>2, <2>3, CountedStep, SentStep, PresentStep, AnnouncedStep DEF IInv
<1> QED BY InvInit, <1>1, PTL DEF Spec

-----------------------------------------------------------------------------
(* The theorems                                                            *)

\* What the worker and write() keep their counters at: m_writebuf stays in its array,
\* byte_have_send and byte_to_send add up to what is in it (http_conn.cpp, write()).
THEOREM TypeCorrect == Spec => []TypeOK
<1>1. IInv => TypeOK
  BY DEF IInv
<1> QED BY Invariant, <1>1, PTL

\* What the client has is a prefix of the response, and the response once write() has
\* sent everything, unless send() took a part of m_writebuf.
THEOREM WholeSendsAreExact == Spec => []WireExactIfWhole
<1>1. ASSUME IInv, ~short PROVE WireExact
  <2>0. TypeOK /\ NumbersOK /\ BytesOK /\ Counted /\ SentWhole
    BY <1>1, TypeGroups DEF IInv
  <2>1. buf \in Seq(Byte) /\ declared \in Nat /\ offset \in Nat /\ len \in Nat
          /\ offset <= declared /\ len + offset = declared
    BY <2>0 DEF NumbersOK, BytesOK, Counted
  <2>2. ASSUME Responding PROVE IsPrefix(wire, Intended)
    <3>1. CASE wire = <<>>
      <4>1. Intended \in Seq(Byte)
        BY <2>1, WithFile DEF Intended
      <4>2. <<>> \in Seq(Byte) /\ Len(<<>>) = 0
        BY EmptySeq
      <4>3. Len(<<>>) <= Len(Intended)
        BY <4>1, <4>2, LenProperties
      <4>4. \A i \in 1..Len(<<>>) : <<>>[i] = Intended[i]
        BY <4>2
      <4>5. IsPrefix(<<>>, Intended)
        BY <4>1, <4>2, <4>3, <4>4, PrefixByIndex
      <4> QED BY <3>1, <4>5
    <3>2. CASE wire = buf \o Bytes("file", offset)
      BY <2>1, <3>2, WithFile DEF Intended
    <3> QED BY <1>1, <2>0, <2>2, <3>1, <3>2 DEF SentWhole
  <2>3. ASSUME pc = "test", AllSent PROVE wire = Intended
    <3>1. toSend <= 0 /\ len <= 0
      BY <2>3 DEF AllSent
    <3>2. offset = declared
      BY <2>1, <3>1
    <3>3. buf # <<>> /\ (\/ haveSent = 0 /\ offset = 0 /\ wire = <<>>
                         \/ toSend = 0 /\ wire = buf \o Bytes("file", offset))
      BY <1>1, <2>0, <2>3 DEF SentWhole, Responding
    <3>4. Len(buf) # 0 /\ Len(buf) \in Nat
      BY <2>1, <3>3, EmptySeq, LenProperties
    <3>5. haveSent # 0
      BY <2>0, <3>1, <3>4 DEF Counted, NumbersOK
    <3> QED BY <3>2, <3>3, <3>5 DEF Intended
  <2> QED BY <2>2, <2>3 DEF WireExact, Responding, InWrite
<1>2. IInv => WireExactIfWhole
  BY <1>1 DEF WireExactIfWhole
<1> QED BY Invariant, <1>2, PTL

\* Content-Length says how many bytes come behind the header, or the list that would
\* not fit is left out (do_request(), add_content()).
THEOREM LengthsAnnounced == Spec => []LengthAnnounced
<1>1. IInv => LengthAnnounced
  BY DEF IInv
<1> QED BY Invariant, <1>1, PTL

\* Every file opened for a response is closed by write(), be the connection kept, closed
\* or sendfile() failing, but for one per connection that was closed before its response
\* was complete: init() never overwrites an m_fd that is still open otherwise.
THEOREM FilesClosed == Spec => []FileClosed
<1>1. IInv => FileClosed
  BY DEF IInv
<1> QED BY Invariant, <1>1, PTL

\* Every step of write()'s loop brings it nearer to its return: bytes go out, or it
\* comes nearer to a step that sends some or returns.  sendfile() sends none only at the
\* end of the file, which for a file that did not vanish is the end of the response.
THEOREM WriteNotInVain == Spec => WriteGoesOn
<1>1. ASSUME IInv, [Next]_vars
      PROVE  [InWrite /\ InWrite' /\ ~vanished'
                => Left' < Left \/ (Left' = Left /\ StepsAhead' < StepsAhead)]_vars
  <2> SUFFICES ASSUME Next, InWrite, InWrite', ~vanished'
               PROVE  Left' < Left \/ (Left' = Left /\ StepsAhead' < StepsAhead)
    BY <1>1
  <2>0. FlagsOK /\ NumbersOK /\ Counted /\ Present
    BY <1>1, TypeGroups DEF IInv
  <2> USE DEF Goto, response, history
  <2>1. ASSUME NEW n \in 1..Len(buf), Send(n) PROVE Left' < Left
    <3>1. toSend > 0 /\ toSend' = toSend - n /\ len' = len
      BY <2>1 DEF Send
    <3>2. toSend \in Int /\ len \in Nat /\ n \in Int /\ n >= 1
      <4>1. Len(buf) \in Nat
        BY <1>1, LenProperties DEF IInv, TypeOK
      <4> QED BY <2>0, <4>1 DEF NumbersOK
    <3> QED BY <3>1, <3>2 DEF Left
  <2>2. ASSUME NEW n \in 0..len, SendFile(n)
        PROVE  Left' < Left \/ (Left' = Left /\ StepsAhead' < StepsAhead)
    <3>1. /\ pc = "file" /\ pc' = "test" /\ toSend <= 0 /\ toSend' = toSend /\ len' = len - n
          /\ file = "open" /\ (n = 0 => len = 0 \/ offset >= size) /\ vanished' = vanished
      BY <2>2 DEF SendFile, FileTurn
    <3>2. toSend \in Int /\ len \in Nat /\ n \in Nat /\ offset \in Nat
      BY <2>0 DEF NumbersOK
    <3>3. size = declared
      BY <2>0, <3>1 DEF Present, Responding
    <3>4. n = 0 => len = 0
      BY <2>0, <3>1, <3>2, <3>3 DEF Counted, NumbersOK
    <3>5. CASE n > 0
      <4>1. Left' < Left
        BY <3>1, <3>2, <3>5 DEF Left
      <4> QED BY <4>1
    <3>6. CASE n = 0
      <4>1. len = 0 /\ len' = 0
        BY <3>1, <3>4, <3>6
      <4>2. Left' = Left
        BY <3>1, <4>1 DEF Left
      <4>3. AllSent'
        BY <3>1, <3>2, <4>1 DEF AllSent
      <4>4. StepsAhead = 1 /\ StepsAhead' = 0
        BY <3>1, <3>2, <4>3 DEF StepsAhead
      <4> QED BY <4>2, <4>4
    <3> QED BY <3>2, <3>5, <3>6
  <2>3. CASE HeadSent
    <3>1. pc = "send" /\ pc' = "file" /\ toSend <= 0 /\ toSend' = toSend /\ len' = len
      BY <2>3 DEF HeadSent
    <3>2. toSend \in Int /\ len \in Nat
      BY <2>0 DEF NumbersOK
    <3>3. StepsAhead = 2 /\ StepsAhead' = 1
      BY <3>1, <3>2 DEF StepsAhead
    <3>4. Left' = Left
      BY <3>1 DEF Left
    <3> QED BY <3>3, <3>4
  <2>4. CASE NoFileTurn
    <3>1. /\ pc = "file" /\ pc' = "test" /\ ~(toSend <= 0 /\ file = "open")
          /\ toSend' = toSend /\ len' = len /\ vanished' = vanished
      BY <2>4 DEF NoFileTurn, FileTurn
    <3>2. toSend \in Int /\ len \in Nat
      BY <2>0 DEF NumbersOK
    <3>3. Left' = Left
      BY <3>1 DEF Left
    <3>4. CASE toSend > 0
      <4>1. StepsAhead = 4 /\ ~AllSent'
        BY <3>1, <3>2, <3>4 DEF StepsAhead, AllSent
      <4>2. StepsAhead' = 3
        BY <3>1, <4>1 DEF StepsAhead
      <4> QED BY <3>3, <4>1, <4>2
    <3>5. CASE toSend <= 0
      <4>1. len = 0
        BY <2>0, <3>1, <3>5 DEF Present, Responding
      <4>2. AllSent'
        BY <3>1, <3>5, <4>1 DEF AllSent
      <4>3. StepsAhead = 1 /\ StepsAhead' = 0
        BY <3>1, <3>2, <3>5, <4>2 DEF StepsAhead
      <4> QED BY <3>3, <4>3
    <3> QED BY <3>2, <3>4, <3>5
  <2>5. CASE LoopAgain
    <3>1. pc = "test" /\ pc' = "send" /\ ~AllSent /\ toSend' = toSend /\ len' = len
      BY <2>5 DEF LoopAgain
    <3>2. StepsAhead = 3 /\ StepsAhead' = 2
      BY <3>1 DEF StepsAhead
    <3>3. Left' = Left
      BY <3>1 DEF Left
    <3> QED BY <3>2, <3>3
  <2>6. CASE Request \/ Connect \/ Worker \/ WriteBegin \/ HangUp
    <3>1. ~InWrite
      <4>1. Worker => pc = "process"
        BY DEF Worker, RespondError, RespondDone, RespondList, RespondFile, Ready
      <4> QED BY <2>6, <4>1 DEF Request, Connect, WriteBegin, HangUp, InWrite
    <3> QED BY <3>1
  <2>7. CASE SendAgain \/ SendFails \/ FileAgain \/ FileFails \/ Kept \/ NotKept
    <3>1. ~InWrite'
      BY <2>7 DEF SendAgain, SendFails, FileAgain, FileFails, Kept, NotKept, InWrite
    <3> QED BY <3>1
  <2>8. CASE FileShrinks
    BY <2>8 DEF FileShrinks
  <2> QED BY <2>1, <2>2, <2>3, <2>4, <2>5, <2>6, <2>7, <2>8 DEF Next, WriteStep
<1> QED BY Invariant, <1>1, PTL DEF Spec, WriteGoesOn
=============================================================================

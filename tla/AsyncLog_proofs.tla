---------------------------- MODULE AsyncLog_proofs ----------------------------
(***************************************************************************)
(* Proofs about AsyncLog for any number of writers, queue size and lines:  *)
(* type correctness, that no line vanishes or is written twice, that each  *)
(* thread's lines stay in order but for those it wrote itself, that no     *)
(* file outgrows its bound while one thread logs, that the flush thread    *)
(* never sleeps on a line, and that threads and queue implement LogBook.   *)
(***************************************************************************)
EXTENDS AsyncLog, FiniteSetTheorems, SequenceTheorems, TLAPS

-----------------------------------------------------------------------------
(* The inductive invariant                                                 *)

\* The lines w has finished with.
Last(w) == made[w] - (IF pc[w] = "out" THEN 0 ELSE 1)
IsReturned(l) == l[1] \in Writers /\ l[2] \in 1..Last(l[1])

\* A writer inside write_log() has a line.
Begun == \A w \in Writers : pc[w] # "out" => made[w] >= 1 /\ Line(w) \in Lines

\* Where a line is.
Places(l) ==
    \/ l \in lost \/ l \in gone
    \/ \E i \in 1..Len(queue) : queue[i] = l
    \/ \E i \in 1..Len(hand) : hand[i] = l
    \/ \E i \in 1..Len(book) : book[i].line = l

\* No line is anywhere before write_log() is done with it,
Known ==
    /\ \A l \in lost \cup gone : IsReturned(l)
    /\ \A i \in 1..Len(queue) : IsReturned(queue[i])
    /\ \A i \in 1..Len(hand) : IsReturned(hand[i])
    /\ \A i \in 1..Len(book) : IsReturned(book[i].line)

\* then it is somewhere,
Kept == ~down => \A w \in Writers : \A n \in 1..Last(w) : Places(<<w, n>>)

\* but not in two places, nor in one twice.
Distinct ==
    /\ \A i, j \in 1..Len(queue) : queue[i] = queue[j] => i = j
    /\ \A i, j \in 1..Len(book) : book[i].line = book[j].line => i = j
    /\ \A i \in 1..Len(queue), j \in 1..Len(book) : queue[i] # book[j].line
    /\ \A h \in 1..Len(hand), i \in 1..Len(queue) : hand[h] # queue[i]
    /\ \A h \in 1..Len(hand), j \in 1..Len(book) : hand[h] # book[j].line
    /\ \A l \in lost \cup gone :
          /\ \A i \in 1..Len(queue) : queue[i] # l
          /\ \A h \in 1..Len(hand) : hand[h] # l
          /\ \A j \in 1..Len(book) : book[j].line # l

\* From the files through the flush thread to the end of the queue, only a line
\* its writer wrote itself is before an older one of the same thread.
InTurn(l, m) == l[1] = m[1] /\ l[2] > m[2] => l \in atOnce

Ordered ==
    /\ \A i, j \in 1..Len(book) : i < j => InTurn(book[i].line, book[j].line)
    /\ \A i \in 1..Len(book), h \in 1..Len(hand) : InTurn(book[i].line, hand[h])
    /\ \A i \in 1..Len(book), j \in 1..Len(queue) : InTurn(book[i].line, queue[j])
    /\ \A h \in 1..Len(hand), j \in 1..Len(queue) : InTurn(hand[h], queue[j])
    /\ \A i, j \in 1..Len(queue) : i < j => InTurn(queue[i], queue[j])

\* While w is the only thread that logged, push() finds the room full() saw.
Sole(w) == \A v \in Writers \ {w} : made[v] = 0

Room ==
    /\ \A w \in Writers : Sole(w) /\ pc[w] = "push" => Len(queue) < MaxSize
    /\ Alone => lost = {}

IInv == TypeOK /\ Begun /\ Known /\ Kept /\ Distinct /\ Ordered /\ Room

\* The current file's name follows from today and count, and no file has lines of
\* this start that comes later.
NotLater(f) == f[1] < today \/ (f[1] = today /\ f[2] <= count \div SplitLines)
NoneLater == \A i \in 1..Len(book) : i > base => NotLater(book[i].file)

FileNamed ==
    /\ file = NoFile \/ file = <<today, count \div SplitLines>>
    /\ Alone => NoneLater

\* No stamp is ahead of the date or older than this start, and while nobody but w
\* stamps lines, none is behind the file's day.
DaysInOrder ==
    /\ born <= today /\ today <= date
    /\ \A w \in Writers : pc[w] # "out" => born <= day[w] /\ day[w] <= date
    /\ \A w \in Writers : Sole(w) /\ pc[w] # "out" => today <= day[w]

Of(f) == {i \in 1..Len(book) : i > base /\ book[i].file = f}
Backlog(f) == IF f = <<born, 0>> THEN 0 ELSE MaxSize + 1
Pending(w) == IF pc[w] \in {"full", "push", "direct"} THEN 1 ELSE 0

\* What is in the current file or on its way there was in the backlog when the
\* file was opened or has come since, and count counts it.
Bounded ==
    \A w \in Writers : Sole(w) =>
        /\ \A f \in Files : Cardinality(Of(f)) <= SplitLines + Backlog(f)
        /\ file # NoFile =>
              Cardinality(Of(file)) + Len(queue) + Len(hand) + Pending(w)
                  <= (count % SplitLines) + 1 + Backlog(file)

FileInv == FileNamed /\ DaysInOrder /\ Bounded

\* The disjuncts of Running, flattened once for all the step proofs.
LEMMA RunningCases ==
    ASSUME Running
    PROVE  \/ \E w \in Writers : Stamp(w) \/ KeepFile(w) \/ Rotate(w) \/ RotateFails(w) \/ AskFull(w)
           \/ \E w \in Writers : Push(w) \/ PushRefused(w) \/ Direct(w)
           \/ Sleep \/ WakeUp \/ Midnight \/ Exit
           \/ Pop \/ Flush
  BY DEF Running, WriteLog, FlushThread

-----------------------------------------------------------------------------
(* Sequences, by index                                                     *)

\* What Append() leaves where.
LEMMA AppendIndex ==
    ASSUME NEW S, NEW s \in Seq(S), NEW x \in S
    PROVE  /\ Append(s, x) \in Seq(S) /\ Len(s) \in Nat
           /\ Len(Append(s, x)) = Len(s) + 1
           /\ \A i \in 1..(Len(s) + 1) : Append(s, x)[i] = IF i = Len(s) + 1 THEN x ELSE s[i]
  BY AppendProperties, LenProperties

\* What Head() and Tail() take from where.
LEMMA TailIndex ==
    ASSUME NEW S, NEW s \in Seq(S), s # <<>>
    PROVE  /\ Tail(s) \in Seq(S) /\ Len(s) \in Nat /\ Len(s) >= 1
           /\ Len(Tail(s)) = Len(s) - 1
           /\ Head(s) = s[1] /\ Head(s) \in S
           /\ \A i \in 1..(Len(s) - 1) : Tail(s)[i] = s[i + 1]
  BY HeadTailProperties, LenProperties, EmptySeq

\* A sequence of one.
LEMMA OneElement ==
    ASSUME NEW S, NEW x \in S
    PROVE  /\ <<x>> \in Seq(S) /\ Len(<<x>>) = 1 /\ <<x>>[1] = x /\ <<x>> # <<>>
           /\ <<>> \in Seq(S) /\ Len(<<>>) = 0
  OBVIOUS

\* The head and the tail of what was put together from them.
LEMMA ConsHeadTail ==
    ASSUME NEW S, NEW s \in Seq(S), NEW x \in S
    PROVE  <<x>> \o s # <<>> /\ Head(<<x>> \o s) = x /\ Tail(<<x>> \o s) = s
<1>1. <<x>> \in Seq(S) /\ Len(<<x>>) = 1 /\ <<x>>[1] = x /\ Len(s) \in Nat
  BY OneElement, LenProperties
<1>2. /\ <<x>> \o s \in Seq(S) /\ Len(<<x>> \o s) = 1 + Len(s)
      /\ \A i \in 1..(1 + Len(s)) :
            (<<x>> \o s)[i] = IF i <= 1 THEN <<x>>[i] ELSE s[i - 1]
  BY <1>1, ConcatProperties
<1>3. <<x>> \o s # <<>>
  BY <1>1, <1>2, EmptySeq
<1>4. Head(<<x>> \o s) = x
  BY <1>1, <1>2, <1>3, TailIndex
<1>5. /\ Tail(<<x>> \o s) \in Seq(S) /\ Len(Tail(<<x>> \o s)) = Len(s)
      /\ \A i \in 1..Len(s) : Tail(<<x>> \o s)[i] = (<<x>> \o s)[i + 1]
  BY <1>1, <1>2, <1>3, TailIndex
<1>6. \A i \in 1..Len(s) : Tail(<<x>> \o s)[i] = s[i]
  BY <1>1, <1>2, <1>5
<1> QED BY <1>3, <1>4, <1>5, <1>6, SeqEqual

\* A sequence is put together from its head and its tail.
LEMMA HeadTailAsConcat ==
    ASSUME NEW S, NEW s \in Seq(S), s # <<>>
    PROVE  <<Head(s)>> \o Tail(s) = s
<1>1. /\ Tail(s) \in Seq(S) /\ Len(s) \in Nat /\ Len(s) >= 1 /\ Len(Tail(s)) = Len(s) - 1
      /\ Head(s) = s[1] /\ Head(s) \in S
      /\ \A i \in 1..(Len(s) - 1) : Tail(s)[i] = s[i + 1]
  BY TailIndex
<1>2. <<Head(s)>> \in Seq(S) /\ Len(<<Head(s)>>) = 1 /\ <<Head(s)>>[1] = Head(s)
  BY <1>1, OneElement
<1>3. /\ <<Head(s)>> \o Tail(s) \in Seq(S) /\ Len(<<Head(s)>> \o Tail(s)) = Len(s)
      /\ \A i \in 1..Len(s) : (<<Head(s)>> \o Tail(s))[i] =
                 IF i <= 1 THEN <<Head(s)>>[i] ELSE Tail(s)[i - 1]
  BY <1>1, <1>2, ConcatProperties
<1>4. \A i \in 1..Len(s) : (<<Head(s)>> \o Tail(s))[i] = s[i]
  BY <1>1, <1>2, <1>3
<1> QED BY <1>3, <1>4, SeqEqual

\* The flush thread has at most one line in its hand.
LEMMA HandOfOne ==
    ASSUME TypeOK, hand # <<>>
    PROVE  /\ Len(hand) = 1 /\ hand[1] \in Lines /\ Head(hand) = hand[1] /\ hand = <<hand[1]>>
<1>1. hand \in Seq(Lines) /\ Len(hand) <= 1
  BY DEF TypeOK
<1>2. Len(hand) = 1
  <2>1. Len(hand) \in Nat
    BY <1>1, LenProperties
  <2>2. Len(hand) # 0
    BY <1>1, EmptySeq
  <2>3. Len(hand) <= 1
    BY <1>1
  <2>4. \A n \in Nat : n # 0 /\ n <= 1 => n = 1
    OBVIOUS
  <2> QED BY <2>1, <2>2, <2>3, <2>4, Zenon
<1>3. hand[1] \in Lines
  BY <1>1, <1>2, ElementOfSeq
<1>4. <<hand[1]>> \in Seq(Lines) /\ Len(<<hand[1]>>) = 1 /\ <<hand[1]>>[1] = hand[1]
  BY <1>3, OneElement
<1>5. hand = <<hand[1]>>
  BY <1>1, <1>2, <1>4, SeqEqual
<1>6. Head(hand) = hand[1]
  BY <1>1, HeadTailProperties
<1> QED BY <1>2, <1>3, <1>5, <1>6

\* Quotients are of the kind Nat, and remainders below what one divides by.
LEMMA Division ==
    ASSUME NEW n \in Nat, NEW m \in Nat \ {0}
    PROVE  /\ n \div m \in Nat
           /\ n % m \in 0..(m - 1)
           /\ n = m * (n \div m) + (n % m)
  OBVIOUS

-----------------------------------------------------------------------------
(* Type correctness                                                        *)

\* fputs() of a line appends it to the current file, or ends the program.
LEMMA PutType ==
    ASSUME TypeOK, NEW l \in Lines, Put(l)
    PROVE  /\ book' \in Seq([line : Lines, file : Files]) /\ down' \in BOOLEAN
           /\ base \in 0..Len(book')
           /\ file = NoFile => down' /\ book' = book
           /\ file # NoFile =>
                 /\ down' = down /\ Len(book) \in Nat /\ Len(book') = Len(book) + 1
                 /\ \A i \in 1..(Len(book) + 1) :
                       book'[i] = IF i = Len(book) + 1 THEN [line |-> l, file |-> file] ELSE book[i]
<1>1. CASE file = NoFile
  BY <1>1 DEF Put, TypeOK
<1>2. CASE file # NoFile
  <2>1. [line |-> l, file |-> file] \in [line : Lines, file : Files]
    BY <1>2 DEF TypeOK
  <2>2. book \in Seq([line : Lines, file : Files]) /\ down \in BOOLEAN
    BY DEF TypeOK
  <2>3. book' = Append(book, [line |-> l, file |-> file]) /\ down' = down
    BY <1>2 DEF Put
  <2>4. base \in 0..Len(book')
    BY <2>1, <2>2, <2>3, AppendIndex DEF TypeOK
  <2> QED BY <1>2, <2>1, <2>2, <2>3, <2>4, AppendIndex
<1> QED BY <1>1, <1>2

\* TypeOK by groups of variables: the queue and the hand, the wait, numbers, what
\* is written and the writers.
SeqsOK ==
    /\ queue \in Seq(Lines) /\ Len(queue) <= MaxSize
    /\ hand \in Seq(Lines) /\ Len(hand) <= 1
WaitOK == asleep \in BOOLEAN /\ (asleep => hand = <<>>) /\ down \in BOOLEAN
NumbersOK == today \in Nat /\ count \in Nat /\ date \in Nat /\ file \in Files \cup {NoFile}
BookOK ==
    /\ book \in Seq([line : Lines, file : Files])
    /\ lost \subseteq Lines /\ atOnce \subseteq Lines
    /\ base \in 0..Len(book) /\ born \in Nat /\ gone \subseteq Writers \X Nat
WritersOK ==
    /\ pc \in [Writers -> {"out", "rotate", "full", "push", "direct"}]
    /\ day \in [Writers -> Nat] /\ made \in [Writers -> Nat]

\* The groups are all there is to it.
LEMMA TypeGroups == TypeOK <=> SeqsOK /\ WaitOK /\ NumbersOK /\ BookOK /\ WritersOK
  BY DEF TypeOK, SeqsOK, WaitOK, NumbersOK, BookOK, WritersOK

\* The same for the next state.
LEMMA TypeGroupsNext == SeqsOK' /\ WaitOK' /\ NumbersOK' /\ BookOK' /\ WritersOK' => TypeOK'
  BY DEF TypeOK, SeqsOK, WaitOK, NumbersOK, BookOK, WritersOK

\* Every action keeps the types of the writers' variables.
LEMMA WritersStep ==
    ASSUME WritersOK, NumbersOK, [Running]_vars
    PROVE  WritersOK'
<1> USE DEF WritersOK
<1>1. ASSUME NEW w \in Writers, Stamp(w) PROVE WritersOK'
  <2>1. pc' \in [Writers -> {"out", "rotate", "full", "push", "direct"}]
    BY <1>1 DEF Stamp, Goto
  <2>2. made' \in [Writers -> Nat]
    BY <1>1 DEF Stamp
  <2>3. day' \in [Writers -> Nat]
    <3>1. PICK d \in {date} \cup {day[v] : v \in {u \in Writers : pc[u] = "rotate"}} :
             day' = [day EXCEPT ![w] = d]
      BY <1>1 DEF Stamp
    <3>2. d \in Nat
      BY DEF NumbersOK
    <3> QED BY <3>1, <3>2
  <2> QED BY <2>1, <2>2, <2>3
<1>2. ASSUME NEW w \in Writers,
             KeepFile(w) \/ Rotate(w) \/ RotateFails(w) \/ AskFull(w)
      PROVE  WritersOK'
  BY <1>2 DEF KeepFile, Rotate, RotateFails, AskFull, Goto
<1>3. ASSUME NEW w \in Writers, Push(w) \/ PushRefused(w) \/ Direct(w) PROVE WritersOK'
  BY <1>3 DEF Push, PushRefused, Direct, Goto
<1>4. CASE Sleep \/ WakeUp \/ Midnight \/ Exit \/ Pop \/ Flush \/ UNCHANGED vars
  BY <1>4 DEF Sleep, WakeUp, Midnight, Exit, Pop, Flush, threads, vars
<1> QED BY <1>1, <1>2, <1>3, <1>4, RunningCases

\* So for the date, the count and the file.
LEMMA NumbersStep ==
    ASSUME WritersOK, NumbersOK, [Running]_vars
    PROVE  NumbersOK'
<1> USE DEF NumbersOK, rotation
<1>1. ASSUME NEW w \in Writers, Rotate(w) PROVE NumbersOK'
  <2>1. day[w] \in Nat
    BY DEF WritersOK
  <2>2. today' \in Nat /\ count' \in Nat /\ date' \in Nat
    BY <1>1, <2>1 DEF Rotate
  <2>3. count + 1 \in Nat /\ SplitLines \in Nat \ {0}
    BY LogAssumption
  <2>4. (count + 1) \div SplitLines \in Nat
    BY <2>3, Division
  <2>5. file' \in Files \cup {NoFile}
    <3>1. CASE NewDay(w)
      BY <1>1, <2>1, <3>1 DEF Rotate, Files
    <3>2. CASE ~NewDay(w)
      BY <1>1, <2>1, <2>4, <3>2 DEF Rotate, Files
    <3> QED BY <3>1, <3>2
  <2> QED BY <2>2, <2>5
<1>2. ASSUME NEW w \in Writers, Stamp(w) \/ KeepFile(w) \/ RotateFails(w) \/ AskFull(w)
      PROVE  NumbersOK'
  BY <1>2 DEF KeepFile, Stamp, RotateFails, AskFull
<1>3. ASSUME NEW w \in Writers, Push(w) \/ PushRefused(w) \/ Direct(w) PROVE NumbersOK'
  BY <1>3 DEF Push, PushRefused, Direct
<1>4. CASE Sleep \/ WakeUp \/ Midnight \/ Exit \/ Pop \/ Flush \/ UNCHANGED vars
  BY <1>4 DEF Sleep, WakeUp, Midnight, Exit, Pop, Flush, vars
<1> QED BY <1>1, <1>2, <1>3, <1>4, RunningCases

\* So for the flags: nobody puts a line into the hand of a sleeping thread.
LEMMA WaitStep ==
    ASSUME WaitOK, [Running]_vars
    PROVE  WaitOK'
<1> USE DEF WaitOK
<1>1. ASSUME NEW w \in Writers,
             Stamp(w) \/ KeepFile(w) \/ Rotate(w) \/ AskFull(w)
      PROVE  WaitOK'
  <2>1. UNCHANGED <<asleep, hand, down>>
    BY <1>1 DEF Stamp, KeepFile, Rotate, AskFull
  <2> QED BY <2>1
<1>2. ASSUME NEW w \in Writers, RotateFails(w) PROVE WaitOK'
  <2>1. UNCHANGED <<asleep, hand>> /\ down' = TRUE
    BY <1>2 DEF RotateFails
  <2> QED BY <2>1
<1>3. ASSUME NEW w \in Writers, Push(w) \/ PushRefused(w) PROVE WaitOK'
  <2>1. asleep' = FALSE /\ down' = down
    BY <1>3 DEF Push, PushRefused
  <2> QED BY <2>1
<1>4. ASSUME NEW w \in Writers, Direct(w) PROVE WaitOK'
  <2>1. UNCHANGED <<asleep, hand>> /\ (down' = TRUE \/ down' = down)
    BY <1>4 DEF Direct, Put
  <2> QED BY <2>1
<1>5. CASE Sleep
  <2>1. hand = <<>> /\ UNCHANGED <<hand, down>> /\ asleep' = TRUE
    BY <1>5 DEF Sleep, Free
  <2> QED BY <2>1
<1>6. CASE WakeUp
  <2>1. UNCHANGED <<hand, down>> /\ asleep' = FALSE
    BY <1>6 DEF WakeUp
  <2> QED BY <2>1
<1>7. CASE Midnight \/ UNCHANGED vars
  <2>1. UNCHANGED <<asleep, hand, down>>
    BY <1>7 DEF Midnight, vars
  <2> QED BY <2>1
<1>8. CASE Exit
  <2>1. UNCHANGED <<asleep, hand>> /\ down' = TRUE
    BY <1>8 DEF Exit
  <2> QED BY <2>1
<1>9. CASE Pop
  <2>1. ~asleep /\ UNCHANGED <<asleep, down>>
    BY <1>9 DEF Pop, Free
  <2> QED BY <2>1
<1>10. CASE Flush
  <2>1. hand' = <<>> /\ asleep' = asleep /\ (down' = TRUE \/ down' = down)
    BY <1>10 DEF Flush, Put
  <2> QED BY <2>1
<1> QED
  BY <1>1, <1>2, <1>3, <1>4, <1>5, <1>6, <1>7, <1>8, <1>9, <1>10, RunningCases

\* Last and IsReturned in the next state.
LastNext(w) == made'[w] - (IF pc'[w] = "out" THEN 0 ELSE 1)
ReturnedNext(l) == l[1] \in Writers /\ l[2] \in 1..LastNext(l[1])

\* Only these actions touch the queue, the hand, the book and the history, and
\* only a return from push() or fputs() ends a call.
Quiet ==
    /\ UNCHANGED <<queue, hand, book, lost, atOnce, gone, past>>
    /\ \A w \in Writers : LastNext(w) = Last(w)
    /\ down => down'

\* The remaining steps are quiet.
LEMMA QuietStep ==
    ASSUME TypeOK, [Running]_vars,
           ~\E w \in Writers : Push(w) \/ PushRefused(w) \/ Direct(w), ~Pop, ~Flush
    PROVE  Quiet
<1>1. ASSUME NEW w \in Writers, Stamp(w) PROVE Quiet
  <2>1. \A v \in Writers : LastNext(v) = Last(v)
    BY <1>1 DEF Stamp, Goto, Last, LastNext, TypeOK
  <2> QED BY <1>1, <2>1 DEF Stamp, Quiet, history, past
<1>2. ASSUME NEW w \in Writers,
             KeepFile(w) \/ Rotate(w) \/ RotateFails(w) \/ AskFull(w)
      PROVE  Quiet
  <2>1. \A v \in Writers : LastNext(v) = Last(v)
    BY <1>2 DEF KeepFile, Rotate, RotateFails, AskFull, Goto, Last, LastNext, TypeOK
  <2>2. UNCHANGED <<queue, hand, book, lost, atOnce, gone, past>>
    BY <1>2 DEF KeepFile, Rotate, RotateFails, AskFull, history, past
  <2>3. down => down'
    BY <1>2 DEF KeepFile, Rotate, RotateFails, AskFull
  <2> QED BY <2>1, <2>2, <2>3 DEF Quiet
<1>3. CASE Sleep \/ WakeUp \/ Midnight \/ Exit \/ UNCHANGED vars
  <2>1. \A v \in Writers : LastNext(v) = Last(v)
    BY <1>3 DEF Sleep, WakeUp, Midnight, Exit, threads, vars, Last, LastNext
  <2> QED BY <1>3, <2>1 DEF Sleep, WakeUp, Midnight, Exit, history, past, vars, Quiet
<1> QED BY <1>1, <1>2, <1>3, RunningCases

\* The line of a writer inside write_log().
LEMMA OwnLine ==
    ASSUME TypeOK, Begun, NEW w \in Writers, pc[w] # "out"
    PROVE  Line(w) \in Lines /\ Line(w)[1] = w /\ Line(w)[2] = made[w] /\ made[w] \in Nat
             /\ made[w] >= 1 /\ Last(w) = made[w] - 1
  BY DEF TypeOK, Begun, Line, Last, LastNext

\* push(), pop() and fputs() keep the queue within m_max_size and take lines as
\* they are.
LEMMA SeqsStep ==
    ASSUME TypeOK, Begun, [Running]_vars
    PROVE  SeqsOK' /\ BookOK'
<1>0. SeqsOK /\ BookOK /\ MaxSize \in Nat
  BY TypeGroups, LogAssumption
<1>1. ASSUME NEW w \in Writers, Push(w) PROVE SeqsOK' /\ BookOK'
  <2>1. Line(w) \in Lines
    BY <1>1, OwnLine DEF Push, Goto
  <2>2. queue' \in Seq(Lines) /\ Len(queue') = Len(queue) + 1 /\ Len(queue) \in Nat
    BY <1>0, <1>1, <2>1, AppendIndex DEF Push, SeqsOK
  <2> QED BY <1>0, <1>1, <2>2 DEF Push, SeqsOK, BookOK, history, past
<1>2. ASSUME NEW w \in Writers, PushRefused(w) PROVE SeqsOK' /\ BookOK'
  <2>1. Line(w) \in Lines
    BY <1>2, OwnLine DEF PushRefused, Goto
  <2> QED BY <1>0, <1>2, <2>1 DEF PushRefused, SeqsOK, BookOK, past
<1>3. ASSUME NEW w \in Writers, Direct(w) PROVE SeqsOK' /\ BookOK'
  <2>1. Line(w) \in Lines
    BY <1>3, OwnLine DEF Direct, Goto
  <2>2. Put(Line(w))
    BY <1>3 DEF Direct
  <2>3. book' \in Seq([line : Lines, file : Files]) /\ base \in 0..Len(book')
    BY <2>1, <2>2, PutType
  <2> QED BY <1>0, <1>3, <2>1, <2>3 DEF Direct, SeqsOK, BookOK, past
<1>4. CASE Pop
  <2>1. queue \in Seq(Lines) /\ queue # <<>> /\ queue' = Tail(queue) /\ hand' = <<Head(queue)>>
    BY <1>0, <1>4 DEF Pop, SeqsOK
  <2>2. queue' \in Seq(Lines) /\ Len(queue') = Len(queue) - 1 /\ Len(queue) \in Nat
    BY <2>1, TailIndex
  <2>3. Head(queue) \in Lines
    BY <2>1, TailIndex
  <2>4. hand' \in Seq(Lines) /\ Len(hand') = 1
    BY <2>1, <2>3, OneElement
  <2>5. Len(queue') <= MaxSize
    BY <1>0, <2>2 DEF SeqsOK
  <2> QED BY <1>0, <1>4, <2>2, <2>4, <2>5 DEF Pop, SeqsOK, BookOK, history, past
<1>5. CASE Flush
  <2>1. hand # <<>> /\ Put(Head(hand)) /\ hand' = <<>> /\ UNCHANGED <<queue, lost, atOnce, past>>
    BY <1>5 DEF Flush, history
  <2>2. Head(hand) \in Lines
    BY <2>1, HandOfOne
  <2>3. book' \in Seq([line : Lines, file : Files]) /\ base \in 0..Len(book')
    BY <2>1, <2>2, PutType
  <2>4. <<>> \in Seq(Lines) /\ Len(<<>>) = 0
    OBVIOUS
  <2> QED BY <1>0, <2>1, <2>3, <2>4 DEF SeqsOK, BookOK, past
<1>6. CASE Quiet
  BY <1>0, <1>6 DEF Quiet, SeqsOK, BookOK, past
<1> QED BY <1>1, <1>2, <1>3, <1>4, <1>5, <1>6, QuietStep

\* Every action keeps the types, and the queue within m_max_size.
LEMMA TypeStep ==
    ASSUME TypeOK, Begun, [Running]_vars
    PROVE  TypeOK'
  BY TypeGroups, TypeGroupsNext, WritersStep, NumbersStep, WaitStep, SeqsStep

\* A line is begun before anything is done with it.
LEMMA BegunStep ==
    ASSUME TypeOK, Begun, [Running]_vars
    PROVE  Begun'
<1> USE DEF TypeOK, Begun, Line, threads
<1>1. ASSUME NEW w \in Writers, Stamp(w) PROVE Begun'
  <2>1. made' = [made EXCEPT ![w] = made[w] + 1] /\ <<w, made[w] + 1>> \in Lines
    BY <1>1 DEF Stamp
  <2>2. pc' = [pc EXCEPT ![w] = "rotate"]
    BY <1>1 DEF Stamp, Goto
  <2>3. made'[w] = made[w] + 1 /\ \A v \in Writers \ {w} : made'[v] = made[v] /\ pc'[v] = pc[v]
    BY <2>1, <2>2
  <2>4. made'[w] >= 1 /\ <<w, made'[w]>> \in Lines
    BY <2>1, <2>3
  <2>5. ASSUME NEW v \in Writers \ {w}, pc'[v] # "out"
        PROVE  made'[v] >= 1 /\ <<v, made'[v]>> \in Lines
    <3>1. pc[v] # "out" /\ made'[v] = made[v]
      BY <2>3, <2>5
    <3> QED BY <3>1
  <2> QED BY <2>4, <2>5
<1>2. ASSUME NEW w \in Writers,
             KeepFile(w) \/ Rotate(w) \/ RotateFails(w) \/ AskFull(w)
      PROVE  Begun'
  BY <1>2 DEF KeepFile, RotateFails, Rotate, AskFull, Goto
<1>3. ASSUME NEW w \in Writers, Push(w) \/ PushRefused(w) \/ Direct(w) PROVE Begun'
  BY <1>3 DEF Push, PushRefused, Direct, Goto
<1>4. CASE Sleep \/ WakeUp \/ Midnight \/ Exit \/ Pop \/ Flush \/ UNCHANGED vars
  BY <1>4 DEF Sleep, WakeUp, Midnight, Exit, Pop, Flush, vars
<1> QED BY <1>1, <1>2, <1>3, <1>4, RunningCases

-----------------------------------------------------------------------------
(* What the other steps do, by index                                       *)

\* A call that ends: w has finished with its line, the others with no more lines.
Ends(w) == LastNext(w) = made[w] /\ \A v \in Writers \ {w} : LastNext(v) = Last(v)

\* Push(), push() that refuses and a line written at once end a call.
LEMMA CallEnds ==
    ASSUME TypeOK, Begun, NEW w \in Writers, Push(w) \/ PushRefused(w) \/ Direct(w)
    PROVE  /\ pc[w] # "out" /\ ~down /\ UNCHANGED <<made, hand>> /\ Ends(w)
           /\ pc' = [pc EXCEPT ![w] = "out"]
<1>1. pc[w] # "out" /\ ~down /\ UNCHANGED <<made, hand>> /\ pc' = [pc EXCEPT ![w] = "out"]
  BY DEF Push, PushRefused, Direct, Goto
<1>2. pc'[w] = "out" /\ \A v \in Writers \ {w} : pc'[v] = pc[v]
  BY <1>1 DEF TypeOK
<1>3. Ends(w)
  BY <1>1, <1>2 DEF Ends, Last, LastNext, TypeOK
<1> QED BY <1>1, <1>3

\* push() appends.
LEMMA PushEffect ==
    ASSUME TypeOK, Begun, NEW w \in Writers, Push(w)
    PROVE  /\ Len(queue) \in Nat /\ Len(queue') = Len(queue) + 1 /\ Len(queue) < MaxSize
           /\ \A i \in 1..(Len(queue) + 1) :
                 queue'[i] = IF i = Len(queue) + 1 THEN Line(w) ELSE queue[i]
           /\ UNCHANGED <<hand, book, lost, atOnce, gone, past, down>>
<1>1. Line(w) \in Lines
  BY OwnLine DEF Push, Goto
<1>2. queue \in Seq(Lines) /\ queue' = Append(queue, Line(w)) /\ Len(queue) < MaxSize
  BY DEF Push, TypeOK
<1>3. UNCHANGED <<hand, book, lost, atOnce, gone, past, down>>
  BY DEF Push, history, past
<1> QED BY <1>1, <1>2, <1>3, AppendIndex

\* fputs() of the line of a writer or of the hand.
Puts(l) ==
    /\ Len(book) \in Nat
    /\ \/ down' /\ file = NoFile /\ book' = book
       \/ /\ down' = down /\ file # NoFile
          /\ Len(book') = Len(book) + 1
          /\ book'[Len(book) + 1] = [line |-> l, file |-> file]
          /\ \A i \in 1..Len(book) : book'[i] = book[i]

\* Put() of a line is that.
LEMMA PutEffect ==
    ASSUME TypeOK, NEW l \in Lines, Put(l)
    PROVE  Puts(l)
<1>1. Len(book) \in Nat
  BY LenProperties DEF TypeOK
<1>2. CASE file = NoFile
  BY <1>1, <1>2, PutType DEF Puts
<1>3. CASE file # NoFile
  <2>1. /\ down' = down /\ Len(book') = Len(book) + 1
        /\ \A i \in 1..(Len(book) + 1) :
              book'[i] = IF i = Len(book) + 1 THEN [line |-> l, file |-> file] ELSE book[i]
    BY <1>3, PutType
  <2>2. book'[Len(book) + 1] = [line |-> l, file |-> file]
    BY <1>1, <2>1
  <2>3. \A i \in 1..Len(book) : book'[i] = book[i]
    BY <1>1, <2>1
  <2> QED BY <1>1, <1>3, <2>1, <2>2, <2>3 DEF Puts
<1> QED BY <1>2, <1>3

\* A writer past a full queue writes its line behind all that is in the files.
LEMMA DirectEffect ==
    ASSUME TypeOK, Begun, NEW w \in Writers, Direct(w)
    PROVE  Puts(Line(w)) /\ UNCHANGED <<queue, hand, lost, gone, past>> /\ atOnce' = atOnce \cup {Line(w)}
<1>1. Line(w) \in Lines
  BY OwnLine DEF Direct, Goto
<1> QED BY <1>1, PutEffect DEF Direct, past

\* pop() takes the first line.
LEMMA PopEffect ==
    ASSUME TypeOK, Pop
    PROVE  /\ Len(queue) \in Nat /\ Len(queue) >= 1 /\ Len(queue') = Len(queue) - 1
           /\ \A i \in 1..(Len(queue) - 1) : queue'[i] = queue[i + 1]
           /\ Len(hand) = 0 /\ Len(hand') = 1 /\ hand'[1] = queue[1] /\ queue[1] \in Lines
           /\ UNCHANGED <<book, lost, atOnce, gone, past, down, made, pc>> /\ ~down
<1>1. queue \in Seq(Lines) /\ queue # <<>> /\ queue' = Tail(queue) /\ hand' = <<Head(queue)>>
  BY DEF Pop, TypeOK
<1>2. Head(queue) = queue[1] /\ Head(queue) \in Lines
  BY <1>1, TailIndex
<1>3. /\ Len(queue) \in Nat /\ Len(queue) >= 1 /\ Len(queue') = Len(queue) - 1
      /\ \A i \in 1..(Len(queue) - 1) : queue'[i] = queue[i + 1]
  BY <1>1, TailIndex
<1>4. Len(hand) = 0 /\ Len(hand') = 1 /\ hand'[1] = queue[1]
  BY <1>1, <1>2, OneElement DEF Pop, Free
<1>5. UNCHANGED <<book, lost, atOnce, gone, past, down, made, pc>> /\ ~down
  BY DEF Pop, Free, history, past, threads
<1> QED BY <1>2, <1>3, <1>4, <1>5

\* The flush thread writes what it has in its hand.
LEMMA FlushEffect ==
    ASSUME TypeOK, Flush
    PROVE  /\ Len(hand) = 1 /\ Len(hand') = 0 /\ Puts(hand[1])
           /\ UNCHANGED <<queue, lost, atOnce, gone, past, made, pc>> /\ ~down
<1>1. hand # <<>> /\ Put(Head(hand)) /\ hand' = <<>>
  BY DEF Flush
<1>2. Len(hand) = 1 /\ Head(hand) = hand[1] /\ hand[1] \in Lines
  BY <1>1, HandOfOne
<1>3. Puts(hand[1])
  BY <1>1, <1>2, PutEffect
<1>4. UNCHANGED <<queue, lost, atOnce, gone, past, made, pc>> /\ ~down
  BY DEF Flush, history, past, threads
<1> QED BY <1>1, <1>2, <1>3, <1>4, OneElement

\* No thread takes back that it has finished with a line.
LEMMA LastGrows ==
    ASSUME TypeOK, Begun, [Running]_vars
    PROVE  \A w \in Writers : Last(w) \in Int /\ LastNext(w) \in Int /\ Last(w) <= LastNext(w)
<1>0. \A w \in Writers : Last(w) \in Int
  BY DEF Last, LastNext, TypeOK
<1>1. ASSUME NEW w \in Writers, Push(w) \/ PushRefused(w) \/ Direct(w)
      PROVE  \A v \in Writers : LastNext(v) \in Int /\ Last(v) <= LastNext(v)
  <2>1. pc[w] # "out" /\ Ends(w)
    BY <1>1, CallEnds
  <2>2. made[w] \in Nat /\ Last(w) = made[w] - 1
    BY <2>1, OwnLine
  <2>3. LastNext(w) \in Int /\ Last(w) <= LastNext(w)
    BY <2>1, <2>2 DEF Ends
  <2> QED BY <1>0, <2>1, <2>3 DEF Ends
<1>2. CASE Pop \/ Flush
  <2>1. UNCHANGED <<made, pc>>
    BY <1>2 DEF Pop, Flush, threads
  <2> QED BY <1>0, <2>1 DEF Last, LastNext
<1>3. CASE Quiet
  BY <1>0, <1>3 DEF Quiet
<1> QED BY <1>0, <1>1, <1>2, <1>3, QuietStep

\* So a line that is done with stays so,
LEMMA StaysReturned ==
    ASSUME TypeOK, Begun, [Running]_vars, NEW l, IsReturned(l)
    PROVE  ReturnedNext(l)
<1>1. l[1] \in Writers /\ l[2] \in 1..Last(l[1])
  BY DEF IsReturned
<1>2. Last(l[1]) \in Int /\ LastNext(l[1]) \in Int /\ Last(l[1]) <= LastNext(l[1])
  BY <1>1, LastGrows
<1>3. l[2] \in 1..LastNext(l[1])
  BY <1>1, <1>2
<1> QED BY <1>1, <1>3 DEF ReturnedNext

\* and the line of a call that ends is.
LEMMA NowReturned ==
    ASSUME TypeOK, Begun, NEW w \in Writers, Push(w) \/ PushRefused(w) \/ Direct(w)
    PROVE  ReturnedNext(Line(w)) /\ ~IsReturned(Line(w))
<1>1. pc[w] # "out" /\ Ends(w) /\ made' = made
  BY CallEnds
<1>2. Line(w)[1] = w /\ Line(w)[2] = made[w] /\ made[w] \in Nat /\ made[w] >= 1 /\ Last(w) = made[w] - 1
  BY <1>1, OwnLine
<1>3. made[w] \in 1..LastNext(w) /\ made[w] \notin 1..Last(w)
  BY <1>1, <1>2 DEF Ends
<1> QED BY <1>2, <1>3 DEF IsReturned, ReturnedNext

\* The lines in the four places are lines.
LEMMA PlacedLines ==
    ASSUME TypeOK
    PROVE  /\ lost \subseteq Lines
           /\ \A i \in 1..Len(queue) : queue[i] \in Lines
           /\ \A i \in 1..Len(hand) : hand[i] \in Lines
           /\ \A i \in 1..Len(book) : book[i].line \in Lines /\ book[i].file \in Files
           /\ Len(queue) \in Nat /\ Len(hand) \in Nat /\ Len(book) \in Nat
<1>1. /\ lost \subseteq Lines /\ queue \in Seq(Lines) /\ hand \in Seq(Lines)
      /\ book \in Seq([line : Lines, file : Files])
  BY DEF TypeOK
<1>2. Len(queue) \in Nat /\ Len(hand) \in Nat /\ Len(book) \in Nat
  BY <1>1, LenProperties
<1>3. \A i \in 1..Len(queue) : queue[i] \in Lines
  BY <1>1, ElementOfSeq
<1>4. \A i \in 1..Len(hand) : hand[i] \in Lines
  BY <1>1, ElementOfSeq
<1>5. \A i \in 1..Len(book) : book[i] \in [line : Lines, file : Files]
  BY <1>1, ElementOfSeq
<1> QED BY <1>1, <1>2, <1>3, <1>4, <1>5

-----------------------------------------------------------------------------
(* Each conjunct under each action                                         *)

\* Nothing gets anywhere before write_log() is done with it.
LEMMA KnownStep ==
    ASSUME TypeOK, Begun, Known, [Running]_vars
    PROVE  Known'
<1>0. /\ Len(queue) \in Nat /\ Len(hand) \in Nat /\ Len(book) \in Nat
      /\ \A l \in lost \cup gone : ReturnedNext(l)
      /\ \A i \in 1..Len(queue) : IsReturned(queue[i]) /\ queue[i] \in Lines
      /\ \A i \in 1..Len(hand) : IsReturned(hand[i]) /\ hand[i] \in Lines
      /\ \A i \in 1..Len(book) : IsReturned(book[i].line) /\ book[i].line \in Lines
  BY PlacedLines, StaysReturned DEF Known
<1>a. \A l : IsReturned(l) => ReturnedNext(l)
  BY StaysReturned
<1>c. ASSUME /\ \A l \in lost' \cup gone' : ReturnedNext(l)
             /\ \A i \in 1..Len(queue') : ReturnedNext(queue'[i])
             /\ \A i \in 1..Len(hand') : ReturnedNext(hand'[i])
             /\ \A i \in 1..Len(book') : ReturnedNext(book'[i].line)
      PROVE  Known'
  BY <1>c DEF Known, IsReturned, ReturnedNext, Last, LastNext
<1>d. /\ \A l \in lost \cup gone : ReturnedNext(l)
      /\ \A i \in 1..Len(queue) : ReturnedNext(queue[i])
      /\ \A i \in 1..Len(hand) : ReturnedNext(hand[i])
      /\ \A i \in 1..Len(book) : ReturnedNext(book[i].line)
  BY <1>0, <1>a
<1>1. ASSUME NEW w \in Writers, Push(w) PROVE Known'
  <2>1. ReturnedNext(Line(w))
    BY <1>1, NowReturned
  <2>2. \A i \in 1..Len(queue') : ReturnedNext(queue'[i])
    BY <1>1, <1>d, <2>1, PushEffect
  <2>3. UNCHANGED <<hand, book, lost, gone>>
    BY <1>1, PushEffect
  <2> QED BY <1>c, <1>d, <2>2, <2>3
<1>2. ASSUME NEW w \in Writers, PushRefused(w) PROVE Known'
  <2>1. ReturnedNext(Line(w))
    BY <1>2, NowReturned
  <2> QED BY <1>2, <1>c, <1>d, <2>1 DEF PushRefused, past
<1>3. ASSUME NEW w \in Writers, Direct(w) PROVE Known'
  <2>1. ReturnedNext(Line(w))
    BY <1>3, NowReturned
  <2>2. Puts(Line(w)) /\ UNCHANGED <<queue, hand, lost, gone>>
    BY <1>3, DirectEffect
  <2>3. \A i \in 1..Len(book') : ReturnedNext(book'[i].line)
    BY <1>d, <2>1, <2>2 DEF Puts
  <2> QED BY <1>c, <1>d, <2>2, <2>3
<1>4. CASE Pop
  <2>0. /\ UNCHANGED <<book, lost, gone>> /\ Len(queue) >= 1 /\ Len(queue) \in Nat
        /\ Len(hand') = 1 /\ hand'[1] = queue[1]
    BY <1>4, PopEffect
  <2>1. \A i \in 1..Len(hand') : ReturnedNext(hand'[i])
    <3>1. ReturnedNext(queue[1])
      BY <1>d, <2>0
    <3> QED BY <2>0, <3>1
  <2>2. \A i \in 1..Len(queue') : ReturnedNext(queue'[i])
    BY <1>4, <1>d, PopEffect
  <2> QED BY <1>c, <1>d, <2>0, <2>1, <2>2
<1>5. CASE Flush
  <2>1. UNCHANGED <<queue, lost, gone>> /\ Len(hand') = 0 /\ Puts(hand[1]) /\ ReturnedNext(hand[1])
    BY <1>5, <1>d, FlushEffect
  <2>2. \A i \in 1..Len(book') : ReturnedNext(book'[i].line)
    BY <1>d, <2>1 DEF Puts
  <2> QED BY <1>c, <1>d, <2>1, <2>2
<1>6. CASE Quiet
  BY <1>6, <1>c, <1>d DEF Quiet
<1> QED BY <1>1, <1>2, <1>3, <1>4, <1>5, <1>6, QuietStep

\* Nothing leaves the four places but with the program.
LEMMA KeptStep ==
    ASSUME TypeOK, Begun, Kept, [Running]_vars
    PROVE  Kept'
<1> DEFINE P(l) == \/ l \in lost' \/ l \in gone'
                   \/ \E i \in 1..Len(queue') : queue'[i] = l
                   \/ \E i \in 1..Len(hand') : hand'[i] = l
                   \/ \E i \in 1..Len(book') : book'[i].line = l
<1>0. Len(queue) \in Nat /\ Len(hand) \in Nat /\ Len(book) \in Nat
  BY PlacedLines
<1>a. ASSUME ~down' => \A w \in Writers : \A n \in 1..LastNext(w) : P(<<w, n>>)
      PROVE  Kept'
  <2>1. ASSUME NEW w \in Writers, NEW n \in 1..LastNext(w), ~down' PROVE Places(<<w, n>>)'
    <3>1. P(<<w, n>>)
      BY <1>a, <2>1
    <3> QED BY <3>1 DEF Places
  <2> HIDE DEF P
  <2> QED BY <2>1 DEF Kept, Last, LastNext
\* One more place for one line and all the old ones is what a call's end takes.
<1>b. ASSUME NEW w \in Writers, Push(w) \/ PushRefused(w) \/ Direct(w),
             P(Line(w)), \A l \in Lines : Places(l) => P(l),
             \A v \in Writers : \A n \in 1..Last(v) : P(<<v, n>>)
      PROVE  Kept'
  <2>1. pc[w] # "out" /\ Ends(w)
    BY <1>b, CallEnds
  <2>2. Line(w) = <<w, made[w]>> /\ made[w] \in Nat /\ Last(w) = made[w] - 1
    BY <2>1, OwnLine DEF Line
  <2>3. ASSUME NEW n \in 1..LastNext(w) PROVE P(<<w, n>>)
    <3>1. n \in 1..made[w]
      BY <2>1 DEF Ends
    <3>2. CASE n = made[w]
      BY <1>b, <2>2, <3>2
    <3>3. CASE n # made[w]
      <4>1. n \in 1..Last(w)
        BY <2>2, <3>1, <3>3
      <4> QED BY <1>b, <4>1
    <3> QED BY <3>2, <3>3
  <2>4. ASSUME NEW v \in Writers \ {w}, NEW n \in 1..LastNext(v) PROVE P(<<v, n>>)
    <3>1. n \in 1..Last(v)
      BY <2>1, <2>4 DEF Ends
    <3> QED BY <1>b, <3>1
  <2> HIDE DEF P
  <2>5. \A v \in Writers : \A n \in 1..LastNext(v) : P(<<v, n>>)
    BY <2>3, <2>4
  <2> QED BY <1>a, <2>5
<1>1. ASSUME NEW w \in Writers, Push(w) PROVE Kept'
  <2>1. P(Line(w))
    <3>1. Len(queue) + 1 \in 1..Len(queue') /\ queue'[Len(queue) + 1] = Line(w)
      BY <1>1, PushEffect
    <3> QED BY <3>1
  <2>2. ASSUME NEW l, Places(l) PROVE P(l)
    <3>1. UNCHANGED <<hand, book, lost, gone>>
      BY <1>1, PushEffect
    <3>2. \A i \in 1..Len(queue) : i \in 1..Len(queue') /\ queue'[i] = queue[i]
      BY <1>1, PushEffect
    <3> QED BY <2>2, <3>1, <3>2 DEF Places
  <2>3. ~down
    BY <1>1, CallEnds
  <2> HIDE DEF P
  <2>4. \A v \in Writers : \A n \in 1..Last(v) : P(<<v, n>>)
    BY <2>2, <2>3 DEF Kept
  <2> QED BY <1>1, <1>b, <2>1, <2>2, <2>4
<1>2. ASSUME NEW w \in Writers, PushRefused(w) PROVE Kept'
  <2>1. P(Line(w))
    BY <1>2 DEF PushRefused, past
  <2>2. ASSUME NEW l, Places(l) PROVE P(l)
    BY <1>2, <2>2 DEF PushRefused, past, Places
  <2>3. ~down
    BY <1>2, CallEnds
  <2> HIDE DEF P
  <2>4. \A v \in Writers : \A n \in 1..Last(v) : P(<<v, n>>)
    BY <2>2, <2>3 DEF Kept
  <2> QED BY <1>2, <1>b, <2>1, <2>2, <2>4
<1>3. ASSUME NEW w \in Writers, Direct(w) PROVE Kept'
  <2>0. Puts(Line(w)) /\ UNCHANGED <<queue, hand, lost, gone>> /\ ~down
    BY <1>3, DirectEffect, CallEnds
  <2>1. CASE down'
    BY <1>a, <2>1
  <2>2. CASE ~down'
    <3>1. /\ Len(book) \in Nat /\ Len(book') = Len(book) + 1
          /\ book'[Len(book) + 1].line = Line(w)
          /\ \A i \in 1..Len(book) : book'[i] = book[i]
      BY <2>0, <2>2 DEF Puts
    <3>2. P(Line(w))
      <4>1. Len(book) + 1 \in 1..Len(book')
        BY <3>1
      <4> QED BY <3>1, <4>1
    <3>3. ASSUME NEW l, Places(l) PROVE P(l)
      <4>1. \A i \in 1..Len(book) : i \in 1..Len(book') /\ book'[i].line = book[i].line
        BY <3>1
      <4> QED BY <2>0, <3>3, <4>1 DEF Places
    <3> HIDE DEF P
    <3>4. \A v \in Writers : \A n \in 1..Last(v) : P(<<v, n>>)
      BY <2>0, <3>3 DEF Kept
    <3> QED BY <1>3, <1>b, <3>2, <3>3, <3>4
  <2> QED BY <2>1, <2>2
<1>4. CASE Pop
  <2>1. ASSUME NEW l, Places(l) PROVE P(l)
    <3>1. UNCHANGED <<book, lost, gone>> /\ Len(hand) = 0 /\ Len(hand') = 1 /\ hand'[1] = queue[1]
      BY <1>4, PopEffect
    <3>2. ASSUME NEW i \in 1..Len(queue), queue[i] = l PROVE P(l)
      <4>1. CASE i = 1
        BY <3>1, <3>2, <4>1
      <4>2. CASE i # 1
        <5>1. i - 1 \in 1..Len(queue') /\ queue'[i - 1] = queue[i]
          BY <1>4, <4>2, PopEffect
        <5> QED BY <3>2, <5>1
      <4> QED BY <4>1, <4>2
    <3> QED BY <2>1, <3>1, <3>2 DEF Places
  <2>2. \A v \in Writers : LastNext(v) = Last(v)
    BY <1>4, PopEffect DEF Last, LastNext
  <2> HIDE DEF P
  <2> QED BY <1>4, <1>a, <2>1, <2>2, PopEffect DEF Kept
<1>5. CASE Flush
  <2>0. /\ Len(hand) = 1 /\ Len(hand') = 0 /\ Puts(hand[1])
        /\ UNCHANGED <<queue, lost, gone, made, pc>> /\ ~down
    BY <1>5, FlushEffect
  <2>1. CASE down'
    BY <1>a, <2>1
  <2>2. CASE ~down'
    <3>1. /\ Len(book) \in Nat /\ Len(book') = Len(book) + 1
          /\ book'[Len(book) + 1].line = hand[1]
          /\ \A i \in 1..Len(book) : book'[i] = book[i]
      BY <2>0, <2>2 DEF Puts
    <3>2. ASSUME NEW l, Places(l) PROVE P(l)
      <4>1. \A i \in 1..Len(book) : i \in 1..Len(book') /\ book'[i].line = book[i].line
        BY <3>1
      <4>2. Len(book) + 1 \in 1..Len(book')
        BY <3>1
      <4>3. \A i \in 1..Len(hand) : hand[i] = hand[1]
        BY <2>0
      <4> QED BY <2>0, <3>1, <3>2, <4>1, <4>2, <4>3 DEF Places
    <3>3. \A v \in Writers : LastNext(v) = Last(v)
      BY <2>0 DEF Last, LastNext
    <3> HIDE DEF P
    <3> QED BY <1>a, <2>0, <3>2, <3>3 DEF Kept
  <2> QED BY <2>1, <2>2
<1>6. CASE Quiet
  <2>1. \A l : Places(l) => P(l)
    BY <1>6 DEF Quiet, Places
  <2> HIDE DEF P
  <2> QED BY <1>6, <1>a, <2>1 DEF Quiet, Kept
<1> QED BY <1>1, <1>2, <1>3, <1>4, <1>5, <1>6, QuietStep

\* The line of a call that ends was nowhere.
LEMMA FreshLine ==
    ASSUME TypeOK, Begun, Known, NEW w \in Writers, Push(w) \/ PushRefused(w) \/ Direct(w)
    PROVE  /\ Line(w) \notin lost \cup gone
           /\ \A i \in 1..Len(queue) : queue[i] # Line(w)
           /\ \A i \in 1..Len(hand) : hand[i] # Line(w)
           /\ \A i \in 1..Len(book) : book[i].line # Line(w)
<1>1. ~IsReturned(Line(w))
  BY NowReturned
<1> QED BY <1>1 DEF Known

\* A line that is in no file and will not be is nowhere else.
LEMMA NowhereElse ==
    ASSUME Distinct, NEW l, l \in lost \/ l \in gone
    PROVE  /\ \A i \in 1..Len(queue) : queue[i] # l
           /\ \A h \in 1..Len(hand) : hand[h] # l
           /\ \A j \in 1..Len(book) : book[j].line # l
  BY DEF Distinct

\* No line gets to a second place.
LEMMA DistinctStep ==
    ASSUME TypeOK, Begun, Known, Distinct, [Running]_vars
    PROVE  Distinct'
<1>0. Len(queue) \in Nat /\ Len(hand) \in Nat /\ Len(book) \in Nat
  BY PlacedLines
<1>1. ASSUME NEW w \in Writers, Push(w) PROVE Distinct'
  <2>0. /\ Len(queue') = Len(queue) + 1 /\ queue'[Len(queue) + 1] = Line(w)
        /\ \A i \in 1..Len(queue) : queue'[i] = queue[i]
        /\ UNCHANGED <<hand, book, lost, gone>>
    BY <1>0, <1>1, PushEffect
  <2>f. /\ Line(w) \notin lost \cup gone
        /\ \A i \in 1..Len(queue) : queue[i] # Line(w)
        /\ \A i \in 1..Len(hand) : hand[i] # Line(w)
        /\ \A i \in 1..Len(book) : book[i].line # Line(w)
    BY <1>1, FreshLine
  <2>n. \A i \in 1..Len(queue') : \/ i \in 1..Len(queue) /\ queue'[i] = queue[i]
                                  \/ i = Len(queue) + 1 /\ queue'[i] = Line(w)
    BY <1>0, <2>0
  <2>1. \A i, j \in 1..Len(queue') : queue'[i] = queue'[j] => i = j
    BY <2>f, <2>n DEF Distinct
  <2>2. \A i \in 1..Len(queue') : /\ \A j \in 1..Len(book') : queue'[i] # book'[j].line
                                  /\ \A h \in 1..Len(hand') : hand'[h] # queue'[i]
                                  /\ \A l \in lost' \cup gone' : queue'[i] # l
    BY <2>0, <2>f, <2>n DEF Distinct
  <2> QED BY <2>0, <2>1, <2>2 DEF Distinct
<1>2. ASSUME NEW w \in Writers, PushRefused(w) PROVE Distinct'
  <2>1. /\ Line(w) \notin lost \cup gone
        /\ \A i \in 1..Len(queue) : queue[i] # Line(w)
        /\ \A i \in 1..Len(hand) : hand[i] # Line(w)
        /\ \A i \in 1..Len(book) : book[i].line # Line(w)
    BY <1>2, FreshLine
  <2>2. UNCHANGED <<queue, hand, book>> /\ lost' = lost \cup {Line(w)} /\ gone' = gone
    BY <1>2 DEF PushRefused, past
  <2> QED BY <2>1, <2>2 DEF Distinct
<1>p. ASSUME NEW l, Puts(l),
             \A j \in 1..Len(book) : book[j].line # l,
             \A i \in 1..Len(queue') : queue'[i] # l,
             \A h \in 1..Len(hand') : hand'[h] # l,
             l \notin lost' \cup gone',
             UNCHANGED <<queue, lost, gone>>,
             hand' = hand \/ Len(hand') = 0
      PROVE  Distinct'
  <2>1. CASE book' = book
    BY <1>p, <2>1 DEF Distinct
  <2>2. CASE book' # book
    <3>1. /\ Len(book') = Len(book) + 1 /\ book'[Len(book) + 1].line = l
          /\ \A i \in 1..Len(book) : book'[i] = book[i]
      BY <1>p, <2>2 DEF Puts
    <3>2. \A i \in 1..Len(book') : \/ i \in 1..Len(book) /\ book'[i] = book[i]
                                   \/ i = Len(book) + 1 /\ book'[i].line = l
      BY <1>0, <3>1
    <3>3. \A i, j \in 1..Len(book') : book'[i].line = book'[j].line => i = j
      BY <1>p, <3>2 DEF Distinct
    <3>4. \A j \in 1..Len(book') : \A i \in 1..Len(queue') : queue'[i] # book'[j].line
      BY <1>p, <3>2 DEF Distinct
    <3>8. \A j \in 1..Len(book') : \A m \in lost' \cup gone' : book'[j].line # m
      <4> TAKE j \in 1..Len(book')
      <4> TAKE m \in lost' \cup gone'
      <4>1. m \in lost \cup gone /\ m # l
        BY <1>p
      <4>2. CASE j \in 1..Len(book) /\ book'[j] = book[j]
        BY <4>1, <4>2, NowhereElse
      <4>3. CASE book'[j].line = l
        BY <4>1, <4>3
      <4> QED BY <3>2, <4>2, <4>3
    <3>5. \A j \in 1..Len(book') : \A h \in 1..Len(hand') : hand'[h] # book'[j].line
      BY <1>p, <3>2 DEF Distinct
    <3>6. /\ \A h \in 1..Len(hand'), i \in 1..Len(queue') : hand'[h] # queue'[i]
          /\ \A m \in lost' \cup gone' : \A h \in 1..Len(hand') : hand'[h] # m
      BY <1>p DEF Distinct
    <3>7. /\ \A i, j \in 1..Len(queue') : queue'[i] = queue'[j] => i = j
          /\ \A m \in lost' \cup gone' : \A i \in 1..Len(queue') : queue'[i] # m
      BY <1>p DEF Distinct
    <3> QED BY <3>3, <3>4, <3>5, <3>6, <3>7, <3>8 DEF Distinct
  <2> QED BY <2>1, <2>2
<1>3. ASSUME NEW w \in Writers, Direct(w) PROVE Distinct'
  <2>1. /\ Line(w) \notin lost \cup gone
        /\ \A i \in 1..Len(queue) : queue[i] # Line(w)
        /\ \A i \in 1..Len(hand) : hand[i] # Line(w)
        /\ \A i \in 1..Len(book) : book[i].line # Line(w)
    BY <1>3, FreshLine
  <2>2. Puts(Line(w)) /\ UNCHANGED <<queue, hand, lost, gone>>
    BY <1>3, DirectEffect
  <2> QED BY <1>p, <2>1, <2>2
<1>4. CASE Pop
  <2>0. /\ Len(queue) >= 1 /\ Len(queue') = Len(queue) - 1
        /\ \A i \in 1..(Len(queue) - 1) : queue'[i] = queue[i + 1]
        /\ Len(hand') = 1 /\ hand'[1] = queue[1] /\ UNCHANGED <<book, lost, gone>>
    BY <1>4, PopEffect
  <2>n. /\ 1 \in 1..Len(queue)
        /\ \A i \in 1..Len(queue') : i + 1 \in 1..Len(queue) /\ queue'[i] = queue[i + 1]
        /\ \A h \in 1..Len(hand') : hand'[h] = queue[1]
    BY <1>0, <2>0
  <2>1. \A i, j \in 1..Len(queue') : queue'[i] = queue'[j] => i = j
    <3> TAKE i, j \in 1..Len(queue')
    <3> HAVE queue'[i] = queue'[j]
    <3>1. queue[i + 1] = queue[j + 1] /\ i + 1 \in 1..Len(queue) /\ j + 1 \in 1..Len(queue)
      BY <2>n
    <3>2. i + 1 = j + 1
      BY <3>1 DEF Distinct
    <3> QED BY <3>2
  <2>2. \A i \in 1..Len(queue') : /\ \A j \in 1..Len(book') : queue'[i] # book'[j].line
                                  /\ \A l \in lost' \cup gone' : queue'[i] # l
    BY <2>0, <2>n DEF Distinct
  <2>3. \A h \in 1..Len(hand') : /\ \A j \in 1..Len(book') : hand'[h] # book'[j].line
                                 /\ \A l \in lost' \cup gone' : hand'[h] # l
    BY <2>0, <2>n DEF Distinct
  <2>4. \A h \in 1..Len(hand'), i \in 1..Len(queue') : hand'[h] # queue'[i]
    <3> TAKE h \in 1..Len(hand'), i \in 1..Len(queue')
    <3>1. hand'[h] = queue[1] /\ queue'[i] = queue[i + 1] /\ i + 1 \in 1..Len(queue)
            /\ 1 \in 1..Len(queue) /\ i + 1 # 1
      BY <2>n
    <3> QED BY <3>1 DEF Distinct
  <2>5. \A i, j \in 1..Len(book') : book'[i].line = book'[j].line => i = j
    BY <2>0 DEF Distinct
  <2>6. \A l \in lost' \cup gone' : \A j \in 1..Len(book') : book'[j].line # l
    <3> TAKE l \in lost' \cup gone'
    <3>1. l \in lost \cup gone
      BY <2>0
    <3> QED BY <2>0, <3>1, NowhereElse
  <2> QED BY <2>1, <2>2, <2>3, <2>4, <2>5, <2>6 DEF Distinct
<1>5. CASE Flush
  <2>1. /\ Len(hand) = 1 /\ Len(hand') = 0 /\ Puts(hand[1]) /\ UNCHANGED <<queue, lost, gone>>
    BY <1>5, FlushEffect
  <2>2. 1 \in 1..Len(hand)
    BY <2>1
  <2>3. /\ \A j \in 1..Len(book) : book[j].line # hand[1]
        /\ \A i \in 1..Len(queue) : queue[i] # hand[1]
        /\ hand[1] \notin lost \cup gone
    BY <2>2 DEF Distinct
  <2>4. \A h \in 1..Len(hand') : hand'[h] # hand[1]
    BY <2>1
  <2> QED BY <1>p, <2>1, <2>3, <2>4
<1>6. CASE Quiet
  BY <1>6 DEF Quiet, Distinct
<1> QED BY <1>1, <1>2, <1>3, <1>4, <1>5, <1>6, QuietStep

\* What is anywhere when a call ends is not behind its line.
LEMMA OlderLines ==
    ASSUME TypeOK, Begun, Known, NEW w \in Writers, Push(w) \/ PushRefused(w) \/ Direct(w)
    PROVE  /\ \A i \in 1..Len(queue) : InTurn(queue[i], Line(w))
           /\ \A i \in 1..Len(hand) : InTurn(hand[i], Line(w))
           /\ \A i \in 1..Len(book) : InTurn(book[i].line, Line(w))
<1>1. pc[w] # "out"
  BY CallEnds
<1>2. Line(w)[1] = w /\ Line(w)[2] = made[w] /\ made[w] \in Nat /\ Last(w) = made[w] - 1
  BY <1>1, OwnLine
<1>3. ASSUME NEW l, IsReturned(l) PROVE InTurn(l, Line(w))
  <2>1. l[2] \in 1..Last(l[1])
    BY <1>3 DEF IsReturned
  <2>2. l[1] = w => ~(l[2] > made[w])
    BY <1>2, <2>1
  <2> QED BY <1>2, <2>2 DEF InTurn
<1> QED BY <1>3 DEF Known

\* Nothing overtakes a line of its thread but what was written at once.
LEMMA OrderedStep ==
    ASSUME TypeOK, Begun, Known, Ordered, [Running]_vars
    PROVE  Ordered'
<1> DEFINE T(l, m) == l[1] = m[1] /\ l[2] > m[2] => l \in atOnce'
<1>0. Len(queue) \in Nat /\ Len(hand) \in Nat /\ Len(book) \in Nat
  BY PlacedLines
<1>a. ASSUME /\ \A i, j \in 1..Len(book') : i < j => T(book'[i].line, book'[j].line)
             /\ \A i \in 1..Len(book'), h \in 1..Len(hand') : T(book'[i].line, hand'[h])
             /\ \A i \in 1..Len(book'), j \in 1..Len(queue') : T(book'[i].line, queue'[j])
             /\ \A h \in 1..Len(hand'), j \in 1..Len(queue') : T(hand'[h], queue'[j])
             /\ \A i, j \in 1..Len(queue') : i < j => T(queue'[i], queue'[j])
      PROVE  Ordered'
  BY <1>a DEF Ordered, InTurn
<1>b. ASSUME atOnce \subseteq atOnce', NEW l, NEW m, InTurn(l, m) PROVE T(l, m)
  BY <1>b DEF InTurn
<1>c. ASSUME NEW l, NEW m, l \in atOnce' PROVE T(l, m)
  BY <1>c
<1> HIDE DEF T
<1>1. ASSUME NEW w \in Writers, Push(w) PROVE Ordered'
  <2>0. /\ Len(queue') = Len(queue) + 1 /\ UNCHANGED <<hand, book, lost, atOnce>>
        /\ \A i \in 1..(Len(queue) + 1) :
              queue'[i] = IF i = Len(queue) + 1 THEN Line(w) ELSE queue[i]
    BY <1>0, <1>1, PushEffect
  <2>o. /\ \A i \in 1..Len(queue) : T(queue[i], Line(w))
        /\ \A i \in 1..Len(hand) : T(hand[i], Line(w))
        /\ \A i \in 1..Len(book) : T(book[i].line, Line(w))
    BY <1>1, <1>b, <2>0, OlderLines
  <2>n. \A i \in 1..Len(queue') : \/ i \in 1..Len(queue) /\ queue'[i] = queue[i]
                                  \/ i = Len(queue) + 1 /\ queue'[i] = Line(w)
    BY <1>0, <2>0
  <2>1. \A i, j \in 1..Len(queue') : i < j => T(queue'[i], queue'[j])
    <3> TAKE i, j \in 1..Len(queue')
    <3> HAVE i < j
    <3>1. i \in 1..Len(queue) /\ queue'[i] = queue[i]
      BY <1>0, <2>0
    <3>2. CASE j = Len(queue) + 1
      BY <2>n, <2>o, <3>1, <3>2, <1>0
    <3>3. CASE j # Len(queue) + 1
      <4>1. j \in 1..Len(queue) /\ queue'[j] = queue[j] /\ i < j
        BY <2>n, <3>3
      <4>2. InTurn(queue[i], queue[j])
        BY <3>1, <4>1 DEF Ordered
      <4> QED BY <1>b, <2>0, <3>1, <4>1, <4>2
    <3> QED BY <3>2, <3>3
  <2>2. /\ \A i \in 1..Len(book'), j \in 1..Len(queue') : T(book'[i].line, queue'[j])
        /\ \A h \in 1..Len(hand'), j \in 1..Len(queue') : T(hand'[h], queue'[j])
    BY <1>b, <2>0, <2>n, <2>o DEF Ordered
  <2>3. /\ \A i, j \in 1..Len(book') : i < j => T(book'[i].line, book'[j].line)
        /\ \A i \in 1..Len(book'), h \in 1..Len(hand') : T(book'[i].line, hand'[h])
    BY <1>b, <2>0 DEF Ordered
  <2> QED BY <1>a, <2>1, <2>2, <2>3
\* A line behind the book may be out of turn with what is still to be written if it
\* was written at once, and the book is in turn with it.
<1>p. ASSUME NEW l, Puts(l), atOnce \subseteq atOnce', UNCHANGED queue,
             hand' = hand \/ Len(hand') = 0,
             \A i \in 1..Len(book) : InTurn(book[i].line, l),
             \A i \in 1..Len(queue) : T(l, queue[i]),
             \A h \in 1..Len(hand') : T(l, hand'[h])
      PROVE  Ordered'
  <2>q. /\ \A i, j \in 1..Len(queue') : i < j => T(queue'[i], queue'[j])
        /\ \A h \in 1..Len(hand'), j \in 1..Len(queue') : T(hand'[h], queue'[j])
    BY <1>b, <1>p DEF Ordered
  <2>1. CASE book' = book
    <3>1. /\ \A i, j \in 1..Len(book') : i < j => T(book'[i].line, book'[j].line)
          /\ \A i \in 1..Len(book'), h \in 1..Len(hand') : T(book'[i].line, hand'[h])
          /\ \A i \in 1..Len(book'), j \in 1..Len(queue') : T(book'[i].line, queue'[j])
      BY <1>b, <1>p, <2>1 DEF Ordered
    <3> QED BY <1>a, <2>q, <3>1
  <2>2. CASE book' # book
    <3>1. /\ Len(book') = Len(book) + 1 /\ book'[Len(book) + 1].line = l
          /\ \A i \in 1..Len(book) : book'[i] = book[i]
      BY <1>p, <2>2 DEF Puts
    <3>2. \A i \in 1..Len(book') : \/ i \in 1..Len(book) /\ book'[i] = book[i]
                                   \/ i = Len(book) + 1 /\ book'[i].line = l
      BY <1>0, <3>1
    <3>3. \A i, j \in 1..Len(book') : i < j => T(book'[i].line, book'[j].line)
      <4> TAKE i, j \in 1..Len(book')
      <4> HAVE i < j
      <4>1. i \in 1..Len(book) /\ book'[i] = book[i]
        BY <1>0, <3>1
      <4>2. CASE j = Len(book) + 1
        BY <1>b, <1>p, <3>1, <4>1, <4>2
      <4>3. CASE j # Len(book) + 1
        <5>1. j \in 1..Len(book) /\ book'[j] = book[j] /\ i < j
          BY <3>2, <4>3
        <5>2. InTurn(book[i].line, book[j].line)
          BY <4>1, <5>1 DEF Ordered
        <5> QED BY <1>b, <1>p, <4>1, <5>1, <5>2
      <4> QED BY <4>2, <4>3
    <3>4. \A i \in 1..Len(book'), h \in 1..Len(hand') : T(book'[i].line, hand'[h])
      BY <1>b, <1>p, <3>2 DEF Ordered
    <3>5. \A i \in 1..Len(book'), j \in 1..Len(queue') : T(book'[i].line, queue'[j])
      BY <1>b, <1>p, <3>2 DEF Ordered
    <3> QED BY <1>a, <2>q, <3>3, <3>4, <3>5
  <2> QED BY <2>1, <2>2
<1>2. ASSUME NEW w \in Writers, Direct(w) PROVE Ordered'
  <2>1. /\ Puts(Line(w)) /\ UNCHANGED <<queue, hand>> /\ atOnce' = atOnce \cup {Line(w)}
    BY <1>2, DirectEffect
  <2>2. \A i \in 1..Len(book) : InTurn(book[i].line, Line(w))
    BY <1>2, OlderLines
  <2>3. \A m : T(Line(w), m)
    BY <1>c, <2>1
  <2> QED BY <1>p, <2>1, <2>2, <2>3
<1>3. CASE Flush
  <2>1. /\ Len(hand) = 1 /\ Len(hand') = 0 /\ Puts(hand[1]) /\ UNCHANGED <<queue, atOnce>>
    BY <1>3, FlushEffect
  <2>2. 1 \in 1..Len(hand)
    BY <2>1
  <2>3. \A i \in 1..Len(book) : InTurn(book[i].line, hand[1])
    BY <2>2 DEF Ordered
  <2>4. \A j \in 1..Len(queue) : T(hand[1], queue[j])
    BY <1>b, <2>1, <2>2 DEF Ordered
  <2>5. \A h \in 1..Len(hand') : T(hand[1], hand'[h])
    BY <2>1
  <2> QED BY <1>p, <2>1, <2>3, <2>4, <2>5
<1>4. CASE Pop
  <2>0. /\ Len(queue) >= 1 /\ Len(queue') = Len(queue) - 1
        /\ \A i \in 1..(Len(queue) - 1) : queue'[i] = queue[i + 1]
        /\ Len(hand') = 1 /\ hand'[1] = queue[1] /\ UNCHANGED <<book, lost, atOnce>>
    BY <1>4, PopEffect
  <2>n. /\ 1 \in 1..Len(queue)
        /\ \A i \in 1..Len(queue') : i + 1 \in 1..Len(queue) /\ queue'[i] = queue[i + 1]
        /\ \A h \in 1..Len(hand') : hand'[h] = queue[1]
    BY <1>0, <2>0
  <2>1. \A i, j \in 1..Len(queue') : i < j => T(queue'[i], queue'[j])
    <3> TAKE i, j \in 1..Len(queue')
    <3> HAVE i < j
    <3>1. i + 1 \in 1..Len(queue) /\ j + 1 \in 1..Len(queue) /\ i + 1 < j + 1
      BY <2>n
    <3>2. InTurn(queue[i + 1], queue[j + 1])
      BY <3>1 DEF Ordered
    <3> QED BY <1>b, <2>0, <2>n, <3>2
  <2>2. \A h \in 1..Len(hand'), j \in 1..Len(queue') : T(hand'[h], queue'[j])
    <3> TAKE h \in 1..Len(hand'), j \in 1..Len(queue')
    <3>1. 1 \in 1..Len(queue) /\ j + 1 \in 1..Len(queue) /\ 1 < j + 1
      BY <2>n
    <3>2. InTurn(queue[1], queue[j + 1])
      BY <3>1 DEF Ordered
    <3> QED BY <1>b, <2>0, <2>n, <3>2
  <2>3. \A i \in 1..Len(book'), j \in 1..Len(queue') : T(book'[i].line, queue'[j])
    BY <1>b, <2>0, <2>n DEF Ordered
  <2>4. \A i \in 1..Len(book'), h \in 1..Len(hand') : T(book'[i].line, hand'[h])
    BY <1>b, <2>0, <2>n DEF Ordered
  <2>5. \A i, j \in 1..Len(book') : i < j => T(book'[i].line, book'[j].line)
    BY <1>b, <2>0 DEF Ordered
  <2> QED BY <1>a, <2>1, <2>2, <2>3, <2>4, <2>5
<1>5. ASSUME NEW w \in Writers, PushRefused(w) PROVE Ordered'
  BY <1>5 DEF PushRefused, Ordered, InTurn
<1>6. CASE Quiet
  BY <1>6 DEF Quiet, Ordered, InTurn
<1> QED BY <1>1, <1>2, <1>3, <1>4, <1>5, <1>6, QuietStep

\* While one thread logs, nobody fills the queue between its full() and push().
LEMMA RoomStep ==
    ASSUME TypeOK, Begun, Room, [Running]_vars
    PROVE  Room'
<1>0. Len(queue) \in Nat /\ Begun' /\ WritersOK /\ WritersOK' /\ MaxSize \in Nat
  BY BegunStep, TypeStep, TypeGroups, WritersStep, PlacedLines, LogAssumption
\* Only one that logs is inside write_log() then.
<1>a. ASSUME NEW w \in Writers, NEW v \in Writers, v # w, pc[v] # "out" PROVE ~Sole(w)
  <2>1. made[v] >= 1 /\ made[v] \in Nat
    BY <1>0, <1>a DEF Begun, WritersOK
  <2> QED BY <1>a, <2>1 DEF Sole
<1>b. ASSUME NEW w \in Writers, NEW v \in Writers, v # w, pc'[v] # "out" PROVE ~Sole(w)'
  <2>1. made'[v] >= 1 /\ made'[v] \in Nat
    BY <1>0, <1>b DEF Begun, WritersOK
  <2> QED BY <1>b, <2>1 DEF Sole
\* The two halves.
<1>c. ASSUME \A w \in Writers : Sole(w)' /\ pc'[w] = "push" => Len(queue') < MaxSize,
             Alone' => lost' = {}
      PROVE  Room'
  BY <1>c DEF Room
<1>1. ASSUME NEW w \in Writers, Stamp(w) PROVE Room'
  <2>1. made' = [made EXCEPT ![w] = made[w] + 1] /\ pc' = [pc EXCEPT ![w] = "rotate"]
          /\ UNCHANGED <<queue, lost>>
    BY <1>1 DEF Stamp, Goto, history
  <2>2. \A v \in Writers : made'[v] = 0 => made[v] = 0
    BY <1>0, <2>1 DEF WritersOK
  <2>3. \A v \in Writers : Sole(v)' => Sole(v)
    BY <2>2 DEF Sole
  <2>4. Alone' => Alone
    BY <2>2 DEF Alone
  <2>5. \A v \in Writers : pc'[v] = "push" => pc[v] = "push"
    BY <1>0, <2>1 DEF WritersOK
  <2> QED BY <1>c, <2>1, <2>3, <2>4, <2>5 DEF Room
<1>2. ASSUME NEW w \in Writers, KeepFile(w) \/ Rotate(w) \/ RotateFails(w) PROVE Room'
  <2>1. UNCHANGED <<made, queue, lost>> /\ pc' = [pc EXCEPT ![w] = "full"]
    BY <1>2 DEF KeepFile, Rotate, RotateFails, Goto, history
  <2>2. \A v \in Writers : pc'[v] = "push" => pc[v] = "push"
    BY <1>0, <2>1 DEF WritersOK
  <2>3. (Alone' <=> Alone) /\ \A v \in Writers : Sole(v)' <=> Sole(v)
    BY <2>1 DEF Alone, Sole
  <2> QED BY <1>c, <2>1, <2>2, <2>3 DEF Room
<1>3. ASSUME NEW w \in Writers, AskFull(w) PROVE Room'
  <2>1. UNCHANGED <<made, queue, lost>>
    BY <1>3 DEF AskFull, history
  <2>2. pc' = [pc EXCEPT ![w] = IF Len(queue) >= MaxSize THEN "direct" ELSE "push"]
    BY <1>3 DEF AskFull, Goto
  <2>3. pc'[w] = "push" => Len(queue) < MaxSize
    BY <1>0, <2>2 DEF WritersOK
  <2>4. \A v \in Writers : v # w /\ pc'[v] = "push" => pc[v] = "push"
    BY <1>0, <2>2 DEF WritersOK
  <2>5. (Alone' <=> Alone) /\ \A v \in Writers : Sole(v)' <=> Sole(v)
    BY <2>1 DEF Alone, Sole
  <2> QED BY <1>c, <2>1, <2>3, <2>4, <2>5 DEF Room
<1>4. ASSUME NEW w \in Writers, Push(w) \/ PushRefused(w) \/ Direct(w) PROVE Room'
  <2>1. pc[w] # "out" /\ made' = made /\ pc' = [pc EXCEPT ![w] = "out"]
    BY <1>4, CallEnds
  <2>2. ASSUME NEW v \in Writers, Sole(v)' PROVE pc'[v] # "push"
    <3>1. CASE v = w
      BY <1>0, <2>1, <3>1 DEF WritersOK
    <3>2. CASE v # w
      <4>1. ~Sole(v)
        BY <1>a, <2>1, <3>2
      <4> QED BY <2>1, <2>2, <4>1 DEF Sole
    <3> QED BY <3>1, <3>2
  <2>3. Alone' <=> Alone
    BY <2>1 DEF Alone
  <2>4. CASE ~PushRefused(w)
    <3>1. lost' = lost
      BY <1>4, <2>4 DEF Push, Direct, history
    <3> QED BY <1>c, <2>2, <2>3, <3>1 DEF Room
  <2>5. CASE PushRefused(w)
    <3>1. ASSUME Alone PROVE FALSE
      <4>1. PICK u \in Writers : Sole(u)
        BY <3>1 DEF Alone, Sole
      <4>2. u = w
        BY <1>a, <2>1, <4>1
      <4>3. Len(queue) >= MaxSize /\ pc[w] = "push"
        BY <2>5 DEF PushRefused, Goto
      <4>4. Len(queue) < MaxSize
        BY <4>1, <4>2, <4>3 DEF Room
      <4> QED BY <1>0, <4>3, <4>4
    <3> QED BY <1>c, <2>2, <2>3, <3>1
  <2> QED BY <2>4, <2>5
<1>5. CASE Sleep \/ WakeUp \/ Midnight \/ Exit \/ Flush \/ UNCHANGED vars
  <2>1. UNCHANGED <<made, pc, queue, lost>>
    BY <1>5 DEF Sleep, WakeUp, Midnight, Exit, Flush, history, threads, vars
  <2>2. (Alone' <=> Alone) /\ \A v \in Writers : Sole(v)' <=> Sole(v)
    BY <2>1 DEF Alone, Sole
  <2> QED BY <1>c, <2>1, <2>2 DEF Room
<1>6. CASE Pop
  <2>1. UNCHANGED <<made, pc, lost>> /\ Len(queue') = Len(queue) - 1
    BY <1>6, PopEffect
  <2>2. (Alone' <=> Alone) /\ \A v \in Writers : Sole(v)' <=> Sole(v)
    BY <2>1 DEF Alone, Sole
  <2>3. Len(queue) < MaxSize => Len(queue') < MaxSize
    BY <1>0, <2>1
  <2> QED BY <1>c, <2>1, <2>2, <2>3 DEF Room
<1> QED BY <1>1, <1>2, <1>3, <1>4, <1>5, <1>6, RunningCases

-----------------------------------------------------------------------------
(* The invariant holds                                                     *)

\* Initially.
LEMMA InvInit == ASSUME Init PROVE IInv
<1> USE DEF Init
<1>1. TypeOK
  <2>1. <<>> \in Seq(Lines) /\ Len(<<>>) = 0 /\ <<>> \in Seq([line : Lines, file : Files])
    OBVIOUS
  <2>2. WritersOK /\ NumbersOK
    BY DEF WritersOK, NumbersOK, Files
  <2>3. SeqsOK /\ BookOK
    BY <2>1, LogAssumption DEF SeqsOK, BookOK
  <2>4. WaitOK
    BY DEF WaitOK
  <2> QED BY <2>2, <2>3, <2>4, TypeGroups
<1>2. Begun
  BY DEF Begun
<1>3. Len(queue) = 0 /\ Len(hand) = 0 /\ Len(book) = 0 /\ lost = {} /\ gone = {}
  OBVIOUS
<1>4. Known /\ Distinct /\ Ordered
  BY <1>3 DEF Known, Distinct, Ordered
<1>5. \A w \in Writers : Last(w) = 0
  BY DEF Last
<1>6. Kept
  BY <1>5 DEF Kept
<1>7. Room
  BY LogAssumption DEF Room
<1> QED BY <1>1, <1>2, <1>4, <1>6, <1>7 DEF IInv

\* The start after an end: what is in the files stays there, and what was on its way
\* is gone.
LEMMA RestartInv == ASSUME IInv, Restart PROVE IInv'
<1>0. TypeOK /\ Known /\ Distinct /\ Ordered /\ Room
  BY DEF IInv
<1>1. /\ queue' = <<>> /\ hand' = <<>> /\ asleep' = FALSE /\ down' = FALSE
      /\ today' = date /\ count' = 0 /\ file' \in {<<date, 0>>, NoFile}
      /\ pc' = [w \in Writers |-> "out"] /\ base' = Len(book) /\ born' = date
      /\ UNCHANGED <<date, day, made, book, lost, atOnce>>
  BY DEF Restart
<1>2. /\ gone' = LinesBegun \ (lost \cup {book[i].line : i \in DOMAIN book})
      /\ LinesBegun = {<<w, n>> : w \in Writers, n \in Nat} \cap LinesBegun
      /\ \A w \in Writers : \A n \in 1..made[w] : <<w, n>> \in LinesBegun
      /\ \A l \in LinesBegun : l[1] \in Writers /\ l[2] \in 1..made[l[1]]
  BY <1>0 DEF Restart, LinesBegun, TypeOK
<1>3. Len(queue') = 0 /\ Len(hand') = 0 /\ Len(book) \in Nat /\ DOMAIN book = 1..Len(book)
  BY <1>0, <1>1, LenProperties DEF TypeOK
<1>4. TypeOK'
  <2>1. queue' \in Seq(Lines) /\ hand' \in Seq(Lines) /\ MaxSize \in Nat
    BY <1>1, LogAssumption
  <2>2. SeqsOK'
    BY <1>3, <2>1 DEF SeqsOK
  <2>6. WaitOK'
    BY <1>1 DEF WaitOK
  <2>3. NumbersOK' /\ WritersOK'
    BY <1>0, <1>1 DEF NumbersOK, WritersOK, TypeOK, Files
  <2>4. gone' \subseteq Writers \X Nat
    BY <1>2
  <2>5. BookOK'
    BY <1>0, <1>1, <1>3, <2>4 DEF BookOK, TypeOK
  <2> QED BY <2>2, <2>3, <2>5, <2>6, TypeGroupsNext
<1>5. \A w \in Writers : pc'[w] = "out" /\ LastNext(w) = made[w] /\ Last(w) <= made[w]
        /\ Last(w) \in Int /\ made[w] \in Nat
  BY <1>0, <1>1 DEF LastNext, Last, TypeOK
<1>6. Begun' /\ Room'
  BY <1>0, <1>1, <1>5 DEF Begun, Room, Alone
<1>7. \A l : IsReturned(l) => ReturnedNext(l)
  BY <1>5 DEF IsReturned, ReturnedNext
<1>8. /\ \A l \in lost' \cup gone' : ReturnedNext(l)
      /\ \A i \in 1..Len(book') : ReturnedNext(book'[i].line)
  <2>1. \A l \in gone' : ReturnedNext(l)
    BY <1>2, <1>5 DEF ReturnedNext
  <2>2. \A l \in lost' : ReturnedNext(l)
    BY <1>0, <1>1, <1>7 DEF Known
  <2> QED BY <1>0, <1>1, <1>7, <2>1, <2>2 DEF Known
<1>9. Known'
  BY <1>3, <1>8 DEF Known, IsReturned, ReturnedNext, Last, LastNext
<1>10. Kept'
  <2>1. \A w \in Writers : \A n \in 1..LastNext(w) :
            <<w, n>> \in lost' \/ <<w, n>> \in gone' \/ \E i \in 1..Len(book') : book'[i].line = <<w, n>>
    BY <1>1, <1>2, <1>3, <1>5
  <2> QED BY <2>1 DEF Kept, Places, Last, LastNext
<1>11. Distinct'
  <2>1. \A l \in lost' \cup gone' : \A j \in 1..Len(book') : book'[j].line # l
    <3> TAKE l \in lost' \cup gone'
    <3>1. CASE l \in lost
      BY <1>0, <1>1, <3>1, NowhereElse
    <3>2. CASE l \in gone'
      BY <1>1, <1>2, <1>3, <3>2
    <3> QED BY <1>1, <3>1, <3>2
  <2> QED BY <1>0, <1>1, <1>3, <2>1 DEF Distinct
<1>12. Ordered'
  BY <1>0, <1>1, <1>3 DEF Ordered, InTurn
<1> QED BY <1>4, <1>6, <1>9, <1>10, <1>11, <1>12 DEF IInv

\* And it is never lost.
LEMMA Invariant == Spec => []IInv
<1>1. ASSUME IInv, [Running]_vars PROVE IInv'
  BY <1>1, TypeStep, BegunStep, KnownStep, KeptStep, DistinctStep, OrderedStep, RoomStep DEF IInv
<1>2. ASSUME IInv, [Next]_vars PROVE IInv'
  BY <1>1, <1>2, RestartInv DEF Next
<1> QED BY InvInit, <1>2, PTL DEF Spec

\* Everything keeps its type; in particular the queue stays within m_max_size
\* (block_queue.h, push()) and the flush thread has one line at most.
THEOREM TypeCorrect == Spec => []TypeOK
<1>1. IInv => TypeOK
  BY DEF IInv
<1> QED BY Invariant, <1>1, PTL

\* A set of which any two members are the same.
LEMMA AtMostOne ==
    ASSUME NEW S, \A i, j \in S : i = j
    PROVE  Cardinality(S) = IF S = {} THEN 0 ELSE 1
<1>1. CASE S = {}
  BY <1>1, FS_EmptySet
<1>2. CASE S # {}
  <2>1. PICK i : S = {i}
    BY <1>2
  <2> QED BY <1>2, <2>1, FS_Singleton
<1> QED BY <1>1, <1>2

\* write_log() and async_write_log() lose no line and write none twice, but for
\* the line push() refuses and those the program ended with; and push() refuses none
\* while one thread logs.
THEOREM LinesKept == Spec => []NothingVanishes
<1>1. ASSUME IInv PROVE NothingVanishes
  <2>0. TypeOK /\ Kept /\ Distinct /\ Room /\ Known
    BY <1>1 DEF IInv
  <2>1. DOMAIN queue = 1..Len(queue) /\ DOMAIN hand = 1..Len(hand) /\ DOMAIN book = 1..Len(book)
    BY <2>0, LenProperties DEF TypeOK
  <2>2. ASSUME NEW w \in Writers, ~down, NEW l \in Returned(w)
        PROVE  Cardinality(Queued(l)) + Cardinality(InHand(l)) + Cardinality(Written(l))
                 = (IF l \in lost \cup gone THEN 0 ELSE 1)
    <3>1. PICK n \in 1..Last(w) : l = <<w, n>>
      BY <2>2 DEF Returned, Last
    <3>2. Places(l)
      BY <2>0, <2>2, <3>1 DEF Kept
    <3>3. \A i, j \in Queued(l) : i = j
      BY <2>0, <2>1 DEF Queued, Distinct
    <3>4. \A i, j \in InHand(l) : i = j
      <4>1. Len(hand) \in Nat /\ Len(hand) <= 1
        BY <2>0, LenProperties DEF TypeOK
      <4> QED BY <2>1, <4>1 DEF InHand
    <3>5. \A i, j \in Written(l) : i = j
      BY <2>0, <2>1 DEF Written, Distinct
    <3>6. /\ Cardinality(Queued(l)) = IF Queued(l) = {} THEN 0 ELSE 1
          /\ Cardinality(InHand(l)) = IF InHand(l) = {} THEN 0 ELSE 1
          /\ Cardinality(Written(l)) = IF Written(l) = {} THEN 0 ELSE 1
      BY <3>3, <3>4, <3>5, AtMostOne
    <3>7. \/ l \in lost \cup gone \/ Queued(l) # {} \/ InHand(l) # {} \/ Written(l) # {}
      BY <2>1, <3>2 DEF Places, Queued, InHand, Written
    <3>8. /\ Queued(l) # {} => InHand(l) = {} /\ Written(l) = {}
          /\ InHand(l) # {} => Written(l) = {}
      BY <2>0, <2>1 DEF Distinct, Queued, InHand, Written
    <3>9. l \in lost \cup gone => Queued(l) = {} /\ InHand(l) = {} /\ Written(l) = {}
      BY <2>0, <2>1 DEF Distinct, Queued, InHand, Written
    <3> QED BY <3>6, <3>7, <3>8, <3>9
  <2> QED BY <2>0, <2>2 DEF NothingVanishes, Room
<1> QED BY Invariant, <1>1, PTL

\* A thread's lines are in the files in the order of its calls, but for those that
\* write_log() wrote past a full queue.
THEOREM FilesInOrder == Spec => []InOrderUnlessFull
<1>1. ASSUME IInv PROVE InOrderUnlessFull
  <2>1. TypeOK /\ Ordered
    BY <1>1 DEF IInv
  <2>2. DOMAIN book = 1..Len(book)
    BY <2>1, LenProperties DEF TypeOK
  <2> QED BY <2>1, <2>2 DEF InOrderUnlessFull, Ordered, InTurn
<1> QED BY Invariant, <1>1, PTL

-----------------------------------------------------------------------------
(* The log book                                                            *)

\* What the log still has to write, and what it has written.
Todo == IF down THEN <<>> ELSE hand \o queue
LinesOfBook == [i \in DOMAIN book |-> book[i].line]

\* Both are sequences of lines.
LEMMA MappedTypes ==
    ASSUME TypeOK
    PROVE  /\ hand \in Seq(Lines) /\ queue \in Seq(Lines) /\ Todo \in Seq(Lines)
           /\ hand \o queue \in Seq(Lines)
           /\ LinesOfBook \in Seq(Lines) /\ Len(LinesOfBook) = Len(book) /\ Len(book) \in Nat
           /\ \A i \in 1..Len(book) : LinesOfBook[i] = book[i].line
<1>1. hand \in Seq(Lines) /\ queue \in Seq(Lines) /\ book \in Seq([line : Lines, file : Files])
  BY DEF TypeOK
<1>2. hand \o queue \in Seq(Lines) /\ <<>> \in Seq(Lines)
  BY <1>1, ConcatProperties
<1>3. Todo \in Seq(Lines)
  BY <1>2 DEF Todo
<1>4. Len(book) \in Nat /\ DOMAIN book = 1..Len(book) /\ \A i \in 1..Len(book) : book[i].line \in Lines
  BY <1>1, LenProperties, PlacedLines
<1>5. LinesOfBook = [i \in 1..Len(book) |-> book[i].line]
  BY <1>4 DEF LinesOfBook
<1>6. LinesOfBook \in [1..Len(book) -> Lines]
  BY <1>4, <1>5
<1>7. LinesOfBook \in Seq(Lines)
  BY <1>4, <1>6, SeqDef, SMTT(30)
<1>8. Len(LinesOfBook) = Len(book)
  <2>1. Len(LinesOfBook) \in Nat /\ DOMAIN LinesOfBook = 1..Len(LinesOfBook)
    BY <1>7, LenProperties
  <2>2. 1..Len(LinesOfBook) = 1..Len(book)
    BY <1>5, <2>1
  <2>3. \A m, n \in Nat : 1..m = 1..n => m = n
    OBVIOUS
  <2> QED BY <1>4, <2>1, <2>2, <2>3, Zenon
<1> QED BY <1>1, <1>2, <1>3, <1>4, <1>5, <1>7, <1>8

\* In any state, that is.
BookMapped ==
    /\ LinesOfBook \in Seq(Lines) /\ Len(LinesOfBook) = Len(book)
    /\ \A i \in 1..Len(book) : LinesOfBook[i] = book[i].line

\* Types are all it takes.
LEMMA BookIsMapped == TypeOK => BookMapped
  BY MappedTypes DEF BookMapped

\* The members of either are those at an index.
LEMMA MappedRanges ==
    ASSUME TypeOK
    PROVE  /\ Promise!Range(LinesOfBook) = {book[i].line : i \in 1..Len(book)}
           /\ ~down => Promise!Range(Todo) =
                 {hand[i] : i \in 1..Len(hand)} \cup {queue[i] : i \in 1..Len(queue)}
<1>1. Promise!Range(LinesOfBook) = {book[i].line : i \in 1..Len(book)}
  <2>1. DOMAIN LinesOfBook = 1..Len(book)
    BY MappedTypes, LenProperties
  <2> QED BY <2>1, MappedTypes DEF Promise!Range
<1>2. ASSUME ~down
      PROVE  Promise!Range(Todo) =
                 {hand[i] : i \in 1..Len(hand)} \cup {queue[i] : i \in 1..Len(queue)}
  <2>1. Todo = hand \o queue /\ Len(hand) \in Nat /\ Len(queue) \in Nat
    BY <1>2, PlacedLines DEF Todo
  <2>2. /\ Len(Todo) = Len(hand) + Len(queue)
        /\ \A i \in 1..(Len(hand) + Len(queue)) :
              Todo[i] = IF i <= Len(hand) THEN hand[i] ELSE queue[i - Len(hand)]
    BY <2>1, MappedTypes, ConcatProperties
  <2>3. DOMAIN Todo = 1..(Len(hand) + Len(queue))
    BY <2>2, MappedTypes, LenProperties
  <2>4. ASSUME NEW i \in DOMAIN Todo
        PROVE  Todo[i] \in {hand[k] : k \in 1..Len(hand)} \cup {queue[k] : k \in 1..Len(queue)}
    <3>1. CASE i <= Len(hand)
      BY <2>1, <2>2, <2>3, <3>1
    <3>2. CASE ~(i <= Len(hand))
      <4>1. i - Len(hand) \in 1..Len(queue)
        BY <2>1, <2>3, <3>2
      <4> QED BY <2>2, <2>3, <3>2, <4>1
    <3> QED BY <3>1, <3>2
  <2>5. ASSUME NEW k \in 1..Len(hand) PROVE hand[k] \in {Todo[i] : i \in DOMAIN Todo}
    <3>1. k \in 1..(Len(hand) + Len(queue)) /\ k <= Len(hand)
      BY <2>1
    <3> QED BY <2>2, <2>3, <3>1
  <2>6. ASSUME NEW k \in 1..Len(queue) PROVE queue[k] \in {Todo[i] : i \in DOMAIN Todo}
    <3>1. k + Len(hand) \in 1..(Len(hand) + Len(queue)) /\ ~(k + Len(hand) <= Len(hand))
            /\ (k + Len(hand)) - Len(hand) = k
      BY <2>1
    <3>2. Todo[k + Len(hand)] = queue[k]
      BY <2>2, <3>1
    <3> QED BY <2>3, <3>1, <3>2
  <2> QED BY <2>4, <2>5, <2>6 DEF Promise!Range
<1> QED BY <1>1, <1>2

\* A line behind the book is behind the lines of the book.
LEMMA MappedPut ==
    ASSUME TypeOK, TypeOK', NEW l \in Lines, Puts(l), book' # book
    PROVE  LinesOfBook' = Append(LinesOfBook, l)
<1>1. /\ Len(book) \in Nat /\ Len(book') = Len(book) + 1
      /\ book'[Len(book) + 1].line = l
      /\ \A i \in 1..Len(book) : book'[i] = book[i]
  BY DEF Puts
<1>2. /\ LinesOfBook \in Seq(Lines) /\ Len(LinesOfBook) = Len(book)
      /\ \A i \in 1..Len(book) : LinesOfBook[i] = book[i].line
  BY MappedTypes
<1>3. /\ LinesOfBook' \in Seq(Lines) /\ Len(LinesOfBook') = Len(book')
      /\ \A i \in 1..Len(book') : LinesOfBook'[i] = book'[i].line
  <2>1. BookMapped'
    BY BookIsMapped, PTL
  <2> QED BY <2>1 DEF BookMapped
<1>4. /\ Append(LinesOfBook, l) \in Seq(Lines)
      /\ Len(Append(LinesOfBook, l)) = Len(book) + 1
      /\ \A i \in 1..(Len(book) + 1) :
            Append(LinesOfBook, l)[i] = IF i = Len(book) + 1 THEN l ELSE LinesOfBook[i]
  BY <1>2, AppendIndex
<1>5. \A i \in 1..(Len(book) + 1) : LinesOfBook'[i] = Append(LinesOfBook, l)[i]
  <2> TAKE i \in 1..(Len(book) + 1)
  <2>1. LinesOfBook'[i] = book'[i].line
    BY <1>1, <1>3
  <2>2. CASE i = Len(book) + 1
    BY <1>1, <1>4, <2>1, <2>2
  <2>3. CASE i # Len(book) + 1
    <3>1. i \in 1..Len(book)
      BY <1>1, <2>3
    <3> QED BY <1>1, <1>2, <1>4, <2>1, <2>3, <3>1
  <2> QED BY <2>2, <2>3
<1> QED BY <1>1, <1>3, <1>4, <1>5, SeqEqual

\* Every step is one of the log book or leaves it as it is.
LEMMA PromiseStep ==
    ASSUME IInv, IInv', [Running]_vars
    PROVE  [Promise!Next]_(Promise!vars)
<1>0. TypeOK /\ TypeOK' /\ Begun /\ Known /\ Distinct
  BY DEF IInv
<1>m. ASSUME \/ UNCHANGED <<Todo, LinesOfBook>>
             \/ Todo' = <<>> /\ LinesOfBook' = LinesOfBook
             \/ /\ Todo # <<>> /\ LinesOfBook' = Append(LinesOfBook, Head(Todo))
                /\ Todo' = Tail(Todo)
             \/ \E l \in Lines :
                   /\ l \notin Promise!Range(Todo) \cup Promise!Range(LinesOfBook)
                   /\ \/ Todo' = Append(Todo, l) /\ LinesOfBook' = LinesOfBook
                      \/ LinesOfBook' = Append(LinesOfBook, l) /\ Todo' = Todo
      PROVE  [Promise!Next]_(Promise!vars)
  BY <1>m DEF Todo, LinesOfBook, Promise!Next, Promise!vars, Promise!Write, Promise!End,
              Promise!Accept, Promise!WriteAtOnce, Promise!New
<1>e. ASSUME down', book' = book PROVE [Promise!Next]_(Promise!vars)
  <2>1. Todo' = <<>> /\ LinesOfBook' = LinesOfBook
    BY <1>e DEF Todo, LinesOfBook
  <2> QED BY <1>m, <2>1
<1>1. ASSUME NEW w \in Writers, Push(w) PROVE [Promise!Next]_(Promise!vars)
  <2>1. /\ Line(w) \in Lines /\ ~down /\ ~down' /\ queue' = Append(queue, Line(w))
        /\ UNCHANGED <<hand, book>>
    BY <1>0, <1>1, OwnLine DEF Push, Goto
  <2>2. Line(w) \notin Promise!Range(Todo) \cup Promise!Range(LinesOfBook)
    BY <1>0, <1>1, <2>1, FreshLine, MappedRanges
  <2>3. Todo' = Append(Todo, Line(w))
    <3>1. hand \in Seq(Lines) /\ queue \in Seq(Lines) /\ <<Line(w)>> \in Seq(Lines)
            /\ hand \o queue \in Seq(Lines)
      BY <1>0, <2>1, MappedTypes, OneElement
    <3>2. (hand \o queue) \o <<Line(w)>> = hand \o (queue \o <<Line(w)>>)
      BY <3>1, ConcatAssociative
    <3>3. Append(queue, Line(w)) = queue \o <<Line(w)>>
            /\ Append(hand \o queue, Line(w)) = (hand \o queue) \o <<Line(w)>>
      BY <2>1, <3>1, AppendIsConcat
    <3> QED BY <2>1, <3>2, <3>3 DEF Todo
  <2>4. LinesOfBook' = LinesOfBook
    BY <2>1 DEF LinesOfBook
  <2> QED BY <1>m, <2>1, <2>2, <2>3, <2>4
<1>2. ASSUME NEW w \in Writers, PushRefused(w) PROVE [Promise!Next]_(Promise!vars)
  <2>1. UNCHANGED <<Todo, LinesOfBook>>
    BY <1>2 DEF PushRefused, Todo, LinesOfBook
  <2> QED BY <1>m, <2>1
<1>3. ASSUME NEW w \in Writers, Direct(w) PROVE [Promise!Next]_(Promise!vars)
  <2>1. Line(w) \in Lines /\ ~down /\ Puts(Line(w)) /\ UNCHANGED <<queue, hand>>
    BY <1>0, <1>3, DirectEffect, OwnLine DEF Direct, Goto
  <2>2. CASE down' /\ book' = book
    BY <1>e, <2>2
  <2>3. CASE ~(down' /\ book' = book)
    <3>1. ~down' /\ book' # book
      BY <2>1, <2>3 DEF Puts
    <3>2. LinesOfBook' = Append(LinesOfBook, Line(w))
      BY <1>0, <2>1, <3>1, MappedPut
    <3>3. Todo' = Todo
      BY <2>1, <3>1 DEF Todo
    <3>4. Line(w) \notin Promise!Range(Todo) \cup Promise!Range(LinesOfBook)
      BY <1>0, <1>3, <2>1, FreshLine, MappedRanges
    <3> QED BY <1>m, <2>1, <3>2, <3>3, <3>4
  <2> QED BY <2>2, <2>3
<1>4. CASE Pop
  <2>1. /\ hand = <<>> /\ queue # <<>> /\ queue \in Seq(Lines)
        /\ hand' = <<Head(queue)>> /\ queue' = Tail(queue) /\ UNCHANGED <<book, down>>
    BY <1>0, <1>4 DEF Pop, Free, TypeOK
  <2>2. <<Head(queue)>> \o Tail(queue) = queue /\ <<>> \o queue = queue
    BY <2>1, HeadTailAsConcat, ConcatEmptySeq
  <2>3. UNCHANGED <<Todo, LinesOfBook>>
    BY <2>1, <2>2 DEF Todo, LinesOfBook
  <2> QED BY <1>m, <2>3
<1>5. CASE Flush
  <2>1. /\ hand # <<>> /\ hand' = <<>> /\ UNCHANGED queue /\ ~down /\ Puts(hand[1])
    BY <1>0, <1>5, FlushEffect DEF Flush
  <2>2. hand[1] \in Lines /\ hand = <<hand[1]>>
    BY <1>0, <2>1, HandOfOne
  <2>3. CASE down' /\ book' = book
    BY <1>e, <2>3
  <2>4. CASE ~(down' /\ book' = book)
    <3>1. ~down' /\ book' # book
      BY <2>1, <2>4 DEF Puts
    <3>2. LinesOfBook' = Append(LinesOfBook, hand[1])
      BY <1>0, <2>1, <2>2, <3>1, MappedPut
    <3>3. /\ <<hand[1]>> \o queue # <<>> /\ Head(<<hand[1]>> \o queue) = hand[1]
          /\ Tail(<<hand[1]>> \o queue) = queue
      BY <1>0, <2>2, MappedTypes, ConsHeadTail
    <3>4. Todo = <<hand[1]>> \o queue /\ Todo' = queue
      <4>1. <<>> \o queue = queue
        BY <1>0, MappedTypes, ConcatEmptySeq
      <4> QED BY <2>1, <2>2, <3>1, <4>1 DEF Todo
    <3> QED BY <1>m, <3>2, <3>3, <3>4, Zenon
  <2> QED BY <2>3, <2>4
<1>6. CASE Quiet
  <2>1. CASE down'
    BY <1>6, <1>e, <2>1 DEF Quiet
  <2>2. CASE ~down'
    <3>1. UNCHANGED <<Todo, LinesOfBook>>
      BY <1>6, <2>2 DEF Quiet, Todo, LinesOfBook
    <3> QED BY <1>m, <3>1
  <2> QED BY <2>1, <2>2
<1> QED BY <1>0, <1>1, <1>2, <1>3, <1>4, <1>5, <1>6, QuietStep

\* Threads, mutexes and a queue or not: the log accepts lines, writes them one by
\* one in that order, or at once, each one once, until the program ends.
THEOREM LogImplementsBook == Spec => ImplementsLogBook
<1>1. ASSUME Init PROVE Promise!Init
  <2>1. <<>> \o <<>> = <<>>
    BY EmptySeq, ConcatEmptySeq
  <2>2. [i \in DOMAIN <<>> |-> book[i].line] = <<>>
    OBVIOUS
  <2> QED BY <1>1, <2>1, <2>2 DEF Init, Promise!Init
<1>2. ASSUME IInv, IInv', [Running]_vars PROVE [Promise!Next]_(Promise!vars)
  BY <1>2, PromiseStep
<1>3. ASSUME Restart PROVE [Promise!Next]_(Promise!vars)
  <2>1. down /\ ~down' /\ queue' = <<>> /\ hand' = <<>> /\ book' = book /\ <<>> \o <<>> = <<>>
    BY <1>3, EmptySeq, ConcatEmptySeq DEF Restart
  <2>2. UNCHANGED <<Todo, LinesOfBook>>
    BY <2>1 DEF Todo, LinesOfBook
  <2> QED BY <2>2 DEF Todo, LinesOfBook, Promise!vars
<1>4. ASSUME IInv, IInv', [Next]_vars PROVE [Promise!Next]_(Promise!vars)
  BY <1>2, <1>3, <1>4 DEF Next
<1> QED BY Invariant, <1>1, <1>4, PTL DEF Spec, ImplementsLogBook, Promise!Spec

-----------------------------------------------------------------------------
(* No file outgrows its bound while one thread logs                        *)

\* What a split line changes in quotient and remainder.
LEMMA NextQuotient ==
    ASSUME NEW n \in Nat, NEW m \in Nat \ {0}
    PROVE  /\ (n + 1) % m # 0 => (n + 1) \div m = n \div m /\ (n + 1) % m = (n % m) + 1
           /\ (n + 1) % m = 0 => (n + 1) \div m = (n \div m) + 1
<1>1. (n + 1) % m # 0 => (n + 1) \div m = n \div m
  OBVIOUS
<1>2. (n + 1) % m = 0 => (n + 1) \div m = (n \div m) + 1
  OBVIOUS
<1>3. ASSUME (n + 1) % m # 0 PROVE (n + 1) % m = (n % m) + 1
  <2>1. n \div m \in Nat /\ n % m \in Nat /\ n = m * (n \div m) + (n % m)
    BY Division
  <2>2. (n + 1) % m \in Nat /\ n + 1 = m * ((n + 1) \div m) + ((n + 1) % m)
    BY Division
  <2>3. n + 1 = m * (n \div m) + ((n + 1) % m)
    BY <1>1, <1>3, <2>2
  <2>4. m * (n \div m) \in Nat
    BY <2>1
  <2>5. \A a, b, c, k \in Nat : k = a + b /\ k + 1 = a + c => c = b + 1
    OBVIOUS
  <2> QED BY <2>1, <2>2, <2>3, <2>4, <2>5
<1> QED BY <1>1, <1>2, <1>3

\* While w alone has logged, nobody else is inside write_log().
LEMMA OthersOut ==
    ASSUME TypeOK, Begun, NEW w \in Writers, Sole(w), NEW v \in Writers, v # w
    PROVE  pc[v] = "out"
<1>1. made[v] = 0
  BY DEF Sole
<1> QED BY <1>1 DEF Begun

\* So while w alone logs, a step is w's, the flush thread's or the clock's.
LEMMA SoleSteps ==
    ASSUME TypeOK, Begun, [Running]_vars, NEW w \in Writers, Sole(w)'
    PROVE  /\ Sole(w)
           /\ \/ Stamp(w) \/ KeepFile(w) \/ Rotate(w) \/ RotateFails(w) \/ AskFull(w)
              \/ Push(w) \/ PushRefused(w) \/ Direct(w)
              \/ Sleep \/ WakeUp \/ Midnight \/ Exit
              \/ Pop \/ Flush \/ UNCHANGED vars
<1>0. made \in [Writers -> Nat]
  BY DEF TypeOK
<1>1. ASSUME NEW v \in Writers, Stamp(v) PROVE v = w /\ Sole(w)
  <2>1. made' = [made EXCEPT ![v] = made[v] + 1]
    BY <1>1 DEF Stamp
  <2>2. made'[v] = made[v] + 1 /\ made[v] \in Nat /\ \A u \in Writers \ {v} : made'[u] = made[u]
    BY <1>0, <2>1
  <2>3. v = w
    BY <2>2 DEF Sole
  <2> QED BY <2>2, <2>3 DEF Sole
<1>2. ASSUME NEW v \in Writers,
             \/ KeepFile(v) \/ Rotate(v) \/ RotateFails(v) \/ AskFull(v)
             \/ Push(v) \/ PushRefused(v) \/ Direct(v)
      PROVE  v = w /\ Sole(w)
  <2>1. made' = made /\ pc[v] # "out"
    BY <1>2 DEF KeepFile, Rotate, RotateFails, AskFull, Push, PushRefused, Direct, Goto
  <2>2. Sole(w)
    BY <2>1 DEF Sole
  <2> QED BY <2>1, <2>2, OthersOut
<1>3. CASE Sleep \/ WakeUp \/ Midnight \/ Exit \/ Pop \/ Flush \/ UNCHANGED vars
  <2>1. made' = made
    BY <1>3 DEF Sleep, WakeUp, Midnight, Exit, Pop, Flush, threads, vars
  <2>2. Sole(w)
    BY <2>1 DEF Sole
  <2> QED BY <1>3, <2>2
<1> QED BY <1>1, <1>2, <1>3, RunningCases

\* The start is not forgotten.
LEMMA PastStep == ASSUME [Running]_vars PROVE base' = base /\ born' = born
<1> USE DEF history, past
<1>1. ASSUME NEW w \in Writers,
             Stamp(w) \/ KeepFile(w) \/ Rotate(w) \/ RotateFails(w) \/ AskFull(w)
      PROVE  base' = base /\ born' = born
  BY <1>1 DEF Stamp, KeepFile, Rotate, RotateFails, AskFull
<1>2. ASSUME NEW w \in Writers, Push(w) \/ PushRefused(w) \/ Direct(w)
      PROVE  base' = base /\ born' = born
  BY <1>2 DEF Push, PushRefused, Direct
<1>3. CASE Sleep \/ WakeUp \/ Midnight \/ Exit \/ Pop \/ Flush \/ UNCHANGED vars
  BY <1>3 DEF Sleep, WakeUp, Midnight, Exit, Pop, Flush, vars
<1> QED BY <1>1, <1>2, <1>3, RunningCases

\* No stamp is from the future or from before the start, nor is the file's day, or it
\* is behind a stamp, while one thread logs.
LEMMA DaysStep ==
    ASSUME TypeOK, Begun, DaysInOrder, [Running]_vars
    PROVE  DaysInOrder'
<1>0. /\ today \in Nat /\ date \in Nat /\ day \in [Writers -> Nat] /\ born \in Nat
      /\ pc \in [Writers -> {"out", "rotate", "full", "push", "direct"}]
      /\ born' = born
  BY PastStep DEF TypeOK
<1>1. born' <= today' /\ today' <= date'
  <2>1. ASSUME NEW w \in Writers, Rotate(w) PROVE born' <= today' /\ today' <= date'
    BY <1>0, <2>1 DEF Rotate, Goto, DaysInOrder
  <2>2. ASSUME NEW w \in Writers, Stamp(w) \/ KeepFile(w) \/ RotateFails(w) \/ AskFull(w)
        PROVE  born' <= today' /\ today' <= date'
    BY <1>0, <2>2 DEF Stamp, KeepFile, RotateFails, AskFull, rotation, DaysInOrder
  <2>3. ASSUME NEW w \in Writers, Push(w) \/ PushRefused(w) \/ Direct(w)
        PROVE  born' <= today' /\ today' <= date'
    BY <1>0, <2>3 DEF Push, PushRefused, Direct, rotation, DaysInOrder
  <2>4. CASE Sleep \/ WakeUp \/ Exit \/ Pop \/ Flush \/ UNCHANGED vars
    BY <1>0, <2>4 DEF Sleep, WakeUp, Exit, Pop, Flush, vars, rotation, DaysInOrder
  <2>5. CASE Midnight
    BY <1>0, <2>5 DEF Midnight, rotation, DaysInOrder
  <2> QED BY <2>1, <2>2, <2>3, <2>4, <2>5, RunningCases
<1>2. ASSUME NEW u \in Writers, pc'[u] # "out" PROVE born' <= day'[u] /\ day'[u] <= date'
  <2>1. ASSUME NEW w \in Writers, Stamp(w) PROVE born' <= day'[u] /\ day'[u] <= date'
    <3>1. PICK d \in {date} \cup {day[v] : v \in {x \in Writers : pc[x] = "rotate"}} :
             day' = [day EXCEPT ![w] = d]
      BY <2>1 DEF Stamp
    <3>2. d \in Nat /\ born <= d /\ d <= date
      BY <1>0, <3>1, SMTT(30) DEF DaysInOrder
    <3>3. date' = date /\ pc' = [pc EXCEPT ![w] = "rotate"]
      BY <2>1 DEF Stamp, Goto
    <3>4. CASE u = w
      BY <1>0, <3>1, <3>2, <3>3, <3>4
    <3>5. CASE u # w
      BY <1>0, <1>2, <3>1, <3>3, <3>5 DEF DaysInOrder
    <3> QED BY <3>4, <3>5
  <2>2. ASSUME NEW w \in Writers, KeepFile(w) \/ Rotate(w) \/ RotateFails(w) \/ AskFull(w)
        PROVE  born' <= day'[u] /\ day'[u] <= date'
    <3>1. UNCHANGED <<day, date>> /\ pc[w] # "out" /\ \A v \in Writers \ {w} : pc'[v] = pc[v]
      BY <1>0, <2>2 DEF KeepFile, Rotate, RotateFails, AskFull, Goto
    <3> QED BY <1>0, <1>2, <3>1 DEF DaysInOrder
  <2>3. ASSUME NEW w \in Writers, Push(w) \/ PushRefused(w) \/ Direct(w)
        PROVE  born' <= day'[u] /\ day'[u] <= date'
    <3>1. UNCHANGED <<day, date>> /\ pc[w] # "out" /\ \A v \in Writers \ {w} : pc'[v] = pc[v]
      BY <1>0, <2>3 DEF Push, PushRefused, Direct, Goto
    <3> QED BY <1>0, <1>2, <3>1 DEF DaysInOrder
  <2>4. CASE Sleep \/ WakeUp \/ Exit \/ Pop \/ Flush \/ UNCHANGED vars
    BY <1>0, <1>2, <2>4 DEF Sleep, WakeUp, Exit, Pop, Flush, vars, threads, DaysInOrder
  <2>5. CASE Midnight
    <3>1. UNCHANGED <<pc, day>> /\ date' = date + 1
      BY <2>5 DEF Midnight, threads
    <3>2. born <= day[u] /\ day[u] <= date /\ day[u] \in Nat
      BY <1>0, <1>2, <3>1 DEF DaysInOrder
    <3> QED BY <1>0, <3>1, <3>2
  <2> QED BY <2>1, <2>2, <2>3, <2>4, <2>5, RunningCases
<1>3. ASSUME NEW w \in Writers, Sole(w)', pc'[w] # "out" PROVE today' <= day'[w]
  <2>0. Sole(w)
    BY <1>3, SoleSteps
  <2>1. CASE Stamp(w)
    <3>1. PICK d \in {date} \cup {day[v] : v \in {x \in Writers : pc[x] = "rotate"}} :
             day' = [day EXCEPT ![w] = d]
      BY <2>1 DEF Stamp
    <3>2. \A x \in Writers : pc[x] # "rotate"
      BY <2>0, <2>1, OthersOut DEF Stamp, Goto
    <3>3. day'[w] = date
      BY <1>0, <3>1, <3>2
    <3> QED BY <2>1, <3>3 DEF Stamp, rotation, DaysInOrder
  <2>2. CASE KeepFile(w) \/ RotateFails(w) \/ AskFull(w)
    <3>1. UNCHANGED <<today, day>> /\ pc[w] # "out"
      BY <2>2 DEF KeepFile, RotateFails, AskFull, rotation, Goto
    <3> QED BY <2>0, <3>1 DEF DaysInOrder
  <2>3. CASE Rotate(w)
    BY <1>0, <2>3 DEF Rotate
  <2>4. CASE Push(w) \/ PushRefused(w) \/ Direct(w)
    <3>1. pc'[w] = "out"
      BY <1>0, <2>4, CallEnds
    <3> QED BY <1>3, <3>1
  <2>5. CASE Sleep \/ WakeUp \/ Midnight \/ Exit \/ Pop \/ Flush \/ UNCHANGED vars
    <3>1. UNCHANGED <<today, day, pc>>
      BY <2>5 DEF Sleep, WakeUp, Midnight, Exit, Pop, Flush, vars, threads, rotation
    <3> QED BY <1>3, <2>0, <3>1 DEF DaysInOrder
  <2> QED BY <1>3, <2>1, <2>2, <2>3, <2>4, <2>5, SoleSteps
<1> QED BY <1>1, <1>2, <1>3 DEF DaysInOrder

\* m_fp is open on the file that m_today and m_count name.
LEMMA NamedStep ==
    ASSUME TypeOK, [Running]_vars, file = NoFile \/ file = <<today, count \div SplitLines>>
    PROVE  file' = NoFile \/ file' = <<today', count' \div SplitLines>>
<1>0. SplitLines \in Nat \ {0} /\ count \in Nat
  BY LogAssumption DEF TypeOK
<1>1. ASSUME NEW w \in Writers, KeepFile(w)
      PROVE  file' = NoFile \/ file' = <<today', count' \div SplitLines>>
  <2>1. count' = count + 1 /\ (count + 1) % SplitLines # 0 /\ UNCHANGED <<file, today>>
    BY <1>1 DEF KeepFile, Split
  <2>2. (count + 1) \div SplitLines = count \div SplitLines
    BY <1>0, <2>1, NextQuotient
  <2> QED BY <2>1, <2>2
<1>2. ASSUME NEW w \in Writers, Rotate(w)
      PROVE  file' = NoFile \/ file' = <<today', count' \div SplitLines>>
  <2>1. 0 \div SplitLines = 0
    BY <1>0
  <2> QED BY <1>2, <2>1 DEF Rotate
<1>3. ASSUME NEW w \in Writers, Stamp(w) \/ RotateFails(w) \/ AskFull(w)
      PROVE  UNCHANGED <<file, today, count>>
  BY <1>3 DEF Stamp, RotateFails, AskFull, rotation
<1>4. ASSUME NEW w \in Writers, Push(w) \/ PushRefused(w) \/ Direct(w)
      PROVE  UNCHANGED <<file, today, count>>
  BY <1>4 DEF Push, PushRefused, Direct, rotation
<1>5. CASE Sleep \/ WakeUp \/ Midnight \/ Exit \/ Pop \/ Flush \/ UNCHANGED vars
  <2>1. UNCHANGED <<file, today, count>>
    BY <1>5 DEF Sleep, WakeUp, Midnight, Exit, Pop, Flush, vars, rotation
  <2> QED BY <2>1
<1> QED BY <1>1, <1>2, <1>3, <1>4, <1>5, RunningCases

\* fputs() adds one line to the current file and none to another.
LEMMA LinesPut ==
    ASSUME TypeOK, TypeOK', NEW l \in Lines, Puts(l), base' = base, NEW f \in Files
    PROVE  /\ IsFiniteSet(Of(f)) /\ Cardinality(Of(f)) \in Nat
           /\ Cardinality(Of(f))' = IF book' # book /\ f = file THEN Cardinality(Of(f)) + 1
                                    ELSE Cardinality(Of(f))
<1>1. IsFiniteSet(Of(f)) /\ Cardinality(Of(f)) \in Nat
  <2>1. Of(f) \subseteq 1..Len(book) /\ Len(book) \in Nat
    BY DEF Of, Puts
  <2>2. IsFiniteSet(1..Len(book))
    BY <2>1, FS_Interval
  <2> QED BY <2>1, <2>2, FS_Subset, FS_CardinalityType
<1>2. CASE book' = book
  <2>1. Of(f)' = Of(f)
    BY <1>2 DEF Of
  <2> QED BY <1>1, <1>2, <2>1
<1>3. CASE book' # book
  <2>1. /\ Len(book) \in Nat /\ Len(book') = Len(book) + 1
        /\ book'[Len(book) + 1].file = file
        /\ \A i \in 1..Len(book) : book'[i] = book[i]
        /\ Len(book) + 1 > base
    BY <1>3 DEF Puts, TypeOK
  <2>2. Of(f)' = {i \in 1..Len(book') : i > base /\ book'[i].file = f}
    BY DEF Of
  <2>3. CASE f = file
    <3>1. Of(f)' = Of(f) \cup {Len(book) + 1}
      <4>1. ASSUME NEW i \in Of(f)' PROVE i \in Of(f) \cup {Len(book) + 1}
        BY <2>1, <2>2, <4>1 DEF Of
      <4>2. ASSUME NEW i \in Of(f) \cup {Len(book) + 1} PROVE i \in Of(f)'
        <5>1. CASE i \in Of(f)
          BY <2>1, <2>2, <5>1 DEF Of
        <5>2. CASE i = Len(book) + 1
          BY <2>1, <2>2, <2>3, <5>2
        <5> QED BY <4>2, <5>1, <5>2
      <4> QED BY <4>1, <4>2
    <3>2. Len(book) + 1 \notin Of(f)
      BY <2>1 DEF Of
    <3>3. Cardinality(Of(f) \cup {Len(book) + 1}) = Cardinality(Of(f)) + 1
      BY <1>1, <3>2, FS_AddElement
    <3> QED BY <1>1, <1>3, <2>3, <3>1, <3>3
  <2>4. CASE f # file
    <3>1. ASSUME NEW i \in Of(f)' PROVE i \in Of(f)
      BY <2>1, <2>2, <2>4, <3>1 DEF Of
    <3>2. ASSUME NEW i \in Of(f) PROVE i \in Of(f)'
      BY <2>1, <2>2, <3>2 DEF Of
    <3>3. Of(f)' = Of(f)
      BY <3>1, <3>2
    <3> QED BY <1>1, <2>4, <3>3
  <2> QED BY <2>3, <2>4
<1> QED BY <1>1, <1>2, <1>3

\* The lines of a file are finitely many.
LEMMA OfFinite ==
    ASSUME TypeOK, NEW f
    PROVE  IsFiniteSet(Of(f)) /\ Cardinality(Of(f)) \in Nat
<1>1. Of(f) \subseteq 1..Len(book) /\ Len(book) \in Nat
  BY PlacedLines DEF Of
<1>2. IsFiniteSet(1..Len(book))
  BY <1>1, FS_Interval
<1> QED BY <1>1, <1>2, FS_Subset, FS_CardinalityType

\* NotLater in the next state.
NotLaterNext(f) == f[1] < today' \/ (f[1] = today' /\ f[2] <= count' \div SplitLines)

\* A file that is opened is new: while one thread logs, all lines are in earlier ones.
LEMMA RotateOpensNew ==
    ASSUME TypeOK, NoneLater, DaysInOrder, NEW w \in Writers, Sole(w), Rotate(w)
    PROVE  /\ \A i \in 1..Len(book) : i > base => NotLaterNext(book[i].file)
           /\ \A i \in 1..Len(book) : i > base /\ file' # NoFile => book[i].file # file'
           /\ file' # <<born, 0>> /\ count' % SplitLines = 0
<1>0. /\ today \in Nat /\ count \in Nat /\ day[w] \in Nat /\ SplitLines \in Nat \ {0}
      /\ today <= day[w] /\ born \in Nat /\ born <= today
      /\ file' \in {NoFile, <<day[w], IF NewDay(w) THEN 0 ELSE (count + 1) \div SplitLines>>}
      /\ today' = day[w] /\ count' = (IF NewDay(w) THEN 0 ELSE count + 1)
      /\ NewDay(w) \/ Split(count + 1)
  <2>1. today <= day[w]
    BY DEF DaysInOrder, Rotate, Goto
  <2>2. /\ today \in Nat /\ count \in Nat /\ day[w] \in Nat /\ SplitLines \in Nat \ {0}
        /\ born \in Nat /\ born <= today
    BY LogAssumption DEF TypeOK, DaysInOrder
  <2> QED BY <2>1, <2>2 DEF Rotate
<1>1. /\ \A i \in 1..Len(book) : i > base =>
            \/ book[i].file[1] < today
            \/ book[i].file[1] = today /\ book[i].file[2] <= count \div SplitLines
      /\ \A i \in 1..Len(book) : book[i].file[1] \in Nat /\ book[i].file[2] \in Nat
  BY PlacedLines DEF NoneLater, NotLater, Files
<1>2. CASE NewDay(w)
  <2>1. today' > today /\ count' = 0 /\ file' \in {NoFile, <<today', 0>>} /\ today' \in Nat
    BY <1>0, <1>2 DEF NewDay
  <2>2. \A i \in 1..Len(book) : i > base => book[i].file[1] < today'
    <3> TAKE i \in 1..Len(book)
    <3> HAVE i > base
    <3>1. book[i].file[1] \in Nat /\ book[i].file[1] <= today
      BY <1>0, <1>1
    <3> QED BY <1>0, <2>1, <3>1
  <2>3. \A i \in 1..Len(book) : i > base /\ file' # NoFile => book[i].file # file'
    <3> TAKE i \in 1..Len(book)
    <3> HAVE i > base /\ file' # NoFile
    <3>1. file' = <<today', 0>> /\ file'[1] = today'
      BY <2>1
    <3>2. book[i].file[1] # today'
      BY <1>1, <2>1, <2>2
    <3> QED BY <3>1, <3>2
  <2>4. file' # <<born, 0>>
    <3>1. CASE file' = NoFile
      BY <1>0, <3>1, LogAssumption
    <3>2. CASE file' # NoFile
      BY <1>0, <2>1, <3>2
    <3> QED BY <3>1, <3>2
  <2>5. 0 % SplitLines = 0
    BY <1>0
  <2> QED BY <2>1, <2>2, <2>3, <2>4, <2>5 DEF NotLaterNext
<1>3. CASE ~NewDay(w)
  <2>1. /\ today' = today /\ count' = count + 1 /\ (count + 1) % SplitLines = 0
        /\ file' \in {NoFile, <<today, (count + 1) \div SplitLines>>}
    BY <1>0, <1>3 DEF NewDay, Split
  <2>2. /\ (count + 1) \div SplitLines = (count \div SplitLines) + 1
        /\ count \div SplitLines \in Nat
    BY <1>0, <2>1, NextQuotient, Division
  <2>3. \A i \in 1..Len(book) : i > base => NotLaterNext(book[i].file)
    BY <1>1, <2>1, <2>2 DEF NotLaterNext
  <2>4. \A i \in 1..Len(book) : i > base /\ file' # NoFile => book[i].file # file'
    <3> TAKE i \in 1..Len(book)
    <3> HAVE i > base /\ file' # NoFile
    <3>1. file'[1] = today /\ file'[2] = (count \div SplitLines) + 1
      BY <2>1, <2>2
    <3>2. book[i].file[1] = today => book[i].file[2] # (count \div SplitLines) + 1
      BY <1>0, <1>1, <2>2
    <3> QED BY <3>1, <3>2
  <2>5. file' # <<born, 0>>
    <3>1. CASE file' = NoFile
      BY <1>0, <3>1, LogAssumption
    <3>2. CASE file' # NoFile
      BY <1>0, <2>1, <2>2, <3>2
    <3> QED BY <3>1, <3>2
  <2> QED BY <2>1, <2>3, <2>4, <2>5
<1> QED BY <1>2, <1>3

\* Next to a line in a file all others are in files of before, too.
LEMMA NoneLaterStep ==
    ASSUME TypeOK, Begun, FileNamed, DaysInOrder, [Running]_vars,
           NEW w \in Writers, Sole(w)'
    PROVE  NoneLater'
<1>0. /\ today \in Nat /\ count \in Nat /\ SplitLines \in Nat \ {0} /\ Len(book) \in Nat
      /\ count \div SplitLines \in Nat /\ base' = base
  BY PlacedLines, LogAssumption, Division, PastStep DEF TypeOK
<1>1. Sole(w) /\ NoneLater
  BY SoleSteps DEF FileNamed, Alone, Sole
<1>2. ASSUME \A i \in 1..Len(book') : i > base => NotLaterNext(book'[i].file) PROVE NoneLater'
  BY <1>0, <1>2 DEF NoneLater, NotLater, NotLaterNext
<1>3. CASE Rotate(w)
  <2>1. \A i \in 1..Len(book) : i > base => NotLaterNext(book[i].file)
    BY <1>1, <1>3, RotateOpensNew
  <2>2. book' = book
    BY <1>3 DEF Rotate
  <2> QED BY <1>2, <2>1, <2>2
<1>4. CASE KeepFile(w)
  <2>1. /\ count' = count + 1 /\ (count + 1) % SplitLines # 0 /\ UNCHANGED <<book, today>>
    BY <1>4 DEF KeepFile, Split
  <2>2. (count + 1) \div SplitLines = count \div SplitLines
    BY <1>0, <2>1, NextQuotient
  <2>3. \A i \in 1..Len(book') : i > base => NotLaterNext(book'[i].file)
    BY <1>1, <2>1, <2>2 DEF NoneLater, NotLater, NotLaterNext
  <2> QED BY <1>2, <2>3
<1>5. ASSUME UNCHANGED <<today, count>>, NEW l, Puts(l) PROVE NoneLater'
  <2>1. \A i \in 1..Len(book) : i > base => NotLaterNext(book[i].file)
    BY <1>1, <1>5 DEF NoneLater, NotLater, NotLaterNext
  <2>2. CASE book' = book
    BY <1>2, <2>1, <2>2
  <2>3. CASE book' # book
    <3>1. /\ Len(book') = Len(book) + 1 /\ book'[Len(book) + 1].file = file /\ file # NoFile
          /\ \A i \in 1..Len(book) : book'[i] = book[i]
      BY <2>3, <1>5 DEF Puts
    <3>2. NotLaterNext(file)
      <4>1. file = <<today, count \div SplitLines>>
        BY <3>1 DEF FileNamed
      <4>2. file[1] = today' /\ file[2] = count' \div SplitLines
        BY <1>5, <4>1
      <4>3. count' \div SplitLines <= count' \div SplitLines
        BY <1>0, <1>5
      <4> QED BY <4>2, <4>3 DEF NotLaterNext
    <3>3. ASSUME NEW i \in 1..Len(book'), i > base PROVE NotLaterNext(book'[i].file)
      <4>1. CASE i = Len(book) + 1
        BY <3>1, <3>2, <4>1
      <4>2. CASE i # Len(book) + 1
        <5>1. i \in 1..Len(book)
          BY <1>0, <3>1, <4>2
        <5> QED BY <2>1, <3>1, <3>3, <5>1
      <4> QED BY <4>1, <4>2
    <3> QED BY <1>2, <3>3
  <2> QED BY <2>2, <2>3
<1>6. CASE Direct(w)
  BY <1>5, <1>6, DirectEffect DEF Direct, rotation
<1>7. CASE Flush
  BY <1>5, <1>7, FlushEffect DEF Flush, rotation
<1>8. CASE Stamp(w) \/ RotateFails(w) \/ AskFull(w) \/ Push(w) \/ PushRefused(w)
  <2>1. UNCHANGED <<book, today, count>>
    BY <1>8 DEF Stamp, RotateFails, AskFull, Push, PushRefused, rotation
  <2> QED BY <1>0, <1>1, <2>1 DEF NoneLater, NotLater
<1>9. CASE Sleep \/ WakeUp \/ Midnight \/ Exit \/ Pop \/ UNCHANGED vars
  <2>1. UNCHANGED <<book, today, count>>
    BY <1>9 DEF Sleep, WakeUp, Midnight, Exit, Pop, rotation, vars
  <2> QED BY <1>0, <1>1, <2>1 DEF NoneLater, NotLater
<1> QED BY <1>3, <1>4, <1>6, <1>7, <1>8, <1>9, SoleSteps

\* Bounded for w in the next state.
BoundNext(w) ==
    /\ \A f \in Files : Cardinality(Of(f))' <= SplitLines + Backlog(f)
    /\ file' # NoFile =>
          Cardinality(Of(file))' + Len(queue') + Len(hand') + Pending(w)'
              <= (count' % SplitLines) + 1 + Backlog(file')

\* A full queue and a hand are the most a file starts with, and count keeps to
\* m_split_lines from there.
LEMMA BoundedStep ==
    ASSUME TypeOK, TypeOK', Begun, FileNamed, DaysInOrder, Bounded, [Running]_vars,
           NEW w \in Writers, Sole(w)'
    PROVE  BoundNext(w)
<1> DEFINE Held == Len(queue) + Len(hand)
           HeldNext == Len(queue') + Len(hand')
           PendingNext == IF pc'[w] \in {"full", "push", "direct"} THEN 1 ELSE 0
<1>0. /\ count \in Nat /\ SplitLines \in Nat \ {0} /\ MaxSize \in Nat
      /\ Len(queue) \in Nat /\ Len(hand) \in Nat /\ Len(queue) <= MaxSize /\ Len(hand) <= 1
      /\ file = NoFile \/ file \in Files
      /\ base' = base
  BY PlacedLines, LogAssumption, PastStep DEF TypeOK
<1>r. count % SplitLines \in 0..(SplitLines - 1)
  BY <1>0, Division
<1>f. \A f : Cardinality(Of(f)) \in Nat /\ Backlog(f) \in Nat
  BY <1>0, OfFinite DEF Backlog
<1>1. Sole(w) /\ NoneLater
  BY SoleSteps DEF FileNamed, Alone, Sole
<1>2. /\ \A f \in Files : Cardinality(Of(f)) <= SplitLines + Backlog(f)
      /\ file # NoFile =>
            Cardinality(Of(file)) + Held + Pending(w) <= (count % SplitLines) + 1 + Backlog(file)
      /\ Pending(w) \in {0, 1}
  <2>1. file # NoFile =>
           Cardinality(Of(file)) + Len(queue) + Len(hand) + Pending(w)
              <= (count % SplitLines) + 1 + Backlog(file)
    BY <1>1 DEF Bounded
  <2>2. Pending(w) \in {0, 1}
    BY DEF Pending
  <2> QED BY <1>0, <1>1, <1>f, <2>1, <2>2 DEF Bounded
<1>n. /\ Len(queue') \in Nat /\ Len(hand') \in Nat /\ Len(queue') <= MaxSize /\ Len(hand') <= 1
      /\ PendingNext \in {0, 1}
  BY LenProperties DEF TypeOK
<1>g. ASSUME \A f \in Files : Cardinality(Of(f))' <= SplitLines + Backlog(f),
             file' # NoFile =>
                Cardinality(Of(file))' + HeldNext + PendingNext
                    <= (count' % SplitLines) + 1 + Backlog(file'),
             Cardinality(Of(file))' \in Nat
      PROVE  BoundNext(w)
  BY <1>g, <1>n DEF BoundNext, Pending
<1> HIDE DEF PendingNext
\* Nothing is written, and no line more is on its way.
<1>a. ASSUME UNCHANGED <<book, file, count>>,
             file = NoFile \/ HeldNext + PendingNext <= Held + Pending(w)
      PROVE  BoundNext(w)
  <2>1. \A f : Of(f)' = Of(f)
    BY <1>0, <1>a DEF Of
  <2>2. Of(file)' = Of(file) /\ Cardinality(Of(file))' = Cardinality(Of(file))
    BY <1>0, <1>a DEF Of
  <2>3. \A f \in Files : Cardinality(Of(f))' <= SplitLines + Backlog(f)
    BY <1>2, <2>1
  <2>4. ASSUME file' # NoFile
        PROVE  Cardinality(Of(file))' + HeldNext + PendingNext
                   <= (count' % SplitLines) + 1 + Backlog(file')
    <3>1. Cardinality(Of(file)) + Held + Pending(w) <= (count % SplitLines) + 1 + Backlog(file)
      BY <1>2, <1>a, <2>4
    <3>2. HeldNext + PendingNext <= Held + Pending(w)
      BY <1>a, <2>4
    <3>3. Cardinality(Of(file)) \in Nat /\ Backlog(file) \in Nat /\ count % SplitLines \in Nat
      BY <1>f, <1>r
    <3> QED BY <1>0, <1>2, <1>a, <1>n, <2>2, <3>1, <3>2, <3>3, SMTT(30)
  <2> QED BY <1>f, <1>g, <2>2, <2>3, <2>4
\* A line that was on its way is written.
<1>b. ASSUME UNCHANGED <<file, count>>, NEW l \in Lines, Puts(l),
             HeldNext + PendingNext + 1 <= Held + Pending(w)
      PROVE  BoundNext(w)
  <2>1. CASE book' = book
    <3>1. HeldNext + PendingNext <= Held + Pending(w)
      BY <1>0, <1>2, <1>b, <1>n
    <3> QED BY <1>a, <1>b, <2>1, <3>1
  <2>2. CASE book' # book
    <3>1. file # NoFile /\ file \in Files
      BY <1>0, <1>b, <2>2 DEF Puts
    <3>2. \A f \in Files : Cardinality(Of(f))' = IF f = file THEN Cardinality(Of(f)) + 1
                                                             ELSE Cardinality(Of(f))
      BY <1>0, <1>b, <2>2, LinesPut
    <3>3. Cardinality(Of(file))' = Cardinality(Of(file)) + 1
      <4>1. ASSUME NEW f \in Files, f = file PROVE Of(file)' = Of(f)'
        BY <1>b, <4>1 DEF Of
      <4> QED BY <3>1, <3>2, <4>1
    <3>4. Cardinality(Of(file)) + Held + Pending(w) <= (count % SplitLines) + 1 + Backlog(file)
      BY <1>2, <3>1
    <3>5. Cardinality(Of(file)) \in Nat /\ Backlog(file) \in Nat
      BY <1>f
    <3>6. Cardinality(Of(file)) + 1 + HeldNext + PendingNext
              <= (count % SplitLines) + 1 + Backlog(file)
      <4> DEFINE c == Cardinality(Of(file))
                 p == Pending(w)
                 room == (count % SplitLines) + 1 + Backlog(file)
      <4>1. /\ c \in Int /\ p \in Int /\ room \in Int /\ c + Held + p <= room
            /\ HeldNext + PendingNext + 1 <= Held + p
        BY <1>2, <1>b, <1>r, <3>4, <3>5
      <4>2. Held \in Int /\ HeldNext \in Int /\ PendingNext \in Int
        BY <1>0, <1>n
      <4> HIDE DEF c, p, room, Held, HeldNext
      <4>3. c + 1 + HeldNext + PendingNext <= room
        BY <4>1, <4>2
      <4> QED BY <4>3 DEF c, room
    <3>7. Cardinality(Of(file)) + 1 <= SplitLines + Backlog(file)
      BY <1>0, <1>n, <1>r, <3>5, <3>6, SMTT(30)
    <3>8. \A f \in Files : Cardinality(Of(f))' <= SplitLines + Backlog(f)
      BY <1>2, <3>2, <3>7
    <3> QED BY <1>b, <1>g, <3>3, <3>5, <3>6, <3>8
  <2> QED BY <2>1, <2>2
<1>3. CASE Stamp(w)
  <2>1. /\ UNCHANGED <<book, file, count, queue, hand>>
        /\ pc[w] = "out" /\ pc' = [pc EXCEPT ![w] = "rotate"]
    BY <1>3 DEF Stamp, Goto, rotation
  <2>2. pc'[w] = "rotate"
    BY <2>1 DEF TypeOK
  <2>3. PendingNext = 0 /\ Pending(w) = 0
    BY <2>1, <2>2 DEF PendingNext, Pending
  <2> QED BY <1>0, <1>a, <2>1, <2>3
<1>4. CASE KeepFile(w)
  <2>1. /\ UNCHANGED <<book, file, queue, hand>> /\ count' = count + 1
        /\ (count + 1) % SplitLines # 0
        /\ pc[w] = "rotate" /\ pc' = [pc EXCEPT ![w] = "full"]
    BY <1>4 DEF KeepFile, Goto, Split
  <2>2. pc'[w] = "full"
    BY <2>1 DEF TypeOK
  <2>3. PendingNext = 1 /\ Pending(w) = 0
    BY <2>1, <2>2 DEF PendingNext, Pending
  <2>4. count' % SplitLines = (count % SplitLines) + 1
    BY <1>0, <2>1, NextQuotient
  <2>5. \A f : Of(f)' = Of(f)
    BY <1>0, <2>1 DEF Of
  <2>6. Of(file)' = Of(file) /\ Cardinality(Of(file))' = Cardinality(Of(file))
    BY <1>0, <2>1 DEF Of
  <2>7. ASSUME file' # NoFile
        PROVE  Cardinality(Of(file))' + HeldNext + PendingNext
                   <= (count' % SplitLines) + 1 + Backlog(file')
    <3>1. Cardinality(Of(file)) + Held + 0 <= (count % SplitLines) + 1 + Backlog(file)
      BY <1>2, <2>1, <2>3, <2>7
    <3>2. Cardinality(Of(file)) \in Nat /\ Backlog(file) \in Nat
      BY <1>f
    <3> QED BY <1>0, <1>r, <2>1, <2>3, <2>4, <2>6, <3>1, <3>2, SMTT(30)
  <2> QED BY <1>2, <1>f, <1>g, <2>5, <2>6, <2>7
<1>5. CASE Rotate(w)
  <2>1. /\ UNCHANGED <<book, queue, hand>> /\ file' # <<born, 0>> /\ count' % SplitLines = 0
        /\ \A i \in 1..Len(book) : i > base /\ file' # NoFile => book[i].file # file'
    BY <1>1, <1>5, RotateOpensNew DEF Rotate
  <2>2. \A f : Of(f)' = Of(f)
    BY <1>0, <2>1 DEF Of
  <2>3. Of(file)' = {i \in 1..Len(book) : i > base /\ book[i].file = file'}
    BY <1>0, <2>1 DEF Of
  <2>4. ASSUME file' # NoFile PROVE Cardinality(Of(file))' = 0
    <3>1. Of(file)' = {}
      BY <2>1, <2>3, <2>4
    <3> QED BY <3>1, FS_EmptySet
  <2>5. Backlog(file') = MaxSize + 1
    BY <2>1 DEF Backlog
  <2>6. Cardinality(Of(file))' \in Nat
    <3>1. Of(file)' \subseteq 1..Len(book) /\ IsFiniteSet(1..Len(book))
      BY <2>3, FS_Interval, PlacedLines
    <3> QED BY <3>1, FS_Subset, FS_CardinalityType
  <2>7. file' # NoFile =>
           Cardinality(Of(file))' + HeldNext + PendingNext
               <= (count' % SplitLines) + 1 + Backlog(file')
    BY <1>0, <1>n, <2>1, <2>4, <2>5
  <2> QED BY <1>2, <1>g, <2>2, <2>6, <2>7
<1>6. CASE RotateFails(w)
  <2>1. UNCHANGED <<book, file, count>> /\ file = NoFile
    BY <1>6 DEF RotateFails, rotation
  <2> QED BY <1>a, <2>1
<1>7. CASE AskFull(w)
  <2>1. /\ UNCHANGED <<book, file, count, queue, hand>> /\ pc[w] = "full"
        /\ pc' = [pc EXCEPT ![w] = IF Len(queue) >= MaxSize THEN "direct" ELSE "push"]
    BY <1>7 DEF AskFull, Goto, rotation
  <2>2. pc'[w] \in {"direct", "push"}
    BY <2>1 DEF TypeOK
  <2>3. PendingNext = 1 /\ Pending(w) = 1
    BY <2>1, <2>2 DEF PendingNext, Pending
  <2> QED BY <1>0, <1>a, <2>1, <2>3
<1>8. ASSUME Push(w) \/ PushRefused(w) \/ Direct(w)
      PROVE  PendingNext = 0 /\ Pending(w) = 1 /\ hand' = hand
  <2>1. pc[w] \in {"push", "direct"} /\ pc' = [pc EXCEPT ![w] = "out"] /\ hand' = hand
    BY <1>8, CallEnds DEF Push, PushRefused, Direct, Goto
  <2>2. pc'[w] = "out"
    BY <2>1 DEF TypeOK
  <2> QED BY <2>1, <2>2 DEF PendingNext, Pending
<1>9. CASE Push(w)
  <2>1. Len(queue') = Len(queue) + 1 /\ UNCHANGED <<book, file, count>>
    BY <1>9, PushEffect DEF Push, rotation
  <2> QED BY <1>0, <1>8, <1>9, <1>a, <2>1
<1>10. CASE PushRefused(w)
  <2>1. UNCHANGED <<queue, book, file, count>>
    BY <1>10 DEF PushRefused, rotation
  <2> QED BY <1>0, <1>8, <1>10, <1>a, <2>1
<1>11. CASE Direct(w)
  <2>1. Puts(Line(w)) /\ UNCHANGED <<queue, file, count>> /\ Line(w) \in Lines
    BY <1>11, DirectEffect, OwnLine DEF Direct, Goto, rotation
  <2> QED BY <1>0, <1>8, <1>11, <1>b, <2>1
<1>12. ASSUME pc' = pc PROVE PendingNext = Pending(w)
  BY <1>12 DEF PendingNext, Pending
<1>13. CASE Pop
  <2>1. /\ Len(queue') = Len(queue) - 1 /\ Len(hand) = 0 /\ Len(hand') = 1
        /\ UNCHANGED <<book, file, count, pc>>
    BY <1>13, PopEffect DEF Pop, rotation
  <2> QED BY <1>0, <1>2, <1>12, <1>a, <2>1
<1>14. CASE Flush
  <2>1. /\ Len(hand) = 1 /\ Len(hand') = 0 /\ Puts(hand[1]) /\ hand[1] \in Lines
        /\ UNCHANGED <<queue, file, count, pc>>
    BY <1>14, FlushEffect, HandOfOne DEF Flush, rotation
  <2> QED BY <1>0, <1>2, <1>12, <1>b, <2>1
<1>15. CASE Sleep \/ WakeUp \/ Midnight \/ Exit \/ UNCHANGED vars
  <2>1. UNCHANGED <<queue, hand, book, file, count, pc>>
    BY <1>15 DEF Sleep, WakeUp, Midnight, Exit, rotation, threads, vars
  <2> QED BY <1>0, <1>2, <1>12, <1>a, <2>1
<1> QED
  BY <1>3, <1>4, <1>5, <1>6, <1>7, <1>9, <1>10, <1>11, <1>13, <1>14, <1>15, SoleSteps

\* The invariant for files holds with the other one.
LEMMA FileInvariant == Spec => [](IInv /\ FileInv)
<1>1. ASSUME Init PROVE FileInv
  <2>1. /\ Len(book) = 0 /\ Len(queue) = 0 /\ Len(hand) = 0 /\ count = 0 /\ today = 0
        /\ date = 0 /\ born = 0
    BY <1>1 DEF Init
  <2>2. SplitLines \in Nat \ {0} /\ MaxSize \in Nat /\ 0 \div SplitLines = 0 /\ 0 % SplitLines = 0
    BY LogAssumption
  <2>3. FileNamed
    BY <1>1, <2>1, <2>2 DEF Init, FileNamed, NoneLater
  <2>4. DaysInOrder
    BY <1>1, <2>1 DEF Init, DaysInOrder
  <2>5. \A f : Cardinality(Of(f)) = 0
    <3>1. \A f : Of(f) = {}
      BY <2>1 DEF Of
    <3> QED BY <3>1, FS_EmptySet
  <2>6. \A w \in Writers : Pending(w) = 0
    BY <1>1 DEF Init, Pending
  <2>7. \A f : Backlog(f) \in Nat
    BY <2>2 DEF Backlog
  <2>8. Bounded
    BY <2>1, <2>2, <2>5, <2>6, <2>7 DEF Bounded
  <2> QED BY <2>3, <2>4, <2>8 DEF FileInv
<1>2. ASSUME IInv, IInv', FileInv, [Running]_vars PROVE FileInv'
  <2>0. TypeOK /\ TypeOK' /\ Begun /\ FileNamed /\ DaysInOrder /\ Bounded
    BY <1>2 DEF IInv, FileInv
  <2>1. DaysInOrder'
    BY <1>2, <2>0, DaysStep
  <2>2. ASSUME Alone' PROVE NoneLater'
    <3>1. PICK w \in Writers : \A v \in Writers \ {w} : made'[v] = 0
      BY <2>2 DEF Alone
    <3>2. Sole(w)'
      BY <3>1 DEF Sole
    <3> QED BY <1>2, <2>0, <3>2, NoneLaterStep
  <2>3. FileNamed'
    <3>1. file' = NoFile \/ file' = <<today', count' \div SplitLines>>
      BY <1>2, <2>0, NamedStep DEF FileNamed
    <3> QED BY <2>2, <3>1 DEF FileNamed
  <2>4. Bounded'
    <3>1. \A w \in Writers : Sole(w)' => BoundNext(w)
      BY <1>2, <2>0, BoundedStep
    <3>2. born' = born
      BY <1>2, PastStep
    <3> QED BY <3>1, <3>2 DEF Bounded, BoundNext, Backlog
  <2> QED BY <2>1, <2>3, <2>4 DEF FileInv
\* A start has no lines yet.
<1>3. ASSUME IInv, Restart PROVE FileInv'
  <2>1. /\ queue' = <<>> /\ hand' = <<>> /\ book' = book /\ base' = Len(book) /\ count' = 0
        /\ today' = date /\ date' = date /\ born' = date /\ file' \in {<<date, 0>>, NoFile}
        /\ pc' = [w \in Writers |-> "out"] /\ Len(book) \in Nat /\ date \in Nat
    BY <1>3, PlacedLines DEF Restart, IInv, TypeOK
  <2>2. SplitLines \in Nat \ {0} /\ MaxSize \in Nat /\ 0 \div SplitLines = 0 /\ 0 % SplitLines = 0
    BY LogAssumption
  <2>3. NoneLater'
    BY <2>1 DEF NoneLater
  <2>4. FileNamed'
    BY <2>1, <2>2, <2>3 DEF FileNamed
  <2>5. DaysInOrder'
    BY <2>1 DEF DaysInOrder
  <2>6. \A f : Of(f)' = {}
    BY <2>1 DEF Of
  <2>7. Of(file)' = {}
    BY <2>1 DEF Of
  <2>8. (\A f : Cardinality(Of(f))' = 0) /\ Cardinality(Of(file))' = 0
    BY <2>6, <2>7, FS_EmptySet
  <2>9. (\A w \in Writers : Pending(w)' = 0) /\ Len(queue') = 0 /\ Len(hand') = 0
    BY <2>1 DEF Pending
  <2>10. (\A f : Backlog(f)' \in Nat) /\ Backlog(file)' \in Nat
    BY <2>2 DEF Backlog
  <2>11. Bounded'
    BY <2>1, <2>2, <2>8, <2>9, <2>10 DEF Bounded
  <2> QED BY <2>4, <2>5, <2>11 DEF FileInv
<1>4. ASSUME IInv, IInv', FileInv, [Next]_vars PROVE FileInv'
  BY <1>2, <1>3, <1>4 DEF Next
<1> QED BY Invariant, <1>1, <1>4, PTL DEF Spec

\* While one thread logs, the first log file of a start gets m_split_lines lines of it
\* at most, and any other that and what the queue and the flush thread held when it
\* was opened.
THEOREM FilesBounded == Spec => []FileBound
<1>1. ASSUME IInv /\ FileInv PROVE FileBound
  <2>0. TypeOK /\ Bounded
    BY <1>1 DEF IInv, FileInv
  <2>1. DOMAIN book = 1..Len(book)
    BY <2>0, LenProperties DEF TypeOK
  <2>2. ASSUME Alone, NEW f \in {book[i].file : i \in DOMAIN book}
        PROVE  Cardinality({i \in DOMAIN book : i > base /\ book[i].file = f})
                   <= SplitLines + (IF f = <<born, 0>> THEN 0 ELSE MaxSize + 1)
    <3>1. PICK w \in Writers : Sole(w)
      BY <2>2 DEF Alone, Sole
    <3>2. f \in Files
      BY <2>0, <2>1, PlacedLines
    <3>3. Cardinality(Of(f)) <= SplitLines + Backlog(f)
      BY <2>0, <3>1, <3>2 DEF Bounded
    <3> QED BY <2>1, <3>3 DEF Of, Backlog
  <2> QED BY <2>2 DEF FileBound
<1> QED BY FileInvariant, <1>1, PTL

-----------------------------------------------------------------------------
(* The flush thread's sleep                                                *)

\* It goes to sleep on an empty queue only, and each push() that adds a line, or
\* refuses one, wakes it.
LEMMA AwakeStep ==
    ASSUME TypeOK, AwakeForLines, [Running]_vars
    PROVE  AwakeForLines'
<1> USE DEF AwakeForLines
<1>1. ASSUME NEW w \in Writers,
             Stamp(w) \/ KeepFile(w) \/ Rotate(w) \/ RotateFails(w) \/ AskFull(w) \/ Direct(w)
      PROVE  AwakeForLines'
  BY <1>1 DEF Stamp, KeepFile, Rotate, RotateFails, AskFull, Direct
<1>2. ASSUME NEW w \in Writers, Push(w) \/ PushRefused(w)
      PROVE  AwakeForLines'
  BY <1>2 DEF Push, PushRefused
<1>3. CASE Sleep \/ WakeUp
  BY <1>3 DEF Sleep, WakeUp
<1>4. CASE Pop
  BY <1>4 DEF Pop, Free
<1>5. CASE Flush \/ Midnight \/ Exit
  BY <1>5 DEF Flush, Midnight, Exit
<1>6. CASE UNCHANGED vars
  BY <1>6 DEF vars
<1> QED BY <1>1, <1>2, <1>3, <1>4, <1>5, <1>6, RunningCases

\* No wake-up is lost: the flush thread never waits on m_cond while a line is in the
\* queue.  With fairness this is why EveryLineWritten holds.
THEOREM NoSleepOnLines == Spec => []AwakeForLines
<1>1. Init => AwakeForLines
  BY DEF Init, AwakeForLines
<1>2. ASSUME TypeOK, AwakeForLines, [Next]_vars PROVE AwakeForLines'
  <2>1. CASE Restart
    BY <2>1 DEF Restart, AwakeForLines
  <2> QED BY <1>2, <2>1, AwakeStep DEF Next
<1> QED BY TypeCorrect, <1>1, <1>2, PTL DEF Spec
=============================================================================

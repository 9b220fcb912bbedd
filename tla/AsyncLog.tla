------------------------------ MODULE AsyncLog ------------------------------
(***************************************************************************)
(* log.cpp over block_queue.h: write_log() stamps a line, changes the file *)
(* if the day or the line count asks for it, and hands the line to the     *)
(* flush thread's queue or, when full() says so, writes it itself.  What a *)
(* thread does while it holds one of the two mutexes is one step, as it    *)
(* waits for nothing there (pthread_cond_wait() gives the mutex back); the *)
(* order in which threads enter these sections is free.  The program may   *)
(* be started again when it has ended: the files stay, init() begins anew. *)
(***************************************************************************)
EXTENDS Integers, Sequences, FiniteSets

CONSTANTS Writers,      \* threads that call write_log(); main() alone in this server
          MaxSize,      \* m_max_size of the queue
          SplitLines,   \* m_split_lines
          Lines,        \* bound: the lines the writers write, <<w, 1>>, <<w, 2>>, ...
          Crowd,        \* bound: once so many lines are begun only a thread that alone logs goes on
          Early,        \* bound: the program starts again while no more lines are begun than so many
          LastDay,      \* bound: the date stops there
          NoFile        \* m_fp == NULL

ASSUME LogAssumption ==
    /\ IsFiniteSet(Writers)
    /\ MaxSize \in Nat \ {0}    \* the queue's constructor exits otherwise
    /\ SplitLines \in Nat \ {0}
    /\ Lines \subseteq Writers \X Nat /\ Crowd \in Nat /\ Early \in Nat /\ LastDay \in Nat
    /\ NoFile \notin Nat \X Nat

VARIABLES queue,        \* m_queue of m_log_queue
          asleep,       \* the flush thread waits on m_cond
          hand,         \* <<single_log>> once popped
          today, count, \* m_today, m_count
          file,         \* what m_fp is open on: <<day, n>> for "day_name.n", n = 0 for "day_name"
          date,         \* the day it is
          pc, day, made,\* each writer: place, my_tm.tm_mday, lines begun
          book,         \* what is in the files, in the order it was written
          lost,         \* history: lines push() refused
          atOnce,       \* history: lines their writer wrote itself
          base, born,   \* history: lines in the files when the program started, and the day then
          gone,         \* history: lines earlier starts ended with and had not written
          down          \* the program has ended or crashed

threads == <<pc, day, made>>
rotation == <<today, count, file>>
past == <<base, born, gone>>
history == <<lost, atOnce, past>>
vars == <<queue, asleep, hand, rotation, date, threads, book, history, down>>

Files == Nat \X Nat
Line(w) == <<w, made[w]>>
LinesBegun == UNION {{w} \X (1..made[w]) : w \in Writers}

TypeOK ==
    /\ queue \in Seq(Lines) /\ Len(queue) <= MaxSize
    /\ asleep \in BOOLEAN
    /\ hand \in Seq(Lines) /\ Len(hand) <= 1
    /\ asleep => hand = <<>>
    /\ today \in Nat /\ count \in Nat /\ date \in Nat
    /\ file \in Files \cup {NoFile}
    /\ pc \in [Writers -> {"out", "rotate", "full", "push", "direct"}]
    /\ day \in [Writers -> Nat]
    /\ made \in [Writers -> Nat]
    /\ book \in Seq([line : Lines, file : Files])
    /\ lost \subseteq Lines /\ atOnce \subseteq Lines
    /\ base \in 0..Len(book) /\ born \in Nat /\ gone \subseteq Writers \X Nat
    /\ down \in BOOLEAN

\* init(): the first fopen() may fail, which main() does not look at.
Init ==
    /\ queue = <<>> /\ asleep = FALSE /\ hand = <<>>
    /\ today = 0 /\ count = 0 /\ date = 0
    /\ file \in {<<0, 0>>, NoFile}
    /\ pc = [w \in Writers |-> "out"]
    /\ day = [w \in Writers |-> 0] /\ made = [w \in Writers |-> 0]
    /\ book = <<>>
    /\ lost = {} /\ atOnce = {}
    /\ base = 0 /\ born = 0 /\ gone = {}
    /\ down = FALSE

\* The program starts again: init() opens the day's file for append and counts from 0,
\* whatever is in that file and in those after it.
Restart ==
    /\ down
    /\ Cardinality(LinesBegun) <= Early
    /\ queue' = <<>> /\ asleep' = FALSE /\ hand' = <<>>
    /\ today' = date /\ count' = 0
    /\ file' \in {<<date, 0>>, NoFile}
    /\ pc' = [w \in Writers |-> "out"]
    /\ base' = Len(book) /\ born' = date
    /\ gone' = LinesBegun \ (lost \cup {book[i].line : i \in DOMAIN book})
    /\ down' = FALSE
    /\ UNCHANGED <<date, day, made, book, lost, atOnce>>

Goto(w, from, to) == ~down /\ pc[w] = from /\ pc' = [pc EXCEPT ![w] = to]

\* fputs() and fflush(); a NULL stream ends the program.
Put(l) ==
    IF file = NoFile
    THEN down' = TRUE /\ UNCHANGED book
    ELSE book' = Append(book, [line |-> l, file |-> file]) /\ UNCHANGED down

-----------------------------------------------------------------------------
(* write_log()                                                             *)

\* localtime() converts into one buffer for all threads: the day copied from it
\* may be another writer's.
Stamp(w) ==
    /\ Goto(w, "out", "rotate")
    /\ <<w, made[w] + 1>> \in Lines
    /\ Cardinality(LinesBegun) < Crowd \/ \A v \in Writers \ {w} : made[v] = 0
    /\ made' = [made EXCEPT ![w] = @ + 1]
    /\ \E d \in {date} \cup {day[v] : v \in {u \in Writers : pc[u] = "rotate"}} :
          day' = [day EXCEPT ![w] = d]
    /\ UNCHANGED <<queue, asleep, hand, rotation, date, book, history, down>>

NewDay(w) == today # day[w]
Split(n) == n % SplitLines = 0

KeepFile(w) ==
    /\ Goto(w, "rotate", "full")
    /\ ~NewDay(w) /\ ~Split(count + 1)
    /\ count' = count + 1
    /\ UNCHANGED <<queue, asleep, hand, today, file, date, day, made, book, history, down>>

\* fclose(NULL)
RotateFails(w) ==
    /\ Goto(w, "rotate", "full")
    /\ NewDay(w) \/ Split(count + 1)
    /\ file = NoFile
    /\ down' = TRUE
    /\ UNCHANGED <<queue, asleep, hand, rotation, date, day, made, book, history>>

\* mutant: m_count starts anew with every file.
RotateCountsAgain(w) ==
    /\ Goto(w, "rotate", "full")
    /\ NewDay(w) \/ Split(count + 1)
    /\ file # NoFile
    /\ today' = day[w]
    /\ count' = 0
    /\ file' \in {NoFile, <<day[w], IF NewDay(w) THEN 0 ELSE (count + 1) \div SplitLines>>}
    /\ UNCHANGED <<queue, asleep, hand, date, day, made, book, history, down>>

\* fclose(), then fopen() on the new name, which may fail.
Rotate(w) ==
    /\ Goto(w, "rotate", "full")
    /\ NewDay(w) \/ Split(count + 1)
    /\ file # NoFile
    /\ today' = day[w]
    /\ count' = IF NewDay(w) THEN 0 ELSE count + 1
    /\ file' \in {NoFile, <<day[w], IF NewDay(w) THEN 0 ELSE (count + 1) \div SplitLines>>}
    /\ UNCHANGED <<queue, asleep, hand, date, day, made, book, history, down>>

\* mutant: full() tests > instead of >=.
AskFullLate(w) ==
    /\ Goto(w, "full", IF Len(queue) > MaxSize THEN "direct" ELSE "push")
    /\ UNCHANGED <<queue, asleep, hand, rotation, date, day, made, book, history, down>>

\* The line is put together, then full() asked.
AskFull(w) ==
    /\ Goto(w, "full", IF Len(queue) >= MaxSize THEN "direct" ELSE "push")
    /\ UNCHANGED <<queue, asleep, hand, rotation, date, day, made, book, history, down>>

\* push() may refuse after all; its result is not looked at.
PushRefused(w) ==
    /\ Goto(w, "push", "out")
    /\ Len(queue) >= MaxSize
    /\ asleep' = FALSE
    /\ lost' = lost \cup {Line(w)}
    /\ UNCHANGED <<queue, hand, rotation, date, day, made, book, atOnce, past, down>>

\* mutant: push() trusts full().
PushUnchecked(w) ==
    /\ Goto(w, "push", "out")
    /\ queue' = Append(queue, Line(w))
    /\ asleep' = FALSE
    /\ UNCHANGED <<hand, rotation, date, day, made, book, history, down>>

\* mutant: m_cond.broadcast() is forgotten.
PushSilently(w) ==
    /\ Goto(w, "push", "out")
    /\ Len(queue) < MaxSize
    /\ queue' = Append(queue, Line(w))
    /\ UNCHANGED <<asleep, hand, rotation, date, day, made, book, history, down>>

Push(w) ==
    /\ Goto(w, "push", "out")
    /\ Len(queue) < MaxSize
    /\ queue' = Append(queue, Line(w))
    /\ asleep' = FALSE
    /\ UNCHANGED <<hand, rotation, date, day, made, book, history, down>>

Direct(w) ==
    /\ Goto(w, "direct", "out")
    /\ Put(Line(w))
    /\ atOnce' = atOnce \cup {Line(w)}
    /\ UNCHANGED <<queue, asleep, hand, rotation, date, day, made, lost, past>>

-----------------------------------------------------------------------------
(* async_write_log(), with pop()'s wait                                    *)

Free == ~down /\ ~asleep /\ hand = <<>>

Sleep ==
    /\ Free
    /\ queue = <<>>
    /\ asleep' = TRUE
    /\ UNCHANGED <<queue, hand, rotation, date, threads, book, history, down>>

\* pthread_cond_wait() may return without a broadcast.
WakeUp ==
    /\ ~down /\ asleep
    /\ asleep' = FALSE
    /\ UNCHANGED <<queue, hand, rotation, date, threads, book, history, down>>

\* mutant: a stack.
PopNewest ==
    /\ Free
    /\ queue # <<>>
    /\ hand' = <<queue[Len(queue)]>>
    /\ queue' = SubSeq(queue, 1, Len(queue) - 1)
    /\ UNCHANGED <<asleep, rotation, date, threads, book, history, down>>

\* mutant: front() without pop().
PopCopy ==
    /\ Free
    /\ queue # <<>>
    /\ hand' = <<Head(queue)>>
    /\ UNCHANGED <<queue, asleep, rotation, date, threads, book, history, down>>

Pop ==
    /\ Free
    /\ queue # <<>>
    /\ hand' = <<Head(queue)>>
    /\ queue' = Tail(queue)
    /\ UNCHANGED <<asleep, rotation, date, threads, book, history, down>>

Flush ==
    /\ ~down
    /\ hand # <<>>
    /\ Put(Head(hand))
    /\ hand' = <<>>
    /\ UNCHANGED <<queue, asleep, rotation, date, threads, history>>

-----------------------------------------------------------------------------
\* The clock goes on when the program is down.
Midnight ==
    /\ date < LastDay
    /\ date' = date + 1
    /\ UNCHANGED <<queue, asleep, hand, rotation, threads, book, history, down>>

\* main() returns: ~Log() closes the file, nobody waits for the flush thread.
Exit ==
    /\ ~down
    /\ \A w \in Writers : pc[w] = "out"
    /\ down' = TRUE
    /\ UNCHANGED <<queue, asleep, hand, rotation, date, threads, book, history>>

WriteLog(w) ==
    \/ KeepFile(w) \/ Rotate(w) \/ RotateFails(w)
    \/ AskFull(w) \/ Push(w) \/ PushRefused(w) \/ Direct(w)

FlushThread == Sleep \/ Pop \/ Flush

Running ==
    \/ \E w \in Writers : Stamp(w) \/ WriteLog(w)
    \/ FlushThread \/ WakeUp
    \/ Midnight \/ Exit

Next == Running \/ Restart

Spec == Init /\ [][Next]_vars

\* Threads that can run do run; nobody has to call write_log(), to return from
\* main() or to wake up without a broadcast.
FairSpec ==
    /\ Spec
    /\ \A w \in Writers : WF_vars(WriteLog(w))
    /\ WF_vars(FlushThread)

-----------------------------------------------------------------------------
(* Properties                                                              *)

Queued(l) == {i \in DOMAIN queue : queue[i] = l}
InHand(l) == {i \in DOMAIN hand : hand[i] = l}
Written(l) == {i \in DOMAIN book : book[i].line = l}

\* write_log() has returned.
Returned(w) == {<<w, n>> : n \in 1..(made[w] - (IF pc[w] = "out" THEN 0 ELSE 1))}

Alone == \E w \in Writers : \A v \in Writers \ {w} : made[v] = 0

\* As long as the program runs, a line write_log() was called with is in the
\* queue, in the flush thread's hand or in a file - in one of them, once.  It is
\* none of these only when it ended with an earlier start, or when another thread
\* filled the queue between full() and push(): while one thread alone logs, as
\* main() does, nothing is lost.
NothingVanishes ==
    /\ \A w \in Writers : ~down => \A l \in Returned(w) :
        Cardinality(Queued(l)) + Cardinality(InHand(l)) + Cardinality(Written(l))
          = (IF l \in lost \cup gone THEN 0 ELSE 1)
    /\ Alone => lost = {}

\* Lines of one thread are in the files in the order of its calls, but for those
\* it wrote itself past a full queue.
InOrderUnlessFull ==
    \A i, j \in DOMAIN book :
        LET l == book[i].line
            m == book[j].line IN
        i < j /\ l[1] = m[1] /\ l[2] > m[2] => l \in atOnce

\* log.h:26 calls m_split_lines the maximal number of lines.  While one thread
\* logs, the first file of a start keeps to it; a later one may also get the backlog
\* of the file before: a full queue and the line in the flush thread's hand.  What a
\* file got from earlier starts of that day comes on top: log.cpp:55 opens it for
\* append, with m_count at 0.
FileBound ==
    Alone => \A f \in {book[i].file : i \in DOMAIN book} :
        Cardinality({i \in DOMAIN book : i > base /\ book[i].file = f})
          <= SplitLines + (IF f = <<born, 0>> THEN 0 ELSE MaxSize + 1)

\* The flush thread does not wait on m_cond while a line is queued.
AwakeForLines == asleep => queue = <<>>

\* A queued line gets into a file: the flush thread does not sleep on it.
EveryLineWritten == \A l \in Lines : Queued(l) # {} ~> (Written(l) # {} \/ down)

\* The threads and their queue implement the log book.
Promise == INSTANCE LogBook WITH
    todo <- IF down THEN <<>> ELSE hand \o queue,
    book <- [i \in DOMAIN book |-> book[i].line]

ImplementsLogBook == Promise!Spec
=============================================================================

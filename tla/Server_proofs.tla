---------------------------- MODULE Server_proofs ----------------------------
(***************************************************************************)
(* Proofs about Server for any number of descriptors, workers, events and  *)
(* time slots: type correctness, that main thread and workers never share  *)
(* a connection until one was reported twice under its first registration  *)
(* or a tick closed one a worker held, that m_user_count is exact till     *)
(* then, and that an open connection always has its timer and its deadline *)
(* is kept.                                                                *)
(***************************************************************************)
EXTENDS Server, FiniteSetTheorems, ProofLemmas, SequenceTheorems

-----------------------------------------------------------------------------
(* The inductive invariant                                                 *)

\* A worker that has returned from process() begins at its start.
IdleIsDone == \A w \in Workers : serving[w] = Idle => stage[w] = "process"

TimerOfOpen == \A f \in Fds : user[f] => own[f] # Freed

\* The pool has f, in the queue or in a worker's hands; it never has it twice.
Held(f) == (\E w \in Workers : serving[w] = f) \/ (\E i \in 1..Len(queue) : queue[i] = f)

Once ==
    /\ \A i, j \in 1..Len(queue) : queue[i] = queue[j] => i = j
    /\ \A v, w \in Workers : serving[v] = serving[w] /\ serving[v] # Idle => v = w
    /\ \A i \in 1..Len(queue), w \in Workers : queue[i] # serving[w]

\* What is in the pool, or has an event to be handled, cannot be reported.
Apart ==
    /\ \A f \in Fds : Held(f) => reg[f] \in {"level", "off"} /\ ~InBatch(f)
    /\ \A f \in Fds : InBatch(f) => reg[f] \in {"level", "off"}
    /\ \A d, e \in batch : d[1] = e[1] => d = e

\* A response is in m_writebuf only while the connection waits for EPOLLOUT or
\* is on its way there: the next request finds the buffer empty,
NothingLeft ==
    \A f \in Fds : written[f] # 0 =>
        \/ reg[f] \in {"none", "out"}
        \/ \E ev \in {"out", "hup"} : <<f, ev>> \in batch
        \/ \E w \in Workers : serving[w] = f /\ stage[w] = "out"

\* so process_write() does not fail and no worker closes a connection.
NobodyCloses == \A w \in Workers : stage[w] \in {"process", "in", "out"}

OpenIsRegistered == \A f \in Fds : user[f] <=> reg[f] # "none"
Open == {f \in Fds : user[f]}
Counted == OpenIsRegistered /\ count = Cardinality(Open)

Peace == Once /\ Apart /\ NothingLeft /\ NobodyCloses /\ Counted

IInv == TypeOK /\ IdleIsDone /\ TimerOfOpen /\ (~disturbed => Peace)

\* The disjuncts of Next, flattened once for all the step proofs.
LEMMA NextCases ==
    ASSUME Next
    PROVE  \/ EpollWait \/ Reject \/ ReadSignals \/ Tick \/ Elapse
           \/ \E f \in Fds : Accept(f) \/ HangUp(f) \/ ReadAndAppend(f) \/ ReadFails(f)
           \/ \E f \in Fds : WriteAgain(f) \/ WriteDone(f) \/ WriteFails(f)
           \/ \E w \in Workers : Take(w) \/ NeedMore(w) \/ Respond(w) \/ Overflow(w)
           \/ \E w \in Workers : CloseTest(w) \/ CloseRemove(w) \/ CloseDetach(w) \/ Rearm(w)
  BY DEF Next, HandleEvent, WorkerStep

-----------------------------------------------------------------------------
(* Lemmas about the operators                                              *)

\* epoll_wait() reports what a registration asks for, once per descriptor.
LEMMA Reported ==
    ASSUME TypeOK, batch' \in Events
    PROVE  /\ batch' \subseteq (Fds \cup {Listen}) \X {"in", "out", "hup"} \cup Signals
           /\ \A f \in Fds, e \in batch' : e[1] = f => \E ev \in Interest(f) : e = <<f, ev>>
           /\ \A d, e \in batch' : d[1] = e[1] => d = e
<1>1. batch' \subseteq Reportable /\ \A d, e \in batch' : d[1] = e[1] => d = e
  BY DEF Events
<1>2. ASSUME NEW e \in Reportable
      PROVE  \/ e = <<Listen, "in">>
             \/ \E f \in Fds : \E ev \in Interest(f) : e = <<f, ev>>
             \/ e \in Signals
  <2>1. CASE e \in Arrivals
    BY <2>1 DEF Arrivals
  <2>2. CASE \E f \in Fds : e \in {f} \X Interest(f)
    BY <2>2
  <2>3. CASE e \in (IF alarm = "set" THEN Signals ELSE {})
    BY <2>3
  <2>4. \/ e \in Arrivals \/ e \in UNION {{f} \X Interest(f) : f \in Fds}
        \/ e \in (IF alarm = "set" THEN Signals ELSE {})
    BY <1>2 DEF Reportable
  <2>5. CASE e \in UNION {{f} \X Interest(f) : f \in Fds}
    BY <2>2, <2>5
  <2> QED BY <2>1, <2>3, <2>4, <2>5
<1>3. \A f \in Fds : Interest(f) \subseteq {"in", "out", "hup"}
  BY DEF Interest
<1>4. \A e \in Signals : e[1] = Pipe
  BY DEF Signals
<1>5. batch' \subseteq (Fds \cup {Listen}) \X {"in", "out", "hup"} \cup Signals
  BY <1>1, <1>2, <1>3
<1>6. ASSUME NEW f \in Fds, NEW e \in batch', e[1] = f
      PROVE  \E ev \in Interest(f) : e = <<f, ev>>
  BY <1>1, <1>2, <1>4, <1>6, ServerAssumption
<1> QED BY <1>1, <1>5, <1>6

\* A handler takes the one event of its descriptor out of the batch.
LEMMA Handled ==
    ASSUME NEW f, NEW ev, Handle(f, ev)
    PROVE  /\ InBatch(f) /\ batch' \subseteq batch
           /\ \A g : InBatch(g)' => InBatch(g)
           /\ \A g, e : g # f => (<<g, e>> \in batch' <=> <<g, e>> \in batch)
           /\ (\A d, e \in batch : d[1] = e[1] => d = e) => ~InBatch(f)'
<1>1. <<f, ev>> \in batch /\ <<f, ev>>[1] = f /\ batch' = batch \ {<<f, ev>>}
  BY DEF Handle
<1>2. InBatch(f)
  BY <1>1 DEF InBatch
<1>3. \A g : InBatch(g)' => InBatch(g)
  BY <1>1 DEF InBatch
<1>4. \A g, e : g # f => (<<g, e>> \in batch' <=> <<g, e>> \in batch)
  BY <1>1
<1>5. ASSUME \A d, e \in batch : d[1] = e[1] => d = e
      PROVE  ~InBatch(f)'
  BY <1>1, <1>5 DEF InBatch
<1> QED BY <1>1, <1>2, <1>3, <1>4, <1>5

\* Sets of descriptors are finite.
LEMMA CountType ==
    ASSUME TypeOK
    PROVE  /\ IsFiniteSet(Open) /\ Cardinality(Open) \in Nat
           /\ \A F : F \subseteq Fds => IsFiniteSet(F) /\ Cardinality(F) \in Nat
<1>1. \A F : F \subseteq Fds => IsFiniteSet(F) /\ Cardinality(F) \in Nat
  BY ServerAssumption, FS_Subset, FS_CardinalityType
<1> QED BY <1>1 DEF Open

-----------------------------------------------------------------------------
\* Initially the pool, the batch and the set of open connections are empty.
LEMMA InvInit == Init => IInv
<1> SUFFICES ASSUME Init PROVE IInv
  OBVIOUS
<1> USE ServerAssumption DEF Init, Pool!Init
<1>1. queue = <<>> /\ queue \in Seq(Fds) /\ Len(queue) = 0
  OBVIOUS
<1>2. own \in [Fds -> 0..TTL \cup {Freed}] /\ stale \in [Fds -> SUBSET (0..TTL)]
  OBVIOUS
<1>3. written \in [Fds -> 0..Fits]
  OBVIOUS
<1>4. TypeOK
  <2>1. serving \in [Workers -> Fds \cup {Idle}] /\ seen \in [Workers -> Int] /\ count \in Int
    OBVIOUS
  <2>2. stage \in [Workers -> Stages] /\ reg \in [Fds -> Registrations] /\ user \in [Fds -> BOOLEAN]
    BY DEF Stages, Registrations
  <2>3. alarm \in {"set", "timeout", "lost"} /\ disturbed \in BOOLEAN /\ batch = {}
    OBVIOUS
  <2> QED BY <1>1, <1>2, <1>3, <2>1, <2>2, <2>3 DEF TypeOK
<1>5. IdleIsDone /\ TimerOfOpen
  BY DEF IdleIsDone, TimerOfOpen
<1>6. Once /\ Apart /\ NothingLeft /\ NobodyCloses
  BY <1>1 DEF Once, Apart, Held, InBatch, NothingLeft, NobodyCloses
<1>7. Open = {}
  BY DEF Open
<1>8. Counted
  BY <1>7, FS_EmptySet DEF Counted, OpenIsRegistered
<1> QED BY <1>4, <1>5, <1>6, <1>8 DEF IInv, Peace

\* close_conn() of any connections.
LEMMA CloseType ==
    ASSUME TypeOK, NEW F \in SUBSET Fds, CloseConn(F)
    PROVE  /\ reg' \in [Fds -> Registrations] /\ user' \in [Fds -> BOOLEAN]
           /\ count' \in Int
<1>1. IsFiniteSet({f \in F : user[f]}) /\ Cardinality({f \in F : user[f]}) \in Nat
  BY CountType
<1> QED BY <1>1, ServerAssumption DEF TypeOK, CloseConn, NotBelow, Registrations

\* Every action keeps the types.
LEMMA TypeStep ==
    ASSUME TypeOK, IdleIsDone, [Next]_vars
    PROVE  TypeOK'
<1> USE ServerAssumption DEF TypeOK, pool, worker, conn, timers
<1>1. CASE EpollWait
  BY <1>1, Reported DEF EpollWait, Registrations
<1>2. CASE Reject
  BY <1>2 DEF Reject, Handle
<1>3. CASE ReadSignals
  BY <1>3 DEF ReadSignals, Handle
<1>4. CASE Tick
  BY <1>4, CloseType DEF Tick
<1>5. CASE Elapse
  BY <1>5 DEF Elapse
<1>6. ASSUME NEW f \in Fds, Accept(f) PROVE TypeOK'
  BY <1>6 DEF Accept, Handle, Registrations
<1>7. ASSUME NEW f \in Fds, HangUp(f) PROVE TypeOK'
  BY <1>7, CloseType DEF HangUp, Handle
<1>8. ASSUME NEW f \in Fds, ReadAndAppend(f) PROVE TypeOK'
  <2>1. queue' \in Seq(Fds) /\ serving' = serving
    <3>1. CASE Pool!Accept(f)
      BY <3>1, AppendProperties DEF Pool!Accept
    <3>2. CASE UNCHANGED pool
      BY <3>2
    <3> QED BY <1>8, <3>1, <3>2 DEF ReadAndAppend
  <2>2. own' \in [Fds -> 0..TTL \cup {Freed}] /\ stale' = stale
    BY <1>8 DEF ReadAndAppend, Postpone
  <2> QED BY <1>8, <2>1, <2>2 DEF ReadAndAppend, Handle
<1>9. ASSUME NEW f \in Fds, ReadFails(f) \/ WriteFails(f) PROVE TypeOK'
  <2>1. own' \in [Fds -> 0..TTL \cup {Freed}] /\ stale' = stale
    BY <1>9 DEF ReadFails, WriteFails, CloseAndDelete
  <2>2. /\ reg' \in [Fds -> Registrations] /\ user' \in [Fds -> BOOLEAN]
        /\ count' \in Int
    BY <1>9, CloseType DEF ReadFails, WriteFails, CloseAndDelete
  <2>3. batch' \subseteq batch
    BY <1>9 DEF ReadFails, WriteFails, Handle
  <2> QED BY <1>9, <2>1, <2>2, <2>3 DEF ReadFails, WriteFails
<1>10. ASSUME NEW f \in Fds, WriteAgain(f) \/ WriteDone(f) PROVE TypeOK'
  <2>4. Postpone(f)
    BY <1>10 DEF WriteAgain, WriteDone
  <2>1. own' \in [Fds -> 0..TTL \cup {Freed}] /\ stale' = stale
    BY <2>4 DEF Postpone
  <2>2. reg' \in [Fds -> Registrations]
    BY <1>10 DEF WriteAgain, WriteDone, Modfd, Registrations
  <2>3. batch' \subseteq batch
    BY <1>10 DEF WriteAgain, WriteDone, Handle
  <2>5. written' \in [Fds -> 0..Fits]
    BY <1>10 DEF WriteAgain, WriteDone
  <2> QED BY <1>10, <2>1, <2>2, <2>3, <2>5 DEF WriteAgain, WriteDone
<1>11. ASSUME NEW w \in Workers, Take(w) PROVE TypeOK'
  BY <1>11 DEF Take, Pool!Take
<1>12. ASSUME NEW w \in Workers, NeedMore(w) \/ Respond(w) \/ Overflow(w) PROVE TypeOK'
  <2>1. stage' \in [Workers -> Stages] /\ serving[w] \in Fds
    BY <1>12 DEF NeedMore, Respond, Overflow, At, Stages
  <2>2. written' \in [Fds -> 0..Fits]
    BY <1>12, <2>1 DEF NeedMore, Respond, Overflow
  <2> QED BY <1>12, <2>1, <2>2 DEF NeedMore, Respond, Overflow
<1>13. ASSUME NEW w \in Workers, CloseTest(w) \/ CloseRemove(w) \/ CloseDetach(w) PROVE TypeOK'
  <2>1. stage' \in [Workers -> Stages] /\ serving[w] \in Fds
    BY <1>13 DEF CloseTest, CloseRemove, CloseDetach, At, Stages
  <2>2. seen' \in [Workers -> Int] /\ count' \in Int
    BY <1>13 DEF CloseTest, CloseRemove, CloseDetach, NotBelow
  <2>3. reg' \in [Fds -> Registrations] /\ user' \in [Fds -> BOOLEAN]
    BY <1>13 DEF CloseTest, CloseRemove, CloseDetach, Registrations
  <2> QED BY <1>13, <2>1, <2>2, <2>3 DEF CloseTest, CloseRemove, CloseDetach
<1>14. ASSUME NEW w \in Workers, Rearm(w) PROVE TypeOK'
  BY <1>14 DEF Rearm, Modfd, Pool!Finish, Stages, Registrations
<1>15. CASE UNCHANGED vars
  BY <1>15 DEF vars
<1> QED BY <1>1, <1>2, <1>3, <1>4, <1>5, <1>6, <1>7, <1>8, <1>9, <1>10, <1>11, <1>12, <1>13,
           <1>14, <1>15, NextCases

-----------------------------------------------------------------------------
(* What holds whatever was disturbed                                       *)

\* Only run()'s loop makes a worker idle, when process() has returned.
LEMMA IdleStep ==
    ASSUME TypeOK, IdleIsDone, [Next]_vars
    PROVE  IdleIsDone'
<1> USE DEF TypeOK, IdleIsDone, pool, worker, conn, timers
<1>1. CASE EpollWait \/ Reject \/ ReadSignals \/ Tick \/ Elapse
  BY <1>1 DEF EpollWait, Reject, ReadSignals, Tick, Elapse
<1>2. ASSUME NEW f \in Fds, Accept(f) \/ HangUp(f) \/ ReadAndAppend(f) \/ ReadFails(f)
      PROVE  IdleIsDone'
  BY <1>2 DEF Accept, HangUp, ReadAndAppend, ReadFails, Pool!Accept
<1>3. ASSUME NEW f \in Fds, WriteAgain(f) \/ WriteDone(f) \/ WriteFails(f)
      PROVE  IdleIsDone'
  BY <1>3 DEF WriteAgain, WriteDone, WriteFails
<1>4. ASSUME NEW w \in Workers, Take(w) \/ NeedMore(w) \/ Respond(w) \/ Overflow(w)
      PROVE  IdleIsDone'
  BY <1>4 DEF Take, NeedMore, Respond, Overflow, At, Pool!Take
<1>5. ASSUME NEW w \in Workers, CloseTest(w) \/ CloseRemove(w) \/ CloseDetach(w)
      PROVE  IdleIsDone'
  BY <1>5 DEF CloseTest, CloseRemove, CloseDetach, At
<1>6. ASSUME NEW w \in Workers, Rearm(w)
      PROVE  IdleIsDone'
  BY <1>6 DEF Rearm, Pool!Finish
<1>7. CASE UNCHANGED vars
  BY <1>7 DEF vars
<1> QED BY <1>1, <1>2, <1>3, <1>4, <1>5, <1>6, <1>7, NextCases

\* Every handler that frees a timer closes its connection; tick() does so too.
LEMMA TimerStep ==
    ASSUME TypeOK, TimerOfOpen, [Next]_vars
    PROVE  TimerOfOpen'
<1> USE ServerAssumption DEF TypeOK, TimerOfOpen, pool, worker, conn, timers
<1>1. CASE EpollWait \/ Reject \/ ReadSignals
  BY <1>1 DEF EpollWait, Reject, ReadSignals
<1>2. CASE Tick
  <2>1. ASSUME NEW f \in Fds, user'[f] PROVE user[f] /\ own[f] # 0 /\ own'[f] = own[f]
    BY <1>2, <2>1 DEF Tick, CloseConn, Due
  <2> QED BY <2>1
<1>3. CASE Elapse
  BY <1>3 DEF Elapse
<1>4. ASSUME NEW f \in Fds, Accept(f) PROVE TimerOfOpen'
  BY <1>4 DEF Accept
<1>5. ASSUME NEW f \in Fds, HangUp(f) PROVE TimerOfOpen'
  BY <1>5 DEF HangUp, CloseConn
<1>6. ASSUME NEW f \in Fds, ReadAndAppend(f) \/ WriteAgain(f) \/ WriteDone(f) PROVE TimerOfOpen'
  <2>1. Postpone(f) /\ user' = user
    BY <1>6 DEF ReadAndAppend, WriteAgain, WriteDone
  <2> QED BY <2>1 DEF Postpone
<1>7. ASSUME NEW f \in Fds, ReadFails(f) \/ WriteFails(f) PROVE TimerOfOpen'
  <2>1. CloseAndDelete(f)
    BY <1>7 DEF ReadFails, WriteFails
  <2> QED BY <2>1 DEF CloseAndDelete, CloseConn
<1>8. ASSUME NEW w \in Workers, Take(w) \/ NeedMore(w) \/ Respond(w) \/ Overflow(w)
      PROVE  TimerOfOpen'
  BY <1>8 DEF Take, NeedMore, Respond, Overflow
<1>9. ASSUME NEW w \in Workers, CloseTest(w) \/ CloseRemove(w) \/ CloseDetach(w) \/ Rearm(w)
      PROVE  TimerOfOpen'
  BY <1>9 DEF CloseTest, CloseRemove, CloseDetach, Rearm
<1>10. CASE UNCHANGED vars
  BY <1>10 DEF vars
<1> QED BY <1>1, <1>2, <1>3, <1>4, <1>5, <1>6, <1>7, <1>8, <1>9, <1>10, NextCases

-----------------------------------------------------------------------------
(* What holds until the hand-off is disturbed                              *)

\* Once disturbed, always disturbed.
LEMMA DisturbedGrows ==
    ASSUME TypeOK, [Next]_vars, ~disturbed'
    PROVE  ~disturbed
<1> USE DEF TypeOK
<1>1. CASE EpollWait \/ Reject \/ ReadSignals \/ Tick \/ Elapse
  BY <1>1 DEF EpollWait, Reject, ReadSignals, Tick, Elapse
<1>2. ASSUME NEW f \in Fds, Accept(f) \/ HangUp(f) \/ ReadAndAppend(f) \/ ReadFails(f)
      PROVE  disturbed' = disturbed
  BY <1>2 DEF Accept, HangUp, ReadAndAppend, ReadFails
<1>3. ASSUME NEW f \in Fds, WriteAgain(f) \/ WriteDone(f) \/ WriteFails(f)
      PROVE  disturbed' = disturbed
  BY <1>3 DEF WriteAgain, WriteDone, WriteFails
<1>4. ASSUME NEW w \in Workers, Take(w) \/ NeedMore(w) \/ Respond(w) \/ Overflow(w)
      PROVE  disturbed' = disturbed
  BY <1>4 DEF Take, NeedMore, Respond, Overflow
<1>5. ASSUME NEW w \in Workers, CloseTest(w) \/ CloseRemove(w) \/ CloseDetach(w) \/ Rearm(w)
      PROVE  disturbed' = disturbed
  BY <1>5 DEF CloseTest, CloseRemove, CloseDetach, Rearm
<1>6. CASE UNCHANGED vars
  BY <1>6 DEF vars
<1> QED BY <1>1, <1>2, <1>3, <1>4, <1>5, <1>6, NextCases

\* Appending a connection the pool does not have keeps each in it once.
LEMMA OnceAppended ==
    ASSUME TypeOK, Once, NEW f \in Fds, ~Held(f), Pool!Accept(f)
    PROVE  Once' /\ \A g \in Fds : Held(g)' => Held(g) \/ g = f
<1>1. queue \in Seq(Fds) /\ queue' = Append(queue, f) /\ serving' = serving
  BY DEF TypeOK, Pool!Accept
<1>2. /\ Len(queue') = Len(queue) + 1 /\ Len(queue) \in Nat
      /\ \A i \in 1..Len(queue) : queue'[i] = queue[i]
      /\ queue'[Len(queue) + 1] = f
  BY <1>1, AppendProperties, LenProperties
<1>3. \A i \in 1..Len(queue') : i \in 1..Len(queue) \/ i = Len(queue) + 1
  BY <1>2
<1>4. /\ \A i \in 1..Len(queue) : queue[i] # f
      /\ \A w \in Workers : serving[w] # f
  BY DEF Held
<1> QED BY <1>1, <1>2, <1>3, <1>4 DEF Once, Held

\* So does taking the oldest, by a worker that has none.
LEMMA OnceTaken ==
    ASSUME TypeOK, Once, NEW w \in Workers, Pool!Take(w)
    PROVE  Once' /\ \A g \in Fds : Held(g)' => Held(g)
<1>1. /\ queue \in Seq(Fds) /\ queue # <<>> /\ queue' = Tail(queue)
      /\ serving \in [Workers -> Fds \cup {Idle}]
      /\ serving' = [serving EXCEPT ![w] = queue[1]]
  BY DEF TypeOK, Pool!Take
<1>2. /\ Len(queue) \in Nat /\ Len(queue) >= 1 /\ Len(queue') = Len(queue) - 1
      /\ \A i \in 1..Len(queue') : queue'[i] = queue[i + 1]
  BY <1>1, HeadTailProperties, LenProperties, EmptySeq
<1>3. \A i \in 1..Len(queue') : i + 1 \in 1..Len(queue) /\ i + 1 # 1
  BY <1>2
<1>4. 1 \in 1..Len(queue)
  BY <1>2
<1>5. \A v \in Workers : serving'[v] = IF v = w THEN queue[1] ELSE serving[v]
  BY <1>1
<1>6. \A i, j \in 1..Len(queue') : queue'[i] = queue'[j] => i = j
  BY <1>2, <1>3 DEF Once
<1>7. \A u, v \in Workers : serving'[u] = serving'[v] /\ serving'[u] # Idle => u = v
  BY <1>4, <1>5 DEF Once
<1>8. \A i \in 1..Len(queue'), v \in Workers : queue'[i] # serving'[v]
  BY <1>2, <1>3, <1>4, <1>5 DEF Once
<1> QED BY <1>2, <1>3, <1>4, <1>5, <1>6, <1>7, <1>8 DEF Once, Held

\* And finishing one: the pool does not have it any more.
LEMMA OnceFinished ==
    ASSUME TypeOK, Once, NEW w \in Workers, Pool!Finish(w)
    PROVE  /\ Once' /\ (\A g \in Fds : Held(g)' => Held(g) /\ g # serving[w])
           /\ serving[w] \in Fds /\ Held(serving[w])
<1>1. /\ serving \in [Workers -> Fds \cup {Idle}] /\ serving[w] # Idle
      /\ serving' = [serving EXCEPT ![w] = Idle] /\ queue' = queue
      /\ queue \in Seq(Fds)
  BY DEF TypeOK, Pool!Finish
<1>2. \A v \in Workers : serving'[v] = IF v = w THEN Idle ELSE serving[v]
  BY <1>1
<1>3. \A i \in 1..Len(queue) : queue[i] \in Fds
  BY <1>1, ElementOfSeq
<1> QED BY <1>1, <1>2, <1>3, ServerAssumption DEF Once, Held

\* The pool changes in ReadAndAppend, Take and Rearm alone.
LEMMA OnceStep ==
    ASSUME TypeOK, Once, Apart, [Next]_vars
    PROVE  Once'
<1> USE DEF pool, worker, conn, timers
<1>1. CASE EpollWait \/ Reject \/ ReadSignals \/ Tick \/ Elapse
  BY <1>1 DEF EpollWait, Reject, ReadSignals, Tick, Elapse, Once
<1>2. ASSUME NEW f \in Fds, Accept(f) \/ HangUp(f) \/ ReadFails(f)
      PROVE  Once'
  BY <1>2 DEF Accept, HangUp, ReadFails, Once
<1>3. ASSUME NEW f \in Fds, ReadAndAppend(f)
      PROVE  Once'
  <2>1. ~Held(f)
    BY <1>3, Handled DEF ReadAndAppend, Apart
  <2>2. CASE UNCHANGED pool
    BY <2>2 DEF Once
  <2>3. CASE Pool!Accept(f)
    BY <2>1, <2>3, OnceAppended
  <2> QED BY <1>3, <2>2, <2>3 DEF ReadAndAppend
<1>4. ASSUME NEW f \in Fds, WriteAgain(f) \/ WriteDone(f) \/ WriteFails(f)
      PROVE  Once'
  BY <1>4 DEF WriteAgain, WriteDone, WriteFails, Once
<1>5. ASSUME NEW w \in Workers, Take(w)
      PROVE  Once'
  BY <1>5, OnceTaken DEF Take
<1>6. ASSUME NEW w \in Workers, NeedMore(w) \/ Respond(w) \/ Overflow(w)
      PROVE  Once'
  BY <1>6 DEF NeedMore, Respond, Overflow, Once
<1>7. ASSUME NEW w \in Workers, CloseTest(w) \/ CloseRemove(w) \/ CloseDetach(w)
      PROVE  Once'
  BY <1>7 DEF CloseTest, CloseRemove, CloseDetach, Once
<1>8. ASSUME NEW w \in Workers, Rearm(w)
      PROVE  Once'
  BY <1>8, OnceFinished DEF Rearm
<1>9. CASE UNCHANGED vars
  BY <1>9 DEF vars, Once
<1> QED BY <1>1, <1>2, <1>3, <1>4, <1>5, <1>6, <1>7, <1>8, <1>9, NextCases

\* epoll_wait() reports no connection of the pool: its shot is spent, or, with
\* EPOLLONESHOT missing, this report is the second and disturbs the hand-off.
LEMMA ApartWait ==
    ASSUME TypeOK, Apart, EpollWait, ~disturbed'
    PROVE  Apart'
<1> USE DEF TypeOK
<1>1. /\ batch' \in Events /\ UNCHANGED <<queue, serving>>
      /\ \A f \in Fds : reg'[f] = IF ~InBatch(f)' THEN reg[f]
                        ELSE IF reg[f] \in {"new", "level"} THEN "level" ELSE "off"
      /\ ~Refired
  BY DEF EpollWait, pool
<1>2. \A f \in Fds : Held(f)' = Held(f)
  BY <1>1 DEF Held
<1>3. ASSUME NEW f \in Fds, InBatch(f)'
      PROVE  reg'[f] \in {"level", "off"} /\ ~Held(f)
  <2>1. PICK e \in batch' : e[1] = f
    BY <1>3 DEF InBatch
  <2>2. Interest(f) # {}
    BY <1>1, <2>1, Reported
  <2>3. reg[f] \in {"new", "level", "in", "out"}
    BY <2>2 DEF Interest
  <2>4. reg[f] # "level"
    BY <1>1, <1>3 DEF Refired
  <2> QED BY <1>1, <1>3, <2>3, <2>4 DEF Apart
<1>4. \A d, e \in batch' : d[1] = e[1] => d = e
  BY <1>1, Reported
<1> QED BY <1>1, <1>2, <1>3, <1>4 DEF Apart

\* tick() closes no connection of the pool, or disturbs the hand-off.
LEMMA HeldNotReaped ==
    ASSUME TypeOK, Apart, OpenIsRegistered, Tick, ~disturbed', NEW f \in Fds, Held(f)
    PROVE  reg'[f] = reg[f]
<1>1. InFlight(f)
  BY DEF Held, InFlight, Holders, Queued
<1>2. ~Reaped
  BY DEF Tick, TypeOK
<1>3. ~(Due(f) /\ user[f])
  BY <1>1, <1>2 DEF Reaped
<1>4. reg' = [g \in Fds |-> IF g \in {h \in {i \in Fds : Due(i)} : user[h]} THEN "none" ELSE reg[g]]
  BY DEF Tick, CloseConn
<1> QED BY <1>3, <1>4

\* In every step, what is in the pool or has an event stays out of epoll's reach.
LEMMA ApartStep ==
    ASSUME TypeOK, Once, Apart, NobodyCloses, OpenIsRegistered, [Next]_vars, ~disturbed'
    PROVE  Apart'
<1> USE DEF TypeOK, pool, worker, conn, timers
<1> DEFINE SamePool == UNCHANGED <<queue, serving>>
<1>0. SamePool => \A g \in Fds : Held(g)' = Held(g)
  BY DEF Held
<1> HIDE DEF SamePool
<1>1. CASE EpollWait
  BY <1>1, ApartWait
<1>2. CASE Reject \/ ReadSignals
  <2>1. SamePool /\ batch' \subseteq batch /\ reg' = reg
    BY <1>2 DEF Reject, ReadSignals, Handle, SamePool
  <2> QED BY <1>0, <2>1 DEF Apart, InBatch
<1>3. CASE Tick
  <2>1. SamePool /\ batch' = batch /\ batch = {}
    BY <1>3 DEF Tick, SamePool
  <2>2. \A f \in Fds : Held(f) => reg'[f] = reg[f]
    BY <1>3, HeldNotReaped
  <2> QED BY <1>0, <2>1, <2>2 DEF Apart, InBatch
<1>4. CASE Elapse
  BY <1>4 DEF Elapse, Apart, Held, InBatch
<1>5. ASSUME NEW f \in Fds, Accept(f)
      PROVE  Apart'
  <2>1. SamePool /\ batch' \subseteq batch
    BY <1>5 DEF Accept, Handle, SamePool
  <2>2. reg[f] = "none" /\ \A g \in Fds : g # f => reg'[g] = reg[g]
    BY <1>5 DEF Accept
  <2>3. ~Held(f) /\ ~InBatch(f)
    BY <2>2 DEF Apart
  <2> QED BY <1>0, <2>1, <2>2, <2>3 DEF Apart, InBatch
<1>6. ASSUME NEW f \in Fds, HangUp(f) \/ ReadFails(f) \/ WriteFails(f) \/ WriteAgain(f) \/ WriteDone(f)
      PROVE  Apart'
  <2>1. SamePool /\ \E ev : Handle(f, ev)
    BY <1>6 DEF HangUp, ReadFails, WriteFails, WriteAgain, WriteDone, SamePool
  <2>2. \A g \in Fds : g # f => reg'[g] = reg[g]
    BY <1>6 DEF HangUp, ReadFails, WriteFails, WriteAgain, WriteDone, CloseAndDelete, CloseConn, Modfd
  <2>3. InBatch(f) /\ ~InBatch(f)' /\ batch' \subseteq batch
    BY <2>1, Handled DEF Apart
  <2>4. ~Held(f)
    BY <2>3 DEF Apart
  <2> QED BY <1>0, <2>1, <2>2, <2>3, <2>4 DEF Apart, InBatch
<1>7. ASSUME NEW f \in Fds, ReadAndAppend(f)
      PROVE  Apart'
  <2>1. Handle(f, "in") /\ reg' = reg
    BY <1>7 DEF ReadAndAppend
  <2>2. InBatch(f) /\ ~InBatch(f)' /\ batch' \subseteq batch
    BY <2>1, Handled DEF Apart
  <2>3. ~Held(f) /\ reg[f] \in {"level", "off"}
    BY <2>2 DEF Apart
  <2>4. \A g \in Fds : Held(g)' => Held(g) \/ g = f
    <3>1. CASE SamePool
      BY <1>0, <3>1
    <3>2. CASE Pool!Accept(f)
      BY <2>3, <3>2, OnceAppended
    <3> QED BY <1>7, <3>1, <3>2 DEF ReadAndAppend, SamePool
  <2> QED BY <2>1, <2>2, <2>3, <2>4 DEF Apart, InBatch
<1>8. ASSUME NEW w \in Workers, Take(w)
      PROVE  Apart'
  <2>1. batch' = batch /\ reg' = reg /\ \A g \in Fds : Held(g)' => Held(g)
    BY <1>8, OnceTaken DEF Take
  <2> QED BY <2>1 DEF Apart, InBatch
<1>9. ASSUME NEW w \in Workers, NeedMore(w) \/ Respond(w) \/ Overflow(w)
      PROVE  Apart'
  <2>1. SamePool /\ batch' = batch /\ reg' = reg
    BY <1>9 DEF NeedMore, Respond, Overflow, SamePool
  <2> QED BY <1>0, <2>1 DEF Apart, InBatch
<1>10. ASSUME NEW w \in Workers, CloseTest(w) \/ CloseRemove(w) \/ CloseDetach(w)
       PROVE  Apart'
  BY <1>10 DEF CloseTest, CloseRemove, CloseDetach, At, NobodyCloses
<1>11. ASSUME NEW w \in Workers, Rearm(w)
       PROVE  Apart'
  <2>1. /\ serving[w] \in Fds /\ Held(serving[w])
        /\ \A g \in Fds : Held(g)' => Held(g) /\ g # serving[w]
    BY <1>11, OnceFinished DEF Rearm
  <2>2. batch' = batch /\ \A g \in Fds : g # serving[w] => reg'[g] = reg[g]
    BY <1>11, <2>1 DEF Rearm, Modfd
  <2> QED BY <2>1, <2>2 DEF Apart, InBatch
<1>12. CASE UNCHANGED vars
  BY <1>12 DEF vars, Apart, Held, InBatch
<1> QED BY <1>1, <1>2, <1>3, <1>4, <1>5, <1>6, <1>7, <1>8, <1>9, <1>10, <1>11, <1>12, NextCases

\* A connection a worker begins with has no response in its buffer: it is not
\* waiting for EPOLLOUT, and no other worker has it.
LEMMA BufferEmpty ==
    ASSUME TypeOK, Once, Apart, NothingLeft, NEW w \in Workers,
           serving[w] # Idle, stage[w] # "out"
    PROVE  serving[w] \in Fds /\ written[serving[w]] = 0
<1> DEFINE f == serving[w]
<1>1. f \in Fds /\ Held(f)
  BY DEF TypeOK, Held
<1>2. reg[f] \in {"level", "off"} /\ ~InBatch(f)
  BY <1>1 DEF Apart
<1>3. \A ev : <<f, ev>> \notin batch
  BY <1>2 DEF InBatch
<1>4. \A v \in Workers : serving[v] = f => v = w
  BY <1>1 DEF Once
<1> QED BY <1>1, <1>2, <1>3, <1>4 DEF NothingLeft

\* epoll_wait() takes the registration for EPOLLOUT and puts the event in the batch.
LEMMA LeftWait ==
    ASSUME TypeOK, NothingLeft, EpollWait
    PROVE  NothingLeft'
<1>1. /\ batch = {} /\ batch' \in Events /\ UNCHANGED <<serving, stage, written>>
      /\ \A f \in Fds : reg'[f] = IF ~InBatch(f)' THEN reg[f]
                        ELSE IF reg[f] \in {"new", "level"} THEN "level" ELSE "off"
  BY DEF EpollWait, pool, worker, TypeOK
<1>2. SUFFICES ASSUME NEW f \in Fds, written'[f] # 0, reg[f] \in {"none", "out"}, InBatch(f)'
               PROVE  \E ev \in {"out", "hup"} : <<f, ev>> \in batch'
  BY <1>1 DEF NothingLeft
<1>3. PICK e \in batch' : e[1] = f
  BY <1>2 DEF InBatch
<1>4. PICK ev \in Interest(f) : e = <<f, ev>>
  BY <1>1, <1>3, Reported
<1>5. ev \in {"out", "hup"}
  BY <1>2, <1>4 DEF Interest
<1> QED BY <1>3, <1>4, <1>5

\* Nothing is left behind by a step that leaves epoll, the batch and the buffers
\* alone, and takes no connection from a worker about to arm it for EPOLLOUT.
LEMMA LeftKept ==
    ASSUME NothingLeft, UNCHANGED <<batch, reg, written>>,
           \A v \in Workers, g \in Fds : serving[v] = g /\ stage[v] = "out"
                                             => serving'[v] = g /\ stage'[v] = "out"
    PROVE  NothingLeft'
  BY DEF NothingLeft

\* A step that touches one connection alone, and leaves no response behind there.
LEMMA LeftAside ==
    ASSUME NothingLeft, NEW f \in Fds, UNCHANGED <<serving, stage>>,
           written'[f] = 0 \/ reg'[f] \in {"none", "out"},
           \A g \in Fds : g # f => written'[g] = written[g] /\ reg'[g] = reg[g],
           \A g \in Fds : g # f => \A ev : <<g, ev>> \in batch => <<g, ev>> \in batch'
    PROVE  NothingLeft'
<1> SUFFICES ASSUME NEW g \in Fds, written'[g] # 0
             PROVE  \/ reg'[g] \in {"none", "out"}
                    \/ \E ev \in {"out", "hup"} : <<g, ev>> \in batch'
                    \/ \E w \in Workers : serving'[w] = g /\ stage'[w] = "out"
  BY DEF NothingLeft
<1>1. CASE g = f
  BY <1>1
<1>2. CASE g # f
  <2>1. written[g] # 0 /\ reg'[g] = reg[g]
    BY <1>2
  <2>2. \/ reg[g] \in {"none", "out"}
        \/ \E ev \in {"out", "hup"} : <<g, ev>> \in batch
        \/ \E w \in Workers : serving[w] = g /\ stage[w] = "out"
    BY <2>1 DEF NothingLeft
  <2>3. \A ev : <<g, ev>> \in batch => <<g, ev>> \in batch'
    BY <1>2
  <2> QED BY <2>1, <2>2, <2>3
<1> QED BY <1>1, <1>2

\* In every step, a response in m_writebuf keeps its way to EPOLLOUT.
LEMMA LeftStep ==
    ASSUME TypeOK, Once, Apart, NothingLeft, NobodyCloses, OpenIsRegistered, [Next]_vars
    PROVE  NothingLeft'
<1> USE DEF TypeOK, pool, worker, conn, timers
<1>1. CASE EpollWait
  BY <1>1, LeftWait
<1>2. CASE Reject \/ ReadSignals
  <2>1. UNCHANGED <<reg, written, serving, stage>>
    BY <1>2 DEF Reject, ReadSignals
  <2>2. \A f \in Fds : \A ev : <<f, ev>> \in batch => <<f, ev>> \in batch'
    BY <1>2, Handled, ServerAssumption DEF Reject, ReadSignals
  <2> QED BY <2>1, <2>2 DEF NothingLeft
<1>3. CASE Tick
  <2>1. /\ UNCHANGED <<written, serving, stage, batch>>
        /\ \A f \in Fds : reg'[f] = reg[f] \/ reg'[f] = "none"
    BY <1>3 DEF Tick, CloseConn
  <2> QED BY <2>1 DEF NothingLeft
<1>4. CASE Elapse
  BY <1>4 DEF Elapse, NothingLeft
<1>5. ASSUME NEW f \in Fds, Accept(f)
      PROVE  NothingLeft'
  <2>1. /\ written'[f] = 0 /\ UNCHANGED <<serving, stage>>
        /\ \A g \in Fds : g # f => written'[g] = written[g] /\ reg'[g] = reg[g]
    BY <1>5 DEF Accept
  <2>2. \A g \in Fds : \A ev : <<g, ev>> \in batch => <<g, ev>> \in batch'
    BY <1>5, Handled, ServerAssumption DEF Accept
  <2> QED BY <2>1, <2>2, LeftAside
<1>6. ASSUME NEW f \in Fds, HangUp(f) \/ ReadFails(f) \/ WriteFails(f)
      PROVE  NothingLeft'
  <2>1. UNCHANGED <<written, serving, stage>> /\ \E ev : Handle(f, ev)
    BY <1>6 DEF HangUp, ReadFails, WriteFails
  <2>2. CloseConn({f})
    BY <1>6 DEF HangUp, ReadFails, WriteFails, CloseAndDelete
  <2>3. reg'[f] = "none" /\ \A g \in Fds : g # f => reg'[g] = reg[g]
    BY <2>2 DEF CloseConn, OpenIsRegistered
  <2>4. \A g, ev : g # f => (<<g, ev>> \in batch <=> <<g, ev>> \in batch')
    BY <2>1, Handled
  <2> QED BY <2>1, <2>3, <2>4, LeftAside
<1>7. ASSUME NEW f \in Fds, ReadAndAppend(f)
      PROVE  NothingLeft'
  <2>1. UNCHANGED <<written, serving, stage, reg>> /\ Handle(f, "in")
    BY <1>7 DEF ReadAndAppend, Pool!Accept
  <2>2. \A g, ev : ev # "in" => (<<g, ev>> \in batch => <<g, ev>> \in batch')
    BY <2>1 DEF Handle
  <2> QED BY <2>1, <2>2, ZenonT(40) DEF NothingLeft
<1>8. ASSUME NEW f \in Fds, WriteAgain(f)
      PROVE  NothingLeft'
  <2>1. UNCHANGED <<written, serving, stage>> /\ Handle(f, "out")
    BY <1>8 DEF WriteAgain
  <2>2. reg'[f] = "out" /\ \A g \in Fds : g # f => reg'[g] = reg[g]
    BY <1>8 DEF WriteAgain, Modfd
  <2>3. \A g, ev : g # f => (<<g, ev>> \in batch <=> <<g, ev>> \in batch')
    BY <2>1, Handled
  <2> QED BY <2>1, <2>2, <2>3, LeftAside
<1>9. ASSUME NEW f \in Fds, WriteDone(f)
      PROVE  NothingLeft'
  <2>1. UNCHANGED <<serving, stage>> /\ Handle(f, "out")
    BY <1>9 DEF WriteDone
  <2>2. written'[f] = 0 /\ \A g \in Fds : g # f => written'[g] = written[g] /\ reg'[g] = reg[g]
    BY <1>9 DEF WriteDone, Modfd
  <2>3. \A g, ev : g # f => (<<g, ev>> \in batch <=> <<g, ev>> \in batch')
    BY <2>1, Handled
  <2> QED BY <2>1, <2>2, <2>3, LeftAside
<1>10. ASSUME NEW w \in Workers, Take(w)
       PROVE  NothingLeft'
  <2>1. UNCHANGED <<stage, batch, reg, written>>
    BY <1>10 DEF Take
  <2>2. serving[w] = Idle /\ \A v \in Workers : v # w => serving'[v] = serving[v]
    BY <1>10 DEF Take, Pool!Take
  <2> QED BY <2>1, <2>2, LeftKept, ServerAssumption
<1>11. ASSUME NEW w \in Workers, NeedMore(w) \/ Overflow(w)
       PROVE  NothingLeft'
  <2>1. UNCHANGED <<serving, batch, reg, written>>
    BY <1>11 DEF NeedMore, Overflow
  <2>2. stage[w] = "process" /\ \A v \in Workers : v # w => stage'[v] = stage[v]
    BY <1>11 DEF NeedMore, Overflow, At
  <2> QED BY <2>1, <2>2, LeftKept
<1>12. ASSUME NEW w \in Workers, Respond(w)
       PROVE  NothingLeft'
  <2>1. /\ UNCHANGED <<serving, batch, reg>>
        /\ \A g \in Fds : g # serving[w] => written'[g] = written[g]
    BY <1>12 DEF Respond
  <2>2. stage'[w] = "out" /\ \A v \in Workers : stage[v] = "out" => stage'[v] = "out"
    BY <1>12 DEF Respond, At
  <2> QED BY <2>1, <2>2 DEF NothingLeft
<1>13. ASSUME NEW w \in Workers, CloseTest(w) \/ CloseRemove(w) \/ CloseDetach(w)
       PROVE  NothingLeft'
  BY <1>13 DEF CloseTest, CloseRemove, CloseDetach, At, NobodyCloses
<1>14. ASSUME NEW w \in Workers, Rearm(w)
       PROVE  NothingLeft'
  <2>1. /\ serving[w] \in Fds /\ Held(serving[w]) /\ serving[w] # Idle
        /\ \A v \in Workers : v # w => serving'[v] = serving[v] /\ stage'[v] = stage[v]
        /\ UNCHANGED <<batch, written>>
    BY <1>14, OnceFinished DEF Rearm, Pool!Finish
  <2>2. user[serving[w]] /\ reg[serving[w]] # "none"
    BY <2>1 DEF Apart, OpenIsRegistered
  <2>3. /\ reg'[serving[w]] = stage[w]
        /\ \A g \in Fds : g # serving[w] => reg'[g] = reg[g]
    BY <1>14, <2>1, <2>2 DEF Rearm, Modfd
  <2>4. stage[w] = "out" \/ written[serving[w]] = 0
    BY <2>1, BufferEmpty
  <2>5. ASSUME NEW g \in Fds, written'[g] # 0, g = serving[w]
        PROVE  reg'[g] = "out"
    BY <2>1, <2>3, <2>4, <2>5
  <2>6. ASSUME NEW g \in Fds, NEW v \in Workers, g # serving[w], serving[v] = g, stage[v] = "out"
        PROVE  serving'[v] = g /\ stage'[v] = "out"
    BY <2>1, <2>6
  <2>7. ASSUME NEW g \in Fds, written'[g] # 0, g # serving[w]
        PROVE  \/ reg'[g] \in {"none", "out"}
               \/ \E ev \in {"out", "hup"} : <<g, ev>> \in batch'
               \/ \E v \in Workers : serving'[v] = g /\ stage'[v] = "out"
    <3>1. written[g] # 0 /\ reg'[g] = reg[g] /\ batch' = batch
      BY <2>1, <2>3, <2>7
    <3>2. (\E v \in Workers : serving[v] = g /\ stage[v] = "out")
          => \E v \in Workers : serving'[v] = g /\ stage'[v] = "out"
      BY <2>6, <2>7
    <3> QED BY <3>1, <3>2 DEF NothingLeft
  <2> QED BY <2>5, <2>7 DEF NothingLeft
<1>15. CASE UNCHANGED vars
  BY <1>15 DEF vars, NothingLeft
<1> QED BY <1>1, <1>2, <1>3, <1>4, <1>5, <1>6, <1>7, <1>8, <1>9, <1>10, <1>11, <1>12, <1>13,
           <1>14, <1>15, NextCases

\* process_write() finds room, so no worker calls close_conn().
LEMMA NobodyClosesStep ==
    ASSUME TypeOK, Once, Apart, NothingLeft, NobodyCloses, [Next]_vars
    PROVE  NobodyCloses'
<1> USE DEF TypeOK, pool, worker, conn, timers, NobodyCloses
<1>1. CASE EpollWait \/ Reject \/ ReadSignals \/ Tick \/ Elapse
  BY <1>1 DEF EpollWait, Reject, ReadSignals, Tick, Elapse
<1>2. ASSUME NEW f \in Fds, Accept(f) \/ HangUp(f) \/ ReadAndAppend(f) \/ ReadFails(f)
      PROVE  NobodyCloses'
  BY <1>2 DEF Accept, HangUp, ReadAndAppend, ReadFails
<1>3. ASSUME NEW f \in Fds, WriteAgain(f) \/ WriteDone(f) \/ WriteFails(f)
      PROVE  NobodyCloses'
  BY <1>3 DEF WriteAgain, WriteDone, WriteFails
<1>4. ASSUME NEW w \in Workers, Take(w) \/ NeedMore(w) \/ Respond(w) \/ Rearm(w)
      PROVE  NobodyCloses'
  BY <1>4 DEF Take, NeedMore, Respond, Rearm, At
<1>5. ASSUME NEW w \in Workers, Overflow(w)
      PROVE  FALSE
  <2>1. serving[w] # Idle /\ stage[w] = "process" /\ written[serving[w]] = Fits
    BY <1>5 DEF Overflow, At
  <2> QED BY <2>1, BufferEmpty, ServerAssumption
<1>6. ASSUME NEW w \in Workers, CloseTest(w) \/ CloseRemove(w) \/ CloseDetach(w)
      PROVE  FALSE
  BY <1>6 DEF CloseTest, CloseRemove, CloseDetach, At
<1>7. CASE UNCHANGED vars
  BY <1>7 DEF vars
<1> QED BY <1>1, <1>2, <1>3, <1>4, <1>5, <1>6, <1>7, NextCases

\* close_conn(), by the main thread: what it takes off the count it closes.
LEMMA CountClosed ==
    ASSUME TypeOK, Counted, NEW F \in SUBSET Fds, CloseConn(F)
    PROVE  Counted'
<1> DEFINE C == {f \in F : user[f]}
<1>1. /\ reg' = [f \in Fds |-> IF f \in C THEN "none" ELSE reg[f]]
      /\ user' = [f \in Fds |-> user[f] /\ f \notin C]
      /\ count' = NotBelow(count - Cardinality(C))
  BY DEF CloseConn
<1>2. C \subseteq Fds /\ C \subseteq Open /\ C \cap Open = C /\ Open \cap C = C
  BY DEF Open
<1>3. IsFiniteSet(Open) /\ Cardinality(Open) \in Nat /\ Cardinality(C) \in Nat
  BY <1>2, CountType
<1>4. Open' = Open \ C
  BY <1>1 DEF Open
<1>5. Cardinality(Open') = Cardinality(Open) - Cardinality(C) /\ Cardinality(Open') \in Nat
  <2>1. IsFiniteSet(Open \ C) /\ Cardinality(Open \ C) = Cardinality(Open) - Cardinality(Open \cap C)
    BY <1>3, FS_Difference
  <2> QED BY <1>2, <1>4, <2>1, FS_CardinalityType
<1> HIDE DEF C
<1>6. count' = Cardinality(Open')
  BY <1>1, <1>3, <1>5, ServerAssumption DEF Counted, NotBelow
<1>7. OpenIsRegistered'
  <2> SUFFICES ASSUME NEW f \in Fds PROVE user'[f] <=> reg'[f] # "none"
    BY DEF OpenIsRegistered
  <2>1. user[f] <=> reg[f] # "none"
    BY DEF Counted, OpenIsRegistered
  <2>2. f \in C => user[f]
    BY <1>2 DEF Open
  <2> QED BY <1>1, <2>1, <2>2
<1> QED BY <1>6, <1>7 DEF Counted

\* main() counts the connection it accepts, under a descriptor that was free.
LEMMA CountAccepted ==
    ASSUME TypeOK, Counted, NEW f \in Fds, Accept(f)
    PROVE  Counted'
<1>1. /\ reg[f] = "none" /\ reg' = [reg EXCEPT ![f] = "new"]
      /\ user' = [user EXCEPT ![f] = TRUE] /\ count' = count + 1
      /\ reg \in [Fds -> Registrations] /\ user \in [Fds -> BOOLEAN]
  BY DEF Accept, TypeOK
<1>2. OpenIsRegistered /\ ~user[f] /\ f \notin Open
  BY <1>1 DEF Counted, OpenIsRegistered, Open
<1>3. Open' = Open \cup {f}
  BY <1>1 DEF Open
<1>4. Cardinality(Open') = Cardinality(Open) + 1
  BY <1>2, <1>3, CountType, FS_AddElement
<1>5. OpenIsRegistered'
  BY <1>1, <1>2 DEF OpenIsRegistered
<1> QED BY <1>1, <1>4, <1>5 DEF Counted

\* In every step but a worker's close_conn(), which there is none, m_user_count,
\* m_sockfd and the epoll set move together.
LEMMA CountStep ==
    ASSUME TypeOK, TypeOK', Once, Apart, NobodyCloses, Counted, [Next]_vars
    PROVE  Counted'
<1> USE DEF pool, worker, conn, timers
<1> DEFINE Same == UNCHANGED <<user, count>> /\ \A f \in Fds : reg[f] = "none" <=> reg'[f] = "none"
<1>0. Same => Counted'
  BY DEF Counted, OpenIsRegistered, Open
<1>1. CASE EpollWait
  <2>1. batch' \in Events
    BY <1>1 DEF EpollWait
  <2>2. ASSUME NEW f \in Fds, reg[f] = "none" PROVE ~InBatch(f)'
    <3>1. Interest(f) = {}
      BY <2>2 DEF Interest
    <3> QED BY <2>1, <3>1, Reported DEF InBatch
  <2>3. Same
    BY <1>1, <2>2 DEF EpollWait
  <2> QED BY <1>0, <2>3
<1>2. CASE Reject \/ ReadSignals \/ Elapse
  BY <1>0, <1>2 DEF Reject, ReadSignals, Elapse
<1>3. CASE Tick
  BY <1>3, CountClosed DEF Tick
<1>4. ASSUME NEW f \in Fds, Accept(f)
      PROVE  Counted'
  BY <1>4, CountAccepted
<1>5. ASSUME NEW f \in Fds, HangUp(f) \/ ReadFails(f) \/ WriteFails(f)
      PROVE  Counted'
  BY <1>5, CountClosed DEF HangUp, ReadFails, WriteFails, CloseAndDelete
<1>6. ASSUME NEW f \in Fds, ReadAndAppend(f)
      PROVE  Counted'
  BY <1>0, <1>6 DEF ReadAndAppend
<1>7. ASSUME NEW f \in Fds, WriteAgain(f) \/ WriteDone(f)
      PROVE  Counted'
  <2>1. Same
    BY <1>7 DEF WriteAgain, WriteDone, Modfd, TypeOK
  <2> QED BY <1>0, <2>1
<1>8. ASSUME NEW w \in Workers, Take(w) \/ NeedMore(w) \/ Respond(w) \/ Overflow(w)
      PROVE  Counted'
  BY <1>0, <1>8 DEF Take, NeedMore, Respond, Overflow
<1>9. ASSUME NEW w \in Workers, CloseTest(w) \/ CloseRemove(w) \/ CloseDetach(w)
      PROVE  Counted'
  BY <1>9 DEF CloseTest, CloseRemove, CloseDetach, At, NobodyCloses
<1>10. ASSUME NEW w \in Workers, Rearm(w)
       PROVE  Counted'
  <2>1. Same
    BY <1>10 DEF Rearm, Modfd, TypeOK
  <2> QED BY <1>0, <2>1
<1>11. CASE UNCHANGED vars
  BY <1>0, <1>11 DEF vars
<1> QED BY <1>1, <1>2, <1>3, <1>4, <1>5, <1>6, <1>7, <1>8, <1>9, <1>10, <1>11, NextCases

-----------------------------------------------------------------------------
(* The theorems                                                            *)

\* The conjunction of all the parts is inductive.
LEMMA Invariant == Spec => []IInv
<1>1. ASSUME IInv, [Next]_vars PROVE IInv'
  <2>1. TypeOK' /\ IdleIsDone' /\ TimerOfOpen'
    BY <1>1, TypeStep, IdleStep, TimerStep DEF IInv
  <2>2. ASSUME ~disturbed' PROVE Peace'
    <3>1. Peace /\ TypeOK
      BY <1>1, <2>2, DisturbedGrows DEF IInv
    <3>2. Once'
      BY <1>1, <3>1, OnceStep DEF Peace
    <3>3. Apart'
      BY <1>1, <2>2, <3>1, ApartStep DEF Peace, Counted
    <3>4. NothingLeft' /\ NobodyCloses'
      BY <1>1, <3>1, LeftStep, NobodyClosesStep DEF Peace, Counted
    <3>5. Counted'
      BY <1>1, <2>1, <3>1, CountStep DEF Peace
    <3> QED BY <3>2, <3>3, <3>4, <3>5 DEF Peace
  <2> QED BY <2>1, <2>2 DEF IInv
<1> QED BY InvInit, <1>1, PTL DEF Spec

\* Every variable keeps its type; m_writebuf never holds more than Fits responses.
THEOREM TypeCorrect == Spec => []TypeOK
<1>1. IInv => TypeOK
  BY DEF IInv
<1> QED BY Invariant, <1>1, PTL

\* Main thread and workers never share a connection, and the pool has each at
\* most once - until epoll reports one a second time under the registration of
\* addfd() or a tick closes one that is in the pool.
THEOREM NeverShared == Spec => []HandOff
<1>1. IInv => HandOff
  <2> SUFFICES ASSUME IInv, ~disturbed, NEW f \in Fds, InFlight(f)
               PROVE  /\ Cardinality(Holders(f)) + Cardinality(Queued(f)) = 1
                      /\ reg[f] \in {"level", "off"} /\ ~InBatch(f)
    BY DEF HandOff
  <2>1. Peace /\ TypeOK
    BY DEF IInv
  <2>2. Held(f)
    BY DEF InFlight, Held, Holders, Queued
  <2>3. reg[f] \in {"level", "off"} /\ ~InBatch(f)
    BY <2>1, <2>2 DEF Peace, Apart
  <2>4. ASSUME NEW w \in Workers, serving[w] = f
        PROVE  Holders(f) = {w} /\ Queued(f) = {}
    BY <2>1, <2>4, ServerAssumption DEF Peace, Once, Holders, Queued
  <2>5. ASSUME NEW i \in 1..Len(queue), queue[i] = f
        PROVE  Holders(f) = {} /\ Queued(f) = {i}
    BY <2>1, <2>5 DEF Peace, Once, Holders, Queued
  <2>6. Cardinality({}) = 0 /\ \A x : Cardinality({x}) = 1
    BY FS_EmptySet, FS_Singleton
  <2>7. Cardinality(Holders(f)) + Cardinality(Queued(f)) = 1
    <3>1. CASE \E w \in Workers : serving[w] = f
      <4>1. PICK w \in Workers : serving[w] = f
        BY <3>1
      <4>2. Cardinality(Holders(f)) = 1 /\ Cardinality(Queued(f)) = 0
        BY <2>4, <2>6, <4>1
      <4> QED BY <4>2
    <3>2. CASE \E i \in 1..Len(queue) : queue[i] = f
      <4>1. PICK i \in 1..Len(queue) : queue[i] = f
        BY <3>2
      <4>2. Cardinality(Holders(f)) = 0 /\ Cardinality(Queued(f)) = 1
        BY <2>5, <2>6, <4>1
      <4> QED BY <4>2
    <3> QED BY <2>2, <3>1, <3>2 DEF Held
  <2> QED BY <2>3, <2>7
<1> QED BY Invariant, <1>1, PTL

\* m_user_count is the number of open connections, and these are the ones epoll
\* knows, for as long: no step of a worker touches any of them.
THEOREM UsersCounted == Spec => []CountExact
<1>1. IInv => CountExact
  BY DEF IInv, Peace, Counted, OpenIsRegistered, Open, CountExact
<1> QED BY Invariant, <1>1, PTL

\* No open connection is without its timer, ever, and no handler follows a freed
\* users_timer[f].timer while the hand-off is undisturbed.
THEOREM NoneImmortal == Spec => []OpenHasTimer
<1>1. IInv => OpenHasTimer
  <2> SUFFICES ASSUME IInv, NEW f \in Fds, ~disturbed, InBatch(f)
               PROVE  user[f]
    BY DEF OpenHasTimer, IInv, TimerOfOpen
  <2> QED BY DEF IInv, Peace, Apart, Counted, OpenIsRegistered
<1> QED BY Invariant, <1>1, PTL

-----------------------------------------------------------------------------
(* Deadlines                                                               *)

\* The deadline of an open connection is a number of slots.
LEMMA OpenDeadline ==
    ASSUME TypeOK, TimerOfOpen
    PROVE  \A f \in Fds : user[f] => own[f] \in 0..TTL /\ own[f] \in Int
  BY ServerAssumption DEF TypeOK, TimerOfOpen

\* accept() and the handlers of a connection set its timer only, time shortens each,
\* and tick() frees the ones that are due.
LEMMA DeadlineStep ==
    ASSUME TypeOK, TimerOfOpen, [Next]_vars, NEW f \in Fds,
           user[f], reg[f] # "none", user'[f], ~InBatch(f)
    PROVE  own'[f] \in 0..TTL /\ own'[f] <= own[f]
<1> USE ServerAssumption DEF pool, worker, conn, timers
<1>1. own[f] \in 0..TTL /\ own[f] \in Int /\ own[f] # Freed /\ own \in [Fds -> 0..TTL \cup {Freed}]
  BY OpenDeadline DEF TypeOK
<1>2. own'[f] = own[f] => own'[f] \in 0..TTL /\ own'[f] <= own[f]
  BY <1>1
<1>3. CASE EpollWait \/ Reject \/ ReadSignals
  BY <1>2, <1>3 DEF EpollWait, Reject, ReadSignals
<1>4. CASE Tick
  <2>1. own'[f] = own[f]
    BY <1>1, <1>4 DEF Tick, CloseConn, Due
  <2> QED BY <1>2, <2>1
<1>5. CASE Elapse
  <2>1. own'[f] = IF own[f] \in {0, Freed} THEN own[f] ELSE own[f] - 1
    BY <1>5 DEF Elapse
  <2>2. CASE own[f] = 0
    BY <1>2, <2>1, <2>2
  <2>3. CASE own[f] # 0
    <3>1. own'[f] = own[f] - 1
      BY <1>1, <2>1, <2>3
    <3> QED BY <1>1, <2>3, <3>1
  <2> QED BY <2>2, <2>3
<1>6. ASSUME NEW g \in Fds, Accept(g) PROVE own'[f] = own[f]
  BY <1>1, <1>6 DEF Accept
<1>7. ASSUME NEW g \in Fds, HangUp(g) PROVE own'[f] = own[f]
  BY <1>7 DEF HangUp
<1>8. ASSUME NEW g \in Fds, ReadAndAppend(g) \/ WriteAgain(g) \/ WriteDone(g)
      PROVE  own'[f] = own[f]
  <2>1. Postpone(g) /\ \E ev : Handle(g, ev)
    BY <1>8 DEF ReadAndAppend, WriteAgain, WriteDone
  <2>2. g # f
    BY <2>1, Handled
  <2> QED BY <1>1, <2>1, <2>2 DEF Postpone
<1>9. ASSUME NEW g \in Fds, ReadFails(g) \/ WriteFails(g) PROVE own'[f] = own[f]
  <2>1. CloseAndDelete(g) /\ \E ev : Handle(g, ev)
    BY <1>9 DEF ReadFails, WriteFails
  <2>2. g # f
    BY <2>1, Handled
  <2> QED BY <1>1, <2>1, <2>2 DEF CloseAndDelete
<1>10. ASSUME NEW w \in Workers, Take(w) \/ NeedMore(w) \/ Respond(w) \/ Overflow(w)
       PROVE  own'[f] = own[f]
  BY <1>10 DEF Take, NeedMore, Respond, Overflow
<1>11. ASSUME NEW w \in Workers, CloseTest(w) \/ CloseRemove(w) \/ CloseDetach(w) \/ Rearm(w)
       PROVE  own'[f] = own[f]
  BY <1>11 DEF CloseTest, CloseRemove, CloseDetach, Rearm
<1>12. CASE UNCHANGED vars
  BY <1>2, <1>12 DEF vars
<1> QED BY <1>2, <1>3, <1>4, <1>5, <1>6, <1>7, <1>8, <1>9, <1>10, <1>11, <1>12, NextCases

\* While no event of an open connection waits to be handled, its deadline is not put
\* off, each slot that passes brings it nearer, and a tick that finds it reached
\* closes the connection: what SilentIsClosed owes to the code, and not to fairness.
THEOREM SilentRunsOut == Spec => DeadlineHolds
<1>1. ASSUME IInv, [Next]_vars
      PROVE  [\A f \in Fds : user[f] /\ reg[f] # "none" /\ user'[f] /\ ~InBatch(f) =>
                 /\ own'[f] \in 0..TTL /\ own'[f] <= own[f]
                 /\ Elapse /\ own[f] > 0 => own'[f] < own[f]
                 /\ Tick => own[f] # 0]_vars
  <2> SUFFICES ASSUME NEW f \in Fds, user[f], reg[f] # "none", user'[f], ~InBatch(f)
               PROVE  /\ own'[f] \in 0..TTL /\ own'[f] <= own[f]
                      /\ Elapse /\ own[f] > 0 => own'[f] < own[f]
                      /\ Tick => own[f] # 0
    OBVIOUS
  <2>1. TypeOK /\ TimerOfOpen
    BY <1>1 DEF IInv
  <2>2. own'[f] \in 0..TTL /\ own'[f] <= own[f]
    BY <1>1, <2>1, DeadlineStep
  <2>3. ASSUME Elapse, own[f] > 0 PROVE own'[f] < own[f]
    <3>1. own[f] # Freed /\ own[f] \in Int
      BY <2>1, OpenDeadline DEF TimerOfOpen
    <3>2. own[f] \notin {0, Freed}
      BY <2>3, <3>1
    <3>3. own'[f] = own[f] - 1
      BY <2>3, <3>2 DEF Elapse
    <3> QED BY <3>1, <3>3
  <2>4. Tick => own[f] # 0
    BY DEF Tick, CloseConn, Due
  <2> QED BY <2>2, <2>3, <2>4
<1> QED BY Invariant, <1>1, PTL DEF Spec, DeadlineHolds

=============================================================================

------------------------------- MODULE Server -------------------------------
(***************************************************************************)
(* main.cpp's event loop with the http_conn objects, the epoll             *)
(* registrations, the idle timers and the worker threads.  The pool is the *)
(* queue ThreadPool implements; timers are counted in TIMESLOTs left.      *)
(* Clients are free to send, stall or hang up at any moment, so which of   *)
(* the armed descriptors epoll_wait() reports, and what read(), write()    *)
(* and process() make of the bytes, is left open.  The main thread handles *)
(* one event per step; a worker's process() takes a step for each access   *)
(* to what it shares with the main thread.                                 *)
(***************************************************************************)
EXTENDS Integers, Sequences, FiniteSets

CONSTANTS Fds,          \* descriptors accept() may return
          Listen, Pipe, \* lfd, pipefd[0]
          Workers,
          MaxRequests,  \* m_max_requests
          MaxUsers,     \* MAX_FD
          MaxEvents,    \* MAX_EVENTUMBER
          TTL,          \* 3: a deadline is 3 * TIMESLOT away
          Fits,         \* bound: responses m_writebuf holds before add_content() can fail
          Slack,        \* bound: m_user_count is not followed below -Slack
          Idle, Freed

ASSUME ServerAssumption ==
    /\ IsFiniteSet(Fds) /\ IsFiniteSet(Workers)
    /\ Listen \notin Fds /\ Pipe \notin Fds /\ Listen # Pipe
    /\ MaxRequests \in Nat \ {0} /\ MaxUsers \in Nat \ {0} /\ MaxEvents \in Nat \ {0}
    /\ TTL \in Nat \ {0} /\ Fits \in Nat \ {0}
    /\ Idle \notin Fds
    /\ Slack \in Nat
    /\ Freed \notin Nat

VARIABLES queue, serving,   \* the pool's requests
          stage, seen,      \* where each worker is in process(); the m_user_count it read
          batch,            \* events of the last epoll_wait() not handled yet
          reg,              \* epoll registration of an open descriptor
          user,             \* users[f].m_sockfd # -1
          count,            \* m_user_count
          alarm,            \* SIGALRM: "set", received ("timeout") or "lost"
          written,          \* responses in m_writebuf since init()
          own,              \* slots left to users_timer[f].timer
          stale,            \* slots left to timers of f that users_timer[f] no longer points to
          disturbed         \* history, see Refired and Reaped

pool == <<queue, serving>>
worker == <<stage, seen>>
conn == <<reg, user, count>>
timers == <<own, stale>>
vars == <<pool, worker, batch, conn, written, timers, alarm, disturbed>>

Pool == INSTANCE RequestQueue WITH Requests <- Fds

\* "new": as addfd() leaves it, without EPOLLONESHOT; "level": the same after
\* its first report; "in", "out": armed once by modfd(); "off": reported and
\* not armed since; "none": fd closed.
Registrations == {"none", "new", "level", "in", "out", "off"}
\* The signal pipe's event, at index 0 of the events or behind others.
Signals == {Pipe} \X {"first", "later"}

Stages == {"process", "close", "remove", "detach", "in", "out"}

TypeOK ==
    /\ queue \in Seq(Fds) /\ serving \in [Workers -> Fds \cup {Idle}]
    /\ stage \in [Workers -> Stages] /\ seen \in [Workers -> Int]
    /\ batch \subseteq (Fds \cup {Listen}) \X {"in", "out", "hup"} \cup Signals
    /\ reg \in [Fds -> Registrations] /\ user \in [Fds -> BOOLEAN] /\ count \in Int
    /\ written \in [Fds -> 0..Fits]
    /\ own \in [Fds -> 0..TTL \cup {Freed}] /\ stale \in [Fds -> SUBSET (0..TTL)]
    /\ alarm \in {"set", "timeout", "lost"}
    /\ disturbed \in BOOLEAN

Init ==
    /\ Pool!Init
    /\ stage = [w \in Workers |-> "process"] /\ seen = [w \in Workers |-> 0]
    /\ batch = {}
    /\ reg = [f \in Fds |-> "none"] /\ user = [f \in Fds |-> FALSE] /\ count = 0
    /\ written = [f \in Fds |-> 0]
    /\ own = [f \in Fds |-> Freed] /\ stale = [f \in Fds |-> {}]
    /\ alarm = "set"
    /\ disturbed = FALSE

-----------------------------------------------------------------------------
(* epoll_wait(): any of the events the registrations ask for.              *)

Interest(f) ==
    CASE reg[f] \in {"new", "level", "in"} -> {"in", "hup"}
      [] reg[f] = "out" -> {"out", "hup"}
      [] OTHER -> {}

\* Bound: no client arrives while every descriptor of Fds is taken (accept()
\* would return -1, which main() does not test).
Arrivals == IF \E f \in Fds : reg[f] = "none" THEN {<<Listen, "in">>} ELSE {}

\* SIGALRM may come at any time once alarm() was called.
Reportable ==
    Arrivals \cup (UNION {{f} \X Interest(f) : f \in Fds})
             \cup (IF alarm = "set" THEN Signals ELSE {})

\* What epoll_wait() returns: one event per descriptor.
Events ==
    {b \in SUBSET Reportable \ {{}, {<<Pipe, "later">>}} :
        /\ Cardinality(b) <= MaxEvents
        /\ \A e, d \in b : e[1] = d[1] => e = d}

InBatch(f) == \E e \in batch : e[1] = f

\* A registration without EPOLLONESHOT reports again before it is modified.
Refired == \E f \in Fds : reg[f] = "level" /\ InBatch(f)'

\* mutant: modfd() arms without EPOLLONESHOT.
EpollWaitNeverDisarms ==
    /\ batch = {} /\ alarm # "timeout"
    /\ batch' \in Events
    /\ reg' = [f \in Fds |-> IF InBatch(f)' /\ reg[f] = "new" THEN "level" ELSE reg[f]]
    /\ disturbed' = (disturbed \/ Refired)
    /\ UNCHANGED <<pool, worker, user, count, written, timers, alarm>>

EpollWait ==
    /\ batch = {} /\ alarm # "timeout"
    /\ batch' \in Events
    /\ reg' = [f \in Fds |->
                  IF ~InBatch(f)' THEN reg[f]
                  ELSE IF reg[f] \in {"new", "level"} THEN "level" ELSE "off"]
    /\ disturbed' = (disturbed \/ Refired)
    /\ UNCHANGED <<pool, worker, user, count, written, timers, alarm>>

Handle(f, ev) == <<f, ev>> \in batch /\ batch' = batch \ {<<f, ev>>}

-----------------------------------------------------------------------------
(* Helpers of the handlers                                                 *)

Holders(f) == {w \in Workers : serving[w] = f}
Queued(f) == {i \in 1..Len(queue) : queue[i] = f}
InFlight(f) == Holders(f) # {} \/ Queued(f) # {}

\* modfd(m_epollfd, m_sockfd, ev): epoll_ctl() fails on -1 and on a closed descriptor.
Modfd(f, ev) ==
    reg' = IF user[f] /\ reg[f] # "none" THEN [reg EXCEPT ![f] = ev] ELSE reg

NotBelow(n) == IF n < -Slack THEN -Slack ELSE n

\* mutant: close_conn() without its test of m_sockfd.
CloseAgain(F) ==
    /\ reg' = [f \in Fds |-> IF f \in F THEN "none" ELSE reg[f]]
    /\ user' = [f \in Fds |-> user[f] /\ f \notin F]
    /\ count' = NotBelow(count - Cardinality(F))

\* close_conn() of the connections in F, by the main thread.
CloseConn(F) ==
    LET open == {f \in F : user[f]} IN
    /\ reg' = [f \in Fds |-> IF f \in open THEN "none" ELSE reg[f]]
    /\ user' = [f \in Fds |-> user[f] /\ f \notin open]
    /\ count' = NotBelow(count - Cardinality(open))

\* mutant: timer->expire += 3 * TIMESLOT
Prolong(f) ==
    /\ own' = [own EXCEPT ![f] = IF @ = Freed THEN Freed ELSE @ + TTL]
    /\ UNCHANGED stale

\* timer->expire = cur + 3 * TIMESLOT; adjust_timer(timer)
Postpone(f) ==
    /\ own' = [own EXCEPT ![f] = IF @ = Freed THEN Freed ELSE TTL]
    /\ UNCHANGED stale

\* mutant: the timer is deleted, its callback forgotten.
DeleteOnly(f) ==
    /\ own' = [own EXCEPT ![f] = Freed]
    /\ UNCHANGED <<conn, stale>>

\* timer->cb_func(users + f); del_timer(timer)
CloseAndDelete(f) ==
    /\ CloseConn({f})
    /\ own' = [own EXCEPT ![f] = Freed]
    /\ UNCHANGED stale

-----------------------------------------------------------------------------
(* The listening socket                                                    *)

Accept(f) ==
    /\ Handle(Listen, "in")
    /\ reg[f] = "none"                      \* the kernel hands out a free descriptor
    /\ count < MaxUsers
    /\ reg' = [reg EXCEPT ![f] = "new"]     \* addfd(): the ONESHOT flag is computed and dropped
    /\ user' = [user EXCEPT ![f] = TRUE]
    /\ count' = count + 1
    /\ written' = [written EXCEPT ![f] = 0]
    /\ own' = [own EXCEPT ![f] = TTL]
    /\ stale' = [stale EXCEPT ![f] = @ \cup ({own[f]} \ {Freed})]
    /\ UNCHANGED <<pool, worker, alarm, disturbed>>

Reject ==
    /\ Handle(Listen, "in")
    /\ count >= MaxUsers
    /\ UNCHANGED <<pool, worker, conn, written, timers, alarm, disturbed>>

-----------------------------------------------------------------------------
(* EPOLLRDHUP | EPOLLHUP | EPOLLERR: the timer stays where it is.          *)

HangUp(f) ==
    /\ Handle(f, "hup")
    /\ CloseConn({f})
    /\ UNCHANGED <<pool, worker, written, timers, alarm, disturbed>>

-----------------------------------------------------------------------------
(* EPOLLIN: read(), then append() - whose refusal main() ignores.          *)

ReadAndAppend(f) ==
    /\ Handle(f, "in")
    /\ user[f] /\ reg[f] # "none"
    /\ Pool!Accept(f) \/ (Len(queue) > MaxRequests /\ UNCHANGED pool)
    /\ Postpone(f)
    /\ UNCHANGED <<worker, conn, written, alarm, disturbed>>

\* End of file or an error.
ReadFails(f) ==
    /\ Handle(f, "in")
    /\ CloseAndDelete(f)
    /\ UNCHANGED <<pool, worker, written, alarm, disturbed>>

-----------------------------------------------------------------------------
(* EPOLLOUT: write()                                                       *)

\* EAGAIN from send() or sendfile().
WriteAgain(f) ==
    /\ Handle(f, "out")
    /\ written[f] > 0 /\ user[f] /\ reg[f] # "none"
    /\ Modfd(f, "out")
    /\ Postpone(f)
    /\ UNCHANGED <<pool, worker, user, count, written, alarm, disturbed>>

\* Nothing to send, or all sent on a connection that is kept: init().
WriteDone(f) ==
    /\ Handle(f, "out")
    /\ written[f] > 0 => user[f] /\ reg[f] # "none"
    /\ Modfd(f, "in")
    /\ written' = [written EXCEPT ![f] = 0]
    /\ Postpone(f)
    /\ UNCHANGED <<pool, worker, user, count, alarm, disturbed>>

\* An error, or all sent and the connection is not kept.
WriteFails(f) ==
    /\ Handle(f, "out")
    /\ written[f] > 0
    /\ CloseAndDelete(f)
    /\ UNCHANGED <<pool, worker, written, alarm, disturbed>>

-----------------------------------------------------------------------------
(* Time, and timer_handler() once the batch is done.                       *)

Due(f) == own[f] = 0 \/ 0 \in stale[f]

\* A timer closes a connection that waits for a worker or is being processed.
Reaped == \E f \in Fds : Due(f) /\ user[f] /\ InFlight(f)

Elapse ==
    /\ own' = [f \in Fds |-> IF own[f] \in {0, Freed} THEN own[f] ELSE own[f] - 1]
    /\ stale' = [f \in Fds |-> {IF s = 0 THEN 0 ELSE s - 1 : s \in stale[f]}]
    /\ timers' # timers
    /\ UNCHANGED <<pool, worker, batch, conn, written, alarm, disturbed>>

\* recv() from the pipe.  The loop over the signals tests signals[i], i being
\* the index of the event: signals[0] is the one received, the others are
\* whatever the stack holds.  A SIGALRM missed is not followed by another, as
\* only timer_handler() calls alarm().
ReadSignals ==
    /\ \/ Handle(Pipe, "first") /\ alarm' = "timeout"
       \/ Handle(Pipe, "later") /\ alarm' \in {"timeout", "lost"}
    /\ UNCHANGED <<pool, worker, conn, written, timers, disturbed>>

\* mutant: tick() deletes the expired timers without running their callbacks.
TickSilently ==
    /\ batch = {} /\ alarm = "timeout"
    /\ alarm' = "set"
    /\ own' = [f \in Fds |-> IF own[f] = 0 THEN Freed ELSE own[f]]
    /\ stale' = [f \in Fds |-> stale[f] \ {0}]
    /\ UNCHANGED <<pool, worker, batch, conn, written, disturbed>>

\* timer_handler(): tick() and alarm(TIMESLOT).
Tick ==
    /\ batch = {} /\ alarm = "timeout"
    /\ alarm' = "set"
    /\ CloseConn({f \in Fds : Due(f)})
    /\ own' = [f \in Fds |-> IF own[f] = 0 THEN Freed ELSE own[f]]
    /\ stale' = [f \in Fds |-> stale[f] \ {0}]
    /\ disturbed' = (disturbed \/ Reaped)
    /\ UNCHANGED <<pool, worker, batch, written>>

-----------------------------------------------------------------------------
(* A worker: run() takes the object, process() works on it.                *)

Take(w) ==
    /\ Pool!Take(w)
    /\ UNCHANGED <<worker, batch, conn, written, timers, alarm, disturbed>>

At(w, from, to) ==
    /\ serving[w] # Idle
    /\ stage[w] = from
    /\ stage' = [stage EXCEPT ![w] = to]

\* process_read() says NO_REQUEST.
NeedMore(w) ==
    /\ At(w, "process", "in")
    /\ UNCHANGED <<pool, seen, batch, conn, written, timers, alarm, disturbed>>

\* process_write() appends a response.
Respond(w) ==
    /\ At(w, "process", "out")
    /\ written' = [written EXCEPT ![serving[w]] = IF @ < Fits THEN @ + 1 ELSE @]
    /\ UNCHANGED <<pool, seen, batch, conn, timers, alarm, disturbed>>

\* process_write() says false: earlier responses fill m_writebuf.
Overflow(w) ==
    /\ At(w, "process", "close")
    /\ written[serving[w]] = Fits
    /\ UNCHANGED <<pool, seen, batch, conn, written, timers, alarm, disturbed>>

\* close_conn(): the test of m_sockfd,
CloseTest(w) ==
    /\ At(w, "close", IF user[serving[w]] THEN "remove" ELSE "out")
    /\ UNCHANGED <<pool, seen, batch, conn, written, timers, alarm, disturbed>>

\* removefd(),
CloseRemove(w) ==
    /\ At(w, "remove", "detach")
    /\ reg' = [reg EXCEPT ![serving[w]] = "none"]
    /\ seen' = [seen EXCEPT ![w] = count]
    /\ UNCHANGED <<pool, batch, user, count, written, timers, alarm, disturbed>>

\* m_sockfd = -1 and m_user_count--, which may lose an update of the other
\* thread, or be lost, as the counter is a plain int.
CloseDetach(w) ==
    /\ At(w, "detach", "out")
    /\ user' = [user EXCEPT ![serving[w]] = FALSE]
    /\ count' \in {NotBelow(count - 1)}
                  \cup (IF count = seen[w] THEN {} ELSE {NotBelow(seen[w] - 1), count})
    /\ seen' = [seen EXCEPT ![w] = 0]
    /\ UNCHANGED <<pool, batch, reg, written, timers, alarm, disturbed>>

\* The last call of process(): modfd().
Rearm(w) ==
    /\ stage[w] \in {"in", "out"}
    /\ Modfd(serving[w], stage[w])
    /\ stage' = [stage EXCEPT ![w] = "process"]
    /\ Pool!Finish(w)
    /\ UNCHANGED <<seen, batch, user, count, written, timers, alarm, disturbed>>

HandleEvent ==
    \/ Reject \/ ReadSignals
    \/ \E f \in Fds :
        \/ Accept(f) \/ HangUp(f)
        \/ ReadAndAppend(f) \/ ReadFails(f)
        \/ WriteAgain(f) \/ WriteDone(f) \/ WriteFails(f)

WorkerStep(w) ==
    \/ Take(w) \/ NeedMore(w) \/ Respond(w) \/ Overflow(w)
    \/ CloseTest(w) \/ CloseRemove(w) \/ CloseDetach(w) \/ Rearm(w)

Next ==
    \/ EpollWait \/ HandleEvent \/ Tick \/ Elapse
    \/ \E w \in Workers : WorkerStep(w)

Spec == Init /\ [][Next]_vars

\* Time passes, threads that can run do run, and the pipe, level-triggered, is
\* reported in the end when a signal waits in it; no client is obliged to do
\* anything.
ReportSignals == EpollWait /\ batch' \cap Signals # {}

Fairness ==
    /\ WF_vars(HandleEvent) /\ WF_vars(Tick) /\ WF_vars(Elapse)
    /\ SF_vars(ReportSignals)
    /\ \A w \in Workers : WF_vars(WorkerStep(w))

FairSpec == Spec /\ Fairness

-----------------------------------------------------------------------------
(* Properties                                                              *)

\* Unless epoll reported a connection twice under its first registration, or a
\* timer closed one a worker held, a connection in the pool is there once, no
\* event is left to handle for it, and it cannot be reported before the worker
\* re-arms it: the main thread and a worker never share a connection.  The tick
\* that closes a held connection is such a disturbance, not caught by this.
HandOff ==
    ~disturbed => \A f \in Fds : InFlight(f) =>
        /\ Cardinality(Holders(f)) + Cardinality(Queued(f)) = 1
        /\ reg[f] \in {"level", "off"}
        /\ ~InBatch(f)

\* m_user_count counts the open connections, and m_sockfd and the epoll set
\* agree on which these are.
CountExact ==
    ~disturbed => /\ count = Cardinality({f \in Fds : user[f]})
                   /\ \A f \in Fds : user[f] <=> reg[f] # "none"

\* A connection main() believes open has its timer in the list - always, so
\* none is immortal - and so has every connection with an event to handle,
\* whose handler follows users_timer[f].timer without looking.  After a disturbance
\* that handler may follow a freed timer (main.cpp:149-151), which does nothing here
\* and may do anything in the program: from there on the first clause is of the model.
OpenHasTimer ==
    \A f \in Fds :
        /\ user[f] => own[f] # Freed
        /\ ~disturbed /\ InBatch(f) => own[f] # Freed

\* The deadline of an open connection with no event to handle is never put off, whatever
\* happens to others; time brings it nearer, and no tick passes it by.
DeadlineHolds ==
    [][\A f \in Fds : user[f] /\ reg[f] # "none" /\ user'[f] /\ ~InBatch(f) =>
          /\ own'[f] \in 0..TTL /\ own'[f] <= own[f]
          /\ Elapse /\ own[f] > 0 => own'[f] < own[f]
          /\ Tick => own[f] # 0]_vars

\* A connection whose client stays silent is closed, wherever it was left: idle,
\* half read, waiting to write, in the pool, or refused by append() with its one
\* shot spent - as long as ticks come, that is, until main() misses a SIGALRM.  What
\* OpenHasTimer says of freed timers holds here, too.
SilentIsClosed ==
    \A f \in Fds : user[f] ~> (~user[f] \/ InBatch(f) \/ alarm = "lost")

\* main.cpp:90 says SIGALRM comes every five seconds.
AlarmRecurs == []<>(alarm = "set")

\* http_conn.cpp:44 says a socket fires once, so that one thread at a time works on it.
OneShot == \A f \in Fds : Cardinality(Holders(f)) <= 1

\* main.cpp:45 says cb_func() closes inactive connections.
ClosesInactive ==
    [][\A f \in Fds : Tick /\ user[f] /\ ~user'[f] => own[f] = 0]_vars
=============================================================================

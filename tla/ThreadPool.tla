----------------------------- MODULE ThreadPool -----------------------------
(***************************************************************************)
(* threadpool.h over locker.h: callers append() requests to a list guarded *)
(* by a mutex and count them with a semaphore; detached workers wait on    *)
(* the semaphore, lock, pop and process.  One action per step a thread can *)
(* be preempted after.  A signal handler may interrupt sem_wait (main.cpp  *)
(* installs its handlers without SA_RESTART) and sem::wait()'s result is   *)
(* ignored, so a worker can reach the queue without having been posted to. *)
(***************************************************************************)
EXTENDS Naturals, Sequences, FiniteSets

CONSTANTS Producers,    \* threads that call append(); main() alone in this server
          Workers,      \* m_threads
          Requests,     \* the T* values appended, never null (users + sockfd)
          MaxRequests,  \* m_max_requests
          SemMax,       \* bound: no interrupted wait while SemMax posts are unclaimed
          Idle,         \* no request
          Nobody        \* the mutex is free

ASSUME PoolAssumption ==
    /\ IsFiniteSet(Producers)
    /\ IsFiniteSet(Workers)
    /\ Producers \cap Workers = {}
    /\ MaxRequests \in Nat \ {0}    \* the constructor throws otherwise
    /\ SemMax \in Nat
    /\ Idle \notin Requests
    /\ Nobody \notin Producers \cup Workers

VARIABLES workqueue,    \* m_workqueue
          lock,         \* owner of m_queuelocker
          sem,          \* value of m_queuestat
          stop,         \* m_stop
          pc,           \* where each thread is
          req           \* append()'s argument, run()'s local request

vars == <<workqueue, lock, sem, stop, pc, req>>

Threads == Producers \cup Workers

ProducerPc == {"out", "check", "push", "pushed", "post"}
WorkerPc == {"loop", "wait", "lock", "test", "front", "popped", "process", "exited"}

TypeOK ==
    /\ workqueue \in Seq(Requests)
    /\ lock \in Threads \cup {Nobody}
    /\ sem \in Nat
    /\ stop \in BOOLEAN
    /\ pc \in [Threads -> ProducerPc \cup WorkerPc]
    /\ \A p \in Producers : pc[p] \in ProducerPc
    /\ \A w \in Workers : pc[w] \in WorkerPc
    /\ req \in [Threads -> Requests \cup {Idle}]

Init ==
    /\ workqueue = <<>>
    /\ lock = Nobody
    /\ sem = 0
    /\ stop = FALSE
    /\ pc = [t \in Threads |-> IF t \in Producers THEN "out" ELSE "loop"]
    /\ req = [t \in Threads |-> Idle]

-----------------------------------------------------------------------------
(* locker.h                                                                *)

LockTaken(t) == lock' = t                       \* mutant: does not block
Lock(t) == lock = Nobody /\ lock' = t

Unlock(t) == lock = t /\ lock' = Nobody

Goto(t, from, to) == pc[t] = from /\ pc' = [pc EXCEPT ![t] = to]

-----------------------------------------------------------------------------
(* append(): lock; refuse or push_back; unlock; post.                      *)

AppendLock(p, r) ==
    /\ ~stop                    \* main() destroys the pool after its last append
    /\ Goto(p, "out", "check")
    /\ Lock(p)
    /\ req' = [req EXCEPT ![p] = r]
    /\ UNCHANGED <<workqueue, sem, stop>>

\* mutant: the early return without its unlock.
AppendFullLocked(p) ==
    /\ Len(workqueue) > MaxRequests
    /\ Goto(p, "check", "out")
    /\ req' = [req EXCEPT ![p] = Idle]
    /\ UNCHANGED <<workqueue, lock, sem, stop>>

\* size() > m_max_requests: unlock and return false.
AppendFull(p) ==
    /\ Len(workqueue) > MaxRequests
    /\ Goto(p, "check", "out")
    /\ Unlock(p)
    /\ req' = [req EXCEPT ![p] = Idle]
    /\ UNCHANGED <<workqueue, sem, stop>>

AppendFits(p) ==
    /\ Len(workqueue) <= MaxRequests
    /\ Goto(p, "check", "push")
    /\ UNCHANGED <<workqueue, lock, sem, stop, req>>

Push(p) ==
    /\ Goto(p, "push", "pushed")
    /\ workqueue' = Append(workqueue, req[p])
    /\ UNCHANGED <<lock, sem, stop, req>>

AppendUnlock(p) ==
    /\ Goto(p, "pushed", "post")
    /\ Unlock(p)
    /\ UNCHANGED <<workqueue, sem, stop, req>>

\* mutant: the semaphore is posted by nobody.
PostForgotten(p) ==
    /\ Goto(p, "post", "out")
    /\ req' = [req EXCEPT ![p] = Idle]
    /\ UNCHANGED <<workqueue, lock, sem, stop>>

Post(p) ==
    /\ Goto(p, "post", "out")
    /\ sem' = sem + 1
    /\ req' = [req EXCEPT ![p] = Idle]
    /\ UNCHANGED <<workqueue, lock, stop>>

-----------------------------------------------------------------------------
(* run(): while(!m_stop) wait; lock; test; pop; unlock; process.           *)

LoopTest(w) ==
    /\ Goto(w, "loop", IF stop THEN "exited" ELSE "wait")
    /\ UNCHANGED <<workqueue, lock, sem, stop, req>>

\* mutant: waiting does not wait.
SemWaitBusy(w) ==
    /\ Goto(w, "wait", "lock")
    /\ sem' = sem - 1
    /\ UNCHANGED <<workqueue, lock, stop, req>>

SemWait(w) ==
    /\ Goto(w, "wait", "lock")
    /\ sem > 0
    /\ sem' = sem - 1
    /\ UNCHANGED <<workqueue, lock, stop, req>>

\* sem_wait fails with EINTR; wait() returns false and run() goes on.
WaitInterrupted(w) ==
    /\ Goto(w, "wait", "lock")
    /\ sem < SemMax
    /\ UNCHANGED <<workqueue, lock, sem, stop, req>>

WorkerLock(w) ==
    /\ Goto(w, "lock", "test")
    /\ Lock(w)
    /\ UNCHANGED <<workqueue, sem, stop, req>>

\* mutant: continue without unlocking.
FoundEmptyLocked(w) ==
    /\ workqueue = <<>>
    /\ Goto(w, "test", "loop")
    /\ UNCHANGED <<workqueue, lock, sem, stop, req>>

\* empty(): unlock and continue.
FoundEmpty(w) ==
    /\ workqueue = <<>>
    /\ Goto(w, "test", "loop")
    /\ Unlock(w)
    /\ UNCHANGED <<workqueue, sem, stop, req>>

FoundWork(w) ==
    /\ workqueue # <<>>
    /\ Goto(w, "test", "front")
    /\ UNCHANGED <<workqueue, lock, sem, stop, req>>

\* mutant: takes the newest request.
PopBack(w) ==
    /\ Goto(w, "front", "popped")
    /\ req' = [req EXCEPT ![w] = workqueue[Len(workqueue)]]
    /\ workqueue' = SubSeq(workqueue, 1, Len(workqueue) - 1)
    /\ UNCHANGED <<lock, sem, stop>>

PopFront(w) ==
    /\ Goto(w, "front", "popped")
    /\ req' = [req EXCEPT ![w] = Head(workqueue)]
    /\ workqueue' = Tail(workqueue)
    /\ UNCHANGED <<lock, sem, stop>>

WorkerUnlock(w) ==
    /\ Goto(w, "popped", "process")
    /\ Unlock(w)
    /\ UNCHANGED <<workqueue, sem, stop, req>>

Process(w) ==
    /\ Goto(w, "process", "loop")
    /\ req' = [req EXCEPT ![w] = Idle]
    /\ UNCHANGED <<workqueue, lock, sem, stop>>

-----------------------------------------------------------------------------
(* ~threadpool(): main() deletes the pool once it has left its loop, so no *)
(* append() is under way; the detached workers are not joined.             *)

Destroy ==
    /\ ~stop
    /\ \A p \in Producers : pc[p] = "out"
    /\ stop' = TRUE
    /\ UNCHANGED <<workqueue, lock, sem, pc, req>>

AppendStep(p) ==
    \/ AppendFull(p)
    \/ AppendFits(p)
    \/ Push(p)
    \/ AppendUnlock(p)
    \/ Post(p)

RunStep(w) ==
    \/ LoopTest(w)
    \/ SemWait(w)
    \/ FoundEmpty(w)
    \/ FoundWork(w)
    \/ PopFront(w)
    \/ WorkerUnlock(w)
    \/ Process(w)

Next ==
    \/ \E p \in Producers : AppendStep(p) \/ \E r \in Requests : AppendLock(p, r)
    \/ \E w \in Workers : RunStep(w) \/ WorkerLock(w) \/ WaitInterrupted(w)
    \/ Destroy

Spec == Init /\ [][Next]_vars

\* Threads that can run do run; a thread blocked on the mutex gets it if the
\* mutex is free again and again.  Nobody is obliged to append, to stop the
\* server or to be interrupted.
Fairness ==
    /\ \A p \in Producers : WF_vars(AppendStep(p))
    /\ \A w \in Workers : WF_vars(RunStep(w)) /\ SF_vars(WorkerLock(w))

FairSpec == Spec /\ Fairness

-----------------------------------------------------------------------------
(* Properties                                                              *)

HoldsLock(t) == pc[t] \in {"check", "push", "pushed", "test", "front", "popped"}

\* m_workqueue is touched by the owner of m_queuelocker only, and the owner is
\* inside its critical section: no thread leaves append() or run()'s loop body
\* (the early return, the continue) with the mutex held.
LockDiscipline == \A t \in Threads : HoldsLock(t) <=> lock = t

\* What the size test and the empty test established still holds when the
\* thread acts on it: the list never outgrows one more than m_max_requests
\* (the test is >, not >=), and front() is never called on an empty list.
TestsStillHold ==
    /\ Len(workqueue) <= MaxRequests + 1
    /\ \A w \in Workers : pc[w] = "front" => workqueue # <<>>

AtQueue == {w \in Workers : pc[w] \in {"lock", "test", "front"}}
Posting == {p \in Producers : pc[p] \in {"pushed", "post"}}

\* No lost wakeup: every queued request is covered by an unclaimed post, by a
\* post about to happen or by a worker on its way to the list, even when
\* interrupted waits let workers pop requests they were not posted for.
NoLostWakeup == Len(workqueue) <= sem + Cardinality(AtQueue) + Cardinality(Posting)

\* A request append() accepted is eventually processed, unless the pool is destroyed.
Queued(r) == \E i \in 1..Len(workqueue) : workqueue[i] = r
Served(r) == \E w \in Workers : pc[w] = "process" /\ req[w] = r
EveryRequestServed == \A r \in Requests : Queued(r) ~> (Served(r) \/ stop)

\* The pool implements the abstract queue: FIFO, each accepted request handed
\* to exactly one worker, nothing accepted beyond the limit.
Promise == INSTANCE RequestQueue WITH
    queue <- workqueue,
    serving <- [w \in Workers |-> IF pc[w] \in {"popped", "process"} THEN req[w] ELSE Idle]

ImplementsRequestQueue == Promise!Spec
=============================================================================

------------------------- MODULE ThreadPool_proofs -------------------------
(***************************************************************************)
(* Proofs about ThreadPool for any finite sets of callers and workers and  *)
(* any queue limit: type correctness, the mutex discipline, that tested    *)
(* facts survive until they are used, that no wakeup is lost, and that the *)
(* pool implements RequestQueue.                                           *)
(***************************************************************************)
EXTENDS ThreadPool, FiniteSetTheorems, TLAPS

\* The disjuncts of Next, flattened once for all the step proofs.
LEMMA NextCases ==
    ASSUME Next
    PROVE  \/ \E p \in Producers : \E r \in Requests : AppendLock(p, r)
           \/ \E p \in Producers : AppendFull(p)
           \/ \E p \in Producers : AppendFits(p)
           \/ \E p \in Producers : Push(p)
           \/ \E p \in Producers : AppendUnlock(p)
           \/ \E p \in Producers : Post(p)
           \/ \E w \in Workers : LoopTest(w)
           \/ \E w \in Workers : SemWait(w)
           \/ \E w \in Workers : WaitInterrupted(w)
           \/ \E w \in Workers : WorkerLock(w)
           \/ \E w \in Workers : FoundEmpty(w)
           \/ \E w \in Workers : FoundWork(w)
           \/ \E w \in Workers : PopFront(w)
           \/ \E w \in Workers : WorkerUnlock(w)
           \/ \E w \in Workers : Process(w)
           \/ Destroy
  BY DEF Next, AppendStep, RunStep

-----------------------------------------------------------------------------
(* The inductive invariant.  TypeOK alone is not inductive: push_back of an *)
(* argument that is no request, or front() of an empty list, would break    *)
(* it, and what excludes them is the mutex.                                 *)

RequestHeld == \A t \in Threads :
    pc[t] \in {"check", "push", "pushed", "post", "popped", "process"} => req[t] \in Requests

RoomToPush == \A p \in Producers : pc[p] = "push" => Len(workqueue) <= MaxRequests

IInv == TypeOK /\ LockDiscipline /\ RequestHeld /\ RoomToPush /\ TestsStillHold

\* The pool as it is constructed satisfies the inductive invariant.
LEMMA InvInit == Init => IInv
<1> SUFFICES ASSUME Init PROVE IInv
  OBVIOUS
<1> USE PoolAssumption DEF Init
<1>1. pc \in [Threads -> ProducerPc \cup WorkerPc]
  BY DEF ProducerPc, WorkerPc
<1>2. \A t \in Threads : pc[t] = "out" \/ pc[t] = "loop"
  OBVIOUS
<1>3. \A p \in Producers : pc[p] = "out"
  BY DEF Threads
<1>4. \A w \in Workers : pc[w] = "loop"
  BY DEF Threads
<1>5. workqueue = <<>> /\ workqueue \in Seq(Requests) /\ Len(workqueue) = 0
  OBVIOUS
<1>6. req \in [Threads -> Requests \cup {Idle}]
  OBVIOUS
<1>7. lock \in Threads \cup {Nobody} /\ stop \in BOOLEAN
  OBVIOUS
<1>8. sem \in Nat
  OBVIOUS
<1>9. TypeOK
  BY <1>1, <1>3, <1>4, <1>5, <1>6, <1>7, <1>8 DEF TypeOK, ProducerPc, WorkerPc
<1>10. LockDiscipline
  BY <1>2 DEF LockDiscipline, HoldsLock, Threads
<1>11. RequestHeld /\ RoomToPush
  BY <1>2, <1>3 DEF RequestHeld, RoomToPush
<1>12. TestsStillHold
  BY <1>4, <1>5 DEF TestsStillHold
<1>13. QED
  BY <1>9, <1>10, <1>11, <1>12 DEF IInv

\* Every step keeps the types.
LEMMA TypeStep ==
    ASSUME IInv, [Next]_vars
    PROVE  TypeOK'
<1> USE PoolAssumption DEF IInv, TypeOK, Threads, Goto, Lock, Unlock, ProducerPc, WorkerPc
<1>1. ASSUME NEW p \in Producers, NEW r \in Requests, AppendLock(p, r) PROVE TypeOK'
  BY <1>1 DEF AppendLock
<1>2. ASSUME NEW p \in Producers, AppendFull(p) PROVE TypeOK'
  BY <1>2 DEF AppendFull
<1>3. ASSUME NEW p \in Producers, AppendFits(p) PROVE TypeOK'
  BY <1>3 DEF AppendFits
<1>4. ASSUME NEW p \in Producers, Push(p) PROVE TypeOK'
  BY <1>4 DEF Push, RequestHeld
<1>5. ASSUME NEW p \in Producers, AppendUnlock(p) PROVE TypeOK'
  BY <1>5 DEF AppendUnlock
<1>6. ASSUME NEW p \in Producers, Post(p) PROVE TypeOK'
  BY <1>6 DEF Post
<1>7. ASSUME NEW w \in Workers, LoopTest(w) PROVE TypeOK'
  BY <1>7 DEF LoopTest
<1>8. ASSUME NEW w \in Workers, SemWait(w) PROVE TypeOK'
  BY <1>8 DEF SemWait
<1>9. ASSUME NEW w \in Workers, WaitInterrupted(w) PROVE TypeOK'
  BY <1>9 DEF WaitInterrupted
<1>10. ASSUME NEW w \in Workers, WorkerLock(w) PROVE TypeOK'
  BY <1>10 DEF WorkerLock
<1>11. ASSUME NEW w \in Workers, FoundEmpty(w) PROVE TypeOK'
  BY <1>11 DEF FoundEmpty
<1>12. ASSUME NEW w \in Workers, FoundWork(w) PROVE TypeOK'
  BY <1>12 DEF FoundWork
<1>13. ASSUME NEW w \in Workers, PopFront(w) PROVE TypeOK'
  BY <1>13 DEF PopFront, TestsStillHold
<1>14. ASSUME NEW w \in Workers, WorkerUnlock(w) PROVE TypeOK'
  BY <1>14 DEF WorkerUnlock
<1>15. ASSUME NEW w \in Workers, Process(w) PROVE TypeOK'
  BY <1>15 DEF Process
<1>16. CASE Destroy
  BY <1>16 DEF Destroy
<1>17. CASE UNCHANGED vars
  BY <1>17 DEF vars
<1>18. QED
  BY <1>1, <1>2, <1>3, <1>4, <1>5, <1>6, <1>7, <1>8, <1>9, <1>10, <1>11, <1>12, <1>13, <1>14, <1>15, <1>16, <1>17, NextCases

\* Every step leaves queuelocker to the one thread that is between lock() and unlock().
LEMMA LockStep ==
    ASSUME IInv, [Next]_vars
    PROVE  LockDiscipline'
<1> USE PoolAssumption DEF IInv, TypeOK, LockDiscipline, HoldsLock, Threads, Goto, Lock, Unlock
<1>1. ASSUME NEW p \in Producers, NEW r \in Requests, AppendLock(p, r) PROVE LockDiscipline'
  BY <1>1 DEF AppendLock
<1>2. ASSUME NEW p \in Producers, AppendFull(p) PROVE LockDiscipline'
  BY <1>2 DEF AppendFull
<1>3. ASSUME NEW p \in Producers, AppendFits(p) PROVE LockDiscipline'
  BY <1>3 DEF AppendFits
<1>4. ASSUME NEW p \in Producers, Push(p) PROVE LockDiscipline'
  BY <1>4 DEF Push
<1>5. ASSUME NEW p \in Producers, AppendUnlock(p) PROVE LockDiscipline'
  BY <1>5 DEF AppendUnlock
<1>6. ASSUME NEW p \in Producers, Post(p) PROVE LockDiscipline'
  BY <1>6 DEF Post
<1>7. ASSUME NEW w \in Workers, LoopTest(w) PROVE LockDiscipline'
  BY <1>7 DEF LoopTest
<1>8. ASSUME NEW w \in Workers, SemWait(w) PROVE LockDiscipline'
  BY <1>8 DEF SemWait
<1>9. ASSUME NEW w \in Workers, WaitInterrupted(w) PROVE LockDiscipline'
  BY <1>9 DEF WaitInterrupted
<1>10. ASSUME NEW w \in Workers, WorkerLock(w) PROVE LockDiscipline'
  BY <1>10 DEF WorkerLock
<1>11. ASSUME NEW w \in Workers, FoundEmpty(w) PROVE LockDiscipline'
  BY <1>11 DEF FoundEmpty
<1>12. ASSUME NEW w \in Workers, FoundWork(w) PROVE LockDiscipline'
  BY <1>12 DEF FoundWork
<1>13. ASSUME NEW w \in Workers, PopFront(w) PROVE LockDiscipline'
  BY <1>13 DEF PopFront
<1>14. ASSUME NEW w \in Workers, WorkerUnlock(w) PROVE LockDiscipline'
  BY <1>14 DEF WorkerUnlock
<1>15. ASSUME NEW w \in Workers, Process(w) PROVE LockDiscipline'
  BY <1>15 DEF Process
<1>16. CASE Destroy
  BY <1>16 DEF Destroy
<1>17. CASE UNCHANGED vars
  BY <1>17 DEF vars
<1>18. QED
  BY <1>1, <1>2, <1>3, <1>4, <1>5, <1>6, <1>7, <1>8, <1>9, <1>10, <1>11, <1>12, <1>13, <1>14, <1>15, <1>16, <1>17, NextCases

\* A worker that has popped holds the request it is to process, after every step.
LEMMA HeldStep ==
    ASSUME IInv, [Next]_vars
    PROVE  RequestHeld'
<1> USE PoolAssumption DEF IInv, TypeOK, RequestHeld, Threads, Goto
<1>1. ASSUME NEW p \in Producers, NEW r \in Requests, AppendLock(p, r) PROVE RequestHeld'
  BY <1>1 DEF AppendLock
<1>2. ASSUME NEW p \in Producers, AppendFull(p) PROVE RequestHeld'
  BY <1>2 DEF AppendFull
<1>3. ASSUME NEW p \in Producers, AppendFits(p) PROVE RequestHeld'
  BY <1>3 DEF AppendFits
<1>4. ASSUME NEW p \in Producers, Push(p) PROVE RequestHeld'
  BY <1>4 DEF Push
<1>5. ASSUME NEW p \in Producers, AppendUnlock(p) PROVE RequestHeld'
  BY <1>5 DEF AppendUnlock
<1>6. ASSUME NEW p \in Producers, Post(p) PROVE RequestHeld'
  BY <1>6 DEF Post
<1>7. ASSUME NEW w \in Workers, LoopTest(w) PROVE RequestHeld'
  BY <1>7 DEF LoopTest
<1>8. ASSUME NEW w \in Workers, SemWait(w) PROVE RequestHeld'
  BY <1>8 DEF SemWait
<1>9. ASSUME NEW w \in Workers, WaitInterrupted(w) PROVE RequestHeld'
  BY <1>9 DEF WaitInterrupted
<1>10. ASSUME NEW w \in Workers, WorkerLock(w) PROVE RequestHeld'
  BY <1>10 DEF WorkerLock
<1>11. ASSUME NEW w \in Workers, FoundEmpty(w) PROVE RequestHeld'
  BY <1>11 DEF FoundEmpty
<1>12. ASSUME NEW w \in Workers, FoundWork(w) PROVE RequestHeld'
  BY <1>12 DEF FoundWork
<1>13. ASSUME NEW w \in Workers, PopFront(w) PROVE RequestHeld'
  BY <1>13 DEF PopFront, TestsStillHold
<1>14. ASSUME NEW w \in Workers, WorkerUnlock(w) PROVE RequestHeld'
  BY <1>14 DEF WorkerUnlock
<1>15. ASSUME NEW w \in Workers, Process(w) PROVE RequestHeld'
  BY <1>15 DEF Process
<1>16. CASE Destroy
  BY <1>16 DEF Destroy
<1>17. CASE UNCHANGED vars
  BY <1>17 DEF vars
<1>18. QED
  BY <1>1, <1>2, <1>3, <1>4, <1>5, <1>6, <1>7, <1>8, <1>9, <1>10, <1>11, <1>12, <1>13, <1>14, <1>15, <1>16, <1>17, NextCases

\* What a thread tested under queuelocker stays true until the thread has acted on it.
LEMMA TestsStep ==
    ASSUME IInv, [Next]_vars
    PROVE  RoomToPush' /\ TestsStillHold'
<1> USE PoolAssumption DEF IInv, TypeOK, LockDiscipline, HoldsLock, RoomToPush, TestsStillHold, Threads, Goto
<1>1. ASSUME NEW p \in Producers, NEW r \in Requests, AppendLock(p, r) PROVE RoomToPush' /\ TestsStillHold'
  BY <1>1 DEF AppendLock
<1>2. ASSUME NEW p \in Producers, AppendFull(p) PROVE RoomToPush' /\ TestsStillHold'
  BY <1>2 DEF AppendFull
<1>3. ASSUME NEW p \in Producers, AppendFits(p) PROVE RoomToPush' /\ TestsStillHold'
  BY <1>3 DEF AppendFits
<1>4. ASSUME NEW p \in Producers, Push(p) PROVE RoomToPush' /\ TestsStillHold'
  BY <1>4 DEF Push, RequestHeld
<1>5. ASSUME NEW p \in Producers, AppendUnlock(p) PROVE RoomToPush' /\ TestsStillHold'
  BY <1>5 DEF AppendUnlock
<1>6. ASSUME NEW p \in Producers, Post(p) PROVE RoomToPush' /\ TestsStillHold'
  BY <1>6 DEF Post
<1>7. ASSUME NEW w \in Workers, LoopTest(w) PROVE RoomToPush' /\ TestsStillHold'
  BY <1>7 DEF LoopTest
<1>8. ASSUME NEW w \in Workers, SemWait(w) PROVE RoomToPush' /\ TestsStillHold'
  BY <1>8 DEF SemWait
<1>9. ASSUME NEW w \in Workers, WaitInterrupted(w) PROVE RoomToPush' /\ TestsStillHold'
  BY <1>9 DEF WaitInterrupted
<1>10. ASSUME NEW w \in Workers, WorkerLock(w) PROVE RoomToPush' /\ TestsStillHold'
  BY <1>10 DEF WorkerLock
<1>11. ASSUME NEW w \in Workers, FoundEmpty(w) PROVE RoomToPush' /\ TestsStillHold'
  BY <1>11 DEF FoundEmpty
<1>12. ASSUME NEW w \in Workers, FoundWork(w) PROVE RoomToPush' /\ TestsStillHold'
  BY <1>12 DEF FoundWork
<1>13. ASSUME NEW w \in Workers, PopFront(w) PROVE RoomToPush' /\ TestsStillHold'
  BY <1>13 DEF PopFront
<1>14. ASSUME NEW w \in Workers, WorkerUnlock(w) PROVE RoomToPush' /\ TestsStillHold'
  BY <1>14 DEF WorkerUnlock
<1>15. ASSUME NEW w \in Workers, Process(w) PROVE RoomToPush' /\ TestsStillHold'
  BY <1>15 DEF Process
<1>16. CASE Destroy
  BY <1>16 DEF Destroy
<1>17. CASE UNCHANGED vars
  BY <1>17 DEF vars
<1>18. QED
  BY <1>1, <1>2, <1>3, <1>4, <1>5, <1>6, <1>7, <1>8, <1>9, <1>10, <1>11, <1>12, <1>13, <1>14, <1>15, <1>16, <1>17, NextCases

-----------------------------------------------------------------------------
\* The two counted sets are finite, so their cardinalities are numbers.
LEMMA Counted ==
    ASSUME TypeOK
    PROVE  /\ IsFiniteSet(AtQueue) /\ Cardinality(AtQueue) \in Nat
           /\ IsFiniteSet(Posting) /\ Cardinality(Posting) \in Nat
           /\ Len(workqueue) \in Nat /\ sem \in Nat
<1>1. IsFiniteSet(AtQueue)
  BY PoolAssumption, FS_Subset DEF AtQueue
<1>2. IsFiniteSet(Posting)
  BY PoolAssumption, FS_Subset DEF Posting
<1>3. Len(workqueue) \in Nat /\ sem \in Nat
  BY DEF TypeOK
<1>4. QED
  BY <1>1, <1>2, <1>3, FS_CardinalityType

\* No step loses a wakeup: the semaphore and the threads on their way cover the queue.
LEMMA WakeupStep ==
    ASSUME IInv, NoLostWakeup, [Next]_vars
    PROVE  NoLostWakeup'
<1> USE PoolAssumption, Counted DEF IInv, NoLostWakeup, TypeOK, Threads, Goto
<1>1. ASSUME NEW p \in Producers, NEW r \in Requests, AppendLock(p, r) PROVE NoLostWakeup'
  <2>1. AtQueue' = AtQueue /\ Posting' = Posting
    BY <1>1 DEF AppendLock, AtQueue, Posting
  <2>2. QED
    BY <1>1, <2>1 DEF AppendLock
<1>2. ASSUME NEW p \in Producers, AppendFull(p) PROVE NoLostWakeup'
  <2>1. AtQueue' = AtQueue /\ Posting' = Posting
    BY <1>2 DEF AppendFull, AtQueue, Posting
  <2>2. QED
    BY <1>2, <2>1 DEF AppendFull
<1>3. ASSUME NEW p \in Producers, AppendFits(p) PROVE NoLostWakeup'
  <2>1. AtQueue' = AtQueue /\ Posting' = Posting
    BY <1>3 DEF AppendFits, AtQueue, Posting
  <2>2. QED
    BY <1>3, <2>1 DEF AppendFits
<1>4. ASSUME NEW p \in Producers, Push(p) PROVE NoLostWakeup'
  <2>1. p \notin Posting /\ Posting' = Posting \cup {p} /\ AtQueue' = AtQueue
    BY <1>4 DEF Push, AtQueue, Posting
  <2>2. Cardinality(Posting') = Cardinality(Posting) + 1
    BY <2>1, FS_AddElement
  <2>3. QED
    BY <1>4, <2>1, <2>2 DEF Push
<1>5. ASSUME NEW p \in Producers, AppendUnlock(p) PROVE NoLostWakeup'
  <2>1. AtQueue' = AtQueue /\ Posting' = Posting
    BY <1>5 DEF AppendUnlock, AtQueue, Posting
  <2>2. QED
    BY <1>5, <2>1 DEF AppendUnlock
<1>6. ASSUME NEW p \in Producers, Post(p) PROVE NoLostWakeup'
  <2>1. p \in Posting /\ Posting' = Posting \ {p} /\ AtQueue' = AtQueue
    BY <1>6 DEF Post, AtQueue, Posting
  <2>2. Cardinality(Posting') = Cardinality(Posting) - 1
    BY <2>1, FS_RemoveElement
  <2>3. QED
    BY <1>6, <2>1, <2>2 DEF Post
<1>7. ASSUME NEW w \in Workers, LoopTest(w) PROVE NoLostWakeup'
  <2>1. AtQueue' = AtQueue /\ Posting' = Posting
    BY <1>7 DEF LoopTest, AtQueue, Posting
  <2>2. QED
    BY <1>7, <2>1 DEF LoopTest
<1>8. ASSUME NEW w \in Workers, SemWait(w) PROVE NoLostWakeup'
  <2>1. w \notin AtQueue /\ AtQueue' = AtQueue \cup {w} /\ Posting' = Posting
    BY <1>8 DEF SemWait, AtQueue, Posting
  <2>2. Cardinality(AtQueue') = Cardinality(AtQueue) + 1
    BY <2>1, FS_AddElement
  <2>3. QED
    BY <1>8, <2>1, <2>2 DEF SemWait
<1>9. ASSUME NEW w \in Workers, WaitInterrupted(w) PROVE NoLostWakeup'
  <2>1. w \notin AtQueue /\ AtQueue' = AtQueue \cup {w} /\ Posting' = Posting
    BY <1>9 DEF WaitInterrupted, AtQueue, Posting
  <2>2. Cardinality(AtQueue') = Cardinality(AtQueue) + 1
    BY <2>1, FS_AddElement
  <2>3. QED
    BY <1>9, <2>1, <2>2 DEF WaitInterrupted
<1>10. ASSUME NEW w \in Workers, WorkerLock(w) PROVE NoLostWakeup'
  <2>1. AtQueue' = AtQueue /\ Posting' = Posting
    BY <1>10 DEF WorkerLock, AtQueue, Posting
  <2>2. QED
    BY <1>10, <2>1 DEF WorkerLock
<1>11. ASSUME NEW w \in Workers, FoundEmpty(w) PROVE NoLostWakeup'
  <2>1. w \in AtQueue /\ AtQueue' = AtQueue \ {w} /\ Posting' = Posting
    BY <1>11 DEF FoundEmpty, AtQueue, Posting
  <2>2. Cardinality(AtQueue') \in Nat
    BY <2>1, FS_RemoveElement, FS_CardinalityType
  <2>3. Len(workqueue') = 0
    BY <1>11 DEF FoundEmpty
  <2>4. QED
    BY <1>11, <2>1, <2>2, <2>3 DEF FoundEmpty
<1>12. ASSUME NEW w \in Workers, FoundWork(w) PROVE NoLostWakeup'
  <2>1. AtQueue' = AtQueue /\ Posting' = Posting
    BY <1>12 DEF FoundWork, AtQueue, Posting
  <2>2. QED
    BY <1>12, <2>1 DEF FoundWork
<1>13. ASSUME NEW w \in Workers, PopFront(w) PROVE NoLostWakeup'
  <2>1. w \in AtQueue /\ AtQueue' = AtQueue \ {w} /\ Posting' = Posting
    BY <1>13 DEF PopFront, AtQueue, Posting
  <2>2. Cardinality(AtQueue') = Cardinality(AtQueue) - 1
    BY <2>1, FS_RemoveElement
  <2>3. QED
    BY <1>13, <2>1, <2>2 DEF PopFront, TestsStillHold
<1>14. ASSUME NEW w \in Workers, WorkerUnlock(w) PROVE NoLostWakeup'
  <2>1. AtQueue' = AtQueue /\ Posting' = Posting
    BY <1>14 DEF WorkerUnlock, AtQueue, Posting
  <2>2. QED
    BY <1>14, <2>1 DEF WorkerUnlock
<1>15. ASSUME NEW w \in Workers, Process(w) PROVE NoLostWakeup'
  <2>1. AtQueue' = AtQueue /\ Posting' = Posting
    BY <1>15 DEF Process, AtQueue, Posting
  <2>2. QED
    BY <1>15, <2>1 DEF Process
<1>16. CASE Destroy
  BY <1>16 DEF Destroy, AtQueue, Posting
<1>17. CASE UNCHANGED vars
  BY <1>17 DEF vars, AtQueue, Posting
<1>18. QED
  BY <1>1, <1>2, <1>3, <1>4, <1>5, <1>6, <1>7, <1>8, <1>9, <1>10, <1>11, <1>12, <1>13, <1>14, <1>15, <1>16, <1>17, NextCases

\* The empty queue needs no wakeup.
LEMMA WakeupInit == Init => NoLostWakeup
<1> SUFFICES ASSUME Init PROVE NoLostWakeup
  OBVIOUS
<1>1. TypeOK
  BY InvInit DEF IInv
<1>2. Len(workqueue) = 0 /\ sem = 0
  BY DEF Init
<1>3. QED
  BY <1>1, <1>2, Counted DEF NoLostWakeup

-----------------------------------------------------------------------------
(* The refinement: what Promise!serving and its steps are.                 *)

Serving == [w \in Workers |-> IF pc[w] \in {"popped", "process"} THEN req[w] ELSE Idle]

\* The pool as it is constructed is an empty queue of requests.
LEMMA PromiseInit == Init => Promise!Init
<1> SUFFICES ASSUME Init PROVE Promise!Init
  OBVIOUS
<1>1. \A w \in Workers : pc[w] = "loop"
  BY PoolAssumption DEF Init, Threads
<1>2. QED
  BY <1>1 DEF Init, Promise!Init

\* Every step of the pool is a step of the queue of requests or changes nothing of it.
LEMMA PromiseStep ==
    ASSUME IInv, IInv', [Next]_vars
    PROVE  [Promise!Next]_(Promise!vars)
<1> USE PoolAssumption DEF IInv, TypeOK, Threads, Goto
<1> DEFINE Same == workqueue' = workqueue /\ Serving' = Serving
<1>0. ASSUME Same PROVE UNCHANGED Promise!vars
  BY <1>0 DEF Serving, Promise!vars
<1>1. ASSUME NEW p \in Producers, NEW r \in Requests, AppendLock(p, r) PROVE [Promise!Next]_(Promise!vars)
  <2>1. Same
    BY <1>1 DEF AppendLock, Serving
  <2>2. QED
    BY <2>1, <1>0
<1>2. ASSUME NEW p \in Producers, AppendFull(p) PROVE [Promise!Next]_(Promise!vars)
  <2>1. Same
    BY <1>2 DEF AppendFull, Serving
  <2>2. QED
    BY <2>1, <1>0
<1>3. ASSUME NEW p \in Producers, AppendFits(p) PROVE [Promise!Next]_(Promise!vars)
  <2>1. Same
    BY <1>3 DEF AppendFits, Serving
  <2>2. QED
    BY <2>1, <1>0
<1>4. ASSUME NEW p \in Producers, Push(p) PROVE [Promise!Next]_(Promise!vars)
  <2>1. req[p] \in Requests /\ Len(workqueue) <= MaxRequests
    BY <1>4 DEF Push, RequestHeld, RoomToPush
  <2>2. workqueue' = Append(workqueue, req[p]) /\ Serving' = Serving
    BY <1>4 DEF Push, Serving
  <2>3. Promise!Accept(req[p])
    BY <2>1, <2>2 DEF Promise!Accept, Serving
  <2>4. QED
    BY <2>1, <2>3 DEF Promise!Next
<1>5. ASSUME NEW p \in Producers, AppendUnlock(p) PROVE [Promise!Next]_(Promise!vars)
  <2>1. Same
    BY <1>5 DEF AppendUnlock, Serving
  <2>2. QED
    BY <2>1, <1>0
<1>6. ASSUME NEW p \in Producers, Post(p) PROVE [Promise!Next]_(Promise!vars)
  <2>1. Same
    BY <1>6 DEF Post, Serving
  <2>2. QED
    BY <2>1, <1>0
<1>7. ASSUME NEW w \in Workers, LoopTest(w) PROVE [Promise!Next]_(Promise!vars)
  <2>1. Same
    BY <1>7 DEF LoopTest, Serving
  <2>2. QED
    BY <2>1, <1>0
<1>8. ASSUME NEW w \in Workers, SemWait(w) PROVE [Promise!Next]_(Promise!vars)
  <2>1. Same
    BY <1>8 DEF SemWait, Serving
  <2>2. QED
    BY <2>1, <1>0
<1>9. ASSUME NEW w \in Workers, WaitInterrupted(w) PROVE [Promise!Next]_(Promise!vars)
  <2>1. Same
    BY <1>9 DEF WaitInterrupted, Serving
  <2>2. QED
    BY <2>1, <1>0
<1>10. ASSUME NEW w \in Workers, WorkerLock(w) PROVE [Promise!Next]_(Promise!vars)
  <2>1. Same
    BY <1>10 DEF WorkerLock, Serving
  <2>2. QED
    BY <2>1, <1>0
<1>11. ASSUME NEW w \in Workers, FoundEmpty(w) PROVE [Promise!Next]_(Promise!vars)
  <2>1. Same
    BY <1>11 DEF FoundEmpty, Serving
  <2>2. QED
    BY <2>1, <1>0
<1>12. ASSUME NEW w \in Workers, FoundWork(w) PROVE [Promise!Next]_(Promise!vars)
  <2>1. Same
    BY <1>12 DEF FoundWork, Serving
  <2>2. QED
    BY <2>1, <1>0
<1>13. ASSUME NEW w \in Workers, PopFront(w) PROVE [Promise!Next]_(Promise!vars)
  <2>1. workqueue # <<>> /\ workqueue' = Tail(workqueue)
    BY <1>13 DEF PopFront, TestsStillHold
  <2>2. Serving[w] = Idle
    BY <1>13 DEF PopFront, Serving
  <2>3. Serving' = [Serving EXCEPT ![w] = Head(workqueue)]
    BY <1>13 DEF PopFront, Serving
  <2>4. Promise!Take(w)
    BY <2>1, <2>2, <2>3 DEF Promise!Take, Serving
  <2>5. QED
    BY <2>4 DEF Promise!Next
<1>14. ASSUME NEW w \in Workers, WorkerUnlock(w) PROVE [Promise!Next]_(Promise!vars)
  <2>1. Same
    BY <1>14 DEF WorkerUnlock, Serving
  <2>2. QED
    BY <2>1, <1>0
<1>15. ASSUME NEW w \in Workers, Process(w) PROVE [Promise!Next]_(Promise!vars)
  <2>1. Serving[w] = req[w] /\ req[w] \in Requests
    BY <1>15 DEF Process, Serving, RequestHeld
  <2>2. Serving' = [Serving EXCEPT ![w] = Idle] /\ workqueue' = workqueue
    BY <1>15 DEF Process, Serving
  <2>3. Promise!Finish(w)
    BY <2>1, <2>2 DEF Promise!Finish, Serving
  <2>4. QED
    BY <2>3 DEF Promise!Next
<1>16. CASE Destroy
  <2>1. Same
    BY <1>16 DEF Destroy, Serving
  <2>2. QED
    BY <2>1, <1>0
<1>17. CASE UNCHANGED vars
  <2>1. Same
    BY <1>17 DEF vars, Serving
  <2>2. QED
    BY <2>1, <1>0
<1>18. QED
  BY <1>1, <1>2, <1>3, <1>4, <1>5, <1>6, <1>7, <1>8, <1>9, <1>10, <1>11, <1>12, <1>13, <1>14, <1>15, <1>16, <1>17, NextCases

-----------------------------------------------------------------------------
(* The theorems                                                            *)

\* The inductive invariant holds of every behaviour of the pool.
LEMMA Invariant == Spec => []IInv
<1>1. IInv /\ [Next]_vars => IInv'
  BY TypeStep, LockStep, HeldStep, TestsStep DEF IInv
<1>2. QED
  BY InvInit, <1>1, PTL DEF Spec

\* Every variable keeps its type: append() only ever queues its argument, and
\* the semaphore's value never goes below 0.
THEOREM TypeCorrect == Spec => []TypeOK
<1>1. IInv => TypeOK
  BY DEF IInv
<1>2. QED
  BY Invariant, <1>1, PTL

\* Mutual exclusion: m_queuelocker belongs to the one thread that is inside a
\* critical section of append() or run(), and no path leaves with it held.
THEOREM MutualExclusion == Spec => []LockDiscipline
<1>1. IInv => LockDiscipline
  BY DEF IInv
<1>2. QED
  BY Invariant, <1>1, PTL

\* The list never holds more than m_max_requests + 1 requests, and front() is
\* never called on an empty list.
THEOREM TestsHold == Spec => []TestsStillHold
<1>1. IInv => TestsStillHold
  BY DEF IInv
<1>2. QED
  BY Invariant, <1>1, PTL

\* Every queued request is covered by a post or by a worker about to look, for
\* any number of callers, workers and interrupted waits.
THEOREM WakeupNeverLost == Spec => []NoLostWakeup
<1>1. IInv /\ NoLostWakeup /\ [Next]_vars => NoLostWakeup'
  BY WakeupStep
<1>2. QED
  BY WakeupInit, Invariant, <1>1, PTL DEF Spec

\* The pool implements the abstract bounded FIFO queue.
THEOREM PoolImplementsQueue == Spec => ImplementsRequestQueue
<1>1. IInv /\ IInv' /\ [Next]_vars => [Promise!Next]_(Promise!vars)
  BY PromiseStep
<1>2. QED
  BY PromiseInit, Invariant, <1>1, PTL DEF Spec, ImplementsRequestQueue, Promise!Spec
=============================================================================

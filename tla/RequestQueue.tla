---------------------------- MODULE RequestQueue ----------------------------
(***************************************************************************)
(* What threadpool<T> promises its callers, with no lock, semaphore or     *)
(* program counter: a bounded FIFO queue of requests from which idle       *)
(* workers take, each accepted request going to exactly one worker.        *)
(* ThreadPool is shown to implement it; Server uses it as its queue.       *)
(***************************************************************************)
EXTENDS Naturals, Sequences

CONSTANTS Workers,      \* the threads the pool created
          Requests,     \* the values of T* that callers append
          MaxRequests,  \* m_max_requests
          Idle          \* "this worker serves nothing"

VARIABLES queue,        \* accepted requests nobody has taken yet
          serving       \* the request each worker is working on

vars == <<queue, serving>>

Init ==
    /\ queue = <<>>
    /\ serving = [w \in Workers |-> Idle]

\* append() returned true: it refuses only when the queue is LONGER than the limit.
Accept(r) ==
    /\ Len(queue) <= MaxRequests
    /\ queue' = Append(queue, r)
    /\ UNCHANGED serving

\* An idle worker takes the oldest request.
Take(w) ==
    /\ serving[w] = Idle
    /\ queue # <<>>
    /\ queue' = Tail(queue)
    /\ serving' = [serving EXCEPT ![w] = Head(queue)]

\* process() returned.
Finish(w) ==
    /\ serving[w] # Idle
    /\ serving' = [serving EXCEPT ![w] = Idle]
    /\ UNCHANGED queue

Next ==
    \/ \E r \in Requests : Accept(r)
    \/ \E w \in Workers : Take(w) \/ Finish(w)

Spec == Init /\ [][Next]_vars
=============================================================================

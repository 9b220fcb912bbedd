---------------------------- MODULE MCThreadPool ----------------------------
(* A small pool: two callers, two workers, a queue limit of one.           *)
EXTENDS ThreadPool, TLC

CONSTANTS p1, p2, w1, w2, r1, r2

MCProducers == {p1, p2}
MCWorkers == {w1, w2}
MCRequests == {r1, r2}
=============================================================================

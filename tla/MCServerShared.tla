--------------------------- MODULE MCServerShared ---------------------------
(* Several connections sharing the workers: batches of several events,     *)
(* timers of several connections in one tick, a full queue.                *)
EXTENDS Server, TLC

CONSTANTS f1, f2, f3, w1, w2

MCFds == {f1, f2, f3}
MCWorkers == {w1, w2}

Symmetry == Permutations(MCFds) \cup Permutations(MCWorkers)

\* The invariants say nothing of disturbed states, and these stay disturbed;
\* after a lost alarm nothing happens that could not have happened before it
\* without the pipe being reported.
Undisturbed == ~disturbed /\ alarm # "lost"
=============================================================================

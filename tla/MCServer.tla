------------------------------ MODULE MCServer ------------------------------
(* One descriptor, reused by successive connections, and two workers.      *)
EXTENDS Server, TLC

CONSTANTS f1, w1, w2

MCFds == {f1}
MCWorkers == {w1, w2}
=============================================================================

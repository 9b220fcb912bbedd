---------------------------- MODULE MCUserStore ----------------------------
(* Two workers, two names, two passwords.                                  *)
EXTENDS UserStore, TLC

CONSTANTS w1, w2, n1, n2, p1, p2

MCWorkers == {w1, w2}
MCNames == {n1, n2}
MCPasswords == {p1, p2}
=============================================================================

----------------------------- MODULE MCAsyncLog -----------------------------
(* Two threads that log, a queue of two lines, a new file every two lines:  *)
(* one of them, if it alone logs, writes on until a file could hold more    *)
(* than it should.                                                          *)
EXTENDS AsyncLog, TLC

CONSTANTS w1, w2

MCWriters == {w1, w2}
MCLines == ({w1} \X (1..6)) \cup ({w2} \X {1})
=============================================================================

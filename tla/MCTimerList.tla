---------------------------- MODULE MCTimerList ----------------------------
(* Four timers, so that a middle node has neighbours on both sides that    *)
(* are neither head nor tail when it moves.                                *)
EXTENDS TimerList, TLC

CONSTANTS t1, t2, t3, t4

MCTimers == {t1, t2, t3, t4}
=============================================================================

------------------------------ MODULE TimerSet ------------------------------
(***************************************************************************)
(* What sort_timer_lst promises the event loop, with no list: a set of     *)
(* pending timers, each with the time it expires at.  A tick reads the     *)
(* clock once and fires expired timers, never one that is not due; while   *)
(* the clock has not been set back it fires ALL the expired ones, oldest   *)
(* first.  TimerList is shown to implement it.                             *)
(***************************************************************************)
EXTENDS Naturals

CONSTANTS Timers,   \* addresses "new util_timer" may return
          TTL       \* 3 * TIMESLOT

VARIABLES pending,  \* timers added and neither deleted nor fired
          expire,   \* when each pending timer expires
          now,      \* time(NULL)
          setback,  \* the clock has been set back
          ticking,  \* tick() is running
          cur       \* the time tick() read

vars == <<pending, expire, now, setback, ticking, cur>>

Init ==
    /\ pending = {}
    /\ expire = [t \in Timers |-> 0]
    /\ now = 0
    /\ setback = FALSE
    /\ ticking = FALSE
    /\ cur = 0

\* A new timer, or a later deadline for a pending one.
Start(t) ==
    /\ ~ticking
    /\ pending' = pending \cup {t}
    /\ expire' = [expire EXCEPT ![t] = now + TTL]
    /\ UNCHANGED <<now, setback, ticking, cur>>

Cancel(t) ==
    /\ ~ticking
    /\ t \in pending
    /\ pending' = pending \ {t}
    /\ expire' = [expire EXCEPT ![t] = 0]
    /\ UNCHANGED <<now, setback, ticking, cur>>

TickBegin ==
    /\ ~ticking
    /\ pending # {}
    /\ ticking' = TRUE
    /\ cur' = now
    /\ UNCHANGED <<pending, expire, now, setback>>

Fire(t) ==
    /\ ticking
    /\ t \in pending
    /\ expire[t] <= cur
    /\ setback \/ \A u \in pending : expire[t] <= expire[u]
    /\ pending' = pending \ {t}
    /\ expire' = [expire EXCEPT ![t] = 0]
    /\ UNCHANGED <<now, setback, ticking, cur>>

TickEnd ==
    /\ ticking
    /\ setback \/ \A t \in pending : expire[t] > cur
    /\ ticking' = FALSE
    /\ cur' = 0
    /\ UNCHANGED <<pending, expire, now, setback>>

Elapse ==
    /\ now' = now + 1
    /\ UNCHANGED <<pending, expire, setback, ticking, cur>>

SetBack ==
    /\ now > 0
    /\ now' = now - 1
    /\ setback' = TRUE
    /\ UNCHANGED <<pending, expire, ticking, cur>>

\* The program ends and its timers with it.
Discard ==
    /\ ~ticking
    /\ pending' = {}
    /\ expire' = [t \in Timers |-> 0]
    /\ UNCHANGED <<now, setback, ticking, cur>>

Next ==
    \/ \E t \in Timers : Start(t) \/ Cancel(t) \/ Fire(t)
    \/ TickBegin \/ TickEnd \/ Elapse \/ SetBack \/ Discard

Spec == Init /\ [][Next]_vars
=============================================================================

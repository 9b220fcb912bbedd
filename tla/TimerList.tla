----------------------------- MODULE TimerList -----------------------------
(***************************************************************************)
(* lst_timer.h: the doubly linked list of util_timer nodes, with the       *)
(* deadlines main() gives them (time(NULL) + 3 * TIMESLOT).  Timers are    *)
(* the addresses "new util_timer" may return; live are those not deleted.  *)
(* The loops of add_timer(), tick() and the destructor take one step per   *)
(* turn; only the main thread touches the list, so at most one operation   *)
(* is under way.  The clock is the wall clock and may be set back.  The    *)
(* fields of a deleted node and the locals of a finished call are reset,   *)
(* as nothing may read them.                                               *)
(***************************************************************************)
EXTENDS Naturals, FiniteSets

CONSTANTS Timers, TTL, NULL,
          MaxTime           \* bound: the clock stops there

ASSUME TimerAssumption ==
    /\ IsFiniteSet(Timers)
    /\ NULL \notin Timers
    /\ TTL \in Nat \ {0}
    /\ MaxTime \in Nat

VARIABLES head, tail,       \* of the list
          next, prev,       \* of each node
          expire,           \* of each node
          live,             \* nodes allocated and not deleted
          now, setback,     \* the clock, and whether it was ever set back
          pc,               \* the operation under way
          timer, at,        \* add_timer(timer, lst_head): timer and prev
          cur               \* tick(): the time it read

list == <<head, tail, next, prev, expire, live>>
clock == <<now, setback>>
vars == <<list, clock, pc, timer, at, cur>>

Node == Timers \cup {NULL}

TypeOK ==
    /\ head \in Node /\ tail \in Node
    /\ next \in [Timers -> Node] /\ prev \in [Timers -> Node]
    /\ expire \in [Timers -> Nat]
    /\ live \in SUBSET Timers
    /\ now \in Nat /\ setback \in BOOLEAN /\ cur \in Nat
    /\ pc \in {"idle", "walk", "tick", "end"}
    /\ timer \in Node /\ at \in Node
    /\ pc = "walk" => timer \in live /\ at \in live

Init ==
    /\ head = NULL /\ tail = NULL
    /\ next = [t \in Timers |-> NULL] /\ prev = [t \in Timers |-> NULL]
    /\ expire = [t \in Timers |-> 0]
    /\ live = {}
    /\ now = 0 /\ setback = FALSE /\ cur = 0
    /\ pc = "idle" /\ timer = NULL /\ at = NULL

Goto(from, to) == pc = from /\ pc' = to

-----------------------------------------------------------------------------
(* The clock                                                               *)

Elapse ==
    /\ now < MaxTime
    /\ now' = now + 1
    /\ UNCHANGED <<list, setback, pc, timer, at, cur>>

SetBack ==
    /\ now > 0
    /\ now' = now - 1
    /\ setback' = TRUE
    /\ UNCHANGED <<list, pc, timer, at, cur>>

-----------------------------------------------------------------------------
(* main() accepts a connection: new util_timer, its deadline, add_timer(). *)

Allocate(t) ==
    /\ t \notin live
    /\ live' = live \cup {t}             \* its constructor sets prev and next to NULL
    /\ expire' = [expire EXCEPT ![t] = now + TTL]

AddFirst(t) ==
    /\ head = NULL
    /\ pc = "idle" /\ Allocate(t)
    /\ head' = t /\ tail' = t
    /\ UNCHANGED <<next, prev, clock, pc, timer, at, cur>>

AddBeforeHead(t) ==
    /\ head # NULL
    /\ pc = "idle" /\ Allocate(t)
    /\ now + TTL < expire[head]
    /\ next' = [next EXCEPT ![t] = head]
    /\ prev' = [prev EXCEPT ![head] = t]
    /\ head' = t
    /\ UNCHANGED <<tail, clock, pc, timer, at, cur>>

AddAfterHead(t) ==
    /\ head # NULL
    /\ Goto("idle", "walk") /\ Allocate(t)
    /\ now + TTL >= expire[head]
    /\ timer' = t /\ at' = head
    /\ UNCHANGED <<head, tail, next, prev, clock, cur>>

Add(t) == AddFirst(t) \/ AddBeforeHead(t) \/ AddAfterHead(t)

-----------------------------------------------------------------------------
(* add_timer(timer, lst_head): look for the place behind lst_head.         *)

\* mutant: follows next without looking for the end of the list.
WalkOff ==
    /\ pc = "walk"
    /\ next[at] # NULL => expire[timer] >= expire[next[at]]
    /\ at' = next[at]
    /\ UNCHANGED <<list, clock, pc, timer, cur>>

WalkOn ==
    /\ pc = "walk"
    /\ next[at] # NULL
    /\ expire[timer] >= expire[next[at]]
    /\ at' = next[at]
    /\ UNCHANGED <<list, clock, pc, timer, cur>>

InsertBetween ==
    /\ Goto("walk", "idle") /\ timer' = NULL /\ at' = NULL
    /\ next[at] # NULL
    /\ expire[timer] < expire[next[at]]
    /\ next' = [next EXCEPT ![at] = timer, ![timer] = next[at]]
    /\ prev' = [prev EXCEPT ![next[at]] = timer, ![timer] = at]
    /\ UNCHANGED <<head, tail, expire, live, clock, cur>>

\* mutant: timer->next keeps its old value.
InsertLastKeepsNext ==
    /\ Goto("walk", "idle") /\ timer' = NULL /\ at' = NULL
    /\ next[at] = NULL
    /\ next' = [next EXCEPT ![at] = timer]
    /\ prev' = [prev EXCEPT ![timer] = at]
    /\ tail' = timer
    /\ UNCHANGED <<head, expire, live, clock, cur>>

InsertLast ==
    /\ Goto("walk", "idle") /\ timer' = NULL /\ at' = NULL
    /\ next[at] = NULL
    /\ next' = [next EXCEPT ![at] = timer, ![timer] = NULL]
    /\ prev' = [prev EXCEPT ![timer] = at]
    /\ tail' = timer
    /\ UNCHANGED <<head, expire, live, clock, cur>>

-----------------------------------------------------------------------------
(* main() served the connection: a new deadline, adjust_timer().           *)

Postpone(t) ==
    /\ t \in live
    /\ expire' = [expire EXCEPT ![t] = now + TTL]

\* mutant: the node is never moved.
AdjustNeverMoves(t) ==
    /\ pc = "idle" /\ Postpone(t)
    /\ UNCHANGED <<head, tail, next, prev, live, clock, pc, timer, at, cur>>

AdjustInPlace(t) ==
    /\ pc = "idle" /\ Postpone(t)
    /\ next[t] # NULL => now + TTL < expire[next[t]]
    /\ UNCHANGED <<head, tail, next, prev, live, clock, pc, timer, at, cur>>

AdjustHead(t) ==
    /\ t = head
    /\ Goto("idle", "walk") /\ Postpone(t)
    /\ next[t] # NULL /\ now + TTL >= expire[next[t]]
    /\ head' = next[t]
    /\ prev' = [prev EXCEPT ![next[t]] = NULL]
    /\ next' = [next EXCEPT ![t] = NULL]
    /\ timer' = t /\ at' = next[t]
    /\ UNCHANGED <<tail, live, clock, cur>>

\* mutant: timer->next->prev is not redirected.
AdjustInnerHalf(t) ==
    /\ t # head
    /\ Goto("idle", "walk") /\ Postpone(t)
    /\ next[t] # NULL /\ now + TTL >= expire[next[t]]
    /\ next' = [next EXCEPT ![prev[t]] = next[t]]
    /\ timer' = t /\ at' = next[t]
    /\ UNCHANGED <<head, tail, prev, live, clock, cur>>

AdjustInner(t) ==
    /\ t # head
    /\ Goto("idle", "walk") /\ Postpone(t)
    /\ next[t] # NULL /\ now + TTL >= expire[next[t]]
    /\ next' = [next EXCEPT ![prev[t]] = next[t]]
    /\ prev' = [prev EXCEPT ![next[t]] = prev[t]]
    /\ timer' = t /\ at' = next[t]
    /\ UNCHANGED <<head, tail, live, clock, cur>>

Adjust(t) == AdjustInPlace(t) \/ AdjustHead(t) \/ AdjustInner(t)

-----------------------------------------------------------------------------
(* main() closed the connection: del_timer().                              *)

\* delete t, once the pointers to it have been redirected in n and p.
Delete(t, n, p) ==
    /\ live' = live \ {t}
    /\ next' = [n EXCEPT ![t] = NULL]
    /\ prev' = [p EXCEPT ![t] = NULL]
    /\ expire' = [expire EXCEPT ![t] = 0]
    /\ UNCHANGED <<clock, pc, timer, at, cur>>

DelOnly(t) ==
    /\ pc = "idle" /\ t \in live
    /\ t = head /\ t = tail
    /\ head' = NULL /\ tail' = NULL
    /\ Delete(t, next, prev)

\* mutant: the new head keeps pointing back at the deleted node.
DelHeadKeepsPrev(t) ==
    /\ pc = "idle" /\ t \in live
    /\ t = head /\ t # tail
    /\ head' = next[t]
    /\ Delete(t, next, prev)
    /\ UNCHANGED tail

DelHead(t) ==
    /\ pc = "idle" /\ t \in live
    /\ t = head /\ t # tail
    /\ head' = next[t]
    /\ Delete(t, next, [prev EXCEPT ![next[t]] = NULL])
    /\ UNCHANGED tail

DelTail(t) ==
    /\ pc = "idle" /\ t \in live
    /\ t # head /\ t = tail
    /\ tail' = prev[t]
    /\ Delete(t, [next EXCEPT ![prev[t]] = NULL], prev)
    /\ UNCHANGED head

DelInner(t) ==
    /\ pc = "idle" /\ t \in live
    /\ t # head /\ t # tail
    /\ Delete(t, [next EXCEPT ![prev[t]] = next[t]], [prev EXCEPT ![next[t]] = prev[t]])
    /\ UNCHANGED <<head, tail>>

Del(t) == DelOnly(t) \/ DelHead(t) \/ DelTail(t) \/ DelInner(t)

-----------------------------------------------------------------------------
(* tick(), and the destructor that runs when the program ends.             *)

TickBegin ==
    /\ head # NULL
    /\ Goto("idle", "tick")
    /\ cur' = now
    /\ UNCHANGED <<list, clock, timer, at>>

\* cb_func(), unlink the head, delete it.  tail is left as it is.
TickFire ==
    /\ pc = "tick"
    /\ head # NULL
    /\ cur >= expire[head]
    /\ head' = next[head]
    /\ Delete(head, next, [t \in Timers |-> IF t = next[head] THEN NULL ELSE prev[t]])
    /\ UNCHANGED tail

\* mutant: a timer due exactly now is left for the next tick.
TickEndEarly ==
    /\ Goto("tick", "idle")
    /\ head # NULL => cur <= expire[head]
    /\ cur' = 0
    /\ UNCHANGED <<list, clock, timer, at>>

TickEnd ==
    /\ Goto("tick", "idle")
    /\ head # NULL => cur < expire[head]
    /\ cur' = 0
    /\ UNCHANGED <<list, clock, timer, at>>

Exit ==
    /\ Goto("idle", "end")
    /\ UNCHANGED <<list, clock, timer, at, cur>>

\* ~sort_timer_lst() deletes from the head on.
DestroyHead ==
    /\ pc = "end"
    /\ head # NULL
    /\ head' = next[head]
    /\ Delete(head, next, prev)
    /\ UNCHANGED tail

Operation == \E t \in Timers : Add(t) \/ Adjust(t) \/ Del(t)

Loop == WalkOn \/ InsertBetween \/ InsertLast \/ TickFire \/ TickEnd \/ DestroyHead

Next == Operation \/ Loop \/ TickBegin \/ Exit \/ Elapse \/ SetBack

Spec == Init /\ [][Next]_vars

\* A call that has begun goes on.
FairSpec == Spec /\ WF_vars(Loop)

-----------------------------------------------------------------------------
(* Properties                                                              *)

\* Between operations the list is one chain of exactly the live nodes: head and
\* tail are its ends, next and prev agree, no node is lost, freed or cyclic.
Linked ==
    pc \in {"idle", "tick"} =>
        \E rank \in [live -> 1..Cardinality(live)] :
            /\ \A t, u \in live : rank[t] = rank[u] => t = u
            /\ \A t \in live : head = t <=> rank[t] = 1
            /\ \A t \in live : tail = t <=> rank[t] = Cardinality(live)
            /\ \A t, u \in live : next[t] = u <=> rank[u] = rank[t] + 1
            /\ \A t, u \in live : prev[u] = t <=> rank[u] = rank[t] + 1
            /\ \A t \in live : next[t] \in live \cup {NULL} /\ prev[t] \in live \cup {NULL}
            /\ head \in live \cup {NULL}

\* Even in the middle of an operation no pointer the code may follow leads to a
\* deleted node; tail is followed only when the list is not empty.
NoDanglingPointer ==
    /\ head \in live \cup {NULL}
    /\ head # NULL => tail \in live
    /\ \A t \in live : next[t] \in live \cup {NULL}
    /\ pc # "end" => \A t \in live : prev[t] \in live \cup {NULL}

\* lst_timer.h:23 calls the list ascending.
Ascending ==
    pc = "idle" => \A t \in live : next[t] # NULL => expire[t] <= expire[next[t]]

\* It is, while the clock has never been set back: each insertion finds its
\* place and adjust_timer() may skip the nodes before the timer.
AscendingIfMonotone == ~setback => Ascending

\* The nodes a loop has in front of it: those the walk reaches by next, the node it is
\* at included; for a tick and the destructor, which delete them, all.
Closed(S) == \A t \in S : next[t] \in S \cup {NULL}
InFront ==
    IF pc = "walk" THEN {t \in live : \A S \in SUBSET live : at \in S /\ Closed(S) => t \in S}
                   ELSE live

\* No turn of a loop is in vain: it leaves fewer nodes in front, so the walk of
\* add_timer() never comes back to a node, whatever adjust_timer() left in its next.
LoopsShorten ==
    [][pc # "idle" /\ pc' = pc => InFront' \subseteq InFront /\ InFront' # InFront]_<<list, pc, at>>

\* The walk of add_timer(), a tick and the destructor end.
OperationsEnd == pc # "idle" ~> (pc = "idle" \/ (pc = "end" /\ live = {}))

\* The list implements the set of timers: it loses none, fires none that is not
\* due, and a tick fires every expired one, oldest first, unless the clock was set back.
Promise == INSTANCE TimerSet WITH
    pending <- IF pc = "end" THEN {} ELSE live,
    expire <- [t \in Timers |-> IF pc = "end" THEN 0 ELSE expire[t]],
    ticking <- (pc = "tick")

ImplementsTimerSet == Promise!Spec
=============================================================================

------------------------------ MODULE LogBook ------------------------------
(***************************************************************************)
(* What the asynchronous log promises, with no threads: lines to be        *)
(* written are kept in order and written one by one, each of them once.  A *)
(* line may be written at once instead, in front of those still to be      *)
(* written, and what is still to be written when the program ends is lost. *)
(* AsyncLog is shown to implement it.                                      *)
(***************************************************************************)
EXTENDS Sequences, Functions

CONSTANT Lines

VARIABLES todo,     \* accepted and not written yet
          book      \* written

vars == <<todo, book>>

Init == todo = <<>> /\ book = <<>>

New(l) == l \notin Range(todo) \cup Range(book)

Accept(l) == New(l) /\ todo' = Append(todo, l) /\ UNCHANGED book

Write ==
    /\ todo # <<>>
    /\ book' = Append(book, Head(todo))
    /\ todo' = Tail(todo)

WriteAtOnce(l) == New(l) /\ book' = Append(book, l) /\ UNCHANGED todo

End == todo' = <<>> /\ UNCHANGED book

Next == Write \/ End \/ \E l \in Lines : Accept(l) \/ WriteAtOnce(l)

Spec == Init /\ [][Next]_vars
=============================================================================

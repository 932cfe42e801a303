------------------------------ MODULE BoundedFIFO ------------------------------
(***************************************************************************)
(* What the queue between the two threads promises: a first-in first-out   *)
(* channel that holds at most Bound items.  Nothing is said of indices,    *)
(* slots, atomics or of when a store becomes visible.                      *)
(***************************************************************************)
EXTENDS Naturals, Sequences

CONSTANTS Messages, Bound, Unset

VARIABLES queue,   \* the items pushed and not yet taken, oldest first
          taken    \* the item the last pop delivered

Init == queue = <<>> /\ taken = Unset

Push(m) == Len(queue) < Bound /\ queue' = Append(queue, m) /\ UNCHANGED taken

Pop == queue # <<>> /\ taken' = Head(queue) /\ queue' = Tail(queue)

Next == Pop \/ \E m \in Messages : Push(m)

Spec == Init /\ [][Next]_<<queue, taken>>
=============================================================================

----------------------------- MODULE OrderQueues -----------------------------
(***************************************************************************)
(* What the intrusive lists of the book promise: a queue of orders at each *)
(* level and a stack of free slots, as values.  OrderBook is written with  *)
(* these queues; OrderLists shows that the linked nodes implement them.    *)
(***************************************************************************)
EXTENDS PriceLevel

CONSTANTS Capacity,   \* OrderPool::capacity
          kLevels     \* levels per side

VARIABLES fifo,   \* the orders of each level, oldest first
          stack   \* the free slots, the next one to be handed out first

Node == 1 .. Capacity
LevelId == {"B", "S"} \X (0 .. kLevels - 1)

AllFree == [k \in Node |-> k]

QueuesInit == fifo = [l \in LevelId |-> <<>>] /\ stack = AllFree

Enqueue(l) ==
    /\ stack # <<>>
    /\ fifo' = [fifo EXCEPT ![l] = Append(@, Head(stack))]
    /\ stack' = Tail(stack)

Leave(l, o) ==
    /\ o \in Range(fifo[l])
    /\ fifo' = [fifo EXCEPT ![l] = Unlink(@, o)]
    /\ stack' = <<o>> \o stack

(* The order that replaces o takes its slot, at the end of a queue. *)
Requeue(l, o, m) ==
    /\ o \in Range(fifo[l])
    /\ fifo' = LET left == [fifo EXCEPT ![l] = Unlink(@, o)]
               IN  [left EXCEPT ![m] = Append(@, o)]
    /\ UNCHANGED stack

(* The queues of side s are put together anew, each order in one of them  *)
(* and once; the slot that came in or was replaced is last at index 0.     *)
Rearrange(s) ==
    LET mine   == {l \in LevelId : l[1] = s}
        others == LevelId \ mine
    IN  /\ \A l \in others : fifo'[l] = fifo[l]
        /\ \A l \in mine : IsInjective(fifo'[l]) /\ Range(fifo'[l]) \cap Range(stack') = {}
        /\ \A l \in mine : \A m \in LevelId \ {l} : Range(fifo'[l]) \cap Range(fifo'[m]) = {}
        /\ fifo'[<<s, 0>>] # <<>>
        /\ \/ stack # <<>> /\ Last(fifo'[<<s, 0>>]) = Head(stack) /\ stack' = Tail(stack)
           \/ (\E l \in mine : Last(fifo'[<<s, 0>>]) \in Range(fifo[l])) /\ UNCHANGED stack

Drain == fifo' = [l \in LevelId |-> <<>>] /\ stack' = AllFree

QueuesNext ==
    \/ \E l \in LevelId : Enqueue(l)
    \/ \E l \in LevelId, o \in Node : Leave(l, o)
    \/ \E l, m \in LevelId, o \in Node : Requeue(l, o, m)
    \/ \E s \in {"B", "S"} : Rearrange(s)
    \/ Drain

QueuesSpec == QueuesInit /\ [][QueuesNext]_<<fifo, stack>>
=============================================================================

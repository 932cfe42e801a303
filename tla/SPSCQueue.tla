------------------------------ MODULE SPSCQueue ------------------------------
(***************************************************************************)
(* The lock-free ring buffer of include/transport/spsc_queue.hpp, one      *)
(* atomic access or slot copy per step, under the C++ memory model.        *)
(*                                                                         *)
(* head_ and tail_ count the stores made to the atomic of that name: the   *)
(* atomic's value is the count modulo Capacity.  head_ is stored by the    *)
(* consumer only and tail_ by the producer only, so a thread always reads  *)
(* its own atomic's last value.  The other's may be read late: tail_seen   *)
(* is the store a load of tail_ by the consumer returns, head_seen the one *)
(* a load of head_ by the producer returns.  They move forwards on their   *)
(* own, when a store becomes visible.  A load is an acquire and a store a  *)
(* release, so what preceded the store that is seen is visible too.        *)
(***************************************************************************)
EXTENDS Integers, Sequences

CONSTANTS Capacity,   \* slots of the ring
          Messages,   \* items
          Unset       \* what an unused slot or variable holds

ASSUME CapacityAssumption == Capacity \in Nat \ {0}

VARIABLES
    head_, tail_,           \* stores made so far to the two atomics
    head_seen, tail_seen,   \* the stores the other thread sees
    slots_,                 \* the ring
    push,                   \* the producer inside try_push: step and item
    pop                     \* the consumer inside try_pop: step and item

producer_vars == <<tail_, head_seen, slots_, push>>
consumer_vars == <<head_, tail_seen, pop>>
queue_vars    == <<head_, tail_, head_seen, tail_seen, slots_, push, pop>>

(* The value of an atomic after n stores: the code masks with Capacity - 1, *)
(* Capacity being a power of two.                                           *)
Slot(n) == n % Capacity

QueueInit ==
    /\ head_ = 0 /\ tail_ = 0
    /\ head_seen = 0 /\ tail_seen = 0
    /\ slots_ = [i \in 0 .. Capacity - 1 |-> Unset]
    /\ push = [at |-> "idle", item |-> Unset]
    /\ pop  = [at |-> "idle", item |-> Unset]

-----------------------------------------------------------------------------
(* try_push *)

(* Mutant: the ring is never full. *)
never_full == FALSE

full == Slot(tail_ + 1) = Slot(head_seen)

(* Returns false: the queue is full, as far as the producer can see. *)
TryPushFails ==
    /\ push.at = "idle" /\ full
    /\ UNCHANGED queue_vars

TryPushStarts(m) ==
    /\ push.at = "idle" /\ ~full
    /\ push' = [at |-> "slot", item |-> m]
    /\ UNCHANGED <<tail_, head_seen, slots_>> /\ UNCHANGED consumer_vars

(* Mutant: the item goes to the slot after the one that is published. *)
TryPushCopiesAhead ==
    /\ push.at = "slot"
    /\ slots_' = [slots_ EXCEPT ![Slot(tail_ + 1)] = push.item]
    /\ push' = [push EXCEPT !.at = "tail"]
    /\ UNCHANGED <<tail_, head_seen>> /\ UNCHANGED consumer_vars

TryPushCopies ==
    /\ push.at = "slot"
    /\ slots_' = [slots_ EXCEPT ![Slot(tail_)] = push.item]
    /\ push' = [push EXCEPT !.at = "tail"]
    /\ UNCHANGED <<tail_, head_seen>> /\ UNCHANGED consumer_vars

(* The release store of tail_; returns true. *)
TryPushPublishes ==
    /\ push.at = "tail"
    /\ tail_' = tail_ + 1
    /\ push' = [push EXCEPT !.at = "idle"]
    /\ UNCHANGED <<head_seen, slots_>> /\ UNCHANGED consumer_vars

(* A store of head_ becomes visible to the producer. *)
HeadVisible ==
    /\ head_seen' \in head_seen + 1 .. head_
    /\ UNCHANGED <<tail_, slots_, push>> /\ UNCHANGED consumer_vars

-----------------------------------------------------------------------------
(* try_pop, and empty() as the consumer calls it: its own head_ is exact. *)

(* Mutant: emptiness is judged by the ring being full. *)
empty_at_next == Slot(head_ + 1) = Slot(tail_seen)

empty == Slot(head_) = Slot(tail_seen)

(* Returns false: the queue is empty, as far as the consumer can see. *)
TryPopFails ==
    /\ pop.at = "idle" /\ empty
    /\ UNCHANGED queue_vars

TryPopStarts ==
    /\ pop.at = "idle" /\ ~empty
    /\ pop' = [pop EXCEPT !.at = "slot"]
    /\ UNCHANGED <<head_, tail_seen>> /\ UNCHANGED producer_vars

TryPopCopies ==
    /\ pop.at = "slot"
    /\ pop' = [at |-> "head", item |-> slots_[Slot(head_)]]
    /\ UNCHANGED <<head_, tail_seen>> /\ UNCHANGED producer_vars

(* The release store of head_; returns true. *)
TryPopPublishes ==
    /\ pop.at = "head"
    /\ head_' = head_ + 1
    /\ pop' = [pop EXCEPT !.at = "idle"]
    /\ UNCHANGED tail_seen /\ UNCHANGED producer_vars

(* A store of tail_ becomes visible to the consumer. *)
TailVisible ==
    /\ tail_seen' \in tail_seen + 1 .. tail_
    /\ UNCHANGED <<head_, pop>> /\ UNCHANGED producer_vars

-----------------------------------------------------------------------------
(* Mutant: the two loads are swapped. *)
size_approx_swapped(t, h) == (Slot(h) - Slot(t)) % Capacity

(* size_approx, when the loads of tail_ and head_ return their stores t and h. *)
size_approx(t, h) == (Slot(t) - Slot(h)) % Capacity

-----------------------------------------------------------------------------
(* Any producer with any consumer. *)
QueueNext ==
    \/ TryPushFails \/ TryPushCopies \/ TryPushPublishes \/ HeadVisible
    \/ \E m \in Messages : TryPushStarts(m)
    \/ TryPopFails \/ TryPopStarts \/ TryPopCopies \/ TryPopPublishes \/ TailVisible

QueueSpec == QueueInit /\ [][QueueNext]_queue_vars

-----------------------------------------------------------------------------
(* The type of the queue's state. *)
QueueTypeOK ==
    /\ head_ \in Nat /\ tail_ \in Nat /\ head_seen \in Nat /\ tail_seen \in Nat
    /\ slots_ \in [0 .. Capacity - 1 -> Messages \cup {Unset}]
    /\ push \in [at : {"idle", "slot", "tail"}, item : Messages \cup {Unset}]
    /\ pop  \in [at : {"idle", "slot", "head"}, item : Messages \cup {Unset}]

(***************************************************************************)
(* No data race on a slot.  When the producer is about to overwrite a slot *)
(* it has seen the head_ store that gave its previous item away, and when  *)
(* the consumer is about to copy a slot it has seen the tail_ store that   *)
(* published it: the two plain accesses are ordered by happens-before.     *)
(***************************************************************************)
NoDataRace ==
    /\ push.at = "slot" => tail_ < head_seen + Capacity
    /\ pop.at = "slot" => head_ < tail_seen

(***************************************************************************)
(* The ring never takes its Capacity-th item, so that equal indices always *)
(* mean empty; and what each thread sees of the other is never ahead of it *)
(* nor so old that the ring would have gone round.                         *)
(***************************************************************************)
WindowOK ==
    /\ head_seen <= head_ /\ head_ <= tail_seen /\ tail_seen <= tail_
    /\ tail_ < head_seen + Capacity

(***************************************************************************)
(* size_approx errs on one side only: called by the producer it is never   *)
(* less than the number of items in the ring, called by the consumer never *)
(* more, however late each sees the other's stores.                        *)
(***************************************************************************)
SizeIsBracketed ==
    /\ tail_ - head_ <= size_approx(tail_, head_seen)
    /\ size_approx(tail_seen, head_) <= tail_ - head_

(***************************************************************************)
(* The queue as an implementation of BoundedFIFO.  A push takes effect     *)
(* when tail_ is stored, a pop when the consumer has copied the slot.      *)
(***************************************************************************)
first    == IF pop.at = "head" THEN head_ + 1 ELSE head_
Contents == [k \in 1 .. tail_ - first |-> slots_[Slot(first + k - 1)]]

FIFO == INSTANCE BoundedFIFO WITH queue <- Contents, taken <- pop.item,
                                  Bound <- Capacity - 1

(***************************************************************************)
(* Whatever the delays between the threads, items come out once each, in   *)
(* the order they went in, and at most Capacity - 1 are ever inside.       *)
(***************************************************************************)
ImplementsFIFO == FIFO!Spec
=============================================================================

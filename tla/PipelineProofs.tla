---------------------------- MODULE PipelineProofs ----------------------------
(***************************************************************************)
(* Proofs about the SPSC queue and the replay program built on it.         *)
(*                                                                         *)
(* The queue, for every capacity and every set of items: the window        *)
(* invariant, freedom from data races, and that it implements a bounded    *)
(* FIFO.  These theorems are about QueueSpec alone.                        *)
(*                                                                         *)
(* The replay program, for every set of files and every queue capacity:    *)
(* the parser stays inside the file's buffer, the two threads use the      *)
(* queue as its proofs ask, and the book thread leaves its loop only when  *)
(* every message has been booked, each given to its handler in the order   *)
(* of the file.                                                            *)
(***************************************************************************)
EXTENDS Pipeline, TLAPS, SequenceTheorems, FiniteSetTheorems, NaturalsInduction,
        WellFoundedInduction

-----------------------------------------------------------------------------
(***************************************************************************)
(* The queue.                                                              *)
(***************************************************************************)

(* A fact of linear arithmetic. *)
LEMMA Difference ==
    ASSUME NEW a \in Int, NEW b \in Int, NEW c \in Int,
           NEW x \in Int, NEW y \in Int, NEW r \in Int, NEW s \in Int,
           a = x + r, b = y + s, b = a + c
    PROVE  s - r = c - (y - x)
OBVIOUS

(* A count is a number of whole rounds of the ring, and its slot. *)
LEMMA SlotDiv ==
    ASSUME NEW a \in Nat
    PROVE  /\ a \div Capacity \in Int
           /\ Slot(a) \in 0 .. Capacity - 1
           /\ a = Capacity * (a \div Capacity) + Slot(a)
BY CapacityAssumption DEF Slot

(* Counts less than Capacity apart share a slot only if they are equal. *)
LEMMA SlotNear ==
    ASSUME NEW a \in Nat, NEW b \in Nat, b <= a, a < b + Capacity
    PROVE  (Slot(a) = Slot(b)) <=> (a = b)
<1> DEFINE q == a \div Capacity
           p == b \div Capacity
<1>1. /\ q \in Int /\ p \in Int
      /\ a = Capacity * q + Slot(a) /\ b = Capacity * p + Slot(b)
      /\ Slot(a) \in 0 .. Capacity - 1 /\ Slot(b) \in 0 .. Capacity - 1
  BY SlotDiv
<1>2. ASSUME Slot(a) = Slot(b) PROVE a = b
  <2> HIDE DEF q, p
  <2>1. a - b = Capacity * (q - p)
    BY <1>1, <1>2, CapacityAssumption
  <2>2. q - p < 1
    <3> SUFFICES ASSUME q - p >= 1 PROVE FALSE
      BY <1>1
    <3>1. Capacity * (q - p) >= Capacity
      BY <1>1, CapacityAssumption
    <3> QED BY <3>1, <2>1, CapacityAssumption
  <2>3. q - p > -1
    <3> SUFFICES ASSUME q - p <= -1 PROVE FALSE
      BY <1>1
    <3>1. Capacity * (q - p) <= -Capacity
      BY <1>1, CapacityAssumption
    <3> QED BY <3>1, <2>1, CapacityAssumption
  <2>4. q = p
    BY <2>2, <2>3, <1>1
  <2> QED BY <2>4, <1>1, <1>2
<1> QED BY <1>2

(* One round later the slot is the same. *)
LEMMA SlotRound ==
    ASSUME NEW a \in Nat
    PROVE  Slot(a + Capacity) = Slot(a)
<1> DEFINE b == a + Capacity
           q == a \div Capacity
           p == b \div Capacity
<1>0. b \in Nat
  BY CapacityAssumption
<1>1. /\ q \in Int /\ p \in Int
      /\ a = Capacity * q + Slot(a) /\ b = Capacity * p + Slot(b)
      /\ Slot(a) \in 0 .. Capacity - 1 /\ Slot(b) \in 0 .. Capacity - 1
  BY <1>0, SlotDiv
<1>a. b = a + Capacity
  OBVIOUS
<1> HIDE DEF b, q, p
<1>2. Slot(b) - Slot(a) = Capacity * (1 - (p - q))
  <2>1. Capacity * (1 - (p - q)) = Capacity - (Capacity * p - Capacity * q)
    BY <1>1, CapacityAssumption
  <2>2. Capacity * p \in Int /\ Capacity * q \in Int
    BY <1>1, CapacityAssumption
  <2>a. Slot(a) \in Int /\ Slot(b) \in Int /\ Capacity \in Int
    BY <1>1, CapacityAssumption
  <2> DEFINE x == Capacity * q
             y == Capacity * p
  <2>b. x \in Int /\ y \in Int /\ a = x + Slot(a) /\ b = y + Slot(b)
    BY <2>2, <1>1
  <2> HIDE DEF x, y
  <2>3. Slot(b) - Slot(a) = Capacity - (y - x)
    BY <2>a, <2>b, <1>0, <1>a, Difference
  <2> QED BY <2>1, <2>3 DEF x, y
<1>3. ASSUME p - q >= 2 PROVE FALSE
  <2>1. Capacity * (1 - (p - q)) <= -Capacity
    BY <1>1, <1>3, CapacityAssumption
  <2> QED BY <2>1, <1>1, <1>2, CapacityAssumption
<1>4. ASSUME p - q <= 0 PROVE FALSE
  <2>1. Capacity * (1 - (p - q)) >= Capacity
    BY <1>1, <1>4, CapacityAssumption
  <2> QED BY <2>1, <1>1, <1>2, CapacityAssumption
<1>5. p - q = 1
  BY <1>1, <1>3, <1>4
<1> QED BY <1>0, <1>1, <1>2, <1>5, <1>a, CapacityAssumption

-----------------------------------------------------------------------------
(***************************************************************************)
(* The inductive invariant.  Besides the window: a push in progress has    *)
(* seen room for its item and, once copied, has it in its slot; a pop in   *)
(* progress has seen its item published.                                   *)
(***************************************************************************)
QueueInv ==
    /\ QueueTypeOK
    /\ WindowOK
    /\ push.at # "idle" => push.item \in Messages /\ tail_ + 1 < head_seen + Capacity
    /\ push.at = "tail" => slots_[Slot(tail_)] = push.item
    /\ pop.at # "idle" => head_ < tail_seen

(* A push that starts has room: full is exact on what the producer sees. *)
LEMMA NotFull ==
    ASSUME QueueTypeOK, WindowOK, ~full
    PROVE  tail_ + 1 < head_seen + Capacity
<1>1. tail_ + 1 <= head_seen + Capacity
  BY CapacityAssumption DEF QueueTypeOK, WindowOK
<1>2. tail_ + 1 # head_seen + Capacity
  BY SlotRound DEF QueueTypeOK, full
<1> QED BY <1>1, <1>2, CapacityAssumption DEF QueueTypeOK

(* A pop that starts has an item: empty is exact on what the consumer sees. *)
LEMMA NotEmpty ==
    ASSUME QueueTypeOK, WindowOK, ~empty
    PROVE  head_ < tail_seen
<1>1. head_ <= tail_seen
  BY DEF WindowOK
<1>2. head_ # tail_seen
  BY DEF empty
<1> QED BY <1>1, <1>2 DEF QueueTypeOK

(* Slots of the ring. *)
LEMMA SlotIn ==
    ASSUME NEW n \in Nat
    PROVE  Slot(n) \in 0 .. Capacity - 1
BY SlotDiv

(* The initial state satisfies the invariant. *)
LEMMA QueueInitInv == QueueInit => QueueInv
BY CapacityAssumption DEF QueueInit, QueueInv, QueueTypeOK, WindowOK

(* Every step keeps the invariant. *)
LEMMA QueueStep == QueueInv /\ [QueueNext]_queue_vars => QueueInv'
<1>a. SUFFICES ASSUME QueueInv, [QueueNext]_queue_vars PROVE QueueInv'
  OBVIOUS
<1>b. /\ QueueTypeOK /\ WindowOK
      /\ push.at # "idle" => push.item \in Messages /\ tail_ + 1 < head_seen + Capacity
      /\ push.at = "tail" => slots_[Slot(tail_)] = push.item
      /\ pop.at # "idle" => head_ < tail_seen
  BY <1>a DEF QueueInv
<1> USE CapacityAssumption DEF QueueInv, QueueTypeOK, WindowOK, producer_vars, consumer_vars
<1>1. CASE TryPushFails
  BY <1>b, <1>1 DEF TryPushFails, queue_vars
<1>2. ASSUME NEW m \in Messages, TryPushStarts(m) PROVE QueueInv'
  BY <1>b, <1>2, NotFull DEF TryPushStarts
<1>3. CASE TryPushCopies
  BY <1>b, <1>3, SlotIn DEF TryPushCopies
<1>4. CASE TryPushPublishes
  BY <1>b, <1>4 DEF TryPushPublishes
<1>5. CASE HeadVisible
  <2>1. PICK n \in head_seen + 1 .. head_ : head_seen' = n
    BY <1>5 DEF HeadVisible
  <2>2. UNCHANGED <<head_, tail_, tail_seen, slots_, push, pop>>
    BY <1>5 DEF HeadVisible
  <2>3. n \in Nat /\ head_seen < n /\ n <= head_
    BY <1>b
  <2> QED BY <1>b, <2>1, <2>2, <2>3
<1>6. CASE TryPopFails
  BY <1>b, <1>6 DEF TryPopFails, queue_vars
<1>7. CASE TryPopStarts
  BY <1>b, <1>7, NotEmpty DEF TryPopStarts
<1>8. CASE TryPopCopies
  BY <1>b, <1>8, SlotIn DEF TryPopCopies
<1>9. CASE TryPopPublishes
  BY <1>b, <1>9 DEF TryPopPublishes
<1>10. CASE TailVisible
  BY <1>b, <1>10 DEF TailVisible
<1>11. CASE UNCHANGED queue_vars
  BY <1>b, <1>11 DEF queue_vars
<1> QED
  BY <1>a, <1>1, <1>2, <1>3, <1>4, <1>5, <1>6, <1>7, <1>8, <1>9, <1>10, <1>11 DEF QueueNext

(* The invariant holds of every behaviour of the queue. *)
THEOREM QueueInvariance == QueueSpec => []QueueInv
BY QueueInitInv, QueueStep, PTL DEF QueueSpec

(***************************************************************************)
(* The accesses of the two threads to a slot are always ordered, for every *)
(* capacity and every delay between a store and its being seen.            *)
(***************************************************************************)
THEOREM RaceFreedom == QueueSpec => []NoDataRace
<1>1. QueueInv => NoDataRace
  BY CapacityAssumption DEF QueueInv, QueueTypeOK, WindowOK, NoDataRace
<1> QED BY <1>1, QueueInvariance, PTL

(* The ring never fills up to its last slot, and no view of it is too old. *)
THEOREM WindowHolds == QueueSpec => []WindowOK
<1>1. QueueInv => WindowOK
  BY DEF QueueInv
<1> QED BY <1>1, QueueInvariance, PTL

(* The masked difference of two counts less than Capacity apart is exact. *)
LEMMA SizeExact ==
    ASSUME NEW a \in Nat, NEW b \in Nat, b <= a, a < b + Capacity
    PROVE  size_approx(a, b) = a - b
<1> DEFINE q == a \div Capacity
           p == b \div Capacity
           d == Slot(a) - Slot(b)
<1>1. /\ q \in Int /\ p \in Int
      /\ a = Capacity * q + Slot(a) /\ b = Capacity * p + Slot(b)
      /\ Slot(a) \in 0 .. Capacity - 1 /\ Slot(b) \in 0 .. Capacity - 1
  BY SlotDiv
<1>2. size_approx(a, b) = d % Capacity
  BY DEF size_approx
<1>d. d = Slot(a) - Slot(b)
  OBVIOUS
<1> HIDE DEF q, p, d
<1> DEFINE x == Capacity * q
           y == Capacity * p
           r == Capacity * (q - p)
<1>x. x \in Int /\ y \in Int /\ r \in Int /\ r = x - y
  BY <1>1, CapacityAssumption
<1>y. a = x + Slot(a) /\ b = y + Slot(b)
  BY <1>1
<1>r. r = Capacity * (q - p)
  OBVIOUS
<1> HIDE DEF x, y, r
<1>3. a - b = r + d
  <2>1. Slot(a) \in Int /\ Slot(b) \in Int /\ a \in Int /\ b \in Int
    BY <1>1, CapacityAssumption
  <2> QED BY <2>1, <1>d, <1>x, <1>y
<1>4. d \in Int /\ -Capacity < d /\ d < Capacity
  BY <1>1, <1>d, CapacityAssumption
<1>5. q - p \in {0, 1}
  <2>1. ASSUME q - p >= 2 PROVE FALSE
    <3>1. r >= 2 * Capacity
      BY <2>1, <1>1, <1>r, CapacityAssumption
    <3> QED BY <3>1, <1>3, <1>4, <1>x, CapacityAssumption
  <2>2. ASSUME q - p <= -1 PROVE FALSE
    <3>1. r <= -Capacity
      BY <2>2, <1>1, <1>r, CapacityAssumption
    <3> QED BY <3>1, <1>3, <1>4, <1>x, CapacityAssumption
  <2> QED BY <2>1, <2>2, <1>1
<1>6. CASE q - p = 0
  <2>0. r = 0
    BY <1>6, <1>r, CapacityAssumption
  <2>1. d = a - b /\ d \in 0 .. Capacity - 1
    BY <2>0, <1>3, <1>4, CapacityAssumption
  <2>2. d % Capacity = d
    BY <2>1, CapacityAssumption
  <2> QED BY <2>1, <2>2, <1>2
<1>7. CASE q - p = 1
  <2>0. r = Capacity
    BY <1>7, <1>r, CapacityAssumption
  <2>1. d = (a - b) - Capacity /\ a - b \in 0 .. Capacity - 1
    BY <2>0, <1>3, <1>4, CapacityAssumption
  <2>2. d % Capacity = d + Capacity
    BY <2>1, CapacityAssumption
  <2> QED BY <2>1, <2>2, <1>2, CapacityAssumption
<1> QED BY <1>5, <1>6, <1>7

(* size_approx is a bound on the number of items, above or below by caller. *)
THEOREM SizeBrackets == QueueSpec => []SizeIsBracketed
<1>1. QueueInv => SizeIsBracketed
  <2> SUFFICES ASSUME QueueInv PROVE SizeIsBracketed
    OBVIOUS
  <2>1. /\ head_ \in Nat /\ tail_ \in Nat /\ head_seen \in Nat /\ tail_seen \in Nat
        /\ head_seen <= head_ /\ head_ <= tail_seen /\ tail_seen <= tail_
        /\ tail_ < head_seen + Capacity
    BY DEF QueueInv, QueueTypeOK, WindowOK
  <2>2. size_approx(tail_, head_seen) = tail_ - head_seen
    BY <2>1, SizeExact, CapacityAssumption
  <2>3. size_approx(tail_seen, head_) = tail_seen - head_
    BY <2>1, SizeExact, CapacityAssumption
  <2> QED BY <2>1, <2>2, <2>3 DEF SizeIsBracketed
<1> QED BY <1>1, QueueInvariance, PTL

-----------------------------------------------------------------------------
(* A run of slots is a sequence of items. *)
LEMMA SlotsSeq ==
    ASSUME QueueTypeOK, NEW f \in Nat, NEW n \in Nat
    PROVE  /\ [k \in 1 .. n |-> slots_[Slot(f + k - 1)]] \in Seq(Messages \cup {Unset})
           /\ Len([k \in 1 .. n |-> slots_[Slot(f + k - 1)]]) = n
<1>1. \A k \in 1 .. n : slots_[Slot(f + k - 1)] \in Messages \cup {Unset}
  <2> SUFFICES ASSUME NEW k \in 1 .. n PROVE slots_[Slot(f + k - 1)] \in Messages \cup {Unset}
    OBVIOUS
  <2>1. f + k - 1 \in Nat
    OBVIOUS
  <2>2. Slot(f + k - 1) \in 0 .. Capacity - 1
    BY <2>1, SlotIn
  <2> QED BY <2>2 DEF QueueTypeOK
<1> QED BY <1>1

(* What the invariant says of the items inside the ring. *)
LEMMA ContentsType ==
    ASSUME QueueInv
    PROVE  /\ first \in Nat /\ head_ <= first /\ first <= tail_
           /\ Contents \in Seq(Messages \cup {Unset})
           /\ Len(Contents) = tail_ - first
<1>1. first \in Nat /\ head_ <= first /\ first <= tail_
  BY DEF QueueInv, QueueTypeOK, WindowOK, first
<1>2. tail_ - first \in Nat
  BY <1>1 DEF QueueInv, QueueTypeOK
<1> QED BY <1>1, <1>2, SlotsSeq DEF QueueInv, Contents

(* The item of the slot a push writes is not one of those inside. *)
LEMMA CopyKeepsContents ==
    ASSUME QueueInv, TryPushCopies
    PROVE  Contents' = Contents
<1>1. first' = first /\ tail_' = tail_
  BY DEF TryPushCopies, first, consumer_vars
<1>2. \A k \in 1 .. tail_ - first :
          slots_'[Slot(first + k - 1)] = slots_[Slot(first + k - 1)]
  <2> SUFFICES ASSUME NEW k \in 1 .. tail_ - first
               PROVE  slots_'[Slot(first + k - 1)] = slots_[Slot(first + k - 1)]
    OBVIOUS
  <2> DEFINE j == first + k - 1
  <2>1. j \in Nat /\ j < tail_ /\ head_ <= j
    BY ContentsType DEF QueueInv, QueueTypeOK
  <2>2. tail_ < j + Capacity
    BY <2>1, CapacityAssumption DEF QueueInv, QueueTypeOK, WindowOK
  <2> HIDE DEF j
  <2>3. Slot(tail_) # Slot(j)
    BY <2>1, <2>2, SlotNear DEF QueueInv, QueueTypeOK
  <2>4. slots_' = [slots_ EXCEPT ![Slot(tail_)] = push.item]
    BY DEF TryPushCopies
  <2>5. Slot(j) \in 0 .. Capacity - 1 /\ slots_ \in [0 .. Capacity - 1 -> Messages \cup {Unset}]
    BY <2>1, SlotIn DEF QueueInv, QueueTypeOK
  <2>6. slots_'[Slot(j)] = slots_[Slot(j)]
    BY <2>3, <2>4, <2>5
  <2> QED BY <2>6 DEF j
<1> QED BY <1>1, <1>2 DEF Contents

(* Publishing appends the item: a push of the abstract queue. *)
LEMMA PublishIsPush ==
    ASSUME QueueInv, TryPushPublishes
    PROVE  FIFO!Push(push.item)
<1> DEFINE n == tail_ - first
<1>1. first' = first /\ tail_' = tail_ + 1 /\ slots_' = slots_ /\ pop' = pop
  BY DEF TryPushPublishes, first, consumer_vars
<1>2. n \in Nat /\ tail_' - first' = n + 1 /\ first \in Nat
  BY <1>1, ContentsType DEF QueueInv, QueueTypeOK
<1>3. n < Capacity - 1
  BY ContentsType, CapacityAssumption DEF QueueInv, QueueTypeOK, WindowOK, TryPushPublishes
<1>5. slots_[Slot(first + (n + 1) - 1)] = push.item
  <2>1. first + (n + 1) - 1 = tail_
    BY <1>2 DEF QueueInv, QueueTypeOK
  <2> QED BY <2>1 DEF QueueInv, TryPushPublishes
<1>6. Contents' = [k \in 1 .. n + 1 |-> slots_[Slot(first + k - 1)]]
  BY <1>1, <1>2 DEF Contents
<1>7. Contents \in Seq(Messages \cup {Unset}) /\ Len(Contents) = n
  BY ContentsType
<1>8. Contents = [k \in 1 .. n |-> slots_[Slot(first + k - 1)]]
  BY DEF Contents
<1>4. Contents' \in Seq(Messages \cup {Unset}) /\ Len(Contents') = n + 1
  <2>1. n + 1 \in Nat /\ first \in Nat /\ QueueTypeOK
    BY <1>2 DEF QueueInv
  <2> HIDE DEF n
  <2>2. /\ [k \in 1 .. n + 1 |-> slots_[Slot(first + k - 1)]] \in Seq(Messages \cup {Unset})
        /\ Len([k \in 1 .. n + 1 |-> slots_[Slot(first + k - 1)]]) = n + 1
    BY <2>1, SlotsSeq
  <2> QED BY <2>2, <1>6
<1>9. push.item \in Messages \cup {Unset}
  BY DEF QueueInv, QueueTypeOK
<1> HIDE DEF n
<1>10. Contents' = Append(Contents, push.item)
  <2>1. Append(Contents, push.item) \in Seq(Messages \cup {Unset})
        /\ Len(Append(Contents, push.item)) = n + 1
    BY <1>7, <1>9, <1>2
  <2>2. \A k \in 1 .. n + 1 : Contents'[k] = Append(Contents, push.item)[k]
    <3> SUFFICES ASSUME NEW k \in 1 .. n + 1
                 PROVE  Contents'[k] = Append(Contents, push.item)[k]
      OBVIOUS
    <3>1. CASE k = n + 1
      BY <3>1, <1>5, <1>6, <1>7, <1>2
    <3>2. CASE k # n + 1
      BY <3>2, <1>6, <1>7, <1>8, <1>2
    <3> QED BY <3>1, <3>2
  <2> QED BY <2>1, <2>2, <1>4, <1>2
<1> QED BY <1>1, <1>3, <1>7, <1>10 DEF FIFO!Push

(* Copying an item out takes the first one: a pop of the abstract queue. *)
LEMMA CopyIsPop ==
    ASSUME QueueInv, TryPopCopies
    PROVE  FIFO!Pop
<1> DEFINE n == tail_ - first
<1>1. /\ first = head_ /\ first' = head_ + 1 /\ tail_' = tail_ /\ slots_' = slots_
      /\ pop.at = "slot" /\ pop'.item = slots_[Slot(head_)]
  BY DEF TryPopCopies, first, producer_vars
<1>2. n \in Nat /\ n > 0 /\ tail_' - first' = n - 1 /\ first \in Nat
  BY <1>1 DEF QueueInv, QueueTypeOK, WindowOK
<1>3. Contents \in Seq(Messages \cup {Unset}) /\ Len(Contents) = n
  BY ContentsType
<1>4. Contents = [k \in 1 .. n |-> slots_[Slot(first + k - 1)]]
  BY DEF Contents
<1>5. Contents' = [k \in 1 .. n - 1 |-> slots_[Slot(first + 1 + k - 1)]]
  BY <1>1, <1>2 DEF Contents
<1>6. Contents' \in Seq(Messages \cup {Unset}) /\ Len(Contents') = n - 1
  <2>1. n - 1 \in Nat /\ first + 1 \in Nat /\ QueueTypeOK
    BY <1>2 DEF QueueInv
  <2> HIDE DEF n
  <2>2. /\ [k \in 1 .. n - 1 |-> slots_[Slot(first + 1 + k - 1)]] \in Seq(Messages \cup {Unset})
        /\ Len([k \in 1 .. n - 1 |-> slots_[Slot(first + 1 + k - 1)]]) = n - 1
    BY <2>1, SlotsSeq
  <2> QED BY <2>2, <1>5
<1> HIDE DEF n
<1>7. Head(Contents) = pop'.item
  <2>1. Contents[1] = slots_[Slot(first + 1 - 1)]
    BY <1>2, <1>4
  <2>2. first + 1 - 1 = first
    BY <1>2
  <2> QED BY <2>1, <2>2, <1>1, <1>2, <1>3
<1>8. Contents' = Tail(Contents)
  <2>1. Tail(Contents) \in Seq(Messages \cup {Unset}) /\ Len(Tail(Contents)) = n - 1
    BY <1>2, <1>3
  <2>2. \A k \in 1 .. n - 1 : Contents'[k] = Tail(Contents)[k]
    <3> SUFFICES ASSUME NEW k \in 1 .. n - 1 PROVE Contents'[k] = Tail(Contents)[k]
      OBVIOUS
    <3>1. Tail(Contents)[k] = Contents[k + 1]
      BY <1>2, <1>3
    <3>2. Contents[k + 1] = slots_[Slot(first + (k + 1) - 1)]
      BY <1>2, <1>4
    <3>3. first + (k + 1) - 1 = first + 1 + k - 1
      BY <1>2
    <3> QED BY <3>1, <3>2, <3>3, <1>5
  <2> QED BY <2>1, <2>2, <1>2, <1>6
<1>9. Contents # <<>>
  BY <1>2, <1>3
<1> QED BY <1>7, <1>8, <1>9 DEF FIFO!Pop

(***************************************************************************)
(* The queue implements a bounded FIFO of Capacity - 1 items: no item is   *)
(* lost, doubled, reordered or invented, however late either thread sees   *)
(* the other's stores.                                                     *)
(***************************************************************************)
THEOREM QueueIsFIFO == QueueSpec => ImplementsFIFO
<1>1. QueueInit => FIFO!Init
  BY DEF QueueInit, FIFO!Init, Contents, first
<1>2. QueueInv /\ [QueueNext]_queue_vars => [FIFO!Next]_<<Contents, pop.item>>
  <2>a. SUFFICES ASSUME QueueInv, [QueueNext]_queue_vars
                 PROVE  [FIFO!Next]_<<Contents, pop.item>>
    OBVIOUS
  <2>1. ASSUME UNCHANGED <<head_, tail_, slots_, pop>> PROVE UNCHANGED <<Contents, pop.item>>
    BY <2>1 DEF Contents, first
  <2>2. CASE UNCHANGED queue_vars
    BY <2>1, <2>2 DEF queue_vars
  <2>3. CASE TryPushFails \/ TryPopFails
    BY <2>2, <2>3 DEF TryPushFails, TryPopFails
  <2>4. ASSUME NEW m \in Messages, TryPushStarts(m) PROVE UNCHANGED <<Contents, pop.item>>
    BY <2>1, <2>4 DEF TryPushStarts, consumer_vars
  <2>5. CASE HeadVisible
    BY <2>1, <2>5 DEF HeadVisible, consumer_vars
  <2>6. CASE TailVisible
    BY <2>1, <2>6 DEF TailVisible, producer_vars
  <2>7. CASE TryPushCopies
    BY <2>a, <2>7, CopyKeepsContents DEF TryPushCopies, consumer_vars
  <2>8. CASE TryPushPublishes
    <3>1. push.item \in Messages
      BY <2>a, <2>8 DEF QueueInv, TryPushPublishes
    <3> QED BY <2>a, <2>8, <3>1, PublishIsPush DEF FIFO!Next
  <2>9. CASE TryPopStarts
    BY <2>9 DEF TryPopStarts, producer_vars, Contents, first
  <2>10. CASE TryPopCopies
    BY <2>a, <2>10, CopyIsPop DEF FIFO!Next
  <2>11. CASE TryPopPublishes
    BY <2>a, <2>11 DEF TryPopPublishes, producer_vars, Contents, first, QueueInv, QueueTypeOK
  <2> QED
    BY <2>a, <2>2, <2>3, <2>4, <2>5, <2>6, <2>7, <2>8, <2>9, <2>10, <2>11 DEF QueueNext
<1> QED BY <1>1, <1>2, QueueInvariance, PTL DEF QueueSpec, ImplementsFIFO, FIFO!Spec

-----------------------------------------------------------------------------
(***************************************************************************)
(* The replay program.                                                     *)
(***************************************************************************)

(* The reader's position and the frame it holds lie inside the file. *)
ReaderInv ==
    /\ buf \in Files
    /\ pos_ \in Nat
    /\ raw # NoFrame => /\ raw.at \in Nat /\ raw.len \in Nat
                        /\ raw.at >= 2 /\ raw.len > 0 /\ raw.at + raw.len <= Len(buf)
    /\ parser = "push" => raw # NoFrame

(* Where a thread is inside the queue's operations follows from its loop.  *)
(* The flag goes up only after the last push, and the book thread's steps  *)
(* towards the exit are taken with every push in view.                     *)
ThreadInv ==
    /\ push.at # "idle" <=> parser = "pushing"
    /\ pop.at # "idle" <=> book = "popping"
    /\ parse_done => parser = "ended"
    /\ done_seen => parse_done
    /\ booked \in Nat
    /\ head_ = IF book = "dispatch" THEN booked + 1 ELSE booked
    /\ book = "empty" => parse_done /\ tail_seen = tail_
    /\ book \in {"count", "ended"} => parse_done /\ head_ = tail_

(* The counters main prints. *)
CountInv ==
    /\ parsed = tail_
    /\ parser \in {"done", "ended"} => msgs_parsed = parsed
    /\ book = "ended" => msgs_booked = booked
    /\ main = "report" => parser = "ended" /\ book = "ended"

PipelineInv == QueueInv /\ ReaderInv /\ ThreadInv /\ CountInv

-----------------------------------------------------------------------------
(* next_message returns nullptr, or a non-empty frame inside the file. *)
LEMMA NextMessage ==
    ASSUME NEW f \in Seq(0 .. 255), NEW p \in Nat
    PROVE  LET next == next_message(f, p)
           IN  /\ next.pos \in Nat
               /\ next.frame # NoFrame =>
                     /\ next.frame.at \in Nat /\ next.frame.len \in Nat
                     /\ next.frame.at >= 2 /\ next.frame.len > 0
                     /\ next.frame.at + next.frame.len <= Len(f)
<1>1. CASE p + 2 > Len(f)
  BY <1>1 DEF next_message, NoFrame
<1>2. CASE ~(p + 2 > Len(f))
  <2> DEFINE len == FrameLen(f, p)
  <2>a. Len(f) \in Nat /\ p + 1 \in 1 .. Len(f) /\ p + 2 \in 1 .. Len(f)
    BY <1>2
  <2>1. f[p + 1] \in 0 .. 255 /\ f[p + 2] \in 0 .. 255
    BY <2>a, ElementOfSeq
  <2>2. p + 1 + 1 = p + 2
    OBVIOUS
  <2>b. len = f[p + 1] * 256 + f[p + 2]
    BY <2>2 DEF FrameLen, ByteAt
  <2>3. len \in Nat
    <3>1. \A x, y \in 0 .. 255 : x * 256 + y \in Nat
      OBVIOUS
    <3> HIDE DEF len
    <3> QED BY <2>1, <2>b, <3>1
  <2> HIDE DEF len
  <2>4. next_message(f, p) =
            IF len = 0 \/ p + 2 + len > Len(f) THEN [pos |-> p + 2, frame |-> NoFrame]
            ELSE [pos |-> p + 2 + len, frame |-> [at |-> p + 2, len |-> len]]
    BY <1>2 DEF next_message, len
  <2>5. CASE len = 0 \/ p + 2 + len > Len(f)
    BY <2>4, <2>5
  <2>6. CASE ~(len = 0 \/ p + 2 + len > Len(f))
    <3>1. next_message(f, p) = [pos |-> p + 2 + len, frame |-> [at |-> p + 2, len |-> len]]
      BY <2>4, <2>6
    <3>2. p + 2 \in Nat /\ p + 2 >= 2 /\ len > 0 /\ p + 2 + len \in Nat /\ p + 2 + len <= Len(f)
      BY <2>3, <2>6
    <3> QED BY <2>3, <3>1, <3>2
  <2> QED BY <2>5, <2>6
<1> QED BY <1>1, <1>2

(* What is parsed can be pushed. *)
LEMMA ParsedMessage ==
    ASSUME ReaderInv, parser = "push"
    PROVE  parse_message(buf, raw) \in Messages
<1>1. raw.at \in 0 .. Len(buf)
  <2>1. buf \in Seq(0 .. 255)
    BY FilesAssumption DEF ReaderInv
  <2>2. Len(buf) \in Nat
    BY <2>1
  <2> QED BY <2>2 DEF ReaderInv
<1> QED BY <1>1, FilesAssumption DEF ReaderInv, parse_message

(* The invariant holds initially. *)
LEMMA PipelineInit == Init => PipelineInv
BY QueueInitInv DEF Init, QueueInit, PipelineInv, ReaderInv, ThreadInv, CountInv
(***************************************************************************)
(* Every step of the program is a step of the queue or leaves it alone:    *)
(* the acquire load of parse_done is a moment when pushes become visible.  *)
(***************************************************************************)
LEMMA StepUsesQueue == PipelineInv /\ [Next]_vars => [QueueNext]_queue_vars
<1>a. SUFFICES ASSUME PipelineInv, [Next]_vars PROVE [QueueNext]_queue_vars
  OBVIOUS
<1>1. CASE OpenFile
  BY <1>1 DEF OpenFile, queue_vars
<1>2. CASE ReadFrame
  BY <1>2 DEF ReadFrame, queue_vars
<1>3. CASE PushSpins
  BY <1>3 DEF PushSpins, QueueNext
<1>4. CASE PushStarts
  BY <1>a, <1>4, ParsedMessage DEF PipelineInv, PushStarts, QueueNext
<1>5. CASE PushCopies
  BY <1>5 DEF PushCopies, QueueNext
<1>6. CASE PushPublishes
  BY <1>6 DEF PushPublishes, QueueNext
<1>7. CASE StoreParsed
  BY <1>7 DEF StoreParsed, queue_vars
<1>8. CASE StoreDone
  BY <1>8 DEF StoreDone, queue_vars
<1>9. CASE PopFails
  BY <1>9 DEF PopFails, QueueNext
<1>10. CASE PopStarts
  BY <1>10 DEF PopStarts, QueueNext
<1>11. CASE PopCopies
  BY <1>11 DEF PopCopies, QueueNext
<1>12. CASE PopPublishes
  BY <1>12 DEF PopPublishes, QueueNext
<1>13. CASE Dispatch
  BY <1>13 DEF Dispatch, queue_vars
<1>14. CASE LoadDone
  <2>1. UNCHANGED producer_vars /\ UNCHANGED <<head_, pop>>
    BY <1>14 DEF LoadDone
  <2>2. CASE tail_seen' = tail_seen
    BY <2>1, <2>2 DEF producer_vars, queue_vars
  <2>3. CASE tail_seen' # tail_seen
    <3>1. tail_seen' = tail_
      BY <1>14, <2>3 DEF LoadDone
    <3>2. tail_ \in tail_seen + 1 .. tail_
      BY <1>a, <2>3, <3>1 DEF PipelineInv, QueueInv, QueueTypeOK, WindowOK
    <3> QED BY <2>1, <3>1, <3>2 DEF TailVisible, QueueNext
  <2> QED BY <2>2, <2>3
<1>15. CASE LeaveIfEmpty
  BY <1>15 DEF LeaveIfEmpty, queue_vars
<1>16. CASE StoreBooked
  BY <1>16 DEF StoreBooked, queue_vars
<1>17. CASE Join
  BY <1>17 DEF Join, queue_vars
<1>18. CASE DoneVisible
  BY <1>18 DEF DoneVisible, queue_vars
<1>19. CASE PushVisible
  BY <1>19 DEF PushVisible, QueueNext
<1>20. CASE PopVisible
  BY <1>20 DEF PopVisible, QueueNext
<1>21. CASE UNCHANGED vars
  BY <1>21 DEF vars
<1> QED
  BY <1>a, <1>1, <1>2, <1>3, <1>4, <1>5, <1>6, <1>7, <1>8, <1>9, <1>10, <1>11, <1>12, <1>13, <1>14, <1>15, <1>16, <1>17, <1>18, <1>19, <1>20, <1>21
     DEF Next, ParserStep, BookStep

(* The reader's part of the invariant is kept: only ReadFrame moves it. *)
LEMMA StepReader == PipelineInv /\ [Next]_vars => ReaderInv'
<1>a. SUFFICES ASSUME PipelineInv, [Next]_vars PROVE ReaderInv'
  OBVIOUS
<1>b. ReaderInv
  BY <1>a DEF PipelineInv
<1>1. CASE OpenFile
  BY <1>b, <1>1 DEF OpenFile, ReaderInv, reader_vars
<1>2. CASE ReadFrame
  <2>1. buf \in Seq(0 .. 255) /\ pos_ \in Nat
    BY <1>b, FilesAssumption DEF ReaderInv
  <2> DEFINE next == next_message(buf, pos_)
  <2>2. /\ next.pos \in Nat
        /\ next.frame # NoFrame =>
              /\ next.frame.at \in Nat /\ next.frame.len \in Nat
              /\ next.frame.at >= 2 /\ next.frame.len > 0
              /\ next.frame.at + next.frame.len <= Len(buf)
    BY <2>1, NextMessage
  <2>3. /\ pos_' = next.pos /\ raw' = next.frame /\ buf' = buf
        /\ parser' = IF next.frame = NoFrame THEN "count" ELSE "push"
    BY <1>2 DEF ReadFrame
  <2> HIDE DEF next
  <2> QED BY <1>b, <2>2, <2>3 DEF ReaderInv
<1>3. CASE PushSpins
  BY <1>b, <1>3 DEF PushSpins, ReaderInv, reader_vars
<1>4. CASE PushStarts
  BY <1>b, <1>4 DEF PushStarts, ReaderInv, reader_vars
<1>5. CASE PushCopies
  BY <1>b, <1>5 DEF PushCopies, ReaderInv, reader_vars
<1>6. CASE PushPublishes
  BY <1>b, <1>6 DEF PushPublishes, ReaderInv, reader_vars
<1>7. CASE StoreParsed
  BY <1>b, <1>7 DEF StoreParsed, ReaderInv, reader_vars
<1>8. CASE StoreDone
  BY <1>b, <1>8 DEF StoreDone, ReaderInv, reader_vars
<1>9. CASE PopFails
  BY <1>b, <1>9 DEF PopFails, ReaderInv, reader_vars
<1>10. CASE PopStarts
  BY <1>b, <1>10 DEF PopStarts, ReaderInv, reader_vars
<1>11. CASE PopCopies
  BY <1>b, <1>11 DEF PopCopies, ReaderInv, reader_vars
<1>12. CASE PopPublishes
  BY <1>b, <1>12 DEF PopPublishes, ReaderInv, reader_vars
<1>13. CASE Dispatch
  BY <1>b, <1>13 DEF Dispatch, ReaderInv, reader_vars
<1>14. CASE LoadDone
  BY <1>b, <1>14 DEF LoadDone, ReaderInv, reader_vars
<1>15. CASE LeaveIfEmpty
  BY <1>b, <1>15 DEF LeaveIfEmpty, ReaderInv, reader_vars
<1>16. CASE StoreBooked
  BY <1>b, <1>16 DEF StoreBooked, ReaderInv, reader_vars
<1>17. CASE Join
  BY <1>b, <1>17 DEF Join, ReaderInv, reader_vars
<1>18. CASE DoneVisible
  BY <1>b, <1>18 DEF DoneVisible, ReaderInv, reader_vars
<1>19. CASE PushVisible
  BY <1>b, <1>19 DEF PushVisible, ReaderInv, reader_vars
<1>20. CASE PopVisible
  BY <1>b, <1>20 DEF PopVisible, ReaderInv, reader_vars
<1>21. CASE UNCHANGED vars
  BY <1>b, <1>21 DEF vars, ReaderInv, reader_vars
<1> QED
  BY <1>a, <1>1, <1>2, <1>3, <1>4, <1>5, <1>6, <1>7, <1>8, <1>9, <1>10, <1>11, <1>12, <1>13, <1>14, <1>15, <1>16, <1>17, <1>18, <1>19, <1>20, <1>21
     DEF Next, ParserStep, BookStep
(* What an empty queue means to the consumer. *)
LEMMA EmptyMeans ==
    ASSUME QueueInv, empty
    PROVE  head_ = tail_seen
<1>1. head_ <= tail_seen /\ tail_seen < head_ + Capacity
  BY CapacityAssumption DEF QueueInv, QueueTypeOK, WindowOK
<1> QED BY <1>1, SlotNear DEF QueueInv, QueueTypeOK, empty

(***************************************************************************)
(* The threads' part of the invariant is kept.  The flag is raised with no *)
(* push in progress, and stays up; LoadDone then brings every push into    *)
(* view, and LeaveIfEmpty leaves only with the last of them popped.        *)
(***************************************************************************)
LEMMA StepThreads == PipelineInv /\ [Next]_vars => ThreadInv' /\ CountInv'
<1>a. SUFFICES ASSUME PipelineInv, [Next]_vars PROVE ThreadInv' /\ CountInv'
  OBVIOUS
<1>b. ThreadInv /\ CountInv /\ head_ \in Nat /\ tail_ \in Nat /\ tail_seen \in Nat
  BY <1>a DEF PipelineInv, QueueInv, QueueTypeOK
<1> USE DEF ThreadInv, CountInv, queue_vars, producer_vars, consumer_vars, reader_vars, book_vars
<1>1. CASE OpenFile
  BY <1>b, <1>1 DEF OpenFile
<1>2. CASE ReadFrame
  BY <1>b, <1>2 DEF ReadFrame
<1>3. CASE PushSpins
  BY <1>b, <1>3 DEF PushSpins, TryPushFails
<1>4. CASE PushStarts
  BY <1>b, <1>4 DEF PushStarts, TryPushStarts
<1>5. CASE PushCopies
  BY <1>b, <1>5 DEF PushCopies, TryPushCopies
<1>6. CASE PushPublishes
  BY <1>b, <1>6 DEF PushPublishes, TryPushPublishes
<1>7. CASE StoreParsed
  BY <1>b, <1>7 DEF StoreParsed
<1>8. CASE StoreDone
  BY <1>b, <1>8 DEF StoreDone
<1>9. CASE PopFails
  BY <1>b, <1>9 DEF PopFails, TryPopFails
<1>10. CASE PopStarts
  BY <1>b, <1>10 DEF PopStarts, TryPopStarts
<1>11. CASE PopCopies
  BY <1>b, <1>11 DEF PopCopies, TryPopCopies
<1>12. CASE PopPublishes
  BY <1>b, <1>12 DEF PopPublishes, TryPopPublishes
<1>13. CASE Dispatch
  BY <1>b, <1>13 DEF Dispatch
<1>14. CASE LoadDone
  BY <1>b, <1>14 DEF LoadDone
<1>15. CASE LeaveIfEmpty
  BY <1>a, <1>b, <1>15, EmptyMeans DEF LeaveIfEmpty, PipelineInv
<1>16. CASE StoreBooked
  BY <1>b, <1>16 DEF StoreBooked
<1>17. CASE Join
  BY <1>b, <1>17 DEF Join
<1>18. CASE DoneVisible
  BY <1>b, <1>18 DEF DoneVisible
<1>19. CASE PushVisible
  BY <1>b, <1>19 DEF PushVisible, TailVisible
<1>20. CASE PopVisible
  BY <1>b, <1>20 DEF PopVisible, HeadVisible
<1>21. CASE UNCHANGED vars
  BY <1>b, <1>21 DEF vars
<1> QED
  BY <1>a, <1>1, <1>2, <1>3, <1>4, <1>5, <1>6, <1>7, <1>8, <1>9, <1>10, <1>11, <1>12, <1>13, <1>14, <1>15, <1>16, <1>17, <1>18, <1>19, <1>20, <1>21
     DEF Next, ParserStep, BookStep

(* The invariant holds of every behaviour of the program. *)
THEOREM PipelineInvariance == Spec => []PipelineInv
<1>1. PipelineInv /\ [Next]_vars => PipelineInv'
  BY StepUsesQueue, StepReader, StepThreads, QueueStep DEF PipelineInv
<1> QED BY <1>1, PipelineInit, PTL DEF Spec

(***************************************************************************)
(* The program drives the queue as one producer and one consumer, so all   *)
(* that is proved of the queue holds in it: it never races on a slot and   *)
(* hands messages over as a bounded FIFO.                                  *)
(***************************************************************************)
THEOREM PipelineUsesQueue == Spec => QueueSpec /\ []NoDataRace /\ ImplementsFIFO
<1>1. Init => QueueInit
  BY DEF Init
<1>2. Spec => QueueSpec
  BY <1>1, StepUsesQueue, PipelineInvariance, PTL DEF Spec, QueueSpec
<1> QED BY <1>2, RaceFreedom, QueueIsFIFO, PTL

(* The parser never looks outside the buffer, nor copies a struct from a   *)
(* frame without room for it, for every file and every size of structs.    *)
THEOREM BufferSafety == Spec => []BufferSafe
<1>1. ASSUME PipelineInv, raw # NoFrame
      PROVE  /\ raw.at >= 2 /\ raw.len > 0 /\ raw.at + raw.len <= Len(buf)
             /\ LET msg == parse_message(buf, raw)
                IN  msg # monostate => /\ msg.at = raw.at
                                       /\ msg.at + SizeOf[msg.kind] <= raw.at + raw.len
  <2>1. /\ raw.at \in Nat /\ raw.len \in Nat
        /\ raw.at >= 2 /\ raw.len > 0 /\ raw.at + raw.len <= Len(buf)
    BY <1>1 DEF PipelineInv, ReaderInv
  <2> DEFINE msg  == parse_message(buf, raw)
             type == ByteAt(buf, raw.at)
  <2>2. SUFFICES ASSUME msg # monostate
                 PROVE  msg.at = raw.at /\ msg.at + SizeOf[msg.kind] <= raw.at + raw.len
    BY <2>1
  <2>3. /\ msg = [kind |-> type, at |-> raw.at]
        /\ type \in DOMAIN SizeOf /\ raw.len >= SizeOf[type]
    BY <2>2 DEF parse_message
  <2> HIDE DEF msg, type
  <2>4. msg.kind = type /\ msg.at = raw.at
    BY <2>3
  <2>5. SizeOf[type] \in Nat
    BY <2>3, ReaderAssumption
  <2> QED BY <2>1, <2>3, <2>4, <2>5
<1>2. PipelineInv => BufferSafe
  BY <1>1 DEF BufferSafe
<1> QED BY <1>2, PipelineInvariance, PTL

(***************************************************************************)
(* The book thread leaves its loop only when the parser is done and every  *)
(* message pushed has been booked, for every file and capacity.            *)
(***************************************************************************)
THEOREM ExitIsSafe == Spec => []NothingLeftBehind
<1>1. PipelineInv => NothingLeftBehind
  BY DEF PipelineInv, ThreadInv, NothingLeftBehind
<1> QED BY <1>1, PipelineInvariance, PTL

(* main reports as many messages booked as parsed. *)
THEOREM CountsAgree == Spec => [](main = "report" => msgs_booked = msgs_parsed)
<1>1. PipelineInv => (main = "report" => msgs_booked = msgs_parsed)
  BY DEF PipelineInv, ThreadInv, CountInv
<1> QED BY <1>1, PipelineInvariance, PTL


-----------------------------------------------------------------------------
(***************************************************************************)
(* The way of a message from the file to the book.  Chain(f) is where the  *)
(* frames of f start, so that Frames(f) is the frames that start there.    *)
(***************************************************************************)
Chain(f) == CHOOSE g \in Framings(f) : \A h \in Framings(f) : Len(h) <= Len(g)

FrameAt(f, p) == [at |-> p + 2, len |-> FrameLen(f, p)]

(* Where the n-th frame of f ends. *)
EndOf(f, n) == IF n = 0 THEN 0 ELSE Chain(f)[n] + 2 + FrameLen(f, Chain(f)[n])

(* The frames read so far, the one being pushed included. *)
ReadCount == IF parser \in {"push", "pushing"} THEN parsed + 1 ELSE parsed

(* The reader follows the chain, and its loop ends at the end of the chain. *)
ChainInv ==
    /\ ReadCount <= Len(Chain(buf))
    /\ parser \in {"open", "read", "push", "pushing"} =>
          pos_ = EndOf(buf, ReadCount) /\ pos_ >= 3 * ReadCount
    /\ parser \in {"push", "pushing"} => raw = FrameAt(buf, Chain(buf)[ReadCount])
    /\ parser \in {"count", "done", "ended"} => ReadCount = Len(Chain(buf))

(* Each thread and each slot in use holds the message its count says. *)
CarryInv ==
    /\ push.at # "idle" => push.item = ParsedFrames[tail_ + 1]
    /\ \A k \in head_ .. tail_ - 1 : slots_[Slot(k)] = ParsedFrames[k + 1]
    /\ pop.at = "head" => pop.item = ParsedFrames[head_ + 1]
    /\ book = "dispatch" => pop.item = ParsedFrames[head_]

(* The book has been given what has a handler of the messages booked. *)
AppliedInv ==
    /\ applied \in Seq(Messages \cup {Unset})
    /\ Len(applied) = Rank(ParsedFrames, booked)
    /\ \A k \in 1 .. booked : Handled(ParsedFrames[k]) =>
          applied[Rank(ParsedFrames, k)] = ParsedFrames[k]

ReplayInv == PipelineInv /\ ChainInv /\ CarryInv /\ AppliedInv

(* A bounded nonempty set of naturals has a greatest element. *)
LEMMA GreatestExists ==
    ASSUME NEW S \in SUBSET Nat, S # {}, NEW b \in Nat, \A j \in S : j <= b
    PROVE  \E m \in S : \A j \in S : j <= m
<1> DEFINE D == {b - j : j \in S}
<1>1. D \subseteq Nat /\ D # {}
  <2>1. \A j \in S : b - j \in Nat
    OBVIOUS
  <2>2. PICK j \in S : TRUE
    OBVIOUS
  <2> QED BY <2>1, <2>2
<1>2. IsWellFoundedOn(OpToRel(<, Nat), Nat)
  BY NatLessThanWellFounded
<1>3. \E x \in D : \A y \in D : ~(<<y, x>> \in OpToRel(<, Nat))
  <2> HIDE DEF D
  <2> QED BY <1>1, <1>2, WFMin, Zenon
<1>4. PICK x \in D : \A y \in D : ~(<<y, x>> \in OpToRel(<, Nat))
  BY <1>3
<1>5. PICK m \in S : x = b - m
  BY <1>4
<1>6. ASSUME NEW j \in S PROVE j <= m
  <2>1. b - j \in D /\ b - j \in Nat /\ x \in Nat /\ j \in Nat /\ m \in Nat
    BY <1>1, <1>4
  <2>2. b - j < x => <<b - j, x>> \in OpToRel(<, Nat)
    <3>1. \A u, v \in Nat : u < v => <<u, v>> \in OpToRel(<, Nat)
      BY DEF OpToRel
    <3> QED BY <2>1, <3>1
  <2>3. ~(b - j < x)
    <3> HIDE DEF D
    <3> QED BY <1>4, <2>1, <2>2
  <2> QED BY <1>5, <2>1, <2>3
<1> QED BY <1>6

(* The shape of a framing: a sequence of offsets, one per three bytes at most. *)
LEMMA FramingShape ==
    ASSUME NEW f \in Seq(0 .. 255), NEW g \in Framings(f)
    PROVE  /\ g \in Seq(Nat) /\ Len(g) <= Len(f) \div 3 /\ IsFraming(f, g)
           /\ \A k \in 1 .. Len(g) : g[k] \in 0 .. Len(f) - 2
<1>1. Len(f) \in Nat /\ Len(f) \div 3 \in Nat
  OBVIOUS
<1>2. PICK n \in 0 .. Len(f) \div 3 : g \in [1 .. n -> 0 .. Len(f) - 2]
  BY DEF Framings
<1>3. g \in Seq(0 .. Len(f) - 2) /\ Len(g) = n
  BY <1>1, <1>2
<1>4. 0 .. Len(f) - 2 \subseteq Nat
  BY <1>1
<1>5. g \in Seq(Nat)
  BY <1>3, <1>4
<1>6. \A k \in 1 .. Len(g) : g[k] \in 0 .. Len(f) - 2
  BY <1>2, <1>3
<1> QED BY <1>1, <1>3, <1>5, <1>6 DEF Framings

(* What a framing has to be to count, conversely. *)
LEMMA FramingMember ==
    ASSUME NEW f \in Seq(0 .. 255), NEW n \in 0 .. Len(f) \div 3,
           NEW g \in [1 .. n -> 0 .. Len(f) - 2], IsFraming(f, g)
    PROVE  g \in Framings(f)
BY DEF Framings

(* Every file has a longest framing, perhaps an empty one: Chain(f) is it. *)
LEMMA ChainIsLongest ==
    ASSUME NEW f \in Seq(0 .. 255)
    PROVE  /\ Chain(f) \in Framings(f)
           /\ \A h \in Framings(f) : Len(h) <= Len(Chain(f))
<1> DEFINE L == {Len(g) : g \in Framings(f)}
<1>1. Len(f) \in Nat /\ Len(f) \div 3 \in Nat
  OBVIOUS
<1>2. << >> \in Framings(f)
  <2>1. IsFraming(f, << >>)
    BY DEF IsFraming
  <2>2. << >> \in [1 .. 0 -> 0 .. Len(f) - 2] /\ 0 \in 0 .. Len(f) \div 3
    BY <1>1
  <2> QED BY <2>1, <2>2, FramingMember
<1>3. \A g \in Framings(f) : Len(g) \in Nat /\ Len(g) <= Len(f) \div 3
  BY FramingShape
<1>4. L \in SUBSET Nat /\ L # {} /\ \A j \in L : j <= Len(f) \div 3
  BY <1>2, <1>3
<1>5. \E m \in L : \A j \in L : j <= m
  <2> HIDE DEF L
  <2> QED BY <1>1, <1>4, GreatestExists
<1>6. \E g \in Framings(f) : \A h \in Framings(f) : Len(h) <= Len(g)
  BY <1>5
<1> QED BY <1>6 DEF Chain

(* The chain and the frames, as sequences of the same length. *)
LEMMA FramesOfChain ==
    ASSUME NEW f \in Seq(0 .. 255)
    PROVE  /\ Chain(f) \in Seq(Nat)
           /\ Frames(f) = [k \in 1 .. Len(Chain(f)) |-> FrameAt(f, Chain(f)[k])]
<1>1. Chain(f) \in Seq(Nat)
  BY ChainIsLongest, FramingShape
<1>2. DOMAIN Chain(f) = 1 .. Len(Chain(f))
  BY <1>1
<1>3. Frames(f) = [k \in DOMAIN Chain(f) |-> FrameAt(f, Chain(f)[k])]
  BY DEF Frames, Chain, FrameAt
<1> QED BY <1>1, <1>2, <1>3

(* The length of a frame that has its two bytes of length. *)
LEMMA FrameLenNat ==
    ASSUME NEW f \in Seq(0 .. 255), NEW p \in Nat, p + 2 <= Len(f)
    PROVE  FrameLen(f, p) \in Nat
<1>1. Len(f) \in Nat /\ p + 1 \in 1 .. Len(f) /\ p + 2 \in 1 .. Len(f)
  OBVIOUS
<1>2. f[p + 1] \in 0 .. 255 /\ f[p + 2] \in 0 .. 255
  BY <1>1, ElementOfSeq
<1>3. FrameLen(f, p) = f[p + 1] * 256 + f[p + 2]
  <2>1. p + 1 + 1 = p + 2
    OBVIOUS
  <2> QED BY <2>1 DEF FrameLen, ByteAt
<1>4. \A x, y \in 0 .. 255 : x * 256 + y \in Nat
  OBVIOUS
<1> DEFINE x == f[p + 1]
           y == f[p + 2]
<1>5. x \in 0 .. 255 /\ y \in 0 .. 255 /\ FrameLen(f, p) = x * 256 + y
  BY <1>2, <1>3
<1> HIDE DEF x, y
<1> QED BY <1>4, <1>5

(* The links of the chain, one by one. *)
LEMMA ChainLinks ==
    ASSUME NEW f \in Seq(0 .. 255), NEW n \in Nat, n < Len(Chain(f))
    PROVE  /\ EndOf(f, n) \in Nat
           /\ Chain(f)[n + 1] = EndOf(f, n)
           /\ FrameLen(f, EndOf(f, n)) \in Nat /\ FrameLen(f, EndOf(f, n)) > 0
           /\ EndOf(f, n + 1) = EndOf(f, n) + 2 + FrameLen(f, EndOf(f, n))
           /\ EndOf(f, n + 1) <= Len(f)
<1> DEFINE C == Chain(f)
<1>1. C \in Seq(Nat) /\ IsFraming(f, C) /\ \A k \in 1 .. Len(C) : C[k] \in 0 .. Len(f) - 2
  BY ChainIsLongest, FramingShape
<1>2. Len(f) \in Nat /\ Len(C) \in Nat /\ DOMAIN C = 1 .. Len(C) /\ n < Len(C)
  BY <1>1
<1>c. EndOf(f, n) = IF n = 0 THEN 0 ELSE C[n] + 2 + FrameLen(f, C[n])
  BY DEF EndOf
<1>d. n + 1 # 0 => EndOf(f, n + 1) = C[n + 1] + 2 + FrameLen(f, C[n + 1])
  BY DEF EndOf
<1> HIDE DEF C
<1>3. \A k \in 1 .. Len(C) : /\ FrameLen(f, C[k]) > 0
                             /\ C[k] + 2 + FrameLen(f, C[k]) <= Len(f)
                             /\ k < Len(C) => C[k + 1] = C[k] + 2 + FrameLen(f, C[k])
  BY <1>1, <1>2 DEF IsFraming
<1>4. n + 1 \in 1 .. Len(C) /\ C # << >> /\ n + 1 # 0
  BY <1>1, <1>2
<1>5. C[n + 1] = EndOf(f, n)
  <2>1. CASE n = 0
    <3>1. C[1] = 0
      BY <1>1, <1>4 DEF IsFraming
    <3> QED BY <2>1, <3>1, <1>c
  <2>2. CASE n # 0
    <3>1. n \in 1 .. Len(C)
      BY <1>2, <2>2
    <3>2. C[n + 1] = C[n] + 2 + FrameLen(f, C[n])
      BY <1>2, <1>3, <3>1
    <3> QED BY <2>2, <3>2, <1>c
  <2> QED BY <2>1, <2>2
<1>6. C[n + 1] \in Nat /\ C[n + 1] + 2 <= Len(f)
  BY <1>1, <1>2, <1>4
<1>7. FrameLen(f, C[n + 1]) \in Nat
  BY <1>6, FrameLenNat
<1>8. FrameLen(f, C[n + 1]) > 0 /\ C[n + 1] + 2 + FrameLen(f, C[n + 1]) <= Len(f)
  BY <1>3, <1>4
<1>9. EndOf(f, n + 1) = C[n + 1] + 2 + FrameLen(f, C[n + 1])
  BY <1>4, <1>d
<1> QED BY <1>5, <1>6, <1>7, <1>8, <1>9 DEF C

(* Within the chain, next_message returns the next frame of the chain. *)
LEMMA NextOnChain ==
    ASSUME NEW f \in Seq(0 .. 255), NEW n \in Nat, n < Len(Chain(f))
    PROVE  /\ next_message(f, EndOf(f, n)) =
                 [pos |-> EndOf(f, n + 1), frame |-> FrameAt(f, Chain(f)[n + 1])]
           /\ FrameAt(f, Chain(f)[n + 1]) # NoFrame
           /\ EndOf(f, n + 1) >= EndOf(f, n) + 3
<1> DEFINE p   == EndOf(f, n)
           len == FrameLen(f, p)
<1>1. /\ p \in Nat /\ Chain(f)[n + 1] = p /\ len \in Nat /\ len > 0
      /\ EndOf(f, n + 1) = p + 2 + len /\ p + 2 + len <= Len(f) /\ Len(f) \in Nat
  BY ChainLinks
<1>2. FrameAt(f, p) = [at |-> p + 2, len |-> len]
  BY DEF FrameAt
<1>n. next_message(f, p) =
          IF p + 2 > Len(f) THEN [pos |-> p, frame |-> NoFrame]
          ELSE IF len = 0 \/ p + 2 + len > Len(f) THEN [pos |-> p + 2, frame |-> NoFrame]
               ELSE [pos |-> p + 2 + len, frame |-> [at |-> p + 2, len |-> len]]
  BY DEF next_message
<1> HIDE DEF p, len
<1>3. ~(p + 2 > Len(f)) /\ ~(len = 0 \/ p + 2 + len > Len(f))
  BY <1>1
<1>4. next_message(f, p) = [pos |-> p + 2 + len, frame |-> [at |-> p + 2, len |-> len]]
  BY <1>n, <1>3
<1>5. [at |-> p + 2, len |-> len] # NoFrame
  BY <1>1 DEF NoFrame
<1>6. p + 2 + len >= p + 3
  BY <1>1
<1> QED BY <1>1, <1>2, <1>4, <1>5, <1>6 DEF p

(* At the end of the chain it returns nullptr: the chain is the longest. *)
LEMMA NextAfterChain ==
    ASSUME NEW f \in Seq(0 .. 255), NEW p \in Nat,
           p = EndOf(f, Len(Chain(f))), p >= 3 * Len(Chain(f))
    PROVE  next_message(f, p).frame = NoFrame
<1> DEFINE C   == Chain(f)
           n   == Len(C)
           len == FrameLen(f, p)
           g   == [k \in 1 .. n + 1 |-> IF k = n + 1 THEN p ELSE C[k]]
<1>1. /\ C \in Seq(Nat) /\ IsFraming(f, C) /\ \A k \in 1 .. Len(C) : C[k] \in 0 .. Len(f) - 2
      /\ \A h \in Framings(f) : Len(h) <= Len(C)
  BY ChainIsLongest, FramingShape
<1>2. Len(f) \in Nat /\ n \in Nat /\ DOMAIN C = 1 .. n
  BY <1>1
<1>e. p = IF n = 0 THEN 0 ELSE C[n] + 2 + FrameLen(f, C[n])
  BY DEF EndOf
<1>n. next_message(f, p) =
          IF p + 2 > Len(f) THEN [pos |-> p, frame |-> NoFrame]
          ELSE IF len = 0 \/ p + 2 + len > Len(f) THEN [pos |-> p + 2, frame |-> NoFrame]
               ELSE [pos |-> p + 2 + len, frame |-> [at |-> p + 2, len |-> len]]
  BY DEF next_message
<1>3. SUFFICES ASSUME p + 2 <= Len(f), len # 0, p + 2 + len <= Len(f) PROVE FALSE
  <2> HIDE DEF len
  <2>1. len \in Nat \/ p + 2 > Len(f)
    BY <1>2, FrameLenNat DEF len
  <2> QED BY <1>2, <1>n, <2>1
<1>4. len \in Nat /\ len > 0
  <2>1. len \in Nat
    BY <1>3, FrameLenNat
  <2> HIDE DEF len
  <2> QED BY <1>3, <2>1
<1>5. n + 1 \in 0 .. Len(f) \div 3
  <2> HIDE DEF len, C
  <2>1. p >= 3 * n
    BY DEF C
  <2> HIDE DEF n
  <2>2. 3 * (n + 1) <= Len(f)
    BY <1>2, <1>3, <1>4, <2>1
  <2>3. n + 1 <= Len(f) \div 3
    BY <1>2, <2>2
  <2> QED BY <1>2, <2>3
<1>6. g \in [1 .. n + 1 -> 0 .. Len(f) - 2]
  <2>1. p \in 0 .. Len(f) - 2
    BY <1>2, <1>3
  <2>2. ASSUME NEW k \in 1 .. n + 1 PROVE (IF k = n + 1 THEN p ELSE C[k]) \in 0 .. Len(f) - 2
    <3> HIDE DEF C
    <3> QED BY <1>1, <1>2, <2>1, <2>2
  <2> QED BY <2>2
<1>7. g \in Seq(0 .. Len(f) - 2) /\ Len(g) = n + 1 /\ DOMAIN g = 1 .. n + 1
  <2> HIDE DEF g, C
  <2> QED BY <1>2, <1>6
<1>8. IsFraming(f, g)
  <2>0. \A k \in 1 .. n : /\ FrameLen(f, C[k]) > 0
                          /\ C[k] + 2 + FrameLen(f, C[k]) <= Len(f)
                          /\ k < n => C[k + 1] = C[k] + 2 + FrameLen(f, C[k])
    BY <1>1, <1>2 DEF IsFraming
  <2>1. g[1] = 0
    <3>1. CASE n = 0
      <4> HIDE DEF len, C
      <4> QED BY <1>2, <1>e, <3>1
    <3>2. CASE n # 0
      <4>1. C # << >> /\ 1 \in 1 .. n + 1 /\ 1 # n + 1
        BY <1>1, <1>2, <3>2
      <4>2. C[1] = 0
        BY <1>1, <4>1 DEF IsFraming
      <4> QED BY <4>1, <4>2
    <3> QED BY <3>1, <3>2
  <2>2. ASSUME NEW k \in 1 .. n + 1
        PROVE  /\ FrameLen(f, g[k]) > 0
               /\ g[k] + 2 + FrameLen(f, g[k]) <= Len(f)
               /\ k < n + 1 => g[k + 1] = g[k] + 2 + FrameLen(f, g[k])
    <3>a. g[k] = IF k = n + 1 THEN p ELSE C[k]
      OBVIOUS
    <3>b. k + 1 \in 1 .. n + 1 => g[k + 1] = IF k + 1 = n + 1 THEN p ELSE C[k + 1]
      OBVIOUS
    <3>1. CASE k = n + 1
      <4>1. g[k] = p /\ ~(k < n + 1)
        BY <1>2, <3>a, <3>1
      <4> HIDE DEF g
      <4> QED BY <1>3, <1>4, <4>1
    <3> HIDE DEF g, len
    <3>2. CASE k # n + 1
      <4> HIDE DEF C
      <4>1. k \in 1 .. n /\ k + 1 \in 1 .. n + 1
        BY <1>2, <3>2
      <4>2. g[k] = C[k]
        BY <3>a, <3>2
      <4>3. CASE k = n
        <5>1. g[k + 1] = p /\ p = C[n] + 2 + FrameLen(f, C[n])
          BY <1>2, <1>e, <3>b, <4>1, <4>3
        <5> QED BY <2>0, <4>1, <4>2, <4>3, <5>1
      <4>4. CASE k # n
        <5>1. k < n /\ k + 1 # n + 1
          <6> HIDE DEF n
          <6> QED BY <1>2, <4>1, <4>4
        <5> QED BY <2>0, <3>b, <4>1, <4>2, <5>1
      <4> QED BY <4>3, <4>4
    <3> QED BY <3>1, <3>2
  <2> HIDE DEF g, len, C
  <2> QED BY <1>7, <2>1, <2>2 DEF IsFraming
<1>9. g \in Framings(f)
  <2> HIDE DEF g, len, C
  <2> QED BY <1>5, <1>6, <1>8, FramingMember
<1>10. Len(g) <= n
  BY <1>1, <1>9
<1> HIDE DEF g, len, C
<1> QED BY <1>2, <1>7, <1>10

(* Counting the messages that have a handler. *)
LEMMA RankType ==
    ASSUME NEW ms, NEW n \in Nat
    PROVE  Rank(ms, n) \in Nat /\ IsFiniteSet({j \in 1 .. n : Handled(ms[j])})
<1> DEFINE S == {j \in 1 .. n : Handled(ms[j])}
<1>1. IsFiniteSet(1 .. n)
  BY FS_Interval
<1>2. S \in SUBSET (1 .. n)
  OBVIOUS
<1>3. IsFiniteSet(S)
  BY <1>1, <1>2, FS_Subset
<1>4. Cardinality(S) \in Nat
  <2> HIDE DEF S
  <2> QED BY <1>3, FS_CardinalityType
<1> QED BY <1>3, <1>4 DEF Rank

LEMMA RankStep ==
    ASSUME NEW ms, NEW n \in Nat
    PROVE  Rank(ms, n + 1) = IF Handled(ms[n + 1]) THEN Rank(ms, n) + 1 ELSE Rank(ms, n)
<1> DEFINE S == {j \in 1 .. n : Handled(ms[j])}
           T == {j \in 1 .. n + 1 : Handled(ms[j])}
<1>1. IsFiniteSet(S)
  BY RankType
<1>2. CASE Handled(ms[n + 1])
  <2>1. T = S \cup {n + 1} /\ n + 1 \notin S
    BY <1>2
  <2> HIDE DEF S, T
  <2>2. Cardinality(T) = Cardinality(S) + 1
    BY <1>1, <2>1, FS_AddElement
  <2> QED BY <1>2, <2>2 DEF Rank, S, T
<1>3. CASE ~Handled(ms[n + 1])
  <2>1. T = S
    BY <1>3
  <2> QED BY <1>3, <2>1 DEF Rank
<1> QED BY <1>2, <1>3

LEMMA RankOfHandled ==
    ASSUME NEW ms, NEW n \in Nat, NEW k \in 1 .. n, Handled(ms[k])
    PROVE  Rank(ms, k) \in 1 .. Rank(ms, n)
<1> DEFINE S == {j \in 1 .. n : Handled(ms[j])}
           K == {j \in 1 .. k : Handled(ms[j])}
<1>0. k \in Nat
  OBVIOUS
<1>1. IsFiniteSet(S) /\ IsFiniteSet(K)
  BY <1>0, RankType
<1>2. K \in SUBSET S /\ k \in K
  OBVIOUS
<1>3. Rank(ms, k) = Cardinality(K) /\ Rank(ms, n) = Cardinality(S)
  BY DEF Rank
<1> HIDE DEF S, K
<1>4. Cardinality(K) <= Cardinality(S)
  BY <1>1, <1>2, FS_Subset
<1>5. Cardinality(K) \in Nat /\ Cardinality(S) \in Nat
  BY <1>1, FS_CardinalityType
<1>6. Cardinality(K) # 0
  BY <1>1, <1>2, FS_EmptySet
<1> QED BY <1>3, <1>4, <1>5, <1>6

(* The messages of the file, one per link of its chain. *)
LEMMA ParsedOfChain ==
    ASSUME buf \in Files
    PROVE  /\ Chain(buf) \in Seq(Nat)
           /\ DOMAIN ParsedFrames = 1 .. Len(Chain(buf)) /\ Len(ParsedFrames) = Len(Chain(buf))
           /\ \A n \in 1 .. Len(Chain(buf)) :
                 ParsedFrames[n] = parse_message(buf, FrameAt(buf, Chain(buf)[n]))
<1>1. buf \in Seq(0 .. 255)
  BY FilesAssumption
<1>2. /\ Chain(buf) \in Seq(Nat)
      /\ Frames(buf) = [k \in 1 .. Len(Chain(buf)) |-> FrameAt(buf, Chain(buf)[k])]
  BY <1>1, FramesOfChain
<1>3. Len(Chain(buf)) \in Nat
  BY <1>2
<1>4. ParsedFrames = [k \in 1 .. Len(Chain(buf)) |-> parse_message(buf, Frames(buf)[k])]
  BY <1>2 DEF ParsedFrames
<1>5. DOMAIN ParsedFrames = 1 .. Len(Chain(buf))
  BY <1>4
<1>6. Len(ParsedFrames) = Len(Chain(buf))
  BY <1>3, <1>4
<1>7. ASSUME NEW n \in 1 .. Len(Chain(buf))
      PROVE  ParsedFrames[n] = parse_message(buf, FrameAt(buf, Chain(buf)[n]))
  BY <1>2, <1>4
<1> QED BY <1>2, <1>5, <1>6, <1>7

(* No step changes the file, so none changes what it holds. *)
LEMMA FileKept == [Next]_vars => buf' = buf /\ ParsedFrames' = ParsedFrames
<1> SUFFICES ASSUME [Next]_vars PROVE buf' = buf /\ ParsedFrames' = ParsedFrames
  OBVIOUS
<1>1. buf' = buf
  BY DEF Next, ParserStep, BookStep, vars, reader_vars, OpenFile, ReadFrame, PushSpins,
         PushStarts, PushCopies, PushPublishes, StoreParsed, StoreDone, PopFails, PopStarts,
         PopCopies, PopPublishes, Dispatch, LoadDone, LeaveIfEmpty, StoreBooked, Join,
         DoneVisible, PushVisible, PopVisible
<1> QED BY <1>1 DEF ParsedFrames

(***************************************************************************)
(* The reader stays on the chain: a frame read is the chain's next, and    *)
(* the loop ends only where the chain ends.                                *)
(***************************************************************************)
LEMMA StepChain == PipelineInv /\ ChainInv /\ [Next]_vars => ChainInv'
<1>a. SUFFICES ASSUME PipelineInv, ChainInv, [Next]_vars PROVE ChainInv'
  OBVIOUS
<1>b. buf \in Files /\ buf \in Seq(0 .. 255) /\ parsed \in Nat /\ pos_ \in Nat
  BY <1>a, FilesAssumption DEF PipelineInv, ReaderInv, CountInv, QueueInv, QueueTypeOK
<1>c. Len(Chain(buf)) \in Nat
  BY <1>b, FramesOfChain
<1>d. buf' = buf
  BY <1>a, FileKept
<1>1. CASE UNCHANGED reader_vars
  BY <1>a, <1>1 DEF reader_vars, ChainInv, ReadCount
<1>2. CASE OpenFile
  BY <1>a, <1>2 DEF OpenFile, ChainInv, ReadCount
<1>3. CASE ReadFrame
  <2> DEFINE next == next_message(buf, pos_)
  <2>1. /\ parser = "read" /\ parsed' = parsed /\ pos_' = next.pos /\ raw' = next.frame
        /\ parser' = IF next.frame = NoFrame THEN "count" ELSE "push"
    BY <1>3 DEF ReadFrame
  <2>2. ReadCount = parsed /\ parsed <= Len(Chain(buf)) /\ pos_ = EndOf(buf, parsed) /\ pos_ >= 3 * parsed
    BY <1>a, <2>1 DEF ChainInv, ReadCount
  <2>3. CASE parsed < Len(Chain(buf))
    <3>1. /\ next = [pos |-> EndOf(buf, parsed + 1), frame |-> FrameAt(buf, Chain(buf)[parsed + 1])]
          /\ FrameAt(buf, Chain(buf)[parsed + 1]) # NoFrame
          /\ EndOf(buf, parsed + 1) >= EndOf(buf, parsed) + 3
      BY <1>b, <2>2, <2>3, NextOnChain
    <3>2. EndOf(buf, parsed + 1) \in Nat
      BY <1>b, <3>1, NextMessage
    <3> HIDE DEF next
    <3>3. parser' = "push" /\ pos_' = EndOf(buf, parsed + 1)
          /\ raw' = FrameAt(buf, Chain(buf)[parsed + 1]) /\ ReadCount' = parsed + 1
      BY <2>1, <3>1 DEF ReadCount
    <3>4. pos_' >= 3 * (parsed + 1) /\ parsed + 1 <= Len(Chain(buf))
      BY <1>b, <1>c, <2>2, <2>3, <3>1, <3>2, <3>3
    <3> QED BY <1>d, <3>3, <3>4 DEF ChainInv
  <2>4. CASE ~(parsed < Len(Chain(buf)))
    <3>1. parsed = Len(Chain(buf))
      BY <1>b, <1>c, <2>2, <2>4
    <3>2. next.frame = NoFrame
      BY <1>b, <2>2, <3>1, NextAfterChain
    <3> HIDE DEF next
    <3>3. parser' = "count" /\ ReadCount' = parsed
      BY <2>1, <3>2 DEF ReadCount
    <3> QED BY <1>c, <1>d, <3>1, <3>3 DEF ChainInv
  <2> QED BY <2>3, <2>4
<1>4. CASE PushStarts
  BY <1>a, <1>4 DEF PushStarts, ChainInv, ReadCount
<1>5. CASE PushPublishes
  BY <1>a, <1>5 DEF PushPublishes, ChainInv, ReadCount
<1>6. CASE StoreParsed
  BY <1>a, <1>6 DEF StoreParsed, ChainInv, ReadCount
<1>7. CASE StoreDone
  BY <1>a, <1>7 DEF StoreDone, ChainInv, ReadCount
<1>8. ASSUME ~OpenFile, ~ReadFrame, ~PushStarts, ~PushPublishes, ~StoreParsed, ~StoreDone
      PROVE  UNCHANGED reader_vars
  BY <1>a, <1>8
     DEF Next, ParserStep, BookStep, vars, PushSpins, PushCopies, PopFails, PopStarts,
         PopCopies, PopPublishes, Dispatch, LoadDone, LeaveIfEmpty, StoreBooked, Join,
         DoneVisible, PushVisible, PopVisible
<1> QED BY <1>1, <1>2, <1>3, <1>4, <1>5, <1>6, <1>7, <1>8

(***************************************************************************)
(* Messages keep their places on the way through the ring: a push writes a *)
(* slot that no message in the ring uses, and a pop copies the oldest.     *)
(***************************************************************************)
LEMMA StepCarry == PipelineInv /\ ChainInv /\ CarryInv /\ [Next]_vars => CarryInv'
<1>a. SUFFICES ASSUME PipelineInv, ChainInv, CarryInv, [Next]_vars PROVE CarryInv'
  OBVIOUS
<1>b. /\ head_ \in Nat /\ tail_ \in Nat /\ head_seen \in Nat /\ tail_seen \in Nat
      /\ slots_ \in [0 .. Capacity - 1 -> Messages \cup {Unset}]
      /\ push \in [at : {"idle", "slot", "tail"}, item : Messages \cup {Unset}]
      /\ pop \in [at : {"idle", "slot", "head"}, item : Messages \cup {Unset}]
  BY <1>a DEF PipelineInv, QueueInv, QueueTypeOK
<1>c. /\ head_seen <= head_ /\ head_ <= tail_seen /\ tail_seen <= tail_
      /\ tail_ < head_seen + Capacity
      /\ push.at = "tail" => slots_[Slot(tail_)] = push.item
      /\ pop.at # "idle" => head_ < tail_seen
  BY <1>a DEF PipelineInv, QueueInv, WindowOK
<1>d. /\ push.at # "idle" <=> parser = "pushing"
      /\ pop.at # "idle" <=> book = "popping"
      /\ parsed = tail_
  BY <1>a DEF PipelineInv, ThreadInv, CountInv
<1>e. ParsedFrames' = ParsedFrames
  BY <1>a, FileKept
<1>f. /\ push.at # "idle" => push.item = ParsedFrames[tail_ + 1]
      /\ \A k \in head_ .. tail_ - 1 : slots_[Slot(k)] = ParsedFrames[k + 1]
      /\ pop.at = "head" => pop.item = ParsedFrames[head_ + 1]
      /\ book = "dispatch" => pop.item = ParsedFrames[head_]
  BY <1>a DEF CarryInv
<1>g. Capacity \in Nat \ {0}
  BY CapacityAssumption
<1>1. CASE UNCHANGED <<head_, tail_, slots_, push, pop>> /\ (book' = "dispatch" => book = "dispatch")
  BY <1>1, <1>e, <1>f DEF CarryInv
<1>2. CASE PushStarts
  <2>1. /\ push' = [at |-> "slot", item |-> parse_message(buf, raw)] /\ parser = "push"
        /\ UNCHANGED <<head_, tail_, slots_, pop, book>>
    BY <1>2 DEF PushStarts, TryPushStarts, consumer_vars, book_vars
  <2>2. ReadCount = tail_ + 1 /\ tail_ + 1 <= Len(Chain(buf)) /\ raw = FrameAt(buf, Chain(buf)[tail_ + 1])
    BY <1>a, <1>d, <2>1 DEF ChainInv, ReadCount
  <2>3. buf \in Files
    BY <1>a DEF PipelineInv, ReaderInv
  <2>4. Len(Chain(buf)) \in Nat
    BY <2>3, ParsedOfChain
  <2>5. tail_ + 1 \in 1 .. Len(Chain(buf))
    BY <1>b, <2>2, <2>4
  <2>6. ParsedFrames[tail_ + 1] = parse_message(buf, raw)
    BY <2>2, <2>3, <2>5, ParsedOfChain
  <2> QED BY <1>e, <1>f, <2>1, <2>6 DEF CarryInv
<1>3. CASE PushCopies
  <2>1. /\ push.at = "slot" /\ slots_' = [slots_ EXCEPT ![Slot(tail_)] = push.item]
        /\ push' = [push EXCEPT !.at = "tail"]
        /\ UNCHANGED <<head_, tail_, pop, book>>
    BY <1>3 DEF PushCopies, TryPushCopies, consumer_vars, book_vars
  <2>2. ASSUME NEW k \in head_ .. tail_ - 1 PROVE slots_'[Slot(k)] = slots_[Slot(k)]
    <3>1. k \in Nat /\ k <= tail_ /\ k # tail_ /\ tail_ < k + Capacity
      BY <1>b, <1>c, <1>g
    <3>2. Slot(tail_) # Slot(k)
      BY <1>b, <3>1, SlotNear
    <3>3. Slot(k) \in 0 .. Capacity - 1
      BY <3>1, SlotIn
    <3> QED BY <1>b, <2>1, <3>2, <3>3
  <2>3. push'.item = push.item
    BY <1>b, <2>1
  <2> QED BY <1>e, <1>f, <2>1, <2>2, <2>3 DEF CarryInv
<1>4. CASE PushPublishes
  <2>1. /\ push.at = "tail" /\ tail_' = tail_ + 1 /\ push' = [push EXCEPT !.at = "idle"]
        /\ UNCHANGED <<head_, slots_, pop, book>>
    BY <1>4 DEF PushPublishes, TryPushPublishes, consumer_vars, book_vars
  <2>2. push'.at = "idle"
    BY <1>b, <2>1
  <2>3. slots_[Slot(tail_)] = ParsedFrames[tail_ + 1]
    BY <1>c, <1>f, <2>1
  <2>4. ASSUME NEW k \in head_ .. tail_' - 1 PROVE slots_[Slot(k)] = ParsedFrames[k + 1]
    <3>1. k = tail_ \/ k \in head_ .. tail_ - 1
      BY <1>b, <2>1
    <3> QED BY <1>f, <2>3, <3>1
  <2> QED BY <1>e, <1>f, <2>1, <2>2, <2>4 DEF CarryInv
<1>5. CASE PopStarts
  <2>1. pop' = [pop EXCEPT !.at = "slot"] /\ book' = "popping" /\ UNCHANGED <<head_, tail_, slots_, push>>
    BY <1>5 DEF PopStarts, TryPopStarts, producer_vars
  <2>2. pop'.at = "slot"
    BY <1>b, <2>1
  <2> QED BY <1>e, <1>f, <2>1, <2>2 DEF CarryInv
<1>6. CASE PopCopies
  <2>1. /\ pop' = [at |-> "head", item |-> slots_[Slot(head_)]] /\ book = "popping"
        /\ UNCHANGED <<head_, tail_, slots_, push, book>>
    BY <1>6 DEF PopCopies, TryPopCopies, producer_vars, book_vars
  <2>2. head_ \in head_ .. tail_ - 1
    BY <1>b, <1>c, <1>d, <2>1
  <2>3. slots_[Slot(head_)] = ParsedFrames[head_ + 1]
    BY <1>f, <2>2
  <2> QED BY <1>e, <1>f, <2>1, <2>3 DEF CarryInv
<1>7. CASE PopPublishes
  <2>1. /\ pop.at = "head" /\ head_' = head_ + 1 /\ pop' = [pop EXCEPT !.at = "idle"]
        /\ UNCHANGED <<tail_, slots_, push>>
    BY <1>7 DEF PopPublishes, TryPopPublishes, producer_vars
  <2>2. pop'.at = "idle" /\ pop'.item = ParsedFrames[head_ + 1]
    BY <1>b, <1>f, <2>1
  <2>3. head_ + 1 .. tail_ - 1 \subseteq head_ .. tail_ - 1
    BY <1>b
  <2> QED BY <1>e, <1>f, <2>1, <2>2, <2>3 DEF CarryInv
<1>8. ASSUME ~PushStarts, ~PushCopies, ~PushPublishes, ~PopStarts, ~PopCopies, ~PopPublishes
      PROVE  UNCHANGED <<head_, tail_, slots_, push, pop>> /\ (book' = "dispatch" => book = "dispatch")
  <2> USE DEF queue_vars, producer_vars, consumer_vars, book_vars
  <2>1. CASE UNCHANGED vars
    BY <2>1 DEF vars
  <2>2. CASE ParserStep
    BY <1>8, <2>2 DEF ParserStep, OpenFile, ReadFrame, PushSpins, TryPushFails, StoreParsed, StoreDone
  <2>3. CASE BookStep
    BY <1>8, <2>3 DEF BookStep, PopFails, TryPopFails, Dispatch, LoadDone, LeaveIfEmpty, StoreBooked
  <2>4. CASE Join \/ DoneVisible \/ PushVisible \/ PopVisible
    BY <2>4 DEF Join, DoneVisible, PushVisible, TailVisible, PopVisible, HeadVisible
  <2> QED BY <1>a, <2>1, <2>2, <2>3, <2>4 DEF Next
<1> QED BY <1>1, <1>2, <1>3, <1>4, <1>5, <1>6, <1>7, <1>8

(***************************************************************************)
(* dispatch gives a handler the next message of the file: the one at the   *)
(* place booked + 1.                                                       *)
(***************************************************************************)
LEMMA StepApplied == PipelineInv /\ CarryInv /\ AppliedInv /\ [Next]_vars => AppliedInv'
<1>a. SUFFICES ASSUME PipelineInv, CarryInv, AppliedInv, [Next]_vars PROVE AppliedInv'
  OBVIOUS
<1> DEFINE ms == ParsedFrames
<1>b. /\ booked \in Nat /\ head_ = IF book = "dispatch" THEN booked + 1 ELSE booked
      /\ pop.item \in Messages \cup {Unset}
  BY <1>a DEF PipelineInv, ThreadInv, QueueInv, QueueTypeOK
<1>c. ParsedFrames' = ms
  BY <1>a, FileKept
<1>d. /\ applied \in Seq(Messages \cup {Unset}) /\ Len(applied) = Rank(ms, booked)
      /\ \A k \in 1 .. booked : Handled(ms[k]) => applied[Rank(ms, k)] = ms[k]
  BY <1>a DEF AppliedInv
<1>1. CASE UNCHANGED <<applied, booked>>
  BY <1>1, <1>c, <1>d DEF AppliedInv
<1>2. CASE Dispatch
  <2>1. /\ applied' = IF Handled(pop.item) THEN Append(applied, pop.item) ELSE applied
        /\ booked' = booked + 1 /\ book = "dispatch"
    BY <1>2 DEF Dispatch
  <2>2. pop.item = ms[booked + 1]
    BY <1>a, <1>b, <2>1 DEF CarryInv
  <2> HIDE DEF ms
  <2>3. Rank(ms, booked) \in Nat
    BY <1>b, RankType
  <2>4. Rank(ms, booked + 1) = IF Handled(ms[booked + 1]) THEN Rank(ms, booked) + 1 ELSE Rank(ms, booked)
    BY <1>b, RankStep
  <2>5. \A k \in 1 .. booked : Handled(ms[k]) => Rank(ms, k) \in 1 .. Rank(ms, booked)
    BY <1>b, RankOfHandled
  <2>6. \A k \in 1 .. booked + 1 : k \in 1 .. booked \/ k = booked + 1
    BY <1>b
  <2>7. CASE Handled(ms[booked + 1])
    <3>1. applied' = Append(applied, ms[booked + 1])
      BY <2>1, <2>2, <2>7
    <3>2. /\ applied' \in Seq(Messages \cup {Unset}) /\ Len(applied') = Rank(ms, booked + 1)
          /\ applied'[Rank(ms, booked + 1)] = ms[booked + 1]
          /\ \A i \in 1 .. Rank(ms, booked) : applied'[i] = applied[i]
      BY <1>b, <1>d, <2>2, <2>3, <2>4, <2>7, <3>1
    <3>3. ASSUME NEW k \in 1 .. booked + 1, Handled(ms[k]) PROVE applied'[Rank(ms, k)] = ms[k]
      BY <1>d, <2>5, <2>6, <3>2, <3>3
    <3> QED BY <1>c, <2>1, <3>2, <3>3 DEF AppliedInv
  <2>8. CASE ~Handled(ms[booked + 1])
    <3>1. applied' = applied /\ Rank(ms, booked + 1) = Rank(ms, booked)
      BY <2>1, <2>2, <2>4, <2>8
    <3>2. ASSUME NEW k \in 1 .. booked + 1, Handled(ms[k]) PROVE applied'[Rank(ms, k)] = ms[k]
      BY <1>d, <2>6, <2>8, <3>1, <3>2
    <3> QED BY <1>c, <1>d, <2>1, <3>1, <3>2 DEF AppliedInv
  <2> QED BY <2>7, <2>8
<1>3. ASSUME ~Dispatch PROVE UNCHANGED <<applied, booked>>
  <2> USE DEF book_vars
  <2>1. CASE UNCHANGED vars
    BY <2>1 DEF vars
  <2>2. CASE ParserStep
    BY <2>2 DEF ParserStep, OpenFile, ReadFrame, PushSpins, PushStarts, PushCopies,
                PushPublishes, StoreParsed, StoreDone
  <2>3. CASE BookStep
    BY <1>3, <2>3 DEF BookStep, PopFails, PopStarts, PopCopies, PopPublishes, LoadDone,
                      LeaveIfEmpty, StoreBooked
  <2>4. CASE Join \/ DoneVisible \/ PushVisible \/ PopVisible
    BY <2>4 DEF Join, DoneVisible, PushVisible, PopVisible
  <2> QED BY <1>a, <2>1, <2>2, <2>3, <2>4 DEF Next
<1> QED BY <1>1, <1>2, <1>3

(* The initial state: nothing is read, carried or applied. *)
LEMMA ReplayInit == Init => ReplayInv
<1> SUFFICES ASSUME Init PROVE ReplayInv
  OBVIOUS
<1>1. PipelineInv
  BY PipelineInit
<1>2. ChainInv
  <2>1. buf \in Files /\ parser = "open" /\ parsed = 0 /\ pos_ = 0
    BY DEF Init
  <2>2. Len(Chain(buf)) \in Nat
    BY <2>1, ParsedOfChain
  <2>3. ReadCount = 0 /\ EndOf(buf, 0) = 0
    BY <2>1 DEF ReadCount, EndOf
  <2> QED BY <2>1, <2>2, <2>3 DEF ChainInv
<1>3. CarryInv
  BY DEF Init, QueueInit, CarryInv
<1>4. AppliedInv
  <2>1. Rank(ParsedFrames, 0) = 0
    <3>1. {j \in 1 .. 0 : Handled(ParsedFrames[j])} = {}
      OBVIOUS
    <3> QED BY <3>1, FS_EmptySet DEF Rank
  <2> QED BY <2>1 DEF Init, AppliedInv
<1> QED BY <1>1, <1>2, <1>3, <1>4 DEF ReplayInv

(* The stronger invariant holds of every behaviour of the program. *)
THEOREM ReplayInvariance == Spec => []ReplayInv
<1>1. ReplayInv /\ [Next]_vars => ReplayInv'
  BY StepUsesQueue, StepReader, StepThreads, QueueStep, StepChain, StepCarry, StepApplied
     DEF PipelineInv, ReplayInv
<1> QED BY <1>1, ReplayInit, PTL DEF Spec

(***************************************************************************)
(* For every file and every queue capacity, whatever the interleaving of   *)
(* the two threads and the delay of their stores: when main reports, the   *)
(* book has been given exactly the file's messages that have a handler, in *)
(* order, and both counters are the number of its frames.                  *)
(***************************************************************************)
THEOREM ReplayIsFaithful == Spec => []EndToEnd
<1>1. ReplayInv => EndToEnd
  <2> SUFFICES ASSUME ReplayInv, main = "report" PROVE EndToEnd
    BY DEF EndToEnd
  <2> DEFINE ms == ParsedFrames
  <2>1. /\ parser = "ended" /\ book = "ended" /\ parsed = tail_ /\ msgs_parsed = parsed
        /\ msgs_booked = booked /\ head_ = booked /\ head_ = tail_
    BY DEF ReplayInv, PipelineInv, ThreadInv, CountInv
  <2>2. buf \in Files
    BY DEF ReplayInv, PipelineInv, ReaderInv
  <2>3. Len(ms) = Len(Chain(buf)) /\ DOMAIN ms = 1 .. Len(Chain(buf))
    BY <2>2, ParsedOfChain
  <2>4. parsed = Len(Chain(buf))
    BY <2>1 DEF ReplayInv, ChainInv, ReadCount
  <2>5. booked = Len(ms) /\ DOMAIN ms = 1 .. booked /\ msgs_parsed = Len(ms) /\ msgs_booked = Len(ms)
    BY <2>1, <2>3, <2>4
  <2>6. /\ Len(applied) = Rank(ms, booked)
        /\ \A k \in 1 .. booked : Handled(ms[k]) => applied[Rank(ms, k)] = ms[k]
    BY DEF ReplayInv, AppliedInv
  <2> QED BY <2>5, <2>6 DEF EndToEnd
<1> QED BY <1>1, ReplayInvariance, PTL
=============================================================================

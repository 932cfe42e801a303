------------------------------- MODULE Workloads -------------------------------
(***************************************************************************)
(* The order-book workloads of bench/bench_book.cpp: programs that drive   *)
(* one book with messages of their own making.  A benchmark is the         *)
(* messages of its set-up and those of its i-th iteration; queries leave   *)
(* the book alone and send none.                                           *)
(*                                                                         *)
(* The programs' numbers are parameters: 100 warm-up orders a side over 5  *)
(* prices 100 units apart, 512 or 256 orders in the cycling pool, lots of  *)
(* 100 and 1,000,000 shares, 100,000 references between adds and replaces. *)
(***************************************************************************)
EXTENDS BookFeed

CONSTANTS kBid, kAsk,      \* the best prices
          kWarm, kSpread,  \* orders and prices per side of the warm-up
          kTick,           \* distance of the prices
          kN,              \* orders of the cycling pool
          kGap,            \* from the first reference of an add to that of a replace
          kLot, kBig,      \* shares of a small and of a large order
          MaxIter          \* bound on the iterations that are run

ASSUME WorkloadAssumption ==
    /\ {kBid, kAsk, kWarm, kSpread, kTick, kN, kGap, kLot, kBig, MaxIter} \subseteq Nat \ {0}
    /\ Slots \subseteq Nat

VARIABLES bench,   \* the benchmark that runs
          iter,    \* iterations begun
          todo     \* messages of the set-up or of this iteration still to send

run == <<bench, iter, todo>>

(* Message builders. *)
make_sys(code) == [type |-> "S", ts |-> 0, code |-> code]
make_add(side, price, shares, ref) ==
    [type |-> "A", ts |-> 0, ref |-> ref, side |-> side, shares |-> shares, price |-> price]
make_delete(ref) == [type |-> "D", ts |-> 0, ref |-> ref]
make_cancel(ref, qty) == [type |-> "X", ts |-> 0, ref |-> ref, shares |-> qty]
make_replace(old_ref, new_ref, price, shares) ==
    [type |-> "U", ts |-> 0, ref |-> old_ref, new_ref |-> new_ref, shares |-> shares,
     price |-> price]

(* The reference numbers: warm-up bids and asks, the pool, then those of   *)
(* the adds and, kGap further on, those of the replaces, both ascending.   *)
AskRef(i) == kWarm + i
PoolRef(i) == 2 * kWarm + 1 + (i % kN)
AddRef(n) == 2 * kWarm + kN + 1 + n
ReplaceRef(n) == AddRef(kGap + n)

(* Mutant: no order of the warm-up rests at kBid or kAsk. *)
warm_book_off_best ==
    <<make_sys("O")>> \o
    FlattenSeq([i \in 1 .. kWarm |->
        <<make_add("B", kBid - (1 + (i % (kSpread - 1))) * kTick, 2 * kLot, i),
          make_add("S", kAsk + (1 + (i % (kSpread - 1))) * kTick, 2 * kLot, AskRef(i))>>])

warm_book ==
    <<make_sys("O")>> \o
    FlattenSeq([i \in 1 .. kWarm |->
        <<make_add("B", kBid - (i % kSpread) * kTick, 2 * kLot, i),
          make_add("S", kAsk + (i % kSpread) * kTick, 2 * kLot, AskRef(i))>>])

pool(shares) == [k \in 1 .. kN |-> make_add("B", kBid, shares, PoolRef(k - 1))]

(* The iterations of each benchmark; add_ref, old_ref, ... are functions of i. *)
BM_Book_AddBid(i) == <<make_add("B", kBid, kLot, AddRef(i)), make_delete(AddRef(i))>>

BM_Book_AddAsk(i) == <<make_add("S", kAsk, kLot, AddRef(i)), make_delete(AddRef(i))>>

(* Mutant: the cursor runs one past the pool. *)
BM_Book_Delete_past(i) ==
    LET ref == 2 * kWarm + 1 + (i % (kN + 1))
    IN  <<make_delete(ref), make_add("B", kBid, kLot, ref)>>

BM_Book_Delete(i) ==
    <<make_delete(PoolRef(i)), make_add("B", kBid, kLot, PoolRef(i))>>

BM_Book_CancelPartial(i) == <<make_cancel(PoolRef(i), 1)>>

BM_Book_Replace_SameLevel(i) ==
    <<make_replace(ReplaceRef(i), ReplaceRef(i + 1), kBid, kLot)>>

BM_Book_Replace_NewLevel(i) ==
    <<make_replace(ReplaceRef(i), ReplaceRef(i + 1),
                   IF i % 2 = 0 THEN kBid ELSE kBid - 2 * kTick, kLot)>>

(* Adds and replaces the first i iterations of the mixed workload make. *)
MixedAdds(i) == 7 * (i \div 10) + (IF i % 10 < 7 THEN i % 10 ELSE 7)
MixedReplaces(i) == i \div 10

(* Mutant: the add of the mixed workload is not taken back. *)
BM_MixedWorkload_grows(i) ==
    CASE i % 10 < 7 -> <<make_add("B", kBid, kLot, AddRef(MixedAdds(i)))>>
      [] i % 10 = 7 -> <<>>
      [] i % 10 = 8 -> BM_Book_CancelPartial(i)
      [] i % 10 = 9 -> BM_Book_Replace_SameLevel(MixedReplaces(i))

BM_MixedWorkload(i) ==
    CASE i % 10 < 7 -> BM_Book_AddBid(MixedAdds(i))
      [] i % 10 = 7 -> <<>>
      [] i % 10 = 8 -> BM_Book_CancelPartial(i)
      [] i % 10 = 9 -> BM_Book_Replace_SameLevel(MixedReplaces(i))

Benchmarks == {"AddBid", "AddAsk", "BBO", "Delete", "CancelPartial", "Replace_SameLevel",
               "Replace_NewLevel", "MixedWorkload"}

Iteration(b, i) ==
    CASE b = "AddBid"            -> BM_Book_AddBid(i)
      [] b = "AddAsk"            -> BM_Book_AddAsk(i)
      [] b = "BBO"               -> <<>>
      [] b = "Delete"            -> BM_Book_Delete(i)
      [] b = "CancelPartial"     -> BM_Book_CancelPartial(i)
      [] b = "Replace_SameLevel" -> BM_Book_Replace_SameLevel(i)
      [] b = "Replace_NewLevel"  -> BM_Book_Replace_NewLevel(i)
      [] b = "MixedWorkload"     -> BM_MixedWorkload(i)

(* What a benchmark adds to the warm book before its loop. *)
Setup(b) ==
    warm_book \o
    CASE b = "Delete"            -> pool(kLot)
      [] b = "CancelPartial"     -> pool(kBig)
      [] b = "Replace_SameLevel" -> <<make_add("B", kBid, kLot, ReplaceRef(0))>>
      [] b = "Replace_NewLevel"  -> <<make_add("B", kBid - 2 * kTick, kLot, ReplaceRef(0))>>
      [] b = "MixedWorkload"     -> pool(kBig) \o <<make_add("B", kBid, kLot, ReplaceRef(0))>>
      [] OTHER                   -> <<>>

-----------------------------------------------------------------------------
(***************************************************************************)
(* OrderPool hands out the slot freed last, and never-used slots in their  *)
(* order.  These programs have at most one order out of the book at a      *)
(* time, for which that is the lowest free slot.                           *)
(***************************************************************************)
LowestSlotFirst == \A o \in free_list \ free_list', p \in free_list' : o < p

WorkloadInit ==
    /\ Init
    /\ bench \in Benchmarks
    /\ iter = 0
    /\ todo = Setup(bench)

Send ==
    /\ todo # <<>>
    /\ dispatch(Head(todo))
    /\ LowestSlotFirst
    /\ todo' = Tail(todo)
    /\ UNCHANGED <<bench, iter>>

Iterate ==
    /\ todo = <<>> /\ iter < MaxIter
    /\ todo' = Iteration(bench, iter)
    /\ iter' = iter + 1
    /\ UNCHANGED <<vars, bench>>

WorkloadNext == Send \/ Iterate

WorkloadSpec == WorkloadInit /\ [][WorkloadNext]_<<vars, run>>

-----------------------------------------------------------------------------
(***************************************************************************)
(* Properties.                                                             *)
(***************************************************************************)

(* What message m is sent to do, the book can do: it is not a silent miss. *)
Acts(m) ==
    CASE m.type = "A" -> is_open_ /\ order_map_[m.ref] = nullptr /\ free_list # {}
      [] m.type = "U" -> order_map_[m.ref] # nullptr /\ order_map_[m.new_ref] = nullptr
      [] m.type = "X" -> order_map_[m.ref] # nullptr /\ pool_[order_map_[m.ref]].shares > m.shares
      [] m.type = "D" -> order_map_[m.ref] # nullptr
      [] OTHER -> TRUE

(* The adds of the mixed workload have reached the reference of its replace target. *)
CaughtUp == bench = "MixedWorkload" /\ MixedAdds(iter) > kGap + MixedReplaces(iter)

(***************************************************************************)
(* No benchmark measures a miss: every message of a set-up or an iteration *)
(* finds the order it names, adds use a fresh reference, and partial       *)
(* cancels leave shares, however often the cursors have gone round.  The   *)
(* mixed workload is sure of it only until its adds catch up with its      *)
(* replaces.                                                               *)
(***************************************************************************)
EveryMessageActs == todo # <<>> /\ ~CaughtUp => Acts(Head(todo))

(***************************************************************************)
(* Between iterations the book is in the steady state its set-up reached:  *)
(* as many live orders as were added, one slot of the pool for each.  When *)
(* the mixed workload's adds have caught up, the replace target is lost:   *)
(* one live order fewer, its slot never to be used again, and no further   *)
(* loss however long the loop runs.                                        *)
(***************************************************************************)
SteadyState ==
    todo = <<>> /\ bench \in Benchmarks =>
        /\ Cardinality(live) = Len(Setup(bench)) - (IF CaughtUp THEN 2 ELSE 1)
        /\ Cardinality(free_list) = Cardinality(Slots) - Len(Setup(bench)) + 1

(***************************************************************************)
(* The programs never stop, and the pool they need does not grow with the  *)
(* iterations: at every moment, also between the two messages of an        *)
(* iteration, at most one slot is in use beyond those of the set-up's      *)
(* orders (all of its messages but the first are adds).  A slot that one   *)
(* iteration in a thousand did not give back would end a run of millions   *)
(* in alloc's assertion.                                                   *)
(***************************************************************************)
PoolSuffices ==
    /\ fault = "none"
    /\ bench \in Benchmarks =>
           Cardinality(Slots) - Cardinality(free_list) <= Len(Setup(bench))

(***************************************************************************)
(* Once the loop runs, "ref prices are locked in" (bench_book.cpp:61): no  *)
(* iteration re-centres a side, and the best levels stay kBid and kAsk, so *)
(* the adds are measured at the best level.                                *)
(***************************************************************************)
WindowLockedIn ==
    iter > 0 /\ bench \in Benchmarks =>
        /\ book["B"].ref = kBid /\ book["B"].best = 0
        /\ book["S"].ref = kAsk /\ book["S"].best = 0
=============================================================================

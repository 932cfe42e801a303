---------------------------- MODULE LatencyHarness ----------------------------
(***************************************************************************)
(* bench/latency_harness.cpp: seven benchmarks in turn, each with a book   *)
(* and a histogram of its own.  An iteration times one operation, records  *)
(* the latency and then puts the book back; the messages are the ones of   *)
(* Workloads, whose builders and warm-up the program repeats.              *)
(***************************************************************************)
EXTENDS Workloads, Histogram

VARIABLE row   \* the row printed last

state == <<vars, run, hist, row>>

kIter == MaxCount

(* The prices of the orders, all of which the warm-up uses. *)
WarmPrices == {kBid - k * kTick : k \in 0 .. kSpread - 1} \cup
              {kAsk + k * kTick : k \in 0 .. kSpread - 1}

(***************************************************************************)
(* The program's numbers fit the book: 10 prices within 900 of each other  *)
(* in a window of 8192, 712 orders in a pool of 2^20, and no order of the  *)
(* pool of 512 cancelled away by a million cancels of one share.           *)
(***************************************************************************)
ASSUME HarnessSizes ==
    /\ Conforming
    /\ WarmPrices \subseteq Prices \ {0}
    /\ \A p, q \in WarmPrices : p - q < kLevels
    /\ {1, kLot, 2 * kLot, kBig} \subseteq Quantities
    /\ 1 .. AddRef(kGap + kIter) \subseteq Refs
    /\ 2 * kWarm + kN < Cardinality(Slots)
    /\ kSpread <= kWarm
    /\ kIter <= (kBig - 1) * kN

(* An iteration: the operation that is timed (none: one that sends the book *)
(* nothing) and the messages that follow it.                                *)
Timed(msgs) == [timed |-> SubSeq(msgs, 1, 1), upkeep |-> Tail(msgs)]

bench_add_bid(i) == Timed(BM_Book_AddBid(i))
bench_add_ask(i) == Timed(BM_Book_AddAsk(i))
bench_bbo(i) == [timed |-> <<>>, upkeep |-> <<>>]

(* Mutant: the order that was deleted is not put back. *)
bench_delete_shrinks(i) == Timed(<<Head(BM_Book_Delete(i))>>)

bench_delete(i) == Timed(BM_Book_Delete(i))
bench_cancel(i) == Timed(BM_Book_CancelPartial(i))
bench_replace(i) == Timed(BM_Book_Replace_SameLevel(i))
bench_parse_add(i) == [timed |-> <<>>, upkeep |-> <<>>]

HarnessIteration(b, i) ==
    CASE b = "AddBid"            -> bench_add_bid(i)
      [] b = "AddAsk"            -> bench_add_ask(i)
      [] b = "BBO"               -> bench_bbo(i)
      [] b = "Delete"            -> bench_delete(i)
      [] b = "CancelPartial"     -> bench_cancel(i)
      [] b = "Replace_SameLevel" -> bench_replace(i)
      [] b = "ParseAdd"          -> bench_parse_add(i)

(* bench_parse_add has no book. *)
HarnessSetup(b) == IF b = "ParseAdd" THEN <<>> ELSE Setup(b)

(* The benchmark main calls after b. *)
main == [AddBid |-> "AddAsk", AddAsk |-> "BBO", BBO |-> "Delete", Delete |-> "CancelPartial",
         CancelPartial |-> "Replace_SameLevel", Replace_SameLevel |-> "ParseAdd",
         ParseAdd |-> "returned"]

NoRow == [name |-> "none", p50 |-> 0, p99 |-> 0, p999 |-> 0, n |-> 0]

-----------------------------------------------------------------------------
HarnessInit ==
    /\ Init
    /\ HistogramInit
    /\ bench = "AddBid"
    /\ iter = 0
    /\ todo = HarnessSetup("AddBid")
    /\ row = NoRow

(* A message of the set-up, or one that follows the timed operation. *)
SendUntimed == Send /\ UNCHANGED <<hist, row>>

(* now_ns, the operation, now_ns, record: a clock that steps back wraps to a *)
(* latency beyond the last bucket.                                           *)
Measure ==
    LET it == HarnessIteration(bench, iter)
    IN  /\ bench # "returned" /\ todo = <<>> /\ iter < kIter
        /\ \/ it.timed = <<>> /\ UNCHANGED vars
           \/ it.timed # <<>> /\ dispatch(Head(it.timed)) /\ LowestSlotFirst
        /\ \E ns \in Nanoseconds : record(ns)
        /\ todo' = it.upkeep
        /\ iter' = iter + 1
        /\ UNCHANGED <<bench, row>>

print_row(name) == [name |-> name, p50 |-> p50, p99 |-> p99, p999 |-> p999, n |-> total_]

(* The end of a benchmark: its row, and a new book and histogram for the next. *)
PrintRow ==
    /\ bench # "returned" /\ todo = <<>> /\ iter = kIter
    /\ row' = print_row(bench)
    /\ bench' = main[bench]
    /\ iter' = 0
    /\ todo' = IF bench' = "returned" THEN <<>> ELSE HarnessSetup(bench')
    /\ is_open_' = FALSE
    /\ order_map_' = [r \in Refs |-> nullptr]
    /\ pool_' = [o \in Slots |-> BlankOrder]
    /\ free_list' = Slots
    /\ book' = [s \in Side |-> EmptySide]
    /\ NewHistogram
    /\ UNCHANGED fault

(* main has returned. *)
Returned == bench = "returned" /\ UNCHANGED state

HarnessNext == SendUntimed \/ Measure \/ PrintRow \/ Returned

HarnessSpec == HarnessInit /\ [][HarnessNext]_state

-----------------------------------------------------------------------------
Shares(r) == IF order_map_[r] = nullptr THEN 0 ELSE pool_[order_map_[r]].shares

(***************************************************************************)
(* Every latency recorded is that of an operation that did what its row is *)
(* named for: an add brings one live order, a delete takes the one it      *)
(* names, a cancel takes a share and leaves the order, a replace ends one  *)
(* order and begins another.  No row holds the latencies of misses.        *)
(***************************************************************************)
MeasuresHits ==
    [][total_' > total_ =>
          LET gone == live \ live'
              come == live' \ live
          IN  CASE bench \in {"AddBid", "AddAsk"} -> gone = {} /\ Cardinality(come) = 1
                [] bench = "Delete"            -> Cardinality(gone) = 1 /\ come = {}
                [] bench = "CancelPartial"     -> /\ live' = live
                                                  /\ \E r \in live : Shares(r)' = Shares(r) - 1
                [] bench = "Replace_SameLevel" -> Cardinality(gone) = 1 /\ Cardinality(come) = 1
                [] OTHER                       -> UNCHANGED vars]_state
=============================================================================

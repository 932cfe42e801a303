------------------------------- MODULE Analytics -------------------------------
(***************************************************************************)
(* Analytics and BBO (include/book/analytics.hpp, include/book/bbo.hpp):   *)
(* figures computed from the state of an OrderBook, and a thread of its    *)
(* own that computes them while the book thread runs its handlers.         *)
(*                                                                         *)
(* Doubles are exact here: twice the mid price, and an average as the pair *)
(* of its numerator and denominator.                                       *)
(***************************************************************************)
EXTENDS OrderBook

CONSTANT MaxDuring   \* bound on the handlers that run during one call

ASSUME AnalyticsAssumption == MaxDuring \in Nat

VARIABLES
    pc,        \* the analytics thread: idle, the load it makes next and its side, done
    idx,       \* the best index its test loaded, for the side at hand
    bbo,       \* the BBO it fills
    during,    \* how many handlers have run since the call began
    held       \* the BBOs the book has had since the call began

Idle == <<"idle", "none">>
Done == <<"done", "none">>

reader == <<pc, idx, bbo, during, held>>

NoBBO == [s \in {"B", "S"} |-> [price |-> 0, qty |-> 0]]

(* BBO::valid, and the mid price and spread of BBO and of Analytics. *)
valid(b) == b["B"].price > 0 /\ b["S"].price > 0 /\ b["B"].price < b["S"].price

mid_price_twice(b) == IF valid(b) THEN (b["B"].price + b["S"].price) % W32 ELSE 0

(* Mutant: the spread of a crossed or one-sided book is not suppressed. *)
spread_always(b) == (b["S"].price - b["B"].price) % W32

spread(b) == IF valid(b) THEN (b["S"].price - b["B"].price) % W32 ELSE 0

(* A quotient as numerator and denominator; 0.0 where there is nothing to divide by. *)
Ratio(num, den) == IF den = 0 THEN <<0, 1>> ELSE <<num, den>>

order_flow_imbalance(b) == Ratio(b["B"].qty - b["S"].qty, b["B"].qty + b["S"].qty)

(* How many levels a loop visits when asked for n: counted from the reference price. *)
Loops(n) == IF n > kLevels THEN kLevels ELSE n

(* What a loop over the first n levels adds up, where level i counts a[i]. *)
SumUpto(a, n) ==
    LET sum[k \in 0 .. kLevels] == IF k = 0 THEN 0 ELSE sum[k - 1] + a[k - 1]
    IN  sum[n]

(* Mutant: the last level is never reached. *)
visible_qty_short(s, n) ==
    SumUpto([i \in Indices |-> book[s].levels[i].total_qty],
            IF n >= kLevels THEN kLevels - 1 ELSE n) % W64

visible_qty(s, n) ==
    SumUpto([i \in Indices |-> book[s].levels[i].total_qty], Loops(n)) % W64

vwap(s, n) ==
    LET qty == [i \in Indices |-> IF level_empty(book[s].levels[i]) THEN 0
                                  ELSE book[s].levels[i].total_qty]
    IN  Ratio(SumUpto([i \in Indices |-> PriceFromIdx(s, book[s].ref, i) * qty[i]], Loops(n)),
              SumUpto(qty, Loops(n)))

-----------------------------------------------------------------------------
(***************************************************************************)
(* best_bid_offer as another thread runs it: for each side it tests the    *)
(* best index, then computes the price, then reads the quantity.  Nothing  *)
(* orders these plain loads with the writes of the book thread; where the  *)
(* source names best_bid_idx_ again, the build may use the value it has or *)
(* load a newer one.                                                       *)
(***************************************************************************)
Again(s) == {idx, book[s].best}

NextSide(s) == IF s = "B" THEN <<"test", "S">> ELSE Done

Call ==
    /\ pc = Idle
    /\ pc' = <<"test", "B">>
    /\ held' = {best_bid_offer}
    /\ UNCHANGED <<idx, bbo, during>>

TestBest(s) ==
    /\ pc = <<"test", s>>
    /\ idx' = book[s].best
    /\ pc' = IF book[s].best >= 0 THEN <<"price", s>> ELSE NextSide(s)
    /\ UNCHANGED <<bbo, during, held>>

(* Mutant: the price is the reference price, as if the best level were always the first. *)
LoadRefPrice(s) ==
    /\ pc = <<"price", s>>
    /\ bbo' = [bbo EXCEPT ![s].price = book[s].ref]
    /\ pc' = <<"qty", s>>
    /\ UNCHANGED <<idx, during, held>>

LoadPrice(s) ==
    /\ pc = <<"price", s>>
    /\ \E i \in Again(s) : bbo' = [bbo EXCEPT ![s].price = PriceFromIdx(s, book[s].ref, i)]
    /\ pc' = <<"qty", s>>
    /\ UNCHANGED <<idx, during, held>>

(* The element before the array is some memory of the book: any quantity. *)
LoadQty(s) ==
    /\ pc = <<"qty", s>>
    /\ \E i \in Again(s) :
          \E q \in IF i >= 0 THEN {book[s].levels[i].total_qty % W32} ELSE 0 .. W32 - 1 :
              bbo' = [bbo EXCEPT ![s].qty = q]
    /\ pc' = NextSide(s)
    /\ UNCHANGED <<idx, during, held>>

Return ==
    /\ pc = Done
    /\ pc' = Idle
    /\ idx' = -1 /\ bbo' = NoBBO /\ during' = 0 /\ held' = {}

Reader == Call \/ (\E s \in Side : TestBest(s) \/ LoadPrice(s) \/ LoadQty(s)) \/ Return

(* A handler of the book thread, between calls or during one. *)
Handler ==
    /\ Next
    /\ \/ pc = Idle /\ UNCHANGED reader
       \/ /\ pc # Idle /\ during < MaxDuring
          /\ during' = during + 1
          /\ held' = held \cup {best_bid_offer'}
          /\ UNCHANGED <<pc, idx, bbo>>

AnalyticsInit ==
    /\ Init
    /\ pc = Idle /\ idx = -1 /\ bbo = NoBBO /\ during = 0 /\ held = {}

AnalyticsNext == Handler \/ (Reader /\ UNCHANGED vars)

AnalyticsSpec == AnalyticsInit /\ [][AnalyticsNext]_<<vars, reader>>

-----------------------------------------------------------------------------
(***************************************************************************)
(* Properties.                                                             *)
(***************************************************************************)

LiveOf(s) == {order_map_[r] : r \in {q \in live : pool_[order_map_[q]].side = s}}
LivePrices(s) == {pool_[o].price : o \in LiveOf(s)}
AtBest(s) == {o \in LiveOf(s) : \A p \in LivePrices(s) : ~Better(s, p, pool_[o].price)}

(***************************************************************************)
(* With a conforming feed whose prices fit in the window, the mid price    *)
(* and the spread describe the live orders: when every bid is below every  *)
(* ask and there are both, twice the mid price lies strictly between twice *)
(* the best bid and twice the best ask and the spread is the gap; in every *)
(* other book (one-sided, locked, crossed) both are 0.  The imbalance is   *)
(* that of the shares at the two best prices, as uint32_t, and 0 in a book *)
(* without any.                                                            *)
(***************************************************************************)
QuoteFiguresAreOfTheMarket ==
    Conforming /\ WideWindow =>
        LET b     == best_bid_offer
            bids  == LivePrices("B")
            asks  == LivePrices("S")
            quoted == bids # {} /\ asks # {} /\ \A p \in bids, q \in asks : p < q
            buying  == SharesOf(AtBest("B"), pool_) % W32
            selling == SharesOf(AtBest("S"), pool_) % W32
        IN  /\ order_flow_imbalance(b) = Ratio(buying - selling, buying + selling)
            /\ IF quoted
               THEN /\ \A p \in bids : 2 * p < mid_price_twice(b)
                    /\ \A q \in asks : mid_price_twice(b) < 2 * q
                    /\ \E p \in bids, q \in asks : spread(b) = q - p
                    /\ \A p \in bids, q \in asks : spread(b) <= q - p
               ELSE mid_price_twice(b) = 0 /\ spread(b) = 0

(* The live orders of s less than n ticks from the reference price. *)
Within(s, n) == {o \in LiveOf(s) : TicksWorse(s, book[s].ref, pool_[o].price) < n}

(* What the orders of S are worth, counted one by one: a unit for every    *)
(* share and every tick of its price.                                      *)
WorthUnits(S, ord) == {u \in ShareUnits(S, ord) \X (1 .. W32) : u[2] <= ord[u[1][1]].price}
WorthOf(S, ord) == Cardinality(WorthUnits(S, ord))

(***************************************************************************)
(* With a conforming feed whose prices fit in the window, the figures over *)
(* n levels are those of the live orders within n ticks of the reference   *)
(* price, wherever the best price has gone since: visible_qty is their     *)
(* shares, and vwap averages the prices of those shares (0 when there are  *)
(* none).  All the levels hold all the live orders.                        *)
(***************************************************************************)
DepthFiguresAreOfTheMarket ==
    Conforming /\ WideWindow =>
        \A s \in Side :
            /\ Within(s, kLevels) = LiveOf(s)
            /\ \A n \in 0 .. kLevels + 1 :
                  LET orders == Within(s, n)
                  IN  /\ visible_qty(s, n) = SharesOf(orders, pool_)
                      /\ vwap(s, n) = Ratio(WorthOf(orders, pool_), SharesOf(orders, pool_))

(***************************************************************************)
(* A call during which no handler runs returns the book's best bid and     *)
(* offer, whichever loads the build repeats.                               *)
(***************************************************************************)
QuietReadIsExact == pc = Done /\ during = 0 => bbo = best_bid_offer

-----------------------------------------------------------------------------
(***************************************************************************)
(* A statement of analytics.hpp that the code does not satisfy.            *)
(***************************************************************************)

(* analytics.hpp:11-12: figures "computed from the live book state", to be *)
(* called "from the analytics thread only": the BBO they start from is one *)
(* that the book had during the call.                                      *)
ReadsALiveState == pc = Done => bbo \in held
=============================================================================

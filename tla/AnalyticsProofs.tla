---------------------------- MODULE AnalyticsProofs ----------------------------
(***************************************************************************)
(* Proofs about the analytics of a book, for every value of the constants: *)
(* a call that no handler interrupts is exact, and the figures computed    *)
(* from a book that a conforming feed drives are those of its live orders. *)
(***************************************************************************)
EXTENDS Analytics, OrderBookFeedProofs

(* The analytics thread only reads: the book runs as it does alone. *)
LEMMA BookRunsAlone == AnalyticsSpec => Spec
<1>1. AnalyticsInit => Init
    BY DEF AnalyticsInit
<1>2. [AnalyticsNext]_<<vars, reader>> => [Next]_vars
    BY DEF AnalyticsNext, Handler, vars
<1> QED BY <1>1, <1>2, PTL DEF AnalyticsSpec, Spec

-----------------------------------------------------------------------------
(* A quiet call. *)
NoQuote == [price |-> 0, qty |-> 0]

(* The loads of side s are still to come, or have all been made. *)
Before(s) ==
    pc \in {Idle, <<"test", "B">>, <<"price", "B">>}
           \cup (IF s = "B" THEN {} ELSE {<<"qty", "B">>, <<"test", "S">>, <<"price", "S">>})
After(s) ==
    pc \in {Done} \cup (IF s = "B" THEN {<<"test", "S">>, <<"price", "S">>, <<"qty", "S">>} ELSE {})

(* What the call has of side s, as long as no handler has run. *)
QuietSide(s) ==
    /\ Before(s) => bbo[s] = NoQuote
    /\ pc \in {<<"price", s>>, <<"qty", s>>} => idx = book[s].best /\ ~(idx < 0)
    /\ pc = <<"qty", s>> => bbo[s].price = SideBBO(s).price
    /\ After(s) => bbo[s] = SideBBO(s)

QuietInv ==
    /\ pc \in {Idle, Done} \cup ({"test", "price", "qty"} \X Side)
    /\ bbo \in [Side -> [price : Int, qty : Int]]
    /\ idx \in Indices \cup {-1} /\ during \in Nat
    /\ pc = Idle => bbo = NoBBO /\ during = 0
    /\ during = 0 => \A s \in Side : QuietSide(s)

LEMMA QuietInit == AnalyticsInit => QuietInv
<1> SUFFICES ASSUME AnalyticsInit PROVE QuietInv
    OBVIOUS
<1>1. pc = Idle /\ bbo = NoBBO /\ during = 0 /\ idx = -1
    BY DEF AnalyticsInit
<1>2. NoBBO = [s \in Side |-> NoQuote] /\ NoBBO \in [Side -> [price : Int, qty : Int]]
    BY DEF NoBBO, NoQuote, Side
<1>3. \A s \in Side : QuietSide(s)
    BY <1>1, <1>2 DEF QuietSide, Before, After, Idle, Done
<1> QED BY <1>1, <1>2, <1>3 DEF QuietInv

(* A price and a quantity that a load may return. *)
LEMMA LoadsAreInts ==
    ASSUME IndInv, NEW s \in Side
    PROVE  /\ \A i \in Indices \cup {-1} : PriceFromIdx(s, book[s].ref, i) \in Int
           /\ book[s].best \in Indices \cup {-1}
           /\ \A i \in Indices : book[s].levels[i].total_qty % W32 \in Int
<1>1. StateOK(Here) /\ Here.bk = book
    BY HereFields DEF IndInv
<1>2. book \in [Side -> SideType]
    BY <1>1, StateFacts
<1>3. book[s] \in SideType
    BY <1>2
<1>4. book[s].ref \in Int /\ book[s].best \in Indices \cup {-1} /\ book[s].levels \in [Indices -> Level(Slots)]
    BY <1>3, PriceRange DEF SideType
<1>5. ASSUME NEW i \in Indices \cup {-1} PROVE PriceFromIdx(s, book[s].ref, i) \in Int
  <2>1. i \in Int
      BY IndicesNat
  <2> QED BY <2>1, <1>4, WidthAssumption DEF PriceFromIdx
<1>6. ASSUME NEW i \in Indices PROVE book[s].levels[i].total_qty % W32 \in Int
  <2>1. book[s].levels[i] \in Level(Slots)
      BY <1>4
  <2>2. book[s].levels[i].total_qty \in Int
      BY <2>1, WidthAssumption DEF Level
  <2> QED BY <2>2, WidthAssumption
<1> QED BY <1>4, <1>5, <1>6

(* No step of the thread itself makes a quiet call inexact. *)
LEMMA QuietStep ==
    IndInv /\ QuietInv /\ [AnalyticsNext]_<<vars, reader>> => QuietInv'
<1> SUFFICES ASSUME IndInv, QuietInv, [AnalyticsNext]_<<vars, reader>> PROVE QuietInv'
    OBVIOUS
<1>t. /\ pc \in {Idle, Done} \cup ({"test", "price", "qty"} \X Side)
      /\ bbo \in [Side -> [price : Int, qty : Int]]
      /\ idx \in Indices \cup {-1} /\ during \in Nat
      /\ pc = Idle => bbo = NoBBO /\ during = 0
    BY DEF QuietInv
<1>q. during = 0 => \A s \in Side : QuietSide(s)
    BY DEF QuietInv
<1>n. NoBBO = [s \in Side |-> NoQuote] /\ NoBBO \in [Side -> [price : Int, qty : Int]]
    BY DEF NoBBO, NoQuote, Side
<1>1. CASE UNCHANGED <<vars, reader>>
  <2>1. UNCHANGED <<book, pc, idx, bbo, during>>
      BY <1>1 DEF vars, reader
  <2>2. \A s \in Side : QuietSide(s)' <=> QuietSide(s)
      BY <2>1 DEF QuietSide, Before, After, SideBBO
  <2> QED BY <1>t, <1>q, <2>1, <2>2 DEF QuietInv
<1>2. CASE Handler
  <2>1. CASE pc = Idle /\ UNCHANGED reader
    <3>1. UNCHANGED <<pc, idx, bbo, during>> /\ pc = Idle /\ bbo = NoBBO
        BY <1>t, <2>1 DEF reader
    <3>2. \A s \in Side : QuietSide(s)'
        BY <1>n, <3>1 DEF QuietSide, Before, After, Idle, Done
    <3> QED BY <1>t, <3>1, <3>2 DEF QuietInv
  <2>2. CASE pc # Idle /\ during' = during + 1 /\ UNCHANGED <<pc, idx, bbo>>
    <3>1. during' \in Nat /\ during' # 0
        BY <1>t, <2>2
    <3> QED BY <1>t, <2>2, <3>1 DEF QuietInv
  <2> QED BY <1>2, <2>1, <2>2 DEF Handler
<1>b. ASSUME UNCHANGED vars PROVE book' = book /\ \A s \in Side : SideBBO(s)' = SideBBO(s)
    BY <1>b DEF vars, SideBBO
<1>3. CASE Call /\ UNCHANGED vars
  <2>1. pc = Idle /\ pc' = <<"test", "B">> /\ UNCHANGED <<idx, bbo, during>> /\ bbo = NoBBO
      BY <1>3, <1>t DEF Call
  <2>2. \A s \in Side : QuietSide(s)'
      BY <1>n, <2>1 DEF QuietSide, Before, After, Idle, Done, Side
  <2> QED BY <1>t, <2>1, <2>2 DEF QuietInv, Side, Idle
<1>4. CASE Return /\ UNCHANGED vars
  <2>1. pc' = Idle /\ idx' = -1 /\ bbo' = NoBBO /\ during' = 0
      BY <1>4 DEF Return
  <2>2. \A s \in Side : QuietSide(s)'
      BY <1>n, <2>1 DEF QuietSide, Before, After, Idle, Done
  <2> QED BY <1>n, <2>1, <2>2 DEF QuietInv
<1>5. ASSUME NEW s \in Side, TestBest(s), UNCHANGED vars PROVE QuietInv'
  <2>1. /\ pc = <<"test", s>> /\ idx' = book[s].best /\ UNCHANGED <<bbo, during>>
        /\ pc' = IF book[s].best >= 0 THEN <<"price", s>> ELSE NextSide(s)
      BY <1>5 DEF TestBest
  <2>2. book' = book /\ (\A t \in Side : SideBBO(t)' = SideBBO(t)) /\ book[s].best \in Indices \cup {-1}
      BY <1>5, <1>b, LoadsAreInts
  <2>3. book[s].best >= 0 <=> ~(book[s].best < 0)
      BY <2>2, IndicesNat
  <2>4. book[s].best < 0 => SideBBO(s) = NoQuote
      BY DEF SideBBO, NoQuote
  <2>5. ASSUME during = 0, NEW t \in Side PROVE QuietSide(t)'
    <3>1. QuietSide(s) /\ QuietSide(t)
        BY <1>q, <2>5
    <3>2. s = "B" \/ s = "S"
        BY DEF Side
    <3>3. t = "B" \/ t = "S"
        BY DEF Side
    <3> QED BY <2>1, <2>2, <2>3, <2>4, <3>1, <3>2, <3>3
            DEF QuietSide, Before, After, NextSide, Idle, Done
  <2>6. pc' \in {Idle, Done} \cup ({"test", "price", "qty"} \X Side) /\ pc' # Idle
      BY <2>1 DEF NextSide, Side, Idle, Done
  <2> QED BY <1>t, <2>1, <2>2, <2>5, <2>6 DEF QuietInv
<1>6. ASSUME NEW s \in Side, LoadPrice(s), UNCHANGED vars PROVE QuietInv'
  <2>1. PICK i \in Again(s) : bbo' = [bbo EXCEPT ![s].price = PriceFromIdx(s, book[s].ref, i)]
      BY <1>6 DEF LoadPrice
  <2>2. pc = <<"price", s>> /\ pc' = <<"qty", s>> /\ UNCHANGED <<idx, during>>
      BY <1>6 DEF LoadPrice
  <2>3. book' = book /\ (\A t \in Side : SideBBO(t)' = SideBBO(t)) /\ i \in Indices \cup {-1}
      BY <1>6, <1>b, <1>t, LoadsAreInts DEF Again
  <2>4. PriceFromIdx(s, book[s].ref, i) \in Int
      BY <2>3, LoadsAreInts
  <2>5. /\ bbo' \in [Side -> [price : Int, qty : Int]]
        /\ bbo'[s].price = PriceFromIdx(s, book[s].ref, i)
        /\ \A t \in Side : t # s => bbo'[t] = bbo[t]
      BY <1>t, <2>1, <2>4
  <2>6. ASSUME during = 0, NEW t \in Side PROVE QuietSide(t)'
    <3>1. QuietSide(s) /\ QuietSide(t)
        BY <1>q, <2>6
    <3>2. idx = book[s].best /\ ~(idx < 0) /\ i = idx
        BY <2>2, <3>1 DEF QuietSide, Again
    <3>3. bbo'[s].price = SideBBO(s).price
        BY <2>5, <3>2 DEF SideBBO
    <3>4. s = "B" \/ s = "S"
        BY DEF Side
    <3>5. t = "B" \/ t = "S"
        BY DEF Side
    <3> QED BY <2>2, <2>3, <2>5, <3>1, <3>2, <3>3, <3>4, <3>5
            DEF QuietSide, Before, After, Idle, Done
  <2>7. pc' \in {Idle, Done} \cup ({"test", "price", "qty"} \X Side) /\ pc' # Idle
      BY <2>2 DEF Side, Idle, Done
  <2> QED BY <1>t, <2>2, <2>5, <2>6, <2>7 DEF QuietInv
<1>7. ASSUME NEW s \in Side, LoadQty(s), UNCHANGED vars PROVE QuietInv'
  <2>1. PICK i \in Again(s) :
            \E q \in IF i >= 0 THEN {book[s].levels[i].total_qty % W32} ELSE 0 .. W32 - 1 :
                bbo' = [bbo EXCEPT ![s].qty = q]
      BY <1>7 DEF LoadQty
  <2>2. PICK q \in IF i >= 0 THEN {book[s].levels[i].total_qty % W32} ELSE 0 .. W32 - 1 :
            bbo' = [bbo EXCEPT ![s].qty = q]
      BY <2>1
  <2>3. pc = <<"qty", s>> /\ pc' = NextSide(s) /\ UNCHANGED <<idx, during>>
      BY <1>7 DEF LoadQty
  <2>4. book' = book /\ (\A t \in Side : SideBBO(t)' = SideBBO(t)) /\ i \in Indices \cup {-1}
      BY <1>7, <1>b, <1>t, LoadsAreInts DEF Again
  <2>5. q \in Int
    <3>1. CASE i >= 0
      <4>1. i \in Indices
          BY <2>4, <3>1
      <4> QED BY <2>2, <3>1, <4>1, LoadsAreInts
    <3>2. CASE ~(i >= 0)
        BY <2>2, <3>2, WidthAssumption
    <3> QED BY <3>1, <3>2
  <2>6. /\ bbo' \in [Side -> [price : Int, qty : Int]]
        /\ bbo'[s] = [price |-> bbo[s].price, qty |-> q]
        /\ \A t \in Side : t # s => bbo'[t] = bbo[t]
      BY <1>t, <2>2, <2>5
  <2>7. ASSUME during = 0, NEW t \in Side PROVE QuietSide(t)'
    <3>1. QuietSide(s) /\ QuietSide(t)
        BY <1>q, <2>7
    <3>2. idx = book[s].best /\ ~(idx < 0) /\ i = idx /\ bbo[s].price = SideBBO(s).price
        BY <2>3, <3>1 DEF QuietSide, Again
    <3>3. SideBBO(s) = [price |-> PriceFromIdx(s, book[s].ref, i),
                        qty   |-> book[s].levels[i].total_qty % W32]
        BY <3>2 DEF SideBBO
    <3>a. i >= 0
      <4>1. i \in Int
          BY <2>4, IndicesNat
      <4> QED BY <3>2, <4>1
    <3>4. bbo'[s] = SideBBO(s)
        BY <2>2, <2>6, <3>2, <3>3, <3>a
    <3>5. s = "B" \/ s = "S"
        BY DEF Side
    <3>6. t = "B" \/ t = "S"
        BY DEF Side
    <3> QED BY <2>3, <2>4, <2>6, <3>1, <3>4, <3>5, <3>6
            DEF QuietSide, Before, After, NextSide, Idle, Done
  <2>8. pc' \in {Idle, Done} \cup ({"test", "price", "qty"} \X Side) /\ pc' # Idle
      BY <2>3 DEF NextSide, Side, Idle, Done
  <2> QED BY <1>t, <2>3, <2>6, <2>7, <2>8 DEF QuietInv
<1> QED BY <1>1, <1>2, <1>3, <1>4, <1>5, <1>6, <1>7 DEF AnalyticsNext, Reader

(***************************************************************************)
(* For every book and every feed, conforming or not: a call of             *)
(* best_bid_offer during which no handler runs returns the book's best bid *)
(* and offer, whichever of its loads the build repeats.                    *)
(***************************************************************************)
THEOREM QuietCallsAreExact == AnalyticsSpec => []QuietReadIsExact
<1>1. AnalyticsSpec => []IndInv
    BY BookRunsAlone, FeedInvariance, PTL
<1>2. AnalyticsSpec => []QuietInv
    BY <1>1, QuietInit, QuietStep, PTL DEF AnalyticsSpec
<1>3. QuietInv => QuietReadIsExact
  <2> SUFFICES ASSUME QuietInv, pc = Done, during = 0 PROVE bbo = best_bid_offer
      BY DEF QuietReadIsExact
  <2>1. \A s \in Side : bbo[s] = SideBBO(s)
      BY DEF QuietInv, QuietSide, After
  <2>2. bbo = [s \in Side |-> bbo[s]]
      BY DEF QuietInv
  <2> QED BY <2>1, <2>2 DEF best_bid_offer
<1> QED BY <1>2, <1>3, PTL


-----------------------------------------------------------------------------
(* The quote. *)

(* A window as wide as the feed's prices leaves no order out. *)
LEMMA WideLeavesNone ==
    ASSUME WideWindow, Fed(Here), NEW s \in Side
    PROVE  LeftOut(s) = {}
<1>1. ASSUME NEW r \in live PROVE pool_[order_map_[r]].level_idx # -1
  <2>1. r \in Refs /\ Here.map[r] # nullptr
      BY HereFields DEF live
  <2>2. PricedAt(Here, r)
      BY <2>1 DEF Fed, Priced
  <2> QED BY <2>2, HereFields DEF PricedAt
<1> QED BY <1>1 DEF LeftOut

(* The live prices of a side: none is 0, the best one is the one reported. *)
LEMMA QuoteOfSide ==
    ASSUME Conforming, WideWindow, IndInv, Fed(Here), NEW s \in Side, SideBBO(s) = BBOOfLive(s)
    PROVE  /\ LivePrices(s) \subseteq Prices \ {0}
           /\ SideBBO(s).qty = SharesOf(AtBest(s), pool_) % W32
           /\ LivePrices(s) = {} => SideBBO(s).price = 0
           /\ LivePrices(s) # {} =>
                 /\ SideBBO(s).price \in LivePrices(s)
                 /\ \A p \in LivePrices(s) : ~Better(s, p, SideBBO(s).price)
<1> DEFINE side == {r \in live : pool_[order_map_[r]].side = s}
           price(r) == pool_[order_map_[r]].price
           top  == {r \in side : \A q \in side : ~Better(s, price(q), price(r))}
<1>1. LiveOf(s) = {order_map_[r] : r \in side} /\ LivePrices(s) = {price(r) : r \in side}
    BY DEF LiveOf, LivePrices
<1>2. AtBest(s) = {order_map_[r] : r \in top}
  <2>1. ASSUME NEW o \in AtBest(s) PROVE \E r \in top : o = order_map_[r]
    <3>1. PICK r \in side : o = order_map_[r]
        BY <1>1 DEF AtBest
    <3>2. \A q \in side : ~Better(s, price(q), price(r))
        BY <3>1, <1>1 DEF AtBest
    <3> QED BY <3>1, <3>2
  <2>2. ASSUME NEW r \in top PROVE order_map_[r] \in AtBest(s)
      BY <1>1 DEF AtBest
  <2> HIDE DEF top
  <2> QED BY <2>1, <2>2
<1>3. ASSUME NEW r \in side PROVE price(r) \in Prices \ {0}
  <2>1. r \in Refs /\ Here.map[r] # nullptr
      BY HereFields DEF live
  <2>2. PricedAt(Here, r)
      BY <2>1 DEF Fed, Priced
  <2> QED BY <2>2, HereFields DEF PricedAt
<1>a. LivePrices(s) \subseteq Prices \ {0}
    BY <1>1, <1>3
<1>4. CASE side = {}
  <2>1. SideBBO(s) = [price |-> 0, qty |-> 0]
      BY <1>4 DEF BBOOfLive
  <2>2. AtBest(s) = {} /\ LivePrices(s) = {}
      BY <1>1, <1>2, <1>4
  <2>3. SharesOf(AtBest(s), pool_) % W32 = 0
      BY <2>2, SharesNone, WidthAssumption
  <2> QED BY <1>a, <2>1, <2>2, <2>3
<1>5. CASE side # {}
  <2>1. LeftOut(s) = {}
      BY WideLeavesNone
  <2>2. book[s].best \in Indices
    <3>1. PICK r \in side : TRUE
        BY <1>5
    <3>2. /\ pool_[order_map_[r]].level_idx \in Indices
          /\ ~level_empty(book[s].levels[pool_[order_map_[r]].level_idx])
        BY <2>1, OnSide
    <3>3. BestOK(book[s])
        BY HereFields DEF IndInv, StateOK, SideOK
    <3> QED BY <3>2, <3>3 DEF BestOK
  <2>3. top # {}
      BY <2>1, <2>2, BestIsTop
  <2> DEFINE m == CHOOSE r \in top : TRUE
  <2>4. m \in top /\ m \in side
      BY <2>3
  <2>5. SideBBO(s) = [price |-> price(m),
                      qty   |-> SharesOf({order_map_[r] : r \in top}, pool_) % W32]
      BY <1>5 DEF BBOOfLive
  <2>6. price(m) \in LivePrices(s) /\ \A p \in LivePrices(s) : ~Better(s, p, price(m))
    <3> HIDE DEF m
    <3> QED BY <1>1, <2>4
  <2>7. SideBBO(s).price = price(m) /\ SideBBO(s).qty = SharesOf(AtBest(s), pool_) % W32
    <3> DEFINE pm == price(m)
               n  == SharesOf(AtBest(s), pool_) % W32
    <3>1. SharesOf({order_map_[r] : r \in top}, pool_) % W32 = n
        BY <1>2
    <3>2. SideBBO(s) = [price |-> pm, qty |-> n]
        BY <2>5, <3>1
    <3> HIDE DEF pm, n
    <3>3. SideBBO(s).price = pm /\ SideBBO(s).qty = n
        BY <3>2
    <3> QED BY <3>3 DEF pm, n
  <2> HIDE DEF m, price
  <2> QED BY <1>a, <2>6, <2>7
<1> QED BY <1>4, <1>5

(***************************************************************************)
(* For every window, price set and conforming feed: mid price, spread and  *)
(* imbalance are those of the live orders, and both prices are 0 unless    *)
(* the live orders make a market (both sides quoted, uncrossed).           *)
(***************************************************************************)
THEOREM QuotesTheMarket == AnalyticsSpec => []QuoteFiguresAreOfTheMarket
<1>1. ASSUME IndInv, Conforming => Fed(Here), BBOIsBest PROVE QuoteFiguresAreOfTheMarket
  <2> SUFFICES ASSUME Conforming, WideWindow PROVE QuoteFiguresAreOfTheMarket
      BY DEF QuoteFiguresAreOfTheMarket
  <2> DEFINE b == best_bid_offer
             bids == LivePrices("B")
             asks == LivePrices("S")
             quoted == bids # {} /\ asks # {} /\ \A p \in bids, q \in asks : p < q
             buying  == SharesOf(AtBest("B"), pool_) % W32
             selling == SharesOf(AtBest("S"), pool_) % W32
             bid == b["B"].price
             ask == b["S"].price
  <2>1. \A s \in Side : SideBBO(s) = BBOOfLive(s)
      BY <1>1, WideLeavesNone DEF BBOIsBest
  <2>2. b["B"] = SideBBO("B") /\ b["S"] = SideBBO("S") /\ "B" \in Side /\ "S" \in Side
      BY DEF best_bid_offer, Side
  <2>3. /\ bids \subseteq Prices \ {0} /\ b["B"].qty = buying
        /\ bids = {} => bid = 0
        /\ bids # {} => bid \in bids /\ \A p \in bids : ~(p > bid)
      BY <1>1, <2>1, <2>2, QuoteOfSide DEF Better
  <2>4. /\ asks \subseteq Prices \ {0} /\ b["S"].qty = selling
        /\ asks = {} => ask = 0
        /\ asks # {} => ask \in asks /\ \A p \in asks : ~(p < ask)
      BY <1>1, <2>1, <2>2, QuoteOfSide DEF Better
  <2>5. order_flow_imbalance(b) = Ratio(buying - selling, buying + selling)
      BY <2>3, <2>4 DEF order_flow_imbalance
  <2>6. \A p \in Prices : p \in Nat /\ p < W32 /\ W32 \in Nat \ {0}
      BY BookAssumption, WidthAssumption
  <2>7. valid(b) <=> bid > 0 /\ ask > 0 /\ bid < ask
      BY DEF valid
  <2>8. mid_price_twice(b) = IF valid(b) THEN (bid + ask) % W32 ELSE 0
      BY DEF mid_price_twice
  <2>9. spread(b) = IF valid(b) THEN (ask - bid) % W32 ELSE 0
      BY DEF spread
  <2>10. ASSUME bids # {}, asks # {} PROVE bid + ask < W32 /\ bid \in Prices \ {0} /\ ask \in Prices \ {0}
      BY <2>3, <2>4, <2>6, <2>10, PriceAssumption
  <2> HIDE DEF b, bids, asks, buying, selling, bid, ask
  <2>11. quoted <=> valid(b)
    <3>1. CASE bids = {} \/ asks = {}
        BY <3>1, <2>3, <2>4, <2>7
    <3>2. CASE bids # {} /\ asks # {}
      <4>1. bid \in Nat /\ ask \in Nat /\ bid # 0 /\ ask # 0
          BY <3>2, <2>6, <2>10
      <4>2. ASSUME bid < ask, NEW p \in bids, NEW q \in asks PROVE p < q
        <5>1. p \in Nat /\ q \in Nat /\ ~(p > bid) /\ ~(q < ask)
            BY <3>2, <2>3, <2>4, <2>6
        <5> QED BY <4>1, <4>2, <5>1
      <4> QED BY <3>2, <4>1, <4>2, <2>3, <2>4, <2>7
    <3> QED BY <3>1, <3>2
  <2>12. ASSUME quoted
         PROVE  /\ \A p \in bids : 2 * p < mid_price_twice(b)
                /\ \A q \in asks : mid_price_twice(b) < 2 * q
                /\ \E p \in bids, q \in asks : spread(b) = q - p
                /\ \A p \in bids, q \in asks : spread(b) <= q - p
    <3>1. /\ bid \in bids /\ ask \in asks /\ bid \in Nat /\ ask \in Nat /\ bid < ask
          /\ bid + ask < W32 /\ W32 \in Nat \ {0}
        BY <2>12, <2>3, <2>4, <2>6, <2>10
    <3>2. mid_price_twice(b) = bid + ask /\ spread(b) = ask - bid
      <4>1. (bid + ask) % W32 = bid + ask
          BY <3>1
      <4>2. (ask - bid) % W32 = ask - bid
          BY <3>1
      <4> QED BY <2>8, <2>9, <2>11, <2>12, <4>1, <4>2
    <3>3. ASSUME NEW p \in bids PROVE p \in Nat /\ p <= bid
      <4>1. p \in Nat /\ ~(p > bid)
          BY <3>1, <2>3, <2>6
      <4> QED BY <3>1, <4>1
    <3>4. ASSUME NEW q \in asks PROVE q \in Nat /\ ask <= q
      <4>1. q \in Nat /\ ~(q < ask)
          BY <3>1, <2>4, <2>6
      <4> QED BY <3>1, <4>1
    <3>5. \A p \in bids : 2 * p < bid + ask
        BY <3>1, <3>3
    <3>6. \A q \in asks : bid + ask < 2 * q
        BY <3>1, <3>4
    <3>7. \A p \in bids, q \in asks : ask - bid <= q - p
        BY <3>1, <3>3, <3>4
    <3> QED BY <3>1, <3>2, <3>5, <3>6, <3>7
  <2>13. ~quoted => mid_price_twice(b) = 0 /\ spread(b) = 0
      BY <2>8, <2>9, <2>11
  <2> QED BY <2>5, <2>12, <2>13
          DEF QuoteFiguresAreOfTheMarket, b, bids, asks, buying, selling
<1>2. AnalyticsSpec => [](IndInv /\ (Conforming => Fed(Here)))
    BY BookRunsAlone, FeedInvariance, PTL
<1>3. AnalyticsSpec => []BBOIsBest
    BY BookRunsAlone, BBOIsTheMarkets, PTL
<1> QED BY <1>1, <1>2, <1>3, PTL


-----------------------------------------------------------------------------
(* The depth figures. *)

(* A loop that adds up levels computes any function that grows by one level at a time. *)
LEMMA SumIs ==
    ASSUME NEW a, NEW F \in [0 .. kLevels -> Nat], F[0] = 0,
           \A k \in Indices : F[k + 1] = F[k] + a[k], NEW n \in 0 .. kLevels
    PROVE  SumUpto(a, n) = F[n]
<1> DEFINE D == 0 .. kLevels
           Rec(g) == g = [k \in D |-> IF k = 0 THEN 0 ELSE g[k - 1] + a[k - 1]]
           sum == CHOOSE g : Rec(g)
<1>1. SumUpto(a, n) = sum[n]
    BY DEF SumUpto
<1>2. kLevels \in Nat /\ Indices = 0 .. kLevels - 1
    BY BookAssumption DEF Indices
<1>3. ASSUME NEW k \in D, k # 0 PROVE k - 1 \in Indices /\ k - 1 \in D /\ F[k] = F[k - 1] + a[k - 1]
  <2>1. k - 1 \in Indices /\ k - 1 \in D /\ (k - 1) + 1 = k
      BY <1>2, <1>3
  <2>2. F[(k - 1) + 1] = F[k - 1] + a[k - 1]
      BY <2>1
  <2> QED BY <2>1, <2>2
<1>4. Rec(F)
  <2>1. \A k \in D : F[k] = IF k = 0 THEN 0 ELSE F[k - 1] + a[k - 1]
      BY <1>3
  <2>2. F = [k \in D |-> F[k]]
      OBVIOUS
  <2> QED BY <2>1, <2>2
<1>5. Rec(sum)
  <2> HIDE DEF Rec
  <2> QED BY <1>4
<1>6. \A k \in D : sum[k] = IF k = 0 THEN 0 ELSE sum[k - 1] + a[k - 1]
  <2> HIDE DEF sum
  <2> QED BY <1>5
<1> HIDE DEF sum, Rec
<1>7. ASSUME NEW j \in D, sum[j] # F[j] PROVE FALSE
  <2> DEFINE Bad == {k \in D : sum[k] # F[k]}
             m == Least(Bad)
  <2>1. Bad \in SUBSET Nat /\ Bad # {}
    <3>1. D \subseteq Nat
        BY <1>2
    <3>2. j \in Bad
        BY <1>7
    <3> QED BY <3>1, <3>2
  <2>2. m \in Bad /\ \A k \in Bad : m <= k
      BY <2>1, LeastIsLeast
  <2>3. m \in D /\ sum[m] # F[m]
      BY <2>2
  <2>4. m # 0
    <3>1. 0 \in D
        BY <1>2
    <3> QED BY <2>3, <3>1, <1>6
  <2>5. m - 1 \in D /\ F[m] = F[m - 1] + a[m - 1]
      BY <2>3, <2>4, <1>3
  <2>6. m - 1 \notin Bad
    <3>1. m \in Nat /\ ~(m <= m - 1)
        BY <2>3, <1>2
    <3> QED BY <2>2, <3>1
  <2>7. sum[m - 1] = F[m - 1]
      BY <2>5, <2>6
  <2>8. sum[m] = sum[m - 1] + a[m - 1]
      BY <2>3, <2>4, <1>6
  <2> QED BY <2>3, <2>5, <2>7, <2>8
<1> QED BY <1>1, <1>7

(* The shares of two disjoint sets of orders add up, and what they are worth. *)
LEMMA SharesJoin ==
    ASSUME NEW S \in SUBSET Slots, NEW T \in SUBSET Slots, S \cap T = {},
           NEW ord \in [Slots -> Order]
    PROVE  /\ SharesOf(S \cup T, ord) = SharesOf(S, ord) + SharesOf(T, ord)
           /\ WorthOf(S \cup T, ord) = WorthOf(S, ord) + WorthOf(T, ord)
           /\ WorthOf(S, ord) \in Nat
<1> DEFINE U == ShareUnits(S, ord)
           V == ShareUnits(T, ord)
           X == WorthUnits(S, ord)
           Y == WorthUnits(T, ord)
<1>1. IsFiniteSet(U) /\ IsFiniteSet(V)
    BY SharesFit
<1>2. U \cap V = {} /\ ShareUnits(S \cup T, ord) = U \cup V
    BY DEF ShareUnits
<1>3. X \cap Y = {} /\ WorthUnits(S \cup T, ord) = X \cup Y
    BY <1>2 DEF WorthUnits
<1>4. IsFiniteSet(X) /\ IsFiniteSet(Y)
  <2>1. IsFiniteSet(1 .. W32)
      BY FS_Interval, WidthAssumption
  <2>2. IsFiniteSet(U \X (1 .. W32)) /\ IsFiniteSet(V \X (1 .. W32))
      BY <1>1, <2>1, FS_Product
  <2>3. X \subseteq U \X (1 .. W32) /\ Y \subseteq V \X (1 .. W32)
      BY DEF WorthUnits
  <2> HIDE DEF U, V, X, Y
  <2> QED BY <2>2, <2>3, FS_Subset
<1> HIDE DEF U, V, X, Y
<1>5. ASSUME NEW P, NEW Q, IsFiniteSet(P), IsFiniteSet(Q), P \cap Q = {}
      PROVE  Cardinality(P \cup Q) = Cardinality(P) + Cardinality(Q)
  <2>1. Cardinality(P \cup Q) = Cardinality(P) + Cardinality(Q) - Cardinality(P \cap Q)
      BY <1>5, FS_Union
  <2>2. Cardinality(P \cap Q) = 0 /\ Cardinality(P) \in Nat /\ Cardinality(Q) \in Nat
      BY <1>5, FS_EmptySet, FS_CardinalityType
  <2> QED BY <2>1, <2>2
<1>6. Cardinality(U \cup V) = Cardinality(U) + Cardinality(V)
    BY <1>1, <1>2, <1>5
<1>7. Cardinality(X \cup Y) = Cardinality(X) + Cardinality(Y)
    BY <1>3, <1>4, <1>5
<1>8. Cardinality(X) \in Nat
    BY <1>4, FS_CardinalityType
<1> QED BY <1>2, <1>3, <1>6, <1>7, <1>8 DEF SharesOf, WorthOf, U, V, X, Y

(* Orders of one price are worth that price for every share. *)
LEMMA WorthAtPrice ==
    ASSUME NEW S \in SUBSET Slots, NEW ord \in [Slots -> Order], NEW p \in 0 .. W32 - 1,
           \A o \in S : ord[o].price = p
    PROVE  WorthOf(S, ord) = p * SharesOf(S, ord)
<1> DEFINE U == ShareUnits(S, ord)
           P == 1 .. p
<1>1. IsFiniteSet(U) /\ Cardinality(U) \in Nat
    BY SharesFit, FS_CardinalityType
<1>2. IsFiniteSet(P) /\ Cardinality(P) = p /\ p \in Nat
    BY FS_Interval, WidthAssumption
<1>3. WorthUnits(S, ord) = U \X P
  <2>1. \A u \in U : u[1] \in S /\ ord[u[1]].price = p
      BY DEF ShareUnits
  <2>2. P = {k \in 1 .. W32 : k <= p}
      BY WidthAssumption
  <2> HIDE DEF U, P
  <2> QED BY <2>1, <2>2 DEF WorthUnits, U
<1> HIDE DEF U, P
<1>4. Cardinality(U \X P) = Cardinality(U) * Cardinality(P)
    BY <1>1, <1>2, FS_Product
<1>5. Cardinality(U \X P) = p * Cardinality(U)
    BY <1>1, <1>2, <1>4
<1> QED BY <1>3, <1>5 DEF WorthOf, SharesOf, U

(* Nothing is nearer than the reference; one level more is one tick more; and *)
(* the levels hold everything.                                                *)
LEMMA WithinGrows ==
    ASSUME Conforming, WideWindow, IndInv, Fed(Here), NEW s \in Side
    PROVE  /\ LiveOf(s) \subseteq Slots
           /\ Within(s, 0) = {}
           /\ \A k \in Indices : /\ Within(s, k + 1) = Within(s, k) \cup At(book[s], k)
                                 /\ Within(s, k) \cap At(book[s], k) = {}
           /\ Within(s, kLevels) = LiveOf(s) /\ Within(s, kLevels + 1) = LiveOf(s)
<1> DEFINE ticks(o) == TicksWorse(s, book[s].ref, pool_[o].price)
<1>0. LeftOut(s) = {} /\ StateOK(Here)
    BY WideLeavesNone DEF IndInv
<1>1. ASSUME NEW o \in LiveOf(s)
      PROVE  /\ o \in Slots /\ ticks(o) \in Indices /\ pool_[o].level_idx = ticks(o)
             /\ o \in At(book[s], ticks(o))
  <2>1. PICK r \in live : o = order_map_[r] /\ pool_[order_map_[r]].side = s
      BY DEF LiveOf
  <2>2. o \in Slots
    <3>1. r \in Refs /\ Here.map[r] # nullptr
        BY HereFields DEF live
    <3>2. Here.map \in [Refs -> Slots \cup {nullptr}]
        BY <1>0, StateFacts
    <3> QED BY <2>1, <3>1, <3>2, HereFields
  <2> QED BY <1>0, <2>1, <2>2, OnSide
<1>2. ASSUME NEW k \in Indices, NEW o \in At(book[s], k)
      PROVE  o \in LiveOf(s) /\ ticks(o) = k
  <2>1. PICK r \in live : /\ order_map_[r] = o /\ pool_[order_map_[r]].side = s
                          /\ pool_[order_map_[r]].level_idx = k
      BY <1>2, LinkedLive
  <2>2. o \in LiveOf(s)
      BY <2>1 DEF LiveOf
  <2> QED BY <1>1, <2>1, <2>2
<1>3. \A n : Within(s, n) = {o \in LiveOf(s) : ticks(o) < n}
    BY DEF Within
<1> HIDE DEF ticks
<1>4. kLevels \in Nat /\ Indices = 0 .. kLevels - 1
    BY BookAssumption DEF Indices
<1>5. Within(s, 0) = {}
    BY <1>1, <1>3, <1>4
<1>6. ASSUME NEW k \in Indices
      PROVE  /\ Within(s, k + 1) = Within(s, k) \cup At(book[s], k)
             /\ Within(s, k) \cap At(book[s], k) = {}
  <2>1. \A o \in LiveOf(s) : ticks(o) < k + 1 <=> (ticks(o) < k \/ ticks(o) = k)
      BY <1>1, <1>4
  <2>2. \A o \in LiveOf(s) : ticks(o) = k <=> o \in At(book[s], k)
      BY <1>1, <1>2
  <2>3. At(book[s], k) \subseteq LiveOf(s)
      BY <1>2
  <2>4. \A o \in LiveOf(s) : ~(ticks(o) < k /\ ticks(o) = k)
      BY <1>1, <1>4
  <2> QED BY <1>3, <2>1, <2>2, <2>3, <2>4
<1>7. Within(s, kLevels) = LiveOf(s) /\ Within(s, kLevels + 1) = LiveOf(s)
  <2>1. \A o \in LiveOf(s) : ticks(o) < kLevels /\ ticks(o) < kLevels + 1
      BY <1>1, <1>4
  <2> QED BY <1>3, <2>1
<1>8. LiveOf(s) \subseteq Slots
    BY <1>1
<1> QED BY <1>5, <1>6, <1>7, <1>8

(* What a level counts: the shares of its orders, at the price of its index. *)
LEMMA LevelCounts ==
    ASSUME Conforming, WideWindow, IndInv, Fed(Here), Accounts(Here), NEW s \in Side,
           NEW i \in Indices
    PROVE  LET lvl == book[s].levels[i]
               sum == SharesOf(At(book[s], i), pool_)
           IN  /\ lvl.total_qty = sum
               /\ level_empty(lvl) => sum = 0
               /\ PriceFromIdx(s, book[s].ref, i) * sum = WorthOf(At(book[s], i), pool_)
               /\ At(book[s], i) \in SUBSET Slots
<1> DEFINE lvl == book[s].levels[i]
           sum == SharesOf(At(book[s], i), pool_)
           p   == PriceFromIdx(s, book[s].ref, i)
<1>0. LeftOut(s) = {} /\ StateOK(Here)
    BY WideLeavesNone DEF IndInv
<1>1. lvl.total_qty = sum
    BY HereFields DEF Accounts, LevelSum, Exact, At
<1>2. LevelOK(lvl, Slots) /\ At(book[s], i) \in SUBSET Slots
    BY <1>0, StateFacts, HereFields
<1>3. level_empty(lvl) => sum = 0
    BY <1>2, LevelEmpty, SharesNone DEF At
<1>4. book[s].ref \in 0 .. W32 - 1
  <2>1. Here.bk \in [Side -> SideType]
      BY <1>0, StateFacts
  <2>2. book[s].ref \in Prices \cup {0}
      BY <2>1, HereFields DEF SideType
  <2> QED BY <2>2, PriceRange
<1>5. p \in 0 .. W32 - 1
  <2>1. i \in Nat
      BY IndicesNat
  <2>2. (IF s = "B" THEN book[s].ref - i ELSE book[s].ref + i) \in Int
      BY <1>4, <2>1
  <2> QED BY <2>2, WidthAssumption DEF PriceFromIdx
<1>6. ASSUME NEW o \in At(book[s], i) PROVE pool_[o].price = p
  <2>1. PICK r \in live : /\ order_map_[r] = o /\ pool_[order_map_[r]].side = s
                          /\ pool_[order_map_[r]].level_idx = i
      BY <1>6, LinkedLive
  <2>2. i = TicksWorse(s, book[s].ref, pool_[o].price) /\ pool_[o].price \in 0 .. W32 - 1
      BY <1>0, <2>1, OnSide
  <2>3. i \in Nat
      BY IndicesNat
  <2> QED BY <1>4, <2>2, <2>3, PriceOfIndex
<1>7. pool_ \in [Slots -> Order]
    BY <1>0, StateFacts, HereFields
<1> HIDE DEF p
<1>8. p * sum = WorthOf(At(book[s], i), pool_)
    BY <1>2, <1>5, <1>6, <1>7, WorthAtPrice
<1> QED BY <1>1, <1>2, <1>3, <1>8 DEF p

(***************************************************************************)
(* For every window, price set and conforming feed: visible_qty and vwap   *)
(* over n levels count exactly the live orders less than n ticks from the  *)
(* reference price, wherever the best price has gone since, and all levels *)
(* together count every live order of the side.                            *)
(***************************************************************************)
THEOREM DepthOfTheMarket == AnalyticsSpec => []DepthFiguresAreOfTheMarket
<1>1. ASSUME IndInv, Conforming => Fed(Here), Accounts(Here) PROVE DepthFiguresAreOfTheMarket
  <2> SUFFICES ASSUME Conforming, WideWindow, NEW s \in Side
               PROVE  /\ Within(s, kLevels) = LiveOf(s)
                      /\ \A n \in 0 .. kLevels + 1 :
                            /\ visible_qty(s, n) = SharesOf(Within(s, n), pool_)
                            /\ vwap(s, n) = Ratio(WorthOf(Within(s, n), pool_),
                                               SharesOf(Within(s, n), pool_))
      BY DEF DepthFiguresAreOfTheMarket
  <2>0. Fed(Here)
      BY <1>1
  <2>1. /\ LiveOf(s) \subseteq Slots
        /\ Within(s, 0) = {}
        /\ \A k \in Indices : /\ Within(s, k + 1) = Within(s, k) \cup At(book[s], k)
                              /\ Within(s, k) \cap At(book[s], k) = {}
        /\ Within(s, kLevels) = LiveOf(s) /\ Within(s, kLevels + 1) = LiveOf(s)
      BY <1>1, <2>0, WithinGrows
  <2>2. \A n : Within(s, n) \in SUBSET Slots
      BY <2>1 DEF Within
  <2>3. pool_ \in [Slots -> Order]
      BY <1>1, StateFacts, HereFields DEF IndInv
  <2>4. kLevels \in Nat /\ Indices = 0 .. kLevels - 1
      BY BookAssumption DEF Indices
  <2> DEFINE D == 0 .. kLevels
             shares == [k \in D |-> SharesOf(Within(s, k), pool_)]
             worth  == [k \in D |-> WorthOf(Within(s, k), pool_)]
             qty    == [i \in Indices |-> IF level_empty(book[s].levels[i]) THEN 0
                                          ELSE book[s].levels[i].total_qty]
             total  == [i \in Indices |-> book[s].levels[i].total_qty]
             value  == [i \in Indices |-> PriceFromIdx(s, book[s].ref, i) * qty[i]]
  <2>5. \A k \in D : /\ SharesOf(Within(s, k), pool_) \in 0 .. W64 - 1
                     /\ WorthOf(Within(s, k), pool_) \in Nat
    <3>1. ASSUME NEW k \in D PROVE WorthOf(Within(s, k), pool_) \in Nat
      <4>1. {} \in SUBSET Slots /\ Within(s, k) \cap {} = {}
          OBVIOUS
      <4> QED BY <2>2, <2>3, <4>1, SharesJoin
    <3> QED BY <2>2, <2>3, <3>1, SharesFit
  <2>6. shares \in [D -> Nat] /\ worth \in [D -> Nat]
      BY <2>5, WidthAssumption
  <2>7. shares[0] = 0 /\ worth[0] = 0
    <3>1. 0 \in D
        BY <2>4
    <3>2. SharesOf({}, pool_) = 0
        BY SharesNone
    <3>3. WorthOf({}, pool_) = 0
      <4>1. WorthUnits({}, pool_) = {}
          BY DEF WorthUnits, ShareUnits
      <4> QED BY <4>1, FS_EmptySet DEF WorthOf
    <3> QED BY <2>1, <3>1, <3>2, <3>3
  <2>8. ASSUME NEW k \in Indices
        PROVE  /\ shares[k + 1] = shares[k] + total[k]
               /\ shares[k + 1] = shares[k] + qty[k]
               /\ worth[k + 1] = worth[k] + value[k]
    <3>1. k \in D /\ k + 1 \in D
        BY <2>4
    <3>2. LET lvl == book[s].levels[k]
              sum == SharesOf(At(book[s], k), pool_)
          IN  /\ lvl.total_qty = sum
              /\ level_empty(lvl) => sum = 0
              /\ PriceFromIdx(s, book[s].ref, k) * sum = WorthOf(At(book[s], k), pool_)
              /\ At(book[s], k) \in SUBSET Slots
        BY <1>1, <2>0, LevelCounts
    <3>3. total[k] = SharesOf(At(book[s], k), pool_) /\ qty[k] = total[k]
        BY <3>2
    <3>4. value[k] = WorthOf(At(book[s], k), pool_)
        BY <3>2, <3>3
    <3>5. /\ SharesOf(Within(s, k + 1), pool_)
                = SharesOf(Within(s, k), pool_) + SharesOf(At(book[s], k), pool_)
          /\ WorthOf(Within(s, k + 1), pool_)
                = WorthOf(Within(s, k), pool_) + WorthOf(At(book[s], k), pool_)
        BY <2>1, <2>2, <2>3, <3>2, SharesJoin
    <3> HIDE DEF total, qty, value
    <3> QED BY <3>1, <3>3, <3>4, <3>5
  <2> HIDE DEF shares, worth, qty, total, value
  <2>9. ASSUME NEW n \in D
        PROVE  SumUpto(total, n) = shares[n] /\ SumUpto(qty, n) = shares[n] /\ SumUpto(value, n) = worth[n]
    <3>1. \A k \in Indices : shares[k + 1] = shares[k] + total[k]
        BY <2>8
    <3>2. \A k \in Indices : shares[k + 1] = shares[k] + qty[k]
        BY <2>8
    <3>3. \A k \in Indices : worth[k + 1] = worth[k] + value[k]
        BY <2>8
    <3>4. SumUpto(total, n) = shares[n]
        BY <2>6, <2>7, <3>1, SumIs
    <3>5. SumUpto(qty, n) = shares[n]
        BY <2>6, <2>7, <3>2, SumIs
    <3>6. SumUpto(value, n) = worth[n]
        BY <2>6, <2>7, <3>3, SumIs
    <3> QED BY <3>4, <3>5, <3>6
  <2>10. ASSUME NEW n \in 0 .. kLevels + 1
         PROVE  /\ visible_qty(s, n) = SharesOf(Within(s, n), pool_)
                /\ vwap(s, n) = Ratio(WorthOf(Within(s, n), pool_), SharesOf(Within(s, n), pool_))
    <3> DEFINE m == Loops(n)
    <3>1. m \in D /\ (m = n \/ (m = kLevels /\ n = kLevels + 1))
        BY <2>4 DEF Loops
    <3>2. Within(s, m) = Within(s, n)
        BY <2>1, <3>1
    <3>3. shares[m] = SharesOf(Within(s, n), pool_) /\ worth[m] = WorthOf(Within(s, n), pool_)
        BY <3>1, <3>2 DEF shares, worth
    <3>4. visible_qty(s, n) = SumUpto(total, m) % W64
        BY DEF visible_qty, total
    <3>5. vwap(s, n) = Ratio(SumUpto(value, m), SumUpto(qty, m))
        BY DEF vwap, value, qty
    <3>6. shares[m] \in 0 .. W64 - 1
        BY <2>5, <3>1 DEF shares
    <3> HIDE DEF m
    <3>7. shares[m] % W64 = shares[m]
        BY <3>6, WidthAssumption
    <3> QED BY <2>9, <3>1, <3>3, <3>4, <3>5, <3>7
  <2> QED BY <2>1, <2>10
<1>2. AnalyticsSpec => [](IndInv /\ (Conforming => Fed(Here)))
    BY BookRunsAlone, FeedInvariance, PTL
<1>3. AnalyticsSpec => []Accounts(Here)
    BY BookRunsAlone, AccountsInvariance, PTL
<1> QED BY <1>1, <1>2, <1>3, PTL
=============================================================================

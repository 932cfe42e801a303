------------------------------- MODULE OrderBook -------------------------------
(***************************************************************************)
(* The single-symbol limit order book of src/book/order_book.cpp.          *)
(*                                                                         *)
(* Bids and asks are stored in two arrays of kLevels price levels; index i *)
(* of a side is the price i ticks worse than the side's reference price    *)
(* (bid_ref_ - i, ask_ref_ + i).  An order whose price falls outside the   *)
(* window makes its side re-centre on that price.  The two sides are the   *)
(* same code with bid/ask exchanged, so every operator here takes the      *)
(* side, or the record of a side's state, as an argument.                  *)
(*                                                                         *)
(* Each message handler is one action: the book belongs to one thread, and *)
(* every handler runs to its end before the next message is taken.         *)
(***************************************************************************)
EXTENDS PriceLevel, FiniteSets

CONSTANTS
    Refs,         \* order reference numbers the feed uses
    Prices,       \* raw fixed-point prices (uint32_t)
    Quantities,   \* share counts that messages carry
    Slots,        \* the Order objects of the pool (OrderPool::pool_)
    kLevels,      \* price levels per side
    nullptr,
    NDEBUG,       \* TRUE: asserts are compiled out (CMake's Release build)
    Conforming    \* TRUE: the feed obeys the ITCH rules (see FreshRef below)

ASSUME BookAssumption ==
    /\ Prices \subseteq 0 .. W32 - 1
    /\ Quantities \subseteq 0 .. W32 - 1
    /\ kLevels \in Nat \ {0} /\ 2 * kLevels <= W32
    /\ IsFiniteSet(Slots)
    /\ nullptr \notin Slots
    /\ NDEBUG \in BOOLEAN
    /\ Conforming \in BOOLEAN

(***************************************************************************)
(* Prices are below 2^31, so that a price cast to int keeps its value: an  *)
(* ITCH price has four decimals and is at most $200,000.  Above, bid_idx   *)
(* and ask_idx may overflow a signed int, which C++ leaves undefined.      *)
(***************************************************************************)
ASSUME PriceAssumption == \A p \in Prices : 2 * p < W32

(***************************************************************************)
(* Counters fit: a level never holds more orders than the pool has, nor    *)
(* more shares than the pool's orders can carry (2^20 orders of 32 bits).  *)
(***************************************************************************)
ASSUME WidthsFit ==
    /\ Cardinality(Slots) < W32
    /\ Cardinality(Slots) * W32 <= W64

VARIABLES
    is_open_,     \* session flag
    order_map_,   \* reference -> Order*, nullptr where the map has no entry
    pool_,        \* contents of every Order object
    free_list,    \* the Orders reachable from free_head_
    book,         \* per side: reference price, best index, price levels
    fault         \* "none", or why the process has stopped

vars == <<is_open_, order_map_, pool_, free_list, book, fault>>

Side    == {"B", "S"}
Indices == 0 .. kLevels - 1

(* What OrderPool's constructor and free() leave in an Order. *)
BlankOrder == [shares |-> 0, price |-> 0, side |-> "none", level_idx |-> -1]

Order == [shares : 0 .. W32 - 1, price : Prices \cup {0},
          side : Side \cup {"none"}, level_idx : Indices \cup {-1}]

(* A null pointer is no order. *)
ASSUME NullAssumption ==
    nullptr \notin [side : Side, price : Prices \cup {0}, shares : 0 .. W32 - 1]

EmptySide == [ref |-> 0, best |-> -1, levels |-> [i \in Indices |-> EmptyLevel]]

Init ==
    /\ is_open_ = FALSE
    /\ order_map_ = [r \in Refs |-> nullptr]
    /\ pool_ = [o \in Slots |-> BlankOrder]
    /\ free_list = Slots
    /\ book = [s \in Side |-> EmptySide]
    /\ fault = "none"

-----------------------------------------------------------------------------
(***************************************************************************)
(* Helpers of the book.  They take the state they read as arguments, so    *)
(* that a handler that calls several of them threads the state through.    *)
(***************************************************************************)

(***************************************************************************)
(* bid_idx and ask_idx cast both prices to int and subtract the ints; by   *)
(* PriceAssumption the casts keep the values and the difference is an int. *)
(* Their inverses price_from_*_idx work on uint32_t, modulo 2^32.          *)
(***************************************************************************)
Int32(x) == IF 2 * x < W32 THEN x ELSE x - W32

PriceIdx(s, ref, price) ==
    IF s = "B" THEN Int32(ref) - Int32(price) ELSE Int32(price) - Int32(ref)

PriceFromIdx(s, ref, i) == (IF s = "B" THEN ref - i ELSE ref + i) % W32

(* The Orders order_map_ points to. *)
Mapped(map) == {map[r] : r \in Refs} \ {nullptr}

Least(S) == CHOOSE i \in S : \A j \in S : i <= j

LeastOrNone(S) == IF S = {} THEN -1 ELSE Least(S)

(***************************************************************************)
(* The number of shares the orders of S hold, counted one by one: the      *)
(* cardinality of the set of pairs <<order, k-th share of it>>.            *)
(***************************************************************************)
ShareUnits(S, ord) == {u \in S \X (1 .. W32) : u[2] <= ord[u[1]].shares}
SharesOf(S, ord) == Cardinality(ShareUnits(S, ord))

(* Mutant: forgets that an order below the cached best may improve it. *)
insert_at_stale_best(sd, o, shares, idx) ==
    [sd EXCEPT !.levels[idx] = level_add_order(@, o, shares),
               !.best = IF @ < 0 THEN idx ELSE @]

insert_at(sd, o, shares, idx) ==
    [sd EXCEPT !.levels[idx] = level_add_order(@, o, shares),
               !.best = IF @ < 0 \/ idx < @ THEN idx ELSE @]

(* Mutant: the scan of an empty side ends one past the last level. *)
advance_best_past_end(sd) ==
    LET after == {i \in Indices : i > sd.best /\ ~level_empty(sd.levels[i])}
    IN  [sd EXCEPT !.best = IF after = {} THEN kLevels ELSE Least(after)]

(* The scan of advance_best_bid / advance_best_ask, from the index after best. *)
advance_best(sd) ==
    [sd EXCEPT !.best =
        LeastOrNone({i \in Indices : i > sd.best /\ ~level_empty(sd.levels[i])})]

(* Mutant: never advances the best index when its level empties. *)
remove_order_keeps_best(sd, ord, o) ==
    LET idx == ord[o].level_idx
    IN  [sd EXCEPT !.levels[idx] = level_remove_order(@, o, ord[o].shares)]

remove_order(sd, ord, o) ==
    LET idx == ord[o].level_idx
        cut == [sd EXCEPT !.levels[idx] = level_remove_order(@, o, ord[o].shares)]
    IN  IF idx = cut.best /\ level_empty(cut.levels[idx]) THEN advance_best(cut) ELSE cut

(* Mutant: the order loses shares and its level does not. *)
reduce_level_not(sd, idx, qty) == sd

reduce_level(sd, idx, qty) ==
    [sd EXCEPT !.levels[idx] = level_reduce_shares(@, qty)]

(***************************************************************************)
(* recentre_bids / recentre_asks: clear the levels of side s, move its     *)
(* reference to new_ref and re-insert the side's mapped orders, marking    *)
(* those out of the new window with level_idx = -1.  The map is unordered: *)
(* the orders of one level come back in any order, so there is a set of    *)
(* possible results, one per choice of a queue for each level.             *)
(***************************************************************************)
(* Mutant: an order out of the new window keeps its old index. *)
Reindexed_in_window(s, new_ref, ord, mapped) ==
    [o \in Slots |->
        LET idx == PriceIdx(s, new_ref, ord[o].price)
        IN  IF o \in mapped /\ ord[o].side = s /\ idx \in Indices
            THEN [ord[o] EXCEPT !.level_idx = idx] ELSE ord[o]]

Reindexed(s, new_ref, ord, mapped) ==
    [o \in Slots |->
        IF o \in mapped /\ ord[o].side = s
        THEN LET idx == PriceIdx(s, new_ref, ord[o].price)
             IN  [ord[o] EXCEPT !.level_idx = IF idx \in Indices THEN idx ELSE -1]
        ELSE ord[o]]

OrdersAt(s, ord, mapped, i) == {o \in mapped : ord[o].side = s /\ ord[o].level_idx = i}

(* Every way to line up the elements of S. *)
Queues(S) == {q \in [1 .. Cardinality(S) -> S] : IsInjective(q) /\ Range(q) = S}

RebuiltLevel(queue, members, ord) ==
    [total_qty |-> SharesOf(members, ord), order_count |-> Cardinality(members), fifo |-> queue]

(* The possible states of side s, for orders already re-indexed. *)
recentre(s, new_ref, ord, mapped) ==
    LET At(i) == OrdersAt(s, ord, mapped, i)
        used  == {i \in Indices : At(i) # {}}
    IN  {[ref    |-> new_ref,
          best   |-> LeastOrNone(used),
          levels |-> [i \in Indices |-> IF i \in used THEN RebuiltLevel(queue[i], At(i), ord)
                                                      ELSE EmptyLevel]] :
            queue \in {q \in [used -> UNION {Queues(At(i)) : i \in used}] :
                            \A i \in used : q[i] \in Queues(At(i))}}

-----------------------------------------------------------------------------
(***************************************************************************)
(* The state a handler works on, as a record, and the parts handlers are   *)
(* made of: each takes the state before and gives the state after.         *)
(***************************************************************************)
Here == [map |-> order_map_, ord |-> pool_, free |-> free_list, bk |-> book]

Becomes(st) ==
    /\ order_map_' = st.map
    /\ pool_' = st.ord
    /\ free_list' = st.free
    /\ book' = st.bk
    /\ UNCHANGED fault

(* An assertion fails, or the next access is outside the arrays: nothing follows. *)
Abort(reason) ==
    /\ fault' = reason
    /\ UNCHANGED <<is_open_, order_map_, pool_, free_list, book>>

(* insert_order for an allocated o of side s that the map does not hold yet. *)
insert_order(st, s, o) ==
    LET sd     == st.bk[s]
        price  == st.ord[o].price
        shares == st.ord[o].shares
        ref    == IF sd.ref = 0 THEN price ELSE sd.ref
        idx    == PriceIdx(s, ref, price)
        mapped == Mapped(st.map)
        moved  == Reindexed(s, price, st.ord, mapped)
    IN  IF idx \in Indices
        THEN {[st EXCEPT !.ord = [st.ord EXCEPT ![o].level_idx = idx],
                         !.bk  = [st.bk EXCEPT ![s] =
                                     insert_at([sd EXCEPT !.ref = ref], o, shares, idx)]]}
        ELSE {[st EXCEPT !.ord = [moved EXCEPT ![o].level_idx = 0],
                         !.bk  = [st.bk EXCEPT ![s] = insert_at(new, o, shares, 0)]] :
                 new \in recentre(s, price, moved, mapped)}

(* OrderPool::alloc and make_order: any free slot, filled with the message's fields. *)
make_order(st, o, shares, price, s) ==
    [st EXCEPT !.free = @ \ {o},
               !.ord  = [st.ord EXCEPT ![o] = [shares |-> shares, price |-> price,
                                               side |-> s, level_idx |-> -1]]]

(* make_order, insert_order, and only then order_map_[ref] = o. *)
place_order(st, r, s, shares, price) ==
    UNION {{[new EXCEPT !.map = [st.map EXCEPT ![r] = o]] :
                new \in insert_order(make_order(st, o, shares, price, s), s, o)} :
              o \in st.free}

(* Mutant: the Order is not given back to the pool. *)
withdraw_order_leaks(st, r) ==
    LET o == st.map[r]
    IN  [st EXCEPT !.map = [st.map EXCEPT ![r] = nullptr],
                   !.bk  = [st.bk EXCEPT ![st.ord[o].side] = remove_order(@, st.ord, o)]]

(* Mutant: the reference stays in order_map_. *)
withdraw_order_dangles(st, r) ==
    LET o == st.map[r]
    IN  [st EXCEPT !.ord  = [st.ord EXCEPT ![o] = BlankOrder],
                   !.free = @ \cup {o},
                   !.bk   = [st.bk EXCEPT ![st.ord[o].side] = remove_order(@, st.ord, o)]]

(* remove_order, order_map_.erase and OrderPool::free of the order mapped at r. *)
withdraw_order(st, r) ==
    LET o == st.map[r]
    IN  [map  |-> [st.map EXCEPT ![r] = nullptr],
         ord  |-> [st.ord EXCEPT ![o] = BlankOrder],
         free |-> st.free \cup {o},
         bk   |-> [st.bk EXCEPT ![st.ord[o].side] = remove_order(@, st.ord, o)]]

(* reduce_shares: the order and its level lose qty shares. *)
reduce_shares(st, r, qty) ==
    LET o == st.map[r]
        s == st.ord[o].side
    IN  [st EXCEPT !.ord = [st.ord EXCEPT ![o].shares = SubW(@, qty, W32)],
                   !.bk  = [st.bk EXCEPT ![s] = reduce_level(@, st.ord[o].level_idx, qty)]]

LevelOf(st, o) == st.bk[st.ord[o].side].levels[st.ord[o].level_idx]

remove_fault(st, r) ==
    LET o == st.map[r]
    IN  IF st.ord[o].level_idx < 0 THEN "level_idx"
        ELSE IF ~NDEBUG /\ ~level_remove_asserts(LevelOf(st, o), st.ord[o].shares) THEN "quantity"
        ELSE "none"

reduce_fault(st, r, qty) ==
    LET o == st.map[r]
    IN  IF st.ord[o].level_idx < 0 THEN "level_idx"
        ELSE IF ~NDEBUG /\ ~level_reduce_asserts(LevelOf(st, o), st.ord[o].shares, qty)
             THEN "quantity"
        ELSE IF reduce_shares(st, r, qty).ord[o].shares = 0
             THEN remove_fault(reduce_shares(st, r, qty), r)
        ELSE "none"

-----------------------------------------------------------------------------
(* The message handlers. *)

(* Mutant: a halt that clears the levels and the map but not the best indices. *)
HaltKeepsBest ==
    /\ is_open_' = FALSE
    /\ order_map_' = [r \in Refs |-> nullptr]
    /\ pool_' = [o \in Slots |-> BlankOrder]
    /\ free_list' = Slots
    /\ book' = [s \in Side |-> [EmptySide EXCEPT !.ref = book[s].ref, !.best = book[s].best]]
    /\ UNCHANGED fault

(* Event 'H': every order leaves, the pool is rebuilt; the reference prices stay. *)
Halt ==
    /\ is_open_' = FALSE
    /\ order_map_' = [r \in Refs |-> nullptr]
    /\ pool_' = [o \in Slots |-> BlankOrder]
    /\ free_list' = Slots
    /\ book' = [s \in Side |-> [EmptySide EXCEPT !.ref = book[s].ref]]
    /\ UNCHANGED fault

(* Every other event code ('Q' and 'R' among them) falls to the default branch. *)
OnSystemEvent(code) ==
    /\ fault = "none"
    /\ \/ code = "O" /\ is_open_' = TRUE /\ Becomes(Here)
       \/ code = "C" /\ is_open_' = FALSE /\ Becomes(Here)
       \/ code = "H" /\ Halt
       \/ code \notin {"O", "C", "H"} /\ UNCHANGED vars

(* Mutant: adds are accepted whatever the session. *)
OnAddAnyTime(r, s, shares, price) ==
    /\ fault = "none"
    /\ \E st \in place_order(Here, r, s, shares, price) : Becomes(st)
    /\ UNCHANGED is_open_

OnAdd(r, s, shares, price) ==
    /\ fault = "none"
    /\ \/ ~is_open_ /\ UNCHANGED vars
       \/ is_open_ /\ free_list = {} /\ Abort("pool")
       \/ /\ is_open_
          /\ \E st \in place_order(Here, r, s, shares, price) : Becomes(st)
          /\ UNCHANGED is_open_

(* The MPID form runs the same statements; the attribution is dropped. *)
OnAddMPID(r, s, shares, price) == OnAdd(r, s, shares, price)

(* Mutant: an order filled to zero is left in its level. *)
TakeSharesNoRemove(r, qty) ==
    /\ fault = "none"
    /\ \/ order_map_[r] = nullptr /\ UNCHANGED vars
       \/ /\ order_map_[r] # nullptr /\ reduce_fault(Here, r, qty) = "none"
          /\ Becomes(reduce_shares(Here, r, qty))
          /\ UNCHANGED is_open_

(***************************************************************************)
(* The body that on_execute (both forms) and on_cancel share: reduce the   *)
(* order and its level, and take the order out when it reaches zero.       *)
(***************************************************************************)
TakeShares(r, qty) ==
    /\ fault = "none"
    /\ \/ order_map_[r] = nullptr /\ UNCHANGED vars
       \/ /\ order_map_[r] # nullptr
          /\ reduce_fault(Here, r, qty) # "none"
          /\ Abort(reduce_fault(Here, r, qty))
       \/ /\ order_map_[r] # nullptr
          /\ reduce_fault(Here, r, qty) = "none"
          /\ LET left == reduce_shares(Here, r, qty)
             IN  Becomes(IF left.ord[order_map_[r]].shares = 0
                         THEN withdraw_order(left, r) ELSE left)
          /\ UNCHANGED is_open_

OnExecute(r, qty) == TakeShares(r, qty)
OnExecuteWithPrice(r, qty) == TakeShares(r, qty)
OnCancel(r, qty) == TakeShares(r, qty)

OnDelete(r) ==
    /\ fault = "none"
    /\ \/ order_map_[r] = nullptr /\ UNCHANGED vars
       \/ /\ order_map_[r] # nullptr
          /\ remove_fault(Here, r) # "none"
          /\ Abort(remove_fault(Here, r))
       \/ /\ order_map_[r] # nullptr
          /\ remove_fault(Here, r) = "none"
          /\ Becomes(withdraw_order(Here, r))
          /\ UNCHANGED is_open_

(* Not gated on is_open_; the side comes from the order it replaces. *)
OnReplace(old, new, shares, price) ==
    /\ fault = "none"
    /\ \/ order_map_[old] = nullptr /\ UNCHANGED vars
       \/ /\ order_map_[old] # nullptr
          /\ remove_fault(Here, old) # "none"
          /\ Abort(remove_fault(Here, old))
       \/ /\ order_map_[old] # nullptr
          /\ remove_fault(Here, old) = "none"
          /\ \E st \in place_order(withdraw_order(Here, old), new,
                                   pool_[order_map_[old]].side, shares, price) : Becomes(st)
          /\ UNCHANGED is_open_

-----------------------------------------------------------------------------
(***************************************************************************)
(* The feed.  A conforming feed gives a new order a reference that is not  *)
(* live, a price and a quantity above zero, and never takes more shares    *)
(* from an order than it has left.  Any other feed may send anything.      *)
(***************************************************************************)
FreshRef(r) == Conforming => order_map_[r] = nullptr
Sound(shares, price) == Conforming => shares > 0 /\ price > 0
Covered(r, qty) ==
    Conforming /\ order_map_[r] # nullptr => qty <= pool_[order_map_[r]].shares

Next ==
    \/ \E code \in {"O", "C", "H", "Q", "R"} : OnSystemEvent(code)
    \/ \E r \in Refs, s \in Side, q \in Quantities, p \in Prices :
          /\ FreshRef(r) /\ Sound(q, p)
          /\ (OnAdd(r, s, q, p) \/ OnAddMPID(r, s, q, p))
    \/ \E r \in Refs, q \in Quantities :
          /\ Covered(r, q)
          /\ (OnExecute(r, q) \/ OnExecuteWithPrice(r, q) \/ OnCancel(r, q))
    \/ \E r \in Refs : OnDelete(r)
    \/ \E old, new \in Refs, q \in Quantities, p \in Prices :
          FreshRef(new) /\ Sound(q, p) /\ OnReplace(old, new, q, p)

Spec == Init /\ [][Next]_vars

-----------------------------------------------------------------------------
(* What the book reports. *)

live == {r \in Refs : order_map_[r] # nullptr}

(* best_bid_offer, one side of it; the quantity is cast to uint32_t. *)
SideBBO(s) ==
    LET sd == book[s]
    IN  IF sd.best < 0 THEN [price |-> 0, qty |-> 0]
        ELSE [price |-> PriceFromIdx(s, sd.ref, sd.best),
              qty   |-> sd.levels[sd.best].total_qty % W32]

best_bid_offer == [s \in Side |-> SideBBO(s)]

Linked(s, i) == Range(book[s].levels[i].fifo)

-----------------------------------------------------------------------------
(***************************************************************************)
(* Properties.                                                             *)
(***************************************************************************)

(* Every variable keeps its C++ type; indices stay inside the arrays.      *)
TypeOK ==
    /\ is_open_ \in BOOLEAN
    /\ order_map_ \in [Refs -> Slots \cup {nullptr}]
    /\ pool_ \in [Slots -> Order]
    /\ free_list \subseteq Slots
    /\ book \in [Side -> [ref : Prices \cup {0}, best : Indices \cup {-1},
                          levels : [Indices -> Level(Slots)]]]
    /\ fault \in {"none", "pool", "level_idx", "quantity"}

(***************************************************************************)
(* The cached best_bid_idx_ / best_ask_idx_ is always the first level that *)
(* has an order, or -1: it is maintained incrementally by insert_at,       *)
(* remove_order and advance_best_*, across recentres and halts.            *)
(***************************************************************************)
BestIsFirst ==
    \A s \in Side :
        book[s].best = LeastOrNone({i \in Indices : book[s].levels[i].fifo # <<>>})

(***************************************************************************)
(* No dangling pointers.  Two references never share an Order; an Order on *)
(* the free list is neither in order_map_ nor linked in any level; a       *)
(* linked Order's cached side and level_idx name the one level it is in,   *)
(* once; and a mapped Order with a level_idx is linked in that level.      *)
(***************************************************************************)
MapSound ==
    /\ \A q, r \in live : order_map_[q] = order_map_[r] => q = r
    /\ \A r \in live : order_map_[r] \notin free_list /\ pool_[order_map_[r]].side \in Side

LinksSound ==
    /\ \A s \in Side, i \in Indices :
          /\ IsInjective(book[s].levels[i].fifo)
          /\ \A o \in Linked(s, i) :
                o \notin free_list /\ pool_[o].side = s /\ pool_[o].level_idx = i
    /\ \A r \in live : LET o == order_map_[r] IN
          pool_[o].level_idx >= 0 => o \in Linked(pool_[o].side, pool_[o].level_idx)

MemorySafe == MapSound /\ LinksSound

(***************************************************************************)
(* A level's order_count is the length of its queue and its total_qty the  *)
(* sum of the shares queued there.  When a non-conforming feed over-fills  *)
(* an order and the asserts are compiled out, both subtractions wrap at    *)
(* different widths, and total_qty still agrees modulo 2^32, which is all  *)
(* that best_bid_offer reports of it.                                      *)
(***************************************************************************)
LevelAccounting ==
    \A s \in Side, i \in Indices :
        LET lvl == book[s].levels[i]
            sum == SharesOf(Linked(s, i), pool_)
        IN  /\ lvl.order_count = Len(lvl.fifo)
            /\ lvl.total_qty % W32 = sum % W32
            /\ (Conforming \/ ~NDEBUG) => lvl.total_qty = sum

(***************************************************************************)
(* With a conforming feed no Order is lost: each is free or mapped, and    *)
(* only mapped Orders are linked in the levels.                            *)
(***************************************************************************)
NoLeak ==
    Conforming => /\ Slots = free_list \cup Mapped(order_map_)
                  /\ \A s \in Side, i \in Indices : Linked(s, i) \subseteq Mapped(order_map_)

(* Ticks by which price is worse than ref, as mathematics has it. *)
TicksWorse(s, ref, price) == IF s = "B" THEN ref - price ELSE price - ref

(***************************************************************************)
(* With a conforming feed a live order is linked exactly when its price is *)
(* inside the current window, at the index that stands for its price: the  *)
(* cached level_idx never goes stale when recentres move the window under  *)
(* orders that rest, drop some and take dropped ones back, nor on halts,   *)
(* which clear the levels and keep the reference.                          *)
(***************************************************************************)
IndexMatchesPrice ==
    Conforming =>
        \A r \in live :
            LET o     == pool_[order_map_[r]]
                ticks == TicksWorse(o.side, book[o.side].ref, o.price)
            IN  o.level_idx = IF ticks \in Indices THEN ticks ELSE -1

(* r1 stands before r2 in the queue of one level. *)
Ahead(r1, r2) ==
    \E s \in Side, i \in Indices :
        LET fifo == book[s].levels[i].fifo
        IN  \E j, k \in DOMAIN fifo : j < k /\ fifo[j] = order_map_[r1] /\ fifo[k] = order_map_[r2]

SameLevel(r1, r2) ==
    LET o1 == pool_[order_map_[r1]]
        o2 == pool_[order_map_[r2]]
    IN  o1.side = o2.side /\ o1.level_idx = o2.level_idx /\ o1.level_idx >= 0

(***************************************************************************)
(* Time priority.  As long as a side is not re-centred, orders that stay   *)
(* keep their relative place in the queue, whatever happens between them,  *)
(* and an order that arrives stands behind all that were there.            *)
(***************************************************************************)
TimePriority ==
    [][\A r1 \in live \cap live' : \A r2 \in live' \ {r1} :
          LET s         == pool_[order_map_[r1]].side
              recentred == book'[s].ref # book[s].ref
              earlier   == r2 \in live => Ahead(r1, r2)
          IN  ~recentred /\ earlier /\ SameLevel(r1, r2)' => Ahead(r1, r2)']_vars

(***************************************************************************)
(* While the session is closed the number of live orders never grows, even *)
(* though executes, cancels and replaces are still applied.                *)
(***************************************************************************)
ClosedNeverGrows ==
    [][~is_open_ => Cardinality(live') <= Cardinality(live)]_vars

-----------------------------------------------------------------------------
(***************************************************************************)
(* The book as an implementation of ITCHBook: the live order at r is what  *)
(* order_map_[r] points to.  A fault is a stop, hence a stutter.           *)
(***************************************************************************)
LiveOrders ==
    [r \in Refs |-> IF order_map_[r] = nullptr THEN nullptr
                    ELSE LET o == pool_[order_map_[r]]
                         IN  [side |-> o.side, price |-> o.price, shares |-> o.shares]]

ITCH == INSTANCE ITCHBook WITH Sides <- Side, NoOrder <- nullptr,
                               open <- is_open_, orders <- LiveOrders

(***************************************************************************)
(* Every handler changes the live orders as its message says and in no     *)
(* other way, whichever levels, slots and recentres that goes through.     *)
(***************************************************************************)
ImplementsITCH == ITCH!Spec

(* The best price and the quantity at it, computed from the live orders alone. *)
Better(s, p, q) == IF s = "B" THEN p > q ELSE p < q

BBOOfLive(s) ==
    LET side == {r \in live : pool_[order_map_[r]].side = s}
        top  == {r \in side : \A q \in side :
                    ~Better(s, pool_[order_map_[q]].price, pool_[order_map_[r]].price)}
    IN  IF side = {} THEN [price |-> 0, qty |-> 0]
        ELSE [price |-> pool_[order_map_[CHOOSE r \in top : TRUE]].price,
              qty   |-> SharesOf({order_map_[r] : r \in top}, pool_) % W32]

(* The window is as wide as the range of prices the feed uses. *)
WideWindow == \A p, q \in Prices : p - q < kLevels

(* The live orders of side s that a recentre has left out of every level. *)
LeftOut(s) == {r \in live : /\ pool_[order_map_[r]].side = s
                            /\ pool_[order_map_[r]].level_idx = -1}

(***************************************************************************)
(* With a conforming feed, as long as no recentre has left an order of the *)
(* side out, best_bid_offer is the best price of all its live orders and   *)
(* the quantity resting there.                                             *)
(***************************************************************************)
BBOIsBest ==
    Conforming =>
        \A s \in Side : LeftOut(s) = {} => SideBBO(s) = BBOOfLive(s)

(***************************************************************************)
(* With a conforming feed the process stops for two reasons only: the pool *)
(* has run out, and then every one of its slots holds a live order, or the *)
(* assertion on level_idx has failed, and then a recentre had left a live  *)
(* order out.  No other assertion fails and no handler leaves the arrays.  *)
(***************************************************************************)
StopsAreExplained ==
    Conforming =>
        /\ fault \in {"none", "pool", "level_idx"}
        /\ fault = "pool" => Cardinality(live) = Cardinality(Slots)
        /\ fault = "level_idx" => \E s \in Side : LeftOut(s) # {}

-----------------------------------------------------------------------------
(***************************************************************************)
(* Statements of the repository's comments and documents about the book,   *)
(* as properties.  The code does not satisfy them (see README.md).         *)
(***************************************************************************)

(* order_book.cpp:53 and :69 assert that the order a message names has a   *)
(* level index.                                                            *)
LevelIdxAssertHolds == fault # "level_idx"

(* price_level.hpp:16-17: a level's list is a FIFO, "head = oldest": two   *)
(* live orders of one level never change places.                           *)
HeadIsOldest ==
    [][\A r1, r2 \in live \cap live' : Ahead(r1, r2) => ~Ahead(r2, r1)']_vars
=============================================================================

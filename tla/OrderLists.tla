------------------------------ MODULE OrderLists ------------------------------
(***************************************************************************)
(* The memory of the book: Order nodes linked by next and prev, the head   *)
(* and tail of each PriceLevel, and the free list that OrderPool threads   *)
(* through the same next fields.  Prices, shares and references are left   *)
(* out: which level an order enters, and when a side re-centres, is open,  *)
(* so every sequence of list operations the book can make is here.         *)
(***************************************************************************)
EXTENDS PriceLevel, FiniteSets

CONSTANTS Capacity,   \* OrderPool::capacity
          kLevels,    \* levels per side
          nullptr

ASSUME ListsAssumption ==
    /\ Capacity \in Nat \ {0} /\ kLevels \in Nat \ {0}
    /\ nullptr \notin 1 .. Capacity

VARIABLES next, prev,   \* Order::next, Order::prev
          head, tail,   \* of each level
          free_head_,
          at,           \* side and level_idx of each order
          mapped        \* the orders order_map_ holds

nodes == <<next, prev, head, tail, free_head_, at, mapped>>

Node == 1 .. Capacity
LevelId == {"B", "S"} \X (0 .. kLevels - 1)

(* OrderPool::OrderPool. *)
FreshPool(st) ==
    [st EXCEPT !.next = [o \in Node |-> IF o < Capacity THEN o + 1 ELSE nullptr],
               !.prev = [o \in Node |-> nullptr],
               !.free = 1,
               !.at   = [o \in Node |-> <<"none", -1>>]]

NoOrders(levels) == [l \in levels |-> nullptr]

Here == [next |-> next, prev |-> prev, head |-> head, tail |-> tail, free |-> free_head_,
         at |-> at, map |-> mapped]

Becomes(st) ==
    /\ next' = st.next /\ prev' = st.prev
    /\ head' = st.head /\ tail' = st.tail
    /\ free_head_' = st.free
    /\ at' = st.at /\ mapped' = st.map

(* Field f of the node p points to becomes q, unless p is null. *)
Set(f, p, q) == IF p = nullptr THEN f ELSE [f EXCEPT ![p] = q]

alloc(st) ==
    [st EXCEPT !.free = st.next[st.free],
               !.next = [st.next EXCEPT ![st.free] = nullptr],
               !.prev = [st.prev EXCEPT ![st.free] = nullptr]]

free(st, o) ==
    [st EXCEPT !.free = o,
               !.next = [st.next EXCEPT ![o] = st.free],
               !.prev = [st.prev EXCEPT ![o] = nullptr],
               !.at   = [st.at EXCEPT ![o] = <<"none", -1>>]]

(* Mutant: the order is linked behind its neighbour and not the other way round. *)
add_order_one_way(st, l, o) ==
    [st EXCEPT !.next = [Set(st.next, st.tail[l], o) EXCEPT ![o] = nullptr],
               !.head = IF st.tail[l] = nullptr THEN [st.head EXCEPT ![l] = o] ELSE st.head,
               !.tail = [st.tail EXCEPT ![l] = o],
               !.at   = [st.at EXCEPT ![o] = l]]

(* insert_at: level_idx, then PriceLevel::add_order. *)
add_order(st, l, o) ==
    [st EXCEPT !.prev = [st.prev EXCEPT ![o] = st.tail[l]],
               !.next = [Set(st.next, st.tail[l], o) EXCEPT ![o] = nullptr],
               !.head = IF st.tail[l] = nullptr THEN [st.head EXCEPT ![l] = o] ELSE st.head,
               !.tail = [st.tail EXCEPT ![l] = o],
               !.at   = [st.at EXCEPT ![o] = l]]

(* PriceLevel::remove_order. *)
remove_order(st, o) ==
    LET l == st.at[o]
        p == st.prev[o]
        n == st.next[o]
    IN  [st EXCEPT !.next = [Set(st.next, p, n) EXCEPT ![o] = nullptr],
                   !.prev = [Set(st.prev, n, p) EXCEPT ![o] = nullptr],
                   !.head = IF p = nullptr THEN [st.head EXCEPT ![l] = n] ELSE st.head,
                   !.tail = IF n = nullptr THEN [st.tail EXCEPT ![l] = p] ELSE st.tail]

(* remove_order, order_map_.erase and OrderPool::free. *)
withdraw(st, o) == [free(remove_order(st, o), o) EXCEPT !.map = st.map \ {o}]

(* The loop body of a recentre for order o, whose new index is idx. *)
relink(st, s, o, idx) ==
    LET bare == [st EXCEPT !.next = [st.next EXCEPT ![o] = nullptr],
                           !.prev = [st.prev EXCEPT ![o] = nullptr],
                           !.at   = [st.at EXCEPT ![o] = <<s, -1>>]]
    IN  IF idx >= 0 THEN add_order(bare, <<s, idx>>, o) ELSE bare

(* The loop of a recentre: order is the order in which the map yields the orders. *)
relink_all(st, s, order, idx) ==
    LET after[k \in 0 .. Len(order)] ==
            IF k = 0 THEN st ELSE relink(after[k - 1], s, order[k], idx[order[k]])
    IN  after[Len(order)]

clear(ends, s) == [l \in LevelId |-> IF l[1] = s THEN nullptr ELSE ends[l]]

(* Mutant: the levels keep their heads and tails. *)
recentre_keeps_levels(st, s, order, idx) == relink_all(st, s, order, idx)

(* recentre_bids / recentre_asks: clear the side's levels, then visit its  *)
(* mapped orders in the map's order.                                       *)
recentre(st, s, order, idx) ==
    relink_all([st EXCEPT !.head = clear(st.head, s), !.tail = clear(st.tail, s)],
               s, order, idx)

(* make_order and insert_order on side s, within the window or after a recentre. *)
insert_order(st, s) ==
    LET o    == st.free
        new  == alloc(st)
        mine == {x \in st.map : st.at[x][1] = s}
    IN  {add_order(new, <<s, i>>, o) : i \in 0 .. kLevels - 1}
        \cup UNION {{add_order(recentre(new, s, order, idx), <<s, 0>>, o) :
                        idx \in [mine -> -1 .. kLevels - 1]} : order \in SetToSeqs(mine)}

-----------------------------------------------------------------------------
ListsInit ==
    /\ next = [o \in Node |-> IF o < Capacity THEN o + 1 ELSE nullptr]
    /\ prev = [o \in Node |-> nullptr]
    /\ head = NoOrders(LevelId) /\ tail = NoOrders(LevelId)
    /\ free_head_ = 1
    /\ at = [o \in Node |-> <<"none", -1>>]
    /\ mapped = {}

(* on_add: a reference that is in use makes the map forget the order it held. *)
Add(s) ==
    /\ free_head_ # nullptr
    /\ \E new \in insert_order(Here, s), gone \in {{}} \cup {{o} : o \in mapped} :
          Becomes([new EXCEPT !.map = (@ \ gone) \cup {free_head_}])

(* on_delete, and the end of on_execute and on_cancel. *)
Delete(o) ==
    /\ o \in mapped /\ at[o][2] >= 0
    /\ Becomes(withdraw(Here, o))

(* on_replace: the new order is put in the map after it is inserted, in the *)
(* place of another one if its reference is in use.                         *)
Replace(o) ==
    /\ o \in mapped /\ at[o][2] >= 0
    /\ \E new \in insert_order(withdraw(Here, o), at[o][1]), gone \in {{}} \cup {{x} : x \in mapped} :
          Becomes([new EXCEPT !.map = (@ \ gone) \cup {o}])

(* Event 'H': the levels, the map and the pool start again. *)
Halt ==
    Becomes([FreshPool(Here) EXCEPT !.head = NoOrders(LevelId), !.tail = NoOrders(LevelId),
                                    !.map = {}])

ListsNext ==
    \/ \E s \in {"B", "S"} : Add(s)
    \/ \E o \in Node : Delete(o) \/ Replace(o)
    \/ Halt

ListsSpec == ListsInit /\ [][ListsNext]_nodes

-----------------------------------------------------------------------------
(* The nodes met from p on along link, at most one more than there are. *)
Walk(link, p) ==
    LET step[n \in 0 .. Capacity] ==
            IF n = 0 THEN p
            ELSE IF step[n - 1] = nullptr THEN nullptr ELSE link[step[n - 1]]
    IN  [k \in 1 .. Cardinality({n \in 0 .. Capacity : step[n] # nullptr}) |-> step[k - 1]]

(***************************************************************************)
(* The lists are sound whatever the handlers did: each level reads the     *)
(* same forwards and backwards, an order the map holds is in the list its  *)
(* level_idx names (removing it touches no other list), and the free list, *)
(* threaded through the same field, never runs into an order of the book.  *)
(***************************************************************************)
WellLinked ==
    /\ \A l \in LevelId : Walk(prev, tail[l]) = Reverse(Walk(next, head[l]))
    /\ \A o \in mapped : at[o][2] >= 0 => o \in Range(Walk(next, head[at[o]]))
    /\ IsInjective(Walk(next, free_head_))
    /\ \A l \in LevelId : Range(Walk(next, free_head_)) \cap Range(Walk(next, head[l])) = {}
    /\ Range(Walk(next, free_head_)) \cap mapped = {}

(***************************************************************************)
(* The nodes implement the queues OrderBook is written with: add_order     *)
(* appends, remove_order joins the neighbours of the order it takes out,   *)
(* and the pool hands out the slot freed last.                             *)
(***************************************************************************)
Queues == INSTANCE OrderQueues WITH fifo  <- [l \in LevelId |-> Walk(next, head[l])],
                                    stack <- Walk(next, free_head_)

ImplementsQueues == Queues!QueuesSpec
=============================================================================

---------------------------- MODULE OrderBookProofs ----------------------------
(***************************************************************************)
(* The safety of the order book, for every pool, window, set of prices and *)
(* feed: types, memory safety, the cached best index, and the quantities.  *)
(*                                                                         *)
(* The properties are not inductive one by one: an unlink is only safe if  *)
(* the order is linked where its level_idx says, and best is only right if *)
(* order_count tells which levels are empty.  StateOK is their inductive   *)
(* conjunction, stated on a record so that the helpers that make up a      *)
(* handler can be shown to preserve it one after the other.                *)
(***************************************************************************)
EXTENDS OrderBook, PriceLevelProofs

SideType == [ref : Prices \cup {0}, best : Indices \cup {-1},
             levels : [Indices -> Level(Slots)]]

(* The best index is -1 over empty levels, or the first level not empty. *)
BestOK(sd) ==
    \/ sd.best = -1 /\ \A i \in Indices : level_empty(sd.levels[i])
    \/ /\ sd.best \in Indices
       /\ ~level_empty(sd.levels[sd.best])
       /\ \A i \in Indices : i < sd.best => level_empty(sd.levels[i])

(* A side on its own: types, sound levels, and the best index. *)
LevelsOK(sd) == sd \in SideType /\ \A i \in Indices : LevelOK(sd.levels[i], Slots)

SideOK(sd) == LevelsOK(sd) /\ BestOK(sd)

At(sd, i) == Range(sd.levels[i].fifo)

(* What is linked on side s is not free and carries s and its index. *)
LinksOK(s, sd, ord, free) ==
    \A i \in Indices : \A o \in At(sd, i) :
        o \notin free /\ ord[o].side = s /\ ord[o].level_idx = i

(* What the map holds is not free, belongs to one reference, and is linked. *)
MapOK(st) ==
    /\ \A q, r \in Refs : st.map[q] # nullptr /\ st.map[q] = st.map[r] => q = r
    /\ \A r \in Refs : st.map[r] # nullptr =>
          LET o == st.map[r]
          IN  /\ o \notin st.free
              /\ st.ord[o].side \in Side
              /\ st.ord[o].level_idx >= 0 => o \in At(st.bk[st.ord[o].side], st.ord[o].level_idx)

StateType == [map : [Refs -> Slots \cup {nullptr}], ord : [Slots -> Order],
              free : SUBSET Slots, bk : [Side -> SideType]]

StateOK(st) ==
    /\ st \in StateType
    /\ \A s \in Side : SideOK(st.bk[s]) /\ LinksOK(s, st.bk[s], st.ord, st.free)
    /\ MapOK(st)

IndInv ==
    /\ StateOK(Here)
    /\ is_open_ \in BOOLEAN
    /\ fault \in {"none", "pool", "level_idx", "quantity"}

-----------------------------------------------------------------------------
(* A nonempty set of naturals has a least element, and Least finds it. *)
LEMMA LeastIsLeast ==
    ASSUME NEW S \in SUBSET Nat, S # {}
    PROVE  Least(S) \in S /\ \A j \in S : Least(S) <= j
BY SmallestExists DEF Least

(* The least element is unique. *)
LEMMA LeastUnique ==
    ASSUME NEW S \in SUBSET Nat, NEW i \in S, \A j \in S : i <= j
    PROVE  Least(S) = i
<1>1. Least(S) \in S /\ \A j \in S : Least(S) <= j
    BY LeastIsLeast
<1>2. Least(S) \in Nat /\ i \in Nat /\ Least(S) <= i /\ i <= Least(S)
    BY <1>1
<1> QED BY <1>2

(* Level indices are naturals; -1 is not one and 0 is. *)
LEMMA IndicesNat == Indices \subseteq Nat /\ -1 \notin Indices /\ 0 \in Indices
BY BookAssumption DEF Indices

(* insert_at: the order joins its level, and best follows. *)
LEMMA InsertAtOK ==
    ASSUME NEW sd, SideOK(sd), NEW o \in Slots, NEW shares \in 0 .. W32 - 1,
           NEW idx \in Indices, o \notin At(sd, idx)
    PROVE  LET new == insert_at(sd, o, shares, idx)
           IN  /\ SideOK(new)
               /\ new.ref = sd.ref
               /\ \A i \in Indices : At(new, i) = IF i = idx THEN At(sd, i) \cup {o} ELSE At(sd, i)
<1> DEFINE new  == insert_at(sd, o, shares, idx)
           lvl  == level_add_order(sd.levels[idx], o, shares)
<1>1. sd \in SideType /\ \A i \in Indices : LevelOK(sd.levels[i], Slots)
    BY DEF SideOK, LevelsOK
<1>2. LevelOK(lvl, Slots) /\ Range(lvl.fifo) = Range(sd.levels[idx].fifo) \cup {o}
    BY <1>1, BookAssumption, WidthsFit, LevelAdd DEF At
<1>3. ~level_empty(lvl)
    BY <1>2, LevelEmpty
<1> HIDE DEF lvl
<1>4. new = [sd EXCEPT !.levels[idx] = lvl, !.best = IF @ < 0 \/ idx < @ THEN idx ELSE @]
    BY DEF insert_at, lvl
<1>5. /\ new.ref = sd.ref
      /\ new.best = IF sd.best < 0 \/ idx < sd.best THEN idx ELSE sd.best
      /\ new.levels = [sd.levels EXCEPT ![idx] = lvl]
      /\ new = [ref |-> new.ref, best |-> new.best, levels |-> new.levels]
    BY <1>1, <1>4 DEF SideType
<1> HIDE DEF new
<1>6. new \in SideType
    BY <1>1, <1>2, <1>5, IndicesNat DEF SideType, LevelOK
<1>7. \A i \in Indices : new.levels[i] = IF i = idx THEN lvl ELSE sd.levels[i]
    BY <1>1, <1>5 DEF SideType
<1>8. LevelsOK(new)
    BY <1>1, <1>2, <1>6, <1>7 DEF LevelsOK
<1>9. BestOK(new)
  <2>1. CASE sd.best = -1 /\ \A i \in Indices : level_empty(sd.levels[i])
      BY <2>1, <1>3, <1>5, <1>7, IndicesNat DEF BestOK
  <2>2. CASE /\ sd.best \in Indices
             /\ ~level_empty(sd.levels[sd.best])
             /\ \A i \in Indices : i < sd.best => level_empty(sd.levels[i])
      BY <2>2, <1>3, <1>5, <1>7, IndicesNat DEF BestOK
  <2> QED BY <2>1, <2>2 DEF SideOK, BestOK
<1>10. \A i \in Indices : At(new, i) = IF i = idx THEN At(sd, i) \cup {o} ELSE At(sd, i)
    BY <1>2, <1>7 DEF At
<1> QED BY <1>5, <1>8, <1>9, <1>10 DEF SideOK, new

(* The scan finds the next level that is not empty. *)
LEMMA AdvanceBestOK ==
    ASSUME NEW sd, LevelsOK(sd), sd.best \in Indices,
           \A i \in Indices : i <= sd.best => level_empty(sd.levels[i])
    PROVE  LET new == advance_best(sd)
           IN  SideOK(new) /\ new.ref = sd.ref /\ new.levels = sd.levels
<1> DEFINE new == advance_best(sd)
           T   == {i \in Indices : i > sd.best /\ ~level_empty(sd.levels[i])}
<1>1. sd \in SideType
    BY DEF LevelsOK
<1>2. new = [sd EXCEPT !.best = LeastOrNone(T)]
    BY DEF advance_best
<1>3. T \in SUBSET Nat /\ T \subseteq Indices
    BY IndicesNat
<1>4. LeastOrNone(T) \in Indices \cup {-1}
    BY <1>3, LeastIsLeast DEF LeastOrNone
<1> HIDE DEF new
<1>5. new \in SideType /\ new.ref = sd.ref /\ new.levels = sd.levels /\ new.best = LeastOrNone(T)
    BY <1>1, <1>2, <1>4 DEF SideType
<1>a. \A i \in Indices : i \in T <=> i > sd.best /\ ~level_empty(sd.levels[i])
    OBVIOUS
<1> HIDE DEF T
<1>6. BestOK(new)
  <2>1. CASE T = {}
    <3>1. new.best = -1
        BY <2>1, <1>5 DEF LeastOrNone
    <3>2. ASSUME NEW i \in Indices PROVE level_empty(new.levels[i])
      <4>1. i \in Nat /\ sd.best \in Nat /\ i \notin T
          BY <2>1, IndicesNat
      <4> QED BY <4>1, <1>5, <1>a
    <3> QED BY <3>1, <3>2 DEF BestOK
  <2>2. CASE T # {}
    <3>1. new.best \in T /\ \A j \in T : new.best <= j
      <4>1. new.best = Least(T)
          BY <2>2, <1>5 DEF LeastOrNone
      <4> QED BY <2>2, <1>3, <4>1, LeastIsLeast
    <3>2. ASSUME NEW i \in Indices, i < new.best PROVE level_empty(new.levels[i])
      <4>1. i \in Nat /\ sd.best \in Nat /\ new.best \in Nat
          BY <3>1, <1>3, IndicesNat
      <4>2. i \notin T
          BY <4>1, <3>1, <3>2
      <4> QED BY <4>1, <4>2, <1>5, <1>a
    <3> QED BY <3>1, <3>2, <1>3, <1>5, <1>a DEF BestOK
  <2> QED BY <2>1, <2>2
<1> QED BY <1>5, <1>6 DEF SideOK, LevelsOK, new

(* remove_order: the order leaves its level, and best moves on when it empties. *)
LEMMA RemoveOrderOK ==
    ASSUME NEW sd, SideOK(sd), NEW ord \in [Slots -> Order], NEW o \in Slots,
           ord[o].level_idx \in Indices, o \in At(sd, ord[o].level_idx)
    PROVE  LET new == remove_order(sd, ord, o)
           IN  /\ SideOK(new)
               /\ new.ref = sd.ref
               /\ \A i \in Indices : At(new, i) = IF i = ord[o].level_idx THEN At(sd, i) \ {o}
                                                                         ELSE At(sd, i)
<1> DEFINE new == remove_order(sd, ord, o)
           idx == ord[o].level_idx
           lvl == level_remove_order(sd.levels[idx], o, ord[o].shares)
           cut == [sd EXCEPT !.levels[idx] = lvl]
<1>1. sd \in SideType /\ \A i \in Indices : LevelOK(sd.levels[i], Slots)
    BY DEF SideOK, LevelsOK
<1>2. ord[o].shares \in 0 .. W32 - 1
    BY DEF Order
<1>3. LevelOK(lvl, Slots) /\ Range(lvl.fifo) = Range(sd.levels[idx].fifo) \ {o}
  <2>1. LevelOK(sd.levels[idx], Slots) /\ o \in Range(sd.levels[idx].fifo)
      BY <1>1 DEF At
  <2> HIDE DEF idx
  <2> QED BY <2>1, <1>2, LevelRemove
<1>4. new = IF idx = cut.best /\ level_empty(cut.levels[idx]) THEN advance_best(cut) ELSE cut
    BY DEF remove_order
<1> HIDE DEF lvl, new
<1>5. /\ cut.ref = sd.ref /\ cut.best = sd.best
      /\ cut.levels = [sd.levels EXCEPT ![idx] = lvl]
      /\ cut = [ref |-> cut.ref, best |-> cut.best, levels |-> cut.levels]
    BY <1>1 DEF SideType
<1> HIDE DEF cut
<1>6. cut \in SideType
    BY <1>1, <1>3, <1>5 DEF SideType, LevelOK
<1>7. \A i \in Indices : cut.levels[i] = IF i = idx THEN lvl ELSE sd.levels[i]
    BY <1>1, <1>5 DEF SideType
<1>8. LevelsOK(cut)
    BY <1>1, <1>3, <1>6, <1>7 DEF LevelsOK
<1>9. ~level_empty(sd.levels[idx])
    BY <1>1, LevelEmpty DEF At
<1> HIDE DEF idx
<1>10. /\ idx \in Indices /\ sd.best \in Indices /\ sd.best <= idx
       /\ \A i \in Indices : i < sd.best => level_empty(sd.levels[i])
  <2>1. idx \in Indices /\ idx \in Nat
      BY IndicesNat DEF idx
  <2>2. sd.best # -1
      BY <2>1, <1>9, IndicesNat DEF SideOK, BestOK
  <2>3. /\ sd.best \in Indices /\ sd.best \in Nat
        /\ \A i \in Indices : i < sd.best => level_empty(sd.levels[i])
      BY <2>2, IndicesNat DEF SideOK, BestOK
  <2> QED BY <2>1, <2>3, <1>9
<1>11. CASE idx = cut.best /\ level_empty(cut.levels[idx])
  <2>1. \A i \in Indices : i <= cut.best => level_empty(cut.levels[i])
      BY <1>5, <1>7, <1>10, <1>11, IndicesNat
  <2>2. SideOK(new) /\ new.ref = cut.ref /\ new.levels = cut.levels
      BY <2>1, <1>4, <1>5, <1>8, <1>10, <1>11, AdvanceBestOK
  <2> QED BY <2>2, <1>3, <1>5, <1>7 DEF At, new, idx
<1>12. CASE ~(idx = cut.best /\ level_empty(cut.levels[idx]))
  <2>1. new = cut
      BY <1>4, <1>12
  <2>2. ~level_empty(cut.levels[cut.best])
      BY <1>5, <1>7, <1>10, <1>12, IndicesNat DEF SideOK, BestOK
  <2>3. \A i \in Indices : i < cut.best => level_empty(cut.levels[i])
      BY <1>5, <1>7, <1>10, IndicesNat
  <2>4. SideOK(new)
      BY <2>1, <2>2, <2>3, <1>5, <1>8, <1>10 DEF SideOK, BestOK
  <2> QED BY <2>1, <2>4, <1>3, <1>5, <1>7 DEF At, new, idx
<1> QED BY <1>11, <1>12

(* All the shares of the pool fit in a level's 64-bit total. *)
LEMMA SharesFit ==
    ASSUME NEW S \in SUBSET Slots, NEW ord \in [Slots -> Order]
    PROVE  SharesOf(S, ord) \in 0 .. W64 - 1 /\ IsFiniteSet(ShareUnits(S, ord))
<1> DEFINE n == Cardinality(Slots)
           B == Slots \X (1 .. W32 - 1)
<1>1. IsFiniteSet(Slots) /\ n \in Nat
    BY BookAssumption, FS_CardinalityType
<1>2. IsFiniteSet(1 .. W32 - 1) /\ Cardinality(1 .. W32 - 1) = W32 - 1
    BY FS_Interval, WidthAssumption
<1>3. IsFiniteSet(B) /\ Cardinality(B) = n * (W32 - 1)
    BY <1>1, <1>2, FS_Product
<1>4. ShareUnits(S, ord) \subseteq B
    BY WidthAssumption DEF ShareUnits, Order
<1>5. IsFiniteSet(ShareUnits(S, ord)) /\ Cardinality(ShareUnits(S, ord)) <= n * (W32 - 1)
    BY <1>3, <1>4, FS_Subset
<1>6. Cardinality(ShareUnits(S, ord)) \in Nat
    BY <1>5, FS_CardinalityType
<1>7. n * (W32 - 1) < W64
  <2> HIDE DEF n
  <2>1. n * W32 <= W64
      BY WidthsFit DEF n
  <2>2. n * (W32 - 1) = n * W32 - n
      BY <1>1, WidthAssumption
  <2>3. n = 0 => n * W32 = 0
      BY <1>1, WidthAssumption
  <2>4. n * W32 \in Nat
      BY <1>1, WidthAssumption
  <2> QED BY <2>1, <2>2, <2>3, <2>4, <1>1, WidthAssumption
<1>8. n * (W32 - 1) \in Nat
    BY <1>1, WidthAssumption
<1> HIDE DEF n
<1> QED BY <1>5, <1>6, <1>7, <1>8, WidthAssumption DEF SharesOf

(* recentre: each level holds exactly the mapped orders re-indexed to it. *)
LEMMA RecentreOK ==
    ASSUME NEW s \in Side, NEW p \in Prices, NEW ord \in [Slots -> Order],
           NEW mapped \in SUBSET Slots, NEW sd \in recentre(s, p, ord, mapped)
    PROVE  /\ SideOK(sd)
           /\ sd.ref = p
           /\ \A i \in Indices : At(sd, i) = OrdersAt(s, ord, mapped, i)
<1> DEFINE M(i) == OrdersAt(s, ord, mapped, i)
           used == {i \in Indices : M(i) # {}}
           lv(queue) == [i \in Indices |-> IF i \in used THEN RebuiltLevel(queue[i], M(i), ord)
                                                       ELSE EmptyLevel]
<1>1. PICK queue :
        /\ \A i \in used : queue[i] \in Queues(M(i))
        /\ sd = [ref |-> p, best |-> LeastOrNone(used), levels |-> lv(queue)]
    BY Zenon DEF recentre
<1>2. used \subseteq Indices /\ used \in SUBSET Nat
    BY IndicesNat
<1>3. \A i \in Indices : M(i) \in SUBSET Slots
    BY DEF OrdersAt
<1>4. ASSUME NEW i \in Indices
      PROVE  /\ LevelOK(lv(queue)[i], Slots)
             /\ Range(lv(queue)[i].fifo) = M(i)
  <2>1. CASE i \in used
    <3> DEFINE q   == queue[i]
               lvl == RebuiltLevel(q, M(i), ord)
    <3>1. lv(queue)[i] = lvl
        BY <2>1
    <3>2. q \in [1 .. Cardinality(M(i)) -> M(i)] /\ IsInjective(q) /\ Range(q) = M(i)
        BY <2>1, <1>1 DEF Queues
    <3>3. IsFiniteSet(M(i)) /\ Cardinality(M(i)) \in Nat /\ Cardinality(M(i)) <= Cardinality(Slots)
        BY <1>3, BookAssumption, FS_Subset, FS_CardinalityType
    <3>4. SharesOf(M(i), ord) \in 0 .. W64 - 1
        BY <1>3, SharesFit
    <3> HIDE DEF M, used, q
    <3>5. q \in Seq(Slots) /\ Len(q) = Cardinality(M(i))
        BY <3>2, <3>3, <1>3
    <3>6. Cardinality(M(i)) \in 0 .. W32 - 1
        BY <3>3, WidthsFit, WidthAssumption, BookAssumption, FS_CardinalityType
    <3>7. LevelOK(lvl, Slots) /\ Range(lvl.fifo) = M(i)
        BY <3>2, <3>4, <3>5, <3>6 DEF LevelOK, Level, RebuiltLevel
    <3> QED BY <3>1, <3>7
  <2>2. CASE i \notin used
      BY <2>2, LevelEmptyOK
  <2> QED BY <2>1, <2>2
<1> HIDE DEF lv
<1>5. DOMAIN lv(queue) = Indices /\ lv(queue) = [i \in Indices |-> lv(queue)[i]]
    BY DEF lv
<1>6. lv(queue) \in [Indices -> Level(Slots)]
    BY <1>4, <1>5 DEF LevelOK
<1>7. LeastOrNone(used) \in Indices \cup {-1}
    BY <1>2, LeastIsLeast DEF LeastOrNone
<1>8. LevelsOK(sd) /\ sd.ref = p
    BY <1>1, <1>4, <1>6, <1>7 DEF LevelsOK, SideType
<1>9. \A i \in Indices : At(sd, i) = M(i)
    BY <1>1, <1>4 DEF At
<1>10. \A i \in Indices : level_empty(sd.levels[i]) <=> i \notin used
    BY <1>8, <1>9, LevelEmpty DEF LevelsOK, At
<1>11. BestOK(sd)
  <2>1. CASE used = {}
      BY <2>1, <1>1, <1>10 DEF BestOK, LeastOrNone
  <2>2. CASE used # {}
    <3>1. sd.best \in used /\ \A j \in used : sd.best <= j
        BY <2>2, <1>1, <1>2, LeastIsLeast DEF LeastOrNone
    <3> HIDE DEF used
    <3>2. ASSUME NEW i \in Indices, i < sd.best PROVE level_empty(sd.levels[i])
      <4>1. i \in Nat /\ sd.best \in Nat
          BY <3>1, <1>2, IndicesNat
      <4>2. i \notin used
          BY <4>1, <3>1, <3>2
      <4> QED BY <4>2, <1>10
    <3> QED BY <3>1, <3>2, <1>2, <1>10 DEF BestOK
  <2> QED BY <2>1, <2>2
<1> QED BY <1>8, <1>9, <1>11 DEF SideOK

-----------------------------------------------------------------------------
(* What StateOK says of an order that the map holds and a level links. *)
LEMMA LiveOrder ==
    ASSUME NEW st, StateOK(st), NEW r \in Refs, st.map[r] # nullptr,
           st.ord[st.map[r]].level_idx >= 0
    PROVE  LET o == st.map[r]
               s == st.ord[o].side
               i == st.ord[o].level_idx
           IN  o \in Slots /\ s \in Side /\ i \in Indices /\ o \in At(st.bk[s], i)
<1>1. st.map \in [Refs -> Slots \cup {nullptr}] /\ st.ord \in [Slots -> Order]
    BY DEF StateOK, StateType
<1>2. st.map[r] \in Slots
    BY <1>1
<1>3. st.ord[st.map[r]].level_idx \in Indices
  <2>1. st.ord[st.map[r]] \in Order
      BY <1>1, <1>2
  <2>2. st.ord[st.map[r]].level_idx \in Indices \cup {-1}
      BY <2>1 DEF Order
  <2> QED BY <2>2
<1> QED BY <1>2, <1>3 DEF StateOK, MapOK

(* Taking a linked order out leaves nothing dangling. *)
LEMMA WithdrawOK ==
    ASSUME NEW st, StateOK(st), NEW r \in Refs, st.map[r] # nullptr,
           st.ord[st.map[r]].level_idx >= 0
    PROVE  StateOK(withdraw_order(st, r))
<1> DEFINE o   == st.map[r]
           s   == st.ord[o].side
           idx == st.ord[o].level_idx
           sd  == remove_order(st.bk[s], st.ord, o)
           new == withdraw_order(st, r)
<1>1. o \in Slots /\ s \in Side /\ idx \in Indices /\ o \in At(st.bk[s], idx)
    BY LiveOrder
<1>2. /\ st.map \in [Refs -> Slots \cup {nullptr}] /\ st.ord \in [Slots -> Order]
      /\ st.free \in SUBSET Slots /\ st.bk \in [Side -> SideType]
    BY DEF StateOK, StateType
<1>3. \A t \in Side : SideOK(st.bk[t]) /\ LinksOK(t, st.bk[t], st.ord, st.free)
    BY DEF StateOK
<1>4. /\ SideOK(sd)
      /\ \A i \in Indices : At(sd, i) = IF i = idx THEN At(st.bk[s], i) \ {o} ELSE At(st.bk[s], i)
  <2> DEFINE b == st.bk[s]
             d == st.ord
  <2>1. /\ SideOK(b) /\ d \in [Slots -> Order] /\ o \in Slots
        /\ d[o].level_idx \in Indices /\ o \in At(b, d[o].level_idx)
      BY <1>1, <1>2, <1>3
  <2>2. sd = remove_order(b, d, o) /\ idx = d[o].level_idx
      OBVIOUS
  <2> HIDE DEF o, s, b, d, sd, idx
  <2>3. /\ SideOK(sd)
        /\ \A i \in Indices : At(sd, i) = IF i = idx THEN At(b, i) \ {o} ELSE At(b, i)
      BY <2>1, <2>2, RemoveOrderOK
  <2> QED BY <2>3 DEF b
<1>5. /\ new.map = [st.map EXCEPT ![r] = nullptr]
      /\ new.ord = [st.ord EXCEPT ![o] = BlankOrder]
      /\ new.free = st.free \cup {o}
      /\ new.bk = [st.bk EXCEPT ![s] = sd]
      /\ new = [map |-> new.map, ord |-> new.ord, free |-> new.free, bk |-> new.bk]
    BY DEF withdraw_order
<1>6. BlankOrder \in Order
    BY WidthAssumption DEF BlankOrder, Order
<1> HIDE DEF sd, new
<1>7. new \in StateType
  <2>1. new.map \in [Refs -> Slots \cup {nullptr}] /\ new.free \in SUBSET Slots
      BY <1>1, <1>2, <1>5
  <2>2. new.ord \in [Slots -> Order]
      BY <1>1, <1>2, <1>5, <1>6
  <2>3. new.bk \in [Side -> SideType]
      BY <1>1, <1>2, <1>4, <1>5 DEF SideOK, LevelsOK
  <2> QED BY <2>1, <2>2, <2>3, <1>5 DEF StateType
<1>8. ASSUME NEW t \in Side
      PROVE  SideOK(new.bk[t]) /\ LinksOK(t, new.bk[t], new.ord, new.free)
  <2>1. SideOK(new.bk[t])
      BY <1>1, <1>2, <1>3, <1>4, <1>5
  <2>2. ASSUME NEW i \in Indices, NEW x \in At(new.bk[t], i)
        PROVE  x \in At(st.bk[t], i) /\ x # o
    <3>1. CASE t = s
      <4>1. x \in At(st.bk[s], i) /\ (i = idx => x # o)
          BY <3>1, <2>2, <1>1, <1>2, <1>4, <1>5
      <4>2. st.ord[x].level_idx = i
          BY <4>1, <1>1, <1>3 DEF LinksOK
      <4> QED BY <3>1, <4>1, <4>2
    <3>2. CASE t # s
      <4>1. x \in At(st.bk[t], i)
          BY <3>2, <2>2, <1>2, <1>5
      <4>2. st.ord[x].side = t
          BY <4>1, <1>3 DEF LinksOK
      <4> QED BY <3>2, <4>1, <4>2
    <3> QED BY <3>1, <3>2
  <2>3. ASSUME NEW i \in Indices, NEW x \in At(new.bk[t], i)
        PROVE  x \notin new.free /\ new.ord[x].side = t /\ new.ord[x].level_idx = i
    <3>1. x \in At(st.bk[t], i) /\ x # o
        BY <2>2
    <3>2. x \notin st.free /\ st.ord[x].side = t /\ st.ord[x].level_idx = i
        BY <3>1, <1>3 DEF LinksOK
    <3>3. new.ord[x] = st.ord[x]
        BY <3>1, <1>2, <1>5
    <3> QED BY <3>1, <3>2, <3>3, <1>5
  <2> QED BY <2>1, <2>3 DEF LinksOK
<1>9. MapOK(new)
  <2>1. \A q \in Refs : new.map[q] = IF q = r THEN nullptr ELSE st.map[q]
      BY <1>2, <1>5
  <2>2. \A q, u \in Refs : new.map[q] # nullptr /\ new.map[q] = new.map[u] => q = u
      BY <2>1 DEF StateOK, MapOK
  <2>3. ASSUME NEW q \in Refs, new.map[q] # nullptr
        PROVE  LET x == new.map[q]
               IN  /\ x \notin new.free
                   /\ new.ord[x].side \in Side
                   /\ new.ord[x].level_idx >= 0
                        => x \in At(new.bk[new.ord[x].side], new.ord[x].level_idx)
    <3> DEFINE x == st.map[q]
    <3>1. q # r /\ new.map[q] = x /\ x # nullptr
        BY <2>1, <2>3
    <3>2. x # o /\ x \in Slots
        BY <3>1, <1>2 DEF StateOK, MapOK
    <3>3. new.ord[x] = st.ord[x]
        BY <3>2, <1>2, <1>5
    <3>4. x \notin st.free /\ st.ord[x].side \in Side
        BY <3>1 DEF StateOK, MapOK
    <3>5. ASSUME st.ord[x].level_idx >= 0
          PROVE  x \in At(new.bk[st.ord[x].side], st.ord[x].level_idx)
      <4>1. x \in At(st.bk[st.ord[x].side], st.ord[x].level_idx) /\ st.ord[x].level_idx \in Indices
          BY <3>1, <3>5, LiveOrder
      <4> QED BY <4>1, <3>2, <3>4, <1>1, <1>2, <1>4, <1>5
    <3> QED BY <3>1, <3>2, <3>3, <3>4, <3>5, <1>5
  <2> QED BY <2>2, <2>3 DEF MapOK
<1> QED BY <1>7, <1>8, <1>9 DEF StateOK, new

(* Levels link slots of the pool. *)
LEMMA LinkedSlots ==
    ASSUME NEW sd, SideOK(sd), NEW i \in Indices
    PROVE  At(sd, i) \subseteq Slots
<1>1. sd.levels[i].fifo \in Seq(Slots)
    BY DEF SideOK, LevelsOK, LevelOK, Level
<1> QED BY <1>1, LenProperties DEF At, Range

(* Taking shares from a level changes neither its queue nor the best index. *)
LEMMA ReduceLevelOK ==
    ASSUME NEW sd, SideOK(sd), NEW idx \in Indices, NEW qty \in 0 .. W32 - 1
    PROVE  LET new == reduce_level(sd, idx, qty)
           IN  SideOK(new) /\ \A i \in Indices : At(new, i) = At(sd, i)
<1> DEFINE new == reduce_level(sd, idx, qty)
           lvl == level_reduce_shares(sd.levels[idx], qty)
<1>1. sd \in SideType /\ \A i \in Indices : LevelOK(sd.levels[i], Slots)
    BY DEF SideOK, LevelsOK
<1>2. /\ LevelOK(lvl, Slots) /\ lvl.fifo = sd.levels[idx].fifo
      /\ lvl.order_count = sd.levels[idx].order_count
    BY <1>1, LevelReduce
<1> HIDE DEF lvl
<1>3. /\ new.ref = sd.ref /\ new.best = sd.best
      /\ new.levels = [sd.levels EXCEPT ![idx] = lvl]
      /\ new = [ref |-> new.ref, best |-> new.best, levels |-> new.levels]
    BY <1>1 DEF reduce_level, SideType, lvl
<1> HIDE DEF new
<1>4. new \in SideType
    BY <1>1, <1>2, <1>3 DEF SideType, LevelOK
<1>5. \A i \in Indices : new.levels[i] = IF i = idx THEN lvl ELSE sd.levels[i]
    BY <1>1, <1>3 DEF SideType
<1>6. LevelsOK(new)
    BY <1>1, <1>2, <1>4, <1>5 DEF LevelsOK
<1>7. \A i \in Indices : level_empty(new.levels[i]) <=> level_empty(sd.levels[i])
    BY <1>2, <1>5 DEF level_empty
<1>8. BestOK(new)
    BY <1>3, <1>7 DEF SideOK, BestOK
<1>9. \A i \in Indices : At(new, i) = At(sd, i)
    BY <1>2, <1>5 DEF At
<1> QED BY <1>6, <1>8, <1>9 DEF SideOK, new

(* The fields of a state record after an update of its orders and its sides. *)
LEMMA StateUpdate ==
    ASSUME NEW st, st = [map |-> st.map, ord |-> st.ord, free |-> st.free, bk |-> st.bk],
           NEW od, NEW b, NEW new, new = [st EXCEPT !.ord = od, !.bk = b]
    PROVE  /\ new.map = st.map /\ new.free = st.free /\ new.ord = od /\ new.bk = b
           /\ new = [map |-> new.map, ord |-> new.ord, free |-> new.free, bk |-> new.bk]
OBVIOUS

(* Taking shares from a linked order changes neither links nor best. *)
LEMMA ReduceOK ==
    ASSUME NEW st, StateOK(st), NEW r \in Refs, NEW qty \in Quantities, st.map[r] # nullptr,
           st.ord[st.map[r]].level_idx >= 0
    PROVE  LET new == reduce_shares(st, r, qty)
           IN  /\ StateOK(new)
               /\ new.map = st.map
               /\ new.ord = [st.ord EXCEPT ![st.map[r]].shares = SubW(@, qty, W32)]
<1> DEFINE o   == st.map[r]
           s   == st.ord[o].side
           idx == st.ord[o].level_idx
           sd  == reduce_level(st.bk[s], idx, qty)
           new == reduce_shares(st, r, qty)
<1>1. o \in Slots /\ s \in Side /\ idx \in Indices
    BY LiveOrder
<1>2. /\ st.map \in [Refs -> Slots \cup {nullptr}] /\ st.ord \in [Slots -> Order]
      /\ st.free \in SUBSET Slots /\ st.bk \in [Side -> SideType]
      /\ st = [map |-> st.map, ord |-> st.ord, free |-> st.free, bk |-> st.bk]
    BY DEF StateOK, StateType
<1>3. \A t \in Side : SideOK(st.bk[t]) /\ LinksOK(t, st.bk[t], st.ord, st.free)
    BY DEF StateOK
<1>4. qty \in 0 .. W32 - 1
    BY BookAssumption
<1>5. SideOK(sd) /\ \A i \in Indices : At(sd, i) = At(st.bk[s], i)
    BY <1>1, <1>3, <1>4, ReduceLevelOK
<1>6. /\ new.map = st.map
      /\ new.free = st.free
      /\ new.ord = [st.ord EXCEPT ![o].shares = SubW(@, qty, W32)]
      /\ new.bk = [st.bk EXCEPT ![s] = sd]
      /\ new = [map |-> new.map, ord |-> new.ord, free |-> new.free, bk |-> new.bk]
  <2> DEFINE od == [st.ord EXCEPT ![o].shares = SubW(@, qty, W32)]
             b  == [st.bk EXCEPT ![s] = sd]
  <2>1. new = [st EXCEPT !.ord = od, !.bk = b]
      BY DEF reduce_shares
  <2> HIDE DEF od, b, new
  <2>2. /\ new.map = st.map /\ new.free = st.free /\ new.ord = od /\ new.bk = b
        /\ new = [map |-> new.map, ord |-> new.ord, free |-> new.free, bk |-> new.bk]
      BY <2>1, <1>2
  <2> QED BY <2>2 DEF od, b
<1> HIDE DEF new, sd
<1>7. SubW(st.ord[o].shares, qty, W32) \in 0 .. W32 - 1
  <2>1. st.ord[o].shares \in 0 .. W32 - 1
      BY <1>1, <1>2 DEF Order
  <2> QED BY <2>1, <1>4, WidthAssumption, WrapType
<1>8. /\ new.ord \in [Slots -> Order]
      /\ \A x \in Slots : new.ord[x].side = st.ord[x].side /\ new.ord[x].level_idx = st.ord[x].level_idx
  <2> DEFINE od == [st.ord[o] EXCEPT !.shares = SubW(@, qty, W32)]
  <2>1. od \in Order /\ od.side = s /\ od.level_idx = idx
      BY <1>1, <1>2, <1>7 DEF Order
  <2>2. new.ord = [st.ord EXCEPT ![o] = od]
      BY <1>6
  <2> HIDE DEF od
  <2> QED BY <2>1, <2>2, <1>1, <1>2
<1>9. new \in StateType
  <2>1. new.bk \in [Side -> SideType]
      BY <1>1, <1>2, <1>5, <1>6 DEF SideOK, LevelsOK
  <2> QED BY <2>1, <1>2, <1>6, <1>8 DEF StateType
<1>10. \A t \in Side : SideOK(new.bk[t]) /\ \A i \in Indices : At(new.bk[t], i) = At(st.bk[t], i)
    BY <1>1, <1>2, <1>3, <1>5, <1>6
<1>11. ASSUME NEW t \in Side PROVE LinksOK(t, new.bk[t], new.ord, new.free)
  <2>1. ASSUME NEW i \in Indices, NEW x \in At(new.bk[t], i)
        PROVE  x \notin new.free /\ new.ord[x].side = t /\ new.ord[x].level_idx = i
    <3>1. x \in At(st.bk[t], i) /\ x \in Slots
        BY <2>1, <1>3, <1>10, LinkedSlots
    <3>2. x \notin st.free /\ st.ord[x].side = t /\ st.ord[x].level_idx = i
        BY <3>1, <1>3 DEF LinksOK
    <3> QED BY <3>1, <3>2, <1>6, <1>8
  <2> QED BY <2>1 DEF LinksOK
<1>12. MapOK(new)
  <2>1. ASSUME NEW q \in Refs, st.map[q] # nullptr
        PROVE  LET x == st.map[q]
               IN  /\ x \notin new.free
                   /\ new.ord[x].side \in Side
                   /\ new.ord[x].level_idx >= 0
                        => x \in At(new.bk[new.ord[x].side], new.ord[x].level_idx)
    <3> DEFINE x == st.map[q]
    <3>1. /\ x \in Slots /\ x \notin st.free /\ st.ord[x].side \in Side
          /\ new.ord[x].side = st.ord[x].side /\ new.ord[x].level_idx = st.ord[x].level_idx
        BY <2>1, <1>2, <1>8 DEF StateOK, MapOK
    <3>2. ASSUME st.ord[x].level_idx >= 0
          PROVE  x \in At(new.bk[st.ord[x].side], st.ord[x].level_idx)
        BY <2>1, <3>2, <1>10, LiveOrder
    <3> QED BY <3>1, <3>2, <1>6
  <2> QED BY <2>1, <1>6 DEF StateOK, MapOK
<1> QED BY <1>6, <1>9, <1>10, <1>11, <1>12 DEF StateOK, new

(***************************************************************************)
(* An order that has been allocated and is neither mapped nor linked yet.  *)
(***************************************************************************)
Pending(st, s, o) ==
    /\ o \in Slots /\ o \notin st.free /\ s \in Side
    /\ st.ord[o].side = s /\ st.ord[o].price \in Prices
    /\ \A r \in Refs : st.map[r] # o
    /\ \A t \in Side, i \in Indices : o \notin At(st.bk[t], i)

(* make_order takes a slot that nothing refers to. *)
LEMMA MakeOrderOK ==
    ASSUME NEW st, StateOK(st), NEW o \in st.free, NEW s \in Side,
           NEW shares \in Quantities, NEW price \in Prices
    PROVE  LET new == make_order(st, o, shares, price, s)
           IN  StateOK(new) /\ Pending(new, s, o) /\ new.map = st.map
<1> DEFINE new == make_order(st, o, shares, price, s)
           od  == [shares |-> shares, price |-> price, side |-> s, level_idx |-> -1]
           os  == [st.ord EXCEPT ![o] = od]
           fr  == st.free \ {o}
<1>1. /\ st.map \in [Refs -> Slots \cup {nullptr}] /\ st.ord \in [Slots -> Order]
      /\ st.free \in SUBSET Slots /\ st.bk \in [Side -> SideType]
      /\ st = [map |-> st.map, ord |-> st.ord, free |-> st.free, bk |-> st.bk]
    BY DEF StateOK, StateType
<1>2. \A t \in Side : SideOK(st.bk[t]) /\ LinksOK(t, st.bk[t], st.ord, st.free)
    BY DEF StateOK
<1>3. od \in Order /\ od.side = s /\ od.price = price
    BY BookAssumption DEF Order
<1>4. new = [st EXCEPT !.free = fr, !.ord = os]
    BY DEF make_order
<1> HIDE DEF new, od, os, fr
<1>5. /\ new.map = st.map /\ new.bk = st.bk /\ new.ord = os /\ new.free = fr
      /\ new = [map |-> new.map, ord |-> new.ord, free |-> new.free, bk |-> new.bk]
    BY <1>1, <1>4
<1>6. /\ os \in [Slots -> Order] /\ os[o] = od
      /\ \A x \in Slots : x # o => os[x] = st.ord[x]
    BY <1>1, <1>3 DEF os
<1>7. o \in Slots /\ o \notin fr /\ fr \in SUBSET st.free
    BY <1>1 DEF fr
<1>8. new \in StateType
    BY <1>1, <1>5, <1>6, <1>7 DEF StateType
<1>9. \A t \in Side, i \in Indices : o \notin At(st.bk[t], i)
    BY <1>2 DEF LinksOK
<1>10. \A r \in Refs : st.map[r] # o
    BY <1>1, BookAssumption DEF StateOK, MapOK
<1>11. ASSUME NEW t \in Side PROVE LinksOK(t, new.bk[t], new.ord, new.free)
  <2>1. ASSUME NEW i \in Indices, NEW x \in At(st.bk[t], i)
        PROVE  x \notin fr /\ os[x].side = t /\ os[x].level_idx = i
    <3>1. x \in Slots /\ x # o
        BY <2>1, <1>2, <1>9, LinkedSlots
    <3>2. x \notin st.free /\ st.ord[x].side = t /\ st.ord[x].level_idx = i
        BY <2>1, <1>2 DEF LinksOK
    <3> QED BY <3>1, <3>2, <1>6, <1>7
  <2> QED BY <2>1, <1>5 DEF LinksOK
<1>12. MapOK(new)
  <2>1. ASSUME NEW r \in Refs, st.map[r] # nullptr
        PROVE  os[st.map[r]] = st.ord[st.map[r]] /\ st.map[r] \notin fr
    <3>1. st.map[r] \in Slots /\ st.map[r] # o /\ st.map[r] \notin st.free
        BY <2>1, <1>1, <1>10 DEF StateOK, MapOK
    <3> QED BY <3>1, <1>6, <1>7
  <2> QED BY <2>1, <1>5 DEF StateOK, MapOK
<1>13. StateOK(new)
    BY <1>2, <1>5, <1>8, <1>11, <1>12 DEF StateOK
<1>14. Pending(new, s, o)
    BY <1>3, <1>5, <1>6, <1>7, <1>9, <1>10 DEF Pending
<1> QED BY <1>5, <1>13, <1>14 DEF new

(* The same orders in the same places of the pool, up to their level index. *)
SameOrders(a, b) ==
    \A x \in Slots : a[x].side = b[x].side /\ a[x].price = b[x].price /\ a[x].shares = b[x].shares

(* An order that the map may take: allocated, linked, and not mapped yet. *)
Ready(st, s, o) ==
    /\ o \in Slots /\ o \notin st.free /\ s \in Side
    /\ st.ord[o].side = s /\ st.ord[o].level_idx \in Indices
    /\ o \in At(st.bk[s], st.ord[o].level_idx)
    /\ \A r \in Refs : st.map[r] # o

(***************************************************************************)
(* A side sd and orders ord that insert_at may start from: those of st, or *)
(* what a recentre makes of them.                                          *)
(***************************************************************************)
Rebased(st, s, o, sd, ord) ==
    /\ SideOK(sd)
    /\ ord \in [Slots -> Order]
    /\ LinksOK(s, sd, ord, st.free)
    /\ SameOrders(ord, st.ord)
    /\ \A i \in Indices : o \notin At(sd, i)
    /\ \A x \in Slots : st.ord[x].side # s => ord[x] = st.ord[x]
    /\ \A r \in Refs :
          st.map[r] # nullptr /\ ord[st.map[r]].side = s /\ ord[st.map[r]].level_idx >= 0
             => st.map[r] \in At(sd, ord[st.map[r]].level_idx)

(* The state after insert_at at idx from there. *)
Inserted(st, s, o, sd, ord, idx) ==
    [st EXCEPT !.ord = [ord EXCEPT ![o].level_idx = idx],
               !.bk  = [st.bk EXCEPT ![s] = insert_at(sd, o, st.ord[o].shares, idx)]]

(* The order o is linked, the rest of the state is as sound as it was. *)
Placed(new, st, s, o) ==
    /\ StateOK(new) /\ Ready(new, s, o)
    /\ new.map = st.map /\ new.free = st.free /\ SameOrders(new.ord, st.ord)

(* insert_at of an allocated order that is not linked yet keeps the state sound. *)
LEMMA LinkOK ==
    ASSUME NEW st, StateOK(st), NEW s, NEW o, Pending(st, s, o),
           NEW sd, NEW ord, Rebased(st, s, o, sd, ord), NEW idx \in Indices
    PROVE  Placed(Inserted(st, s, o, sd, ord, idx), st, s, o)
<1> DEFINE new == Inserted(st, s, o, sd, ord, idx)
<1>0. /\ SideOK(sd)
      /\ ord \in [Slots -> Order]
      /\ LinksOK(s, sd, ord, st.free)
      /\ SameOrders(ord, st.ord)
      /\ \A i \in Indices : o \notin At(sd, i)
      /\ \A x \in Slots : st.ord[x].side # s => ord[x] = st.ord[x]
    BY DEF Rebased
<1> DEFINE side == insert_at(sd, o, st.ord[o].shares, idx)
           od   == [ord[o] EXCEPT !.level_idx = idx]
           os   == [ord EXCEPT ![o].level_idx = idx]
           bk   == [st.bk EXCEPT ![s] = side]
<1>1. /\ st.map \in [Refs -> Slots \cup {nullptr}] /\ st.ord \in [Slots -> Order]
      /\ st.free \in SUBSET Slots /\ st.bk \in [Side -> SideType]
      /\ st = [map |-> st.map, ord |-> st.ord, free |-> st.free, bk |-> st.bk]
    BY DEF StateOK, StateType
<1>2. \A t \in Side : SideOK(st.bk[t]) /\ LinksOK(t, st.bk[t], st.ord, st.free)
    BY DEF StateOK
<1>3. /\ o \in Slots /\ o \notin st.free /\ s \in Side /\ st.ord[o].side = s
      /\ \A r \in Refs : st.map[r] # o
      /\ \A t \in Side, i \in Indices : o \notin At(st.bk[t], i)
    BY DEF Pending
<1>4. st.ord[o].shares \in 0 .. W32 - 1
    BY <1>1, <1>3 DEF Order
<1>5. /\ SideOK(side)
      /\ \A i \in Indices : At(side, i) = IF i = idx THEN At(sd, i) \cup {o} ELSE At(sd, i)
  <2> DEFINE sh == st.ord[o].shares
  <2>1. o \in Slots /\ sh \in 0 .. W32 - 1 /\ o \notin At(sd, idx)
      BY <1>0, <1>3, <1>4
  <2> HIDE DEF sh
  <2>2. LET n == insert_at(sd, o, sh, idx)
        IN  /\ SideOK(n)
            /\ \A i \in Indices : At(n, i) = IF i = idx THEN At(sd, i) \cup {o} ELSE At(sd, i)
      BY <2>1, <1>0, InsertAtOK
  <2> QED BY <2>2 DEF sh
<1>6. /\ od \in Order /\ od.level_idx = idx /\ od.side = ord[o].side
      /\ od.price = ord[o].price /\ od.shares = ord[o].shares
    BY <1>0, <1>3 DEF Order
<1>7. os = [ord EXCEPT ![o] = od]
    OBVIOUS
<1>a. new = [st EXCEPT !.ord = os, !.bk = bk]
    BY DEF Inserted
<1> HIDE DEF new, side, od, os
<1>8. os \in [Slots -> Order] /\ os[o] = od /\ \A x \in Slots : x # o => os[x] = ord[x]
    BY <1>0, <1>3, <1>6, <1>7
<1>9. /\ bk \in [Side -> SideType] /\ bk[s] = side
      /\ \A t \in Side : t # s => bk[t] = st.bk[t]
    BY <1>1, <1>3, <1>5 DEF SideOK, LevelsOK
<1> HIDE DEF bk
<1>10. /\ new.map = st.map /\ new.free = st.free /\ new.ord = os /\ new.bk = bk
       /\ new = [map |-> new.map, ord |-> new.ord, free |-> new.free, bk |-> new.bk]
    BY <1>1, <1>a, StateUpdate
<1>11. new \in StateType
    BY <1>1, <1>8, <1>9, <1>10 DEF StateType
<1>12. SameOrders(os, st.ord)
    BY <1>0, <1>6, <1>8 DEF SameOrders
<1>13. ASSUME NEW t \in Side
       PROVE  SideOK(bk[t]) /\ LinksOK(t, bk[t], os, st.free)
  <2>1. SideOK(bk[t])
      BY <1>2, <1>5, <1>9
  <2>2. CASE t = s
    <3>1. ASSUME NEW i \in Indices, NEW x \in At(side, i)
          PROVE  x \notin st.free /\ os[x].side = s /\ os[x].level_idx = i
      <4>1. CASE x = o
          BY <4>1, <3>1, <1>0, <1>3, <1>5, <1>6, <1>8, <1>12 DEF SameOrders
      <4>2. CASE x # o
        <5>1. x \in At(sd, i) /\ x \in Slots
            BY <4>2, <3>1, <1>0, <1>5, LinkedSlots
        <5> QED BY <5>1, <4>2, <1>0, <1>8 DEF LinksOK
      <4> QED BY <4>1, <4>2
    <3> QED BY <2>1, <2>2, <3>1, <1>9 DEF LinksOK
  <2>3. CASE t # s
    <3>1. ASSUME NEW i \in Indices, NEW x \in At(st.bk[t], i)
          PROVE  x \notin st.free /\ os[x].side = t /\ os[x].level_idx = i
      <4>1. x \in Slots /\ x # o /\ x \notin st.free /\ st.ord[x].side = t /\ st.ord[x].level_idx = i
          BY <3>1, <1>2, <1>3, LinkedSlots DEF LinksOK
      <4>2. os[x] = st.ord[x]
          BY <4>1, <2>3, <1>0, <1>8
      <4> QED BY <4>1, <4>2
    <3> QED BY <2>1, <2>3, <3>1, <1>9 DEF LinksOK
  <2> QED BY <2>2, <2>3
<1>14. ASSUME NEW r \in Refs, st.map[r] # nullptr
       PROVE  LET x == st.map[r]
              IN  /\ x \notin st.free
                  /\ os[x].side \in Side
                  /\ os[x].level_idx >= 0 => x \in At(bk[os[x].side], os[x].level_idx)
  <2> DEFINE x == st.map[r]
  <2>1. /\ x \in Slots /\ x # o /\ x \notin st.free /\ st.ord[x].side \in Side
        /\ os[x] = ord[x] /\ ord[x].side = st.ord[x].side
      BY <1>0, <1>1, <1>3, <1>8, <1>14 DEF StateOK, MapOK, SameOrders
  <2>2. ASSUME ord[x].level_idx >= 0 PROVE x \in At(bk[ord[x].side], ord[x].level_idx)
    <3>1. ord[x].level_idx \in Indices
      <4>1. ord[x].level_idx \in Indices \cup {-1}
          BY <2>1, <1>0 DEF Order
      <4> QED BY <4>1, <2>2
    <3>2. CASE ord[x].side = s
      <4>1. x \in At(sd, ord[x].level_idx)
          BY <3>2, <2>2, <1>14 DEF Rebased
      <4> QED BY <4>1, <3>1, <3>2, <1>5, <1>9
    <3>3. CASE ord[x].side # s
      <4>1. ord[x] = st.ord[x]
          BY <3>3, <2>1, <1>0
      <4>2. x \in At(st.bk[ord[x].side], ord[x].level_idx)
          BY <4>1, <2>1, <2>2, <1>14 DEF StateOK, MapOK
      <4> QED BY <4>2, <3>3, <2>1, <1>9
    <3> QED BY <3>2, <3>3
  <2> QED BY <2>1, <2>2
<1>15. MapOK(new)
    BY <1>10, <1>14 DEF StateOK, MapOK
<1>16. StateOK(new)
    BY <1>10, <1>11, <1>13, <1>15 DEF StateOK
<1>17. Ready(new, s, o)
    BY <1>3, <1>5, <1>6, <1>8, <1>9, <1>10, <1>12 DEF Ready, SameOrders
<1> QED BY <1>10, <1>12, <1>16, <1>17 DEF Placed, new

(* Re-indexing a side moves its mapped orders and touches nothing else. *)
LEMMA ReindexedOK ==
    ASSUME NEW s \in Side, NEW p \in Prices, NEW ord \in [Slots -> Order], NEW mapped
    PROVE  LET new == Reindexed(s, p, ord, mapped)
           IN  /\ new \in [Slots -> Order]
               /\ SameOrders(new, ord)
               /\ \A x \in Slots : ~(x \in mapped /\ ord[x].side = s) => new[x] = ord[x]
<1> DEFINE new == Reindexed(s, p, ord, mapped)
<1>1. ASSUME NEW x \in Slots
      PROVE  /\ new[x] \in Order
             /\ new[x].side = ord[x].side /\ new[x].price = ord[x].price
             /\ new[x].shares = ord[x].shares
             /\ ~(x \in mapped /\ ord[x].side = s) => new[x] = ord[x]
  <2>1. ord[x] \in Order
      OBVIOUS
  <2>2. CASE x \in mapped /\ ord[x].side = s
    <3> DEFINE j == IF PriceIdx(s, p, ord[x].price) \in Indices
                    THEN PriceIdx(s, p, ord[x].price) ELSE -1
    <3>1. new[x] = [ord[x] EXCEPT !.level_idx = j]
        BY <2>2 DEF Reindexed
    <3>2. j \in Indices \cup {-1}
        OBVIOUS
    <3> HIDE DEF j, new
    <3> QED BY <2>1, <2>2, <3>1, <3>2 DEF Order
  <2>3. CASE ~(x \in mapped /\ ord[x].side = s)
      BY <2>1, <2>3 DEF Reindexed
  <2> QED BY <2>2, <2>3
<1>2. new = [x \in Slots |-> new[x]]
    BY DEF Reindexed
<1> HIDE DEF new
<1>3. new \in [Slots -> Order]
    BY <1>1, <1>2
<1> QED BY <1>1, <1>3 DEF SameOrders, new

(* insert_order links a pending order, with or without a recentre. *)
LEMMA InsertOrderOK ==
    ASSUME NEW st, StateOK(st), NEW s, NEW o, Pending(st, s, o), NEW new \in insert_order(st, s, o)
    PROVE  Placed(new, st, s, o)
<1> DEFINE sd     == st.bk[s]
           price  == st.ord[o].price
           ref    == IF sd.ref = 0 THEN price ELSE sd.ref
           idx    == PriceIdx(s, ref, price)
           mapped == Mapped(st.map)
           moved  == Reindexed(s, price, st.ord, mapped)
           at     == [sd EXCEPT !.ref = ref]
<1>1. /\ st.map \in [Refs -> Slots \cup {nullptr}] /\ st.ord \in [Slots -> Order]
      /\ st.free \in SUBSET Slots /\ st.bk \in [Side -> SideType]
    BY DEF StateOK, StateType
<1>2. \A t \in Side : SideOK(st.bk[t]) /\ LinksOK(t, st.bk[t], st.ord, st.free)
    BY DEF StateOK
<1>3. /\ o \in Slots /\ s \in Side /\ price \in Prices
      /\ \A r \in Refs : st.map[r] # o
      /\ \A t \in Side, i \in Indices : o \notin At(st.bk[t], i)
    BY DEF Pending
<1>4. CASE idx \in Indices
  <2>1. new = Inserted(st, s, o, at, st.ord, idx)
      BY <1>4 DEF insert_order, Inserted
  <2>2. SideOK(at) /\ \A i \in Indices : At(at, i) = At(sd, i)
    <3>1. sd \in SideType /\ ref \in Prices \cup {0}
        BY <1>1, <1>3 DEF SideType
    <3> HIDE DEF ref, sd
    <3>2. at \in SideType /\ at.best = sd.best /\ at.levels = sd.levels
        BY <3>1 DEF SideType
    <3>3. SideOK(sd)
        BY <1>2, <1>3 DEF sd
    <3> HIDE DEF at
    <3> QED BY <3>2, <3>3 DEF SideOK, LevelsOK, BestOK, At
  <2> HIDE DEF at, idx
  <2>3. /\ LinksOK(s, at, st.ord, st.free)
        /\ \A i \in Indices : o \notin At(at, i)
      BY <2>2, <1>2, <1>3 DEF LinksOK
  <2>4. SameOrders(st.ord, st.ord)
      BY DEF SameOrders
  <2>5. ASSUME NEW r \in Refs, st.map[r] # nullptr, st.ord[st.map[r]].side = s,
               st.ord[st.map[r]].level_idx >= 0
        PROVE  st.map[r] \in At(at, st.ord[st.map[r]].level_idx)
      BY <2>5, <2>2, LiveOrder
  <2>6. \A x \in Slots : st.ord[x].side # s => st.ord[x] = st.ord[x]
      OBVIOUS
  <2>7. Rebased(st, s, o, at, st.ord)
      BY <2>2, <2>3, <2>4, <2>5, <2>6, <1>1 DEF Rebased
  <2> QED BY <2>1, <2>7, <1>4, LinkOK
<1>5. CASE idx \notin Indices
  <2>1. PICK side \in recentre(s, price, moved, mapped) :
            new = Inserted(st, s, o, side, moved, 0)
      BY <1>5 DEF insert_order, Inserted
  <2>2. mapped \in SUBSET Slots /\ o \notin mapped /\ mapped \cap st.free = {}
    <3>1. \A x \in mapped : \E r \in Refs : x = st.map[r] /\ x # nullptr
        BY DEF Mapped
    <3> QED BY <3>1, <1>1, <1>3 DEF StateOK, MapOK
  <2>3. /\ moved \in [Slots -> Order] /\ SameOrders(moved, st.ord)
        /\ \A x \in Slots : ~(x \in mapped /\ st.ord[x].side = s) => moved[x] = st.ord[x]
      BY <1>1, <1>3, ReindexedOK
  <2>4. \A r \in Refs : st.map[r] # nullptr => st.map[r] \in mapped
      BY DEF Mapped
  <2> HIDE DEF moved, mapped, idx
  <2>5. SideOK(side) /\ \A i \in Indices : At(side, i) = OrdersAt(s, moved, mapped, i)
      BY <1>3, <2>1, <2>2, <2>3, RecentreOK
  <2>6. LinksOK(s, side, moved, st.free) /\ \A i \in Indices : o \notin At(side, i)
      BY <2>2, <2>5 DEF LinksOK, OrdersAt
  <2>7. ASSUME NEW r \in Refs, st.map[r] # nullptr, moved[st.map[r]].side = s,
               moved[st.map[r]].level_idx >= 0
        PROVE  st.map[r] \in At(side, moved[st.map[r]].level_idx)
    <3>1. st.map[r] \in mapped /\ st.map[r] \in Slots
        BY <2>2, <2>4, <2>7
    <3>2. moved[st.map[r]].level_idx \in Indices \cup {-1}
        BY <3>1, <2>3 DEF Order
    <3>3. moved[st.map[r]].level_idx \in Indices
        BY <3>2, <2>7
    <3> QED BY <3>1, <3>3, <2>5, <2>7 DEF OrdersAt
  <2>8. 0 \in Indices
      BY IndicesNat
  <2>9. \A x \in Slots : st.ord[x].side # s => moved[x] = st.ord[x]
      BY <2>3
  <2>10. Rebased(st, s, o, side, moved)
      BY <2>3, <2>5, <2>6, <2>7, <2>9 DEF Rebased
  <2> QED BY <2>1, <2>8, <2>10, LinkOK
<1> QED BY <1>4, <1>5

(* An add or the second half of a replace: allocate, fill, link, map. *)
LEMMA PlaceOrderOK ==
    ASSUME NEW st, StateOK(st), NEW r \in Refs, NEW s \in Side, NEW shares \in Quantities,
           NEW price \in Prices, NEW new \in place_order(st, r, s, shares, price)
    PROVE  StateOK(new)
<1>1. PICK o \in st.free :
        \E n \in insert_order(make_order(st, o, shares, price, s), s, o) :
            new = [n EXCEPT !.map = [st.map EXCEPT ![r] = o]]
    BY DEF place_order
<1>2. PICK n \in insert_order(make_order(st, o, shares, price, s), s, o) :
            new = [n EXCEPT !.map = [st.map EXCEPT ![r] = o]]
    BY <1>1
<1> DEFINE mk == make_order(st, o, shares, price, s)
<1>3. StateOK(mk) /\ Pending(mk, s, o) /\ mk.map = st.map
    BY MakeOrderOK
<1> HIDE DEF mk
<1>4. StateOK(n) /\ Ready(n, s, o) /\ n.map = st.map
    BY <1>2, <1>3, InsertOrderOK DEF mk, Placed
<1> DEFINE m == [st.map EXCEPT ![r] = o]
<1>5. /\ n.map \in [Refs -> Slots \cup {nullptr}]
      /\ n = [map |-> n.map, ord |-> n.ord, free |-> n.free, bk |-> n.bk]
    BY <1>4 DEF StateOK, StateType
<1>6. m \in [Refs -> Slots \cup {nullptr}] /\ \A q \in Refs : m[q] = IF q = r THEN o ELSE n.map[q]
    BY <1>4, <1>5 DEF Ready
<1>7. new = [n EXCEPT !.map = m]
    BY <1>2
<1> HIDE DEF m
<1>8. /\ new.map = m /\ new.ord = n.ord /\ new.free = n.free /\ new.bk = n.bk
      /\ new = [map |-> new.map, ord |-> new.ord, free |-> new.free, bk |-> new.bk]
    BY <1>5, <1>7
<1>9. new \in StateType
    BY <1>4, <1>6, <1>8 DEF StateOK, StateType
<1>10. MapOK(new)
  <2>1. ASSUME NEW q \in Refs, NEW u \in Refs, m[q] # nullptr, m[q] = m[u] PROVE q = u
      BY <2>1, <1>4, <1>6 DEF StateOK, MapOK, Ready
  <2>2. ASSUME NEW q \in Refs, m[q] # nullptr
        PROVE  LET x == m[q]
               IN  /\ x \notin n.free
                   /\ n.ord[x].side \in Side
                   /\ n.ord[x].level_idx >= 0 => x \in At(n.bk[n.ord[x].side], n.ord[x].level_idx)
    <3>1. CASE q = r
        BY <3>1, <1>4, <1>6 DEF Ready
    <3>2. CASE q # r
        BY <3>2, <2>2, <1>4, <1>6 DEF StateOK, MapOK
    <3> QED BY <3>1, <3>2
  <2> QED BY <2>1, <2>2, <1>8 DEF MapOK
<1> QED BY <1>4, <1>8, <1>9, <1>10 DEF StateOK

-----------------------------------------------------------------------------
(* The initial book, and the one a halt leaves, are sound. *)
LEMMA EmptyOK ==
    ASSUME NEW st, st.map = [r \in Refs |-> nullptr], st.ord = [o \in Slots |-> BlankOrder],
           st.free = Slots,
           st = [map |-> st.map, ord |-> st.ord, free |-> st.free, bk |-> st.bk],
           st.bk \in [Side -> [ref : Prices \cup {0}, best : {-1},
                               levels : {[i \in Indices |-> EmptyLevel]}]]
    PROVE  StateOK(st)
<1>1. BlankOrder \in Order
    BY WidthAssumption DEF BlankOrder, Order
<1>2. LevelOK(EmptyLevel, Slots) /\ Range(EmptyLevel.fifo) = {} /\ EmptyLevel \in Level(Slots)
    BY LevelEmptyOK DEF LevelOK
<1>3. level_empty(EmptyLevel)
    BY DEF level_empty, EmptyLevel
<1> HIDE DEF EmptyLevel
<1>4. ASSUME NEW s \in Side
      PROVE  /\ st.bk[s] \in SideType /\ st.bk[s].best = -1
             /\ \A i \in Indices : st.bk[s].levels[i] = EmptyLevel
  <2>1. /\ st.bk[s].ref \in Prices \cup {0} /\ st.bk[s].best = -1
        /\ st.bk[s].levels = [i \in Indices |-> EmptyLevel]
        /\ st.bk[s] = [ref |-> st.bk[s].ref, best |-> st.bk[s].best, levels |-> st.bk[s].levels]
      OBVIOUS
  <2>2. [i \in Indices |-> EmptyLevel] \in [Indices -> Level(Slots)]
      BY <1>2
  <2> QED BY <2>1, <2>2 DEF SideType
<1>5. st \in StateType
    BY <1>1, <1>4 DEF StateType
<1>6. \A s \in Side : SideOK(st.bk[s]) /\ LinksOK(s, st.bk[s], st.ord, st.free)
    BY <1>2, <1>3, <1>4 DEF SideOK, LevelsOK, BestOK, LinksOK, At
<1>7. MapOK(st)
    BY DEF MapOK
<1> QED BY <1>5, <1>6, <1>7 DEF StateOK

(* A handler that ends in a sound state ends in a sound book. *)
LEMMA BecomesOK ==
    ASSUME NEW st, StateOK(st), Becomes(st)
    PROVE  StateOK(Here)' /\ fault' = fault
<1>1. st = [map |-> st.map, ord |-> st.ord, free |-> st.free, bk |-> st.bk]
    BY DEF StateOK, StateType
<1>2. Here' = st /\ fault' = fault
    BY <1>1 DEF Becomes, Here
<1> QED BY <1>2

(* The fields of the current state's record. *)
LEMMA HereFields ==
    Here.map = order_map_ /\ Here.ord = pool_ /\ Here.free = free_list /\ Here.bk = book
BY DEF Here

(* The constructor establishes the invariant. *)
LEMMA InitOK == Init => IndInv
<1> SUFFICES ASSUME Init PROVE IndInv
    OBVIOUS
<1>1. book \in [Side -> [ref : Prices \cup {0}, best : {-1},
                         levels : {[i \in Indices |-> EmptyLevel]}]]
    BY DEF Init, EmptySide
<1>2. StateOK(Here)
    BY <1>1, EmptyOK DEF Here, Init
<1> QED BY <1>2 DEF IndInv, Init

(* No fault was found, so the order has a level index. *)
LEMMA NoFaultIdx ==
    ASSUME NEW st, StateOK(st), NEW r \in Refs, st.map[r] # nullptr,
           \/ remove_fault(st, r) = "none"
           \/ \E qty \in Quantities : reduce_fault(st, r, qty) = "none"
    PROVE  st.ord[st.map[r]].level_idx >= 0
<1>1. ~(st.ord[st.map[r]].level_idx < 0)
    BY DEF remove_fault, reduce_fault
<1>2. st.map[r] \in Slots /\ st.ord[st.map[r]] \in Order
    BY DEF StateOK, StateType
<1>3. st.ord[st.map[r]].level_idx \in Int
  <2>1. st.ord[st.map[r]].level_idx \in Indices \cup {-1}
      BY <1>2 DEF Order
  <2> QED BY <2>1, BookAssumption DEF Indices
<1> QED BY <1>1, <1>3

(* The reasons a handler may stop for. *)
LEMMA FaultNames ==
    ASSUME NEW st, NEW r, NEW qty
    PROVE  /\ remove_fault(st, r) \in {"none", "level_idx", "quantity"}
           /\ reduce_fault(st, r, qty) \in {"none", "level_idx", "quantity"}
BY DEF remove_fault, reduce_fault

(* Every step of the book preserves the invariant, whatever the feed sends. *)
LEMMA NextOK == IndInv /\ [Next]_vars => IndInv'
<1> SUFFICES ASSUME IndInv, [Next]_vars PROVE IndInv'
    OBVIOUS
<1>0. /\ StateOK(Here) /\ is_open_ \in BOOLEAN
      /\ fault \in {"none", "pool", "level_idx", "quantity"}
    BY DEF IndInv
<1>a. ASSUME UNCHANGED vars PROVE IndInv'
  <2>1. Here' = Here /\ is_open_' = is_open_ /\ fault' = fault
      BY <1>a DEF vars, Here
  <2> QED BY <2>1, <1>0 DEF IndInv
<1>b. ASSUME NEW st, StateOK(st), Becomes(st), is_open_' \in BOOLEAN PROVE IndInv'
    BY <1>b, <1>0, BecomesOK DEF IndInv
<1>c. ASSUME NEW f \in {"pool", "level_idx", "quantity"}, Abort(f) PROVE IndInv'
  <2>1. Here' = Here /\ is_open_' = is_open_ /\ fault' = f
      BY <1>c DEF Abort, Here
  <2> QED BY <2>1, <1>0 DEF IndInv
<1>1. ASSUME NEW code, OnSystemEvent(code) PROVE IndInv'
  <2>1. CASE is_open_' \in BOOLEAN /\ Becomes(Here)
      BY <2>1, <1>0, <1>b
  <2>2. CASE Halt
    <3>1. book' \in [Side -> [ref : Prices \cup {0}, best : {-1},
                              levels : {[i \in Indices |-> EmptyLevel]}]]
      <4>1. \A s \in Side : book[s].ref \in Prices \cup {0}
          BY <1>0, HereFields DEF StateOK, StateType, SideType
      <4>2. book' = [s \in Side |-> [EmptySide EXCEPT !.ref = book[s].ref]]
          BY <2>2 DEF Halt
      <4>3. ASSUME NEW s \in Side
            PROVE  [EmptySide EXCEPT !.ref = book[s].ref] \in
                     [ref : Prices \cup {0}, best : {-1}, levels : {[i \in Indices |-> EmptyLevel]}]
          BY <4>1 DEF EmptySide
      <4> QED BY <4>2, <4>3
    <3>2. StateOK(Here')
        BY <3>1, <2>2, EmptyOK DEF Here, Halt
    <3> QED BY <3>2, <2>2, <1>0 DEF IndInv, Halt
  <2>3. CASE UNCHANGED vars
      BY <2>3, <1>a
  <2> QED BY <1>1, <2>1, <2>2, <2>3 DEF OnSystemEvent
<1>2. ASSUME NEW r \in Refs, NEW s \in Side, NEW q \in Quantities, NEW p \in Prices,
             OnAdd(r, s, q, p)
      PROVE  IndInv'
  <2>1. CASE UNCHANGED vars
      BY <2>1, <1>a
  <2>2. CASE Abort("pool")
      BY <2>2, <1>c
  <2>3. CASE (\E st \in place_order(Here, r, s, q, p) : Becomes(st)) /\ UNCHANGED is_open_
    <3>1. PICK st \in place_order(Here, r, s, q, p) : Becomes(st)
        BY <2>3
    <3>2. StateOK(st)
        BY <3>1, <1>0, PlaceOrderOK
    <3> QED BY <3>1, <3>2, <2>3, <1>0, <1>b
  <2> QED BY <1>2, <2>1, <2>2, <2>3 DEF OnAdd
<1>3. ASSUME NEW r \in Refs, NEW q \in Quantities, TakeShares(r, q) PROVE IndInv'
  <2>1. CASE UNCHANGED vars
      BY <2>1, <1>a
  <2>2. CASE reduce_fault(Here, r, q) # "none" /\ Abort(reduce_fault(Here, r, q))
      BY <2>2, <1>c, FaultNames
  <2>3. CASE /\ order_map_[r] # nullptr /\ reduce_fault(Here, r, q) = "none"
             /\ LET left == reduce_shares(Here, r, q)
                IN  Becomes(IF left.ord[order_map_[r]].shares = 0
                            THEN withdraw_order(left, r) ELSE left)
             /\ UNCHANGED is_open_
    <3> DEFINE left == reduce_shares(Here, r, q)
    <3>1. Here.map[r] # nullptr /\ Here.ord[Here.map[r]].level_idx >= 0
        BY <2>3, <1>0, HereFields, NoFaultIdx
    <3>2. /\ StateOK(left) /\ left.map = Here.map
          /\ left.ord = [Here.ord EXCEPT ![Here.map[r]].shares = SubW(@, q, W32)]
        BY <3>1, <1>0, ReduceOK
    <3>3. left.ord[left.map[r]].level_idx >= 0
      <4>1. Here.ord \in [Slots -> Order] /\ Here.map[r] \in Slots
          BY <3>1, <1>0 DEF StateOK, StateType
      <4> HIDE DEF left
      <4> QED BY <4>1, <3>1, <3>2 DEF Order
    <3>4. StateOK(withdraw_order(left, r))
        BY <3>1, <3>2, <3>3, WithdrawOK
    <3> HIDE DEF left
    <3>5. is_open_' \in BOOLEAN
        BY <2>3, <1>0
    <3>6. CASE left.ord[order_map_[r]].shares = 0
      <4>1. Becomes(withdraw_order(left, r))
          BY <2>3, <3>6 DEF left
      <4> QED BY <4>1, <3>4, <3>5, <1>b
    <3>7. CASE left.ord[order_map_[r]].shares # 0
      <4>1. Becomes(left)
          BY <2>3, <3>7 DEF left
      <4> QED BY <4>1, <3>2, <3>5, <1>b
    <3> QED BY <3>6, <3>7
  <2> QED BY <1>3, <2>1, <2>2, <2>3 DEF TakeShares
<1>4. ASSUME NEW r \in Refs, OnDelete(r) PROVE IndInv'
  <2>1. CASE UNCHANGED vars
      BY <2>1, <1>a
  <2>2. CASE remove_fault(Here, r) # "none" /\ Abort(remove_fault(Here, r))
      BY <2>2, <1>c, FaultNames
  <2>3. CASE /\ order_map_[r] # nullptr /\ remove_fault(Here, r) = "none"
             /\ Becomes(withdraw_order(Here, r)) /\ UNCHANGED is_open_
    <3>1. Here.map[r] # nullptr /\ Here.ord[Here.map[r]].level_idx >= 0
        BY <2>3, <1>0, HereFields, NoFaultIdx
    <3>2. StateOK(withdraw_order(Here, r))
        BY <3>1, <1>0, WithdrawOK
    <3> QED BY <3>2, <2>3, <1>0, <1>b
  <2> QED BY <1>4, <2>1, <2>2, <2>3 DEF OnDelete
<1>5. ASSUME NEW old \in Refs, NEW new \in Refs, NEW q \in Quantities, NEW p \in Prices,
             OnReplace(old, new, q, p)
      PROVE  IndInv'
  <2>1. CASE UNCHANGED vars
      BY <2>1, <1>a
  <2>2. CASE remove_fault(Here, old) # "none" /\ Abort(remove_fault(Here, old))
      BY <2>2, <1>c, FaultNames
  <2>3. CASE /\ order_map_[old] # nullptr /\ remove_fault(Here, old) = "none"
             /\ \E st \in place_order(withdraw_order(Here, old), new,
                                      pool_[order_map_[old]].side, q, p) : Becomes(st)
             /\ UNCHANGED is_open_
    <3> DEFINE s == pool_[order_map_[old]].side
               w == withdraw_order(Here, old)
    <3>1. Here.map[old] # nullptr /\ Here.ord[Here.map[old]].level_idx >= 0
        BY <2>3, <1>0, HereFields, NoFaultIdx
    <3>2. StateOK(w)
        BY <3>1, <1>0, WithdrawOK
    <3>3. s \in Side
        BY <3>1, <1>0, HereFields, LiveOrder
    <3>4. PICK st \in place_order(w, new, s, q, p) : Becomes(st)
        BY <2>3
    <3> HIDE DEF w, s
    <3>5. StateOK(st)
        BY <3>2, <3>3, <3>4, PlaceOrderOK
    <3> QED BY <3>4, <3>5, <2>3, <1>0, <1>b
  <2> QED BY <1>5, <2>1, <2>2, <2>3 DEF OnReplace
<1>6. CASE Next
    BY <1>6, <1>1, <1>2, <1>3, <1>4, <1>5
    DEF Next, OnAddMPID, OnExecute, OnExecuteWithPrice, OnCancel
<1> QED BY <1>6, <1>a

(* The inductive invariant holds in every reachable state. *)
THEOREM Invariance == Spec => []IndInv
<1> QED BY InitOK, NextOK, PTL DEF Spec

(***************************************************************************)
(* Whatever the feed sends, every field keeps its C++ type: no index       *)
(* leaves the level arrays and no counter leaves its width.                *)
(***************************************************************************)
THEOREM TypeCorrect == Spec => []TypeOK
<1>1. IndInv => TypeOK
    BY HereFields DEF IndInv, StateOK, StateType, SideType, TypeOK
<1> QED BY <1>1, Invariance, PTL

(***************************************************************************)
(* Whatever the feed sends, no reference of the map and no link of a level *)
(* dangles: none points at a freed slot or at another reference's order.   *)
(***************************************************************************)
THEOREM MemorySafety == Spec => []MemorySafe
<1>1. ASSUME IndInv PROVE MemorySafe
  <2>1. StateOK(Here) /\ Here.map = order_map_ /\ Here.ord = pool_ /\ Here.free = free_list
        /\ Here.bk = book
      BY <1>1, HereFields DEF IndInv
  <2>2. \A s \in Side, i \in Indices : Linked(s, i) = At(book[s], i)
      BY DEF Linked, At
  <2>3. MapSound
      BY <2>1 DEF StateOK, MapOK, MapSound, live
  <2>4. ASSUME NEW s \in Side, NEW i \in Indices
        PROVE  /\ IsInjective(book[s].levels[i].fifo)
               /\ \A o \in Linked(s, i) :
                     o \notin free_list /\ pool_[o].side = s /\ pool_[o].level_idx = i
      BY <2>1, <2>2 DEF StateOK, SideOK, LevelsOK, LevelOK, LinksOK
  <2>5. ASSUME NEW r \in live, pool_[order_map_[r]].level_idx >= 0
        PROVE  order_map_[r] \in Linked(pool_[order_map_[r]].side, pool_[order_map_[r]].level_idx)
    <3>1. r \in Refs /\ Here.map[r] # nullptr
        BY <2>1 DEF live
    <3> QED BY <3>1, <2>1, <2>2, <2>5, LiveOrder
  <2> QED BY <2>3, <2>4, <2>5 DEF MemorySafe, LinksSound
<1> QED BY <1>1, Invariance, PTL

(***************************************************************************)
(* Whatever the feed sends, the cached best index of each side is the      *)
(* first level with an order in it, or -1 when the side's levels are bare. *)
(***************************************************************************)
THEOREM BestIndexCorrect == Spec => []BestIsFirst
<1>1. ASSUME IndInv PROVE BestIsFirst
  <2> SUFFICES ASSUME NEW s \in Side
               PROVE  book[s].best = LeastOrNone({i \in Indices : book[s].levels[i].fifo # <<>>})
      BY DEF BestIsFirst
  <2> DEFINE T == {i \in Indices : book[s].levels[i].fifo # <<>>}
             sd == book[s]
  <2>1. SideOK(sd)
      BY <1>1, HereFields DEF IndInv, StateOK
  <2>2. \A i \in Indices : i \in T <=> ~level_empty(sd.levels[i])
      BY <2>1, LevelEmpty DEF SideOK, LevelsOK
  <2>3. T \subseteq Indices /\ T \in SUBSET Nat
      BY IndicesNat
  <2> HIDE DEF T, sd
  <2>4. CASE sd.best = -1 /\ \A i \in Indices : level_empty(sd.levels[i])
    <3>1. T = {}
        BY <2>2, <2>3, <2>4
    <3> QED BY <3>1, <2>4 DEF LeastOrNone, T, sd
  <2>5. CASE /\ sd.best \in Indices
             /\ ~level_empty(sd.levels[sd.best])
             /\ \A i \in Indices : i < sd.best => level_empty(sd.levels[i])
    <3>1. sd.best \in T
        BY <2>2, <2>5
    <3>2. ASSUME NEW j \in T PROVE sd.best <= j
      <4>1. j \in Indices /\ ~level_empty(sd.levels[j]) /\ j \in Nat /\ sd.best \in Nat
          BY <2>2, <2>3, <3>1
      <4> QED BY <4>1, <2>5
    <3>3. Least(T) = sd.best
        BY <3>1, <3>2, <2>3, LeastUnique
    <3> QED BY <3>1, <3>3 DEF LeastOrNone, T, sd
  <2> QED BY <2>1, <2>4, <2>5 DEF SideOK, BestOK
<1> QED BY <1>1, Invariance, PTL

-----------------------------------------------------------------------------
(***************************************************************************)
(* From here on: what every handler does to the book, in full, and the     *)
(* first property that needs it: the quantity a level reports is the sum   *)
(* of the shares queued there, for every feed and for both builds.         *)
(***************************************************************************)

(***************************************************************************)
(* Arithmetic modulo W32.  Two integers are congruent when they differ by  *)
(* a multiple of W32; the inductive proofs use this form, without %.       *)
(***************************************************************************)
Congruent(a, b) == \E k \in Int : a = b + k * W32

(* An integer is its quotient and its remainder. *)
LEMMA Euclid ==
    ASSUME NEW n \in Nat \ {0}, NEW a \in Int
    PROVE  a \div n \in Int /\ a % n \in 0 .. n - 1 /\ a = n * (a \div n) + (a % n)
OBVIOUS

(* A multiple of n that is smaller than n either way is zero. *)
LEMMA SmallMultiple ==
    ASSUME NEW n \in Nat \ {0}, NEW t \in Int, n * t < n, -n < n * t
    PROVE  t = 0
<1>1. t > 0 => n * t >= n
    OBVIOUS
<1>2. t < 0 => n * t <= -n
    OBVIOUS
<1> QED BY <1>1, <1>2

(* Congruent integers have the same remainder. *)
LEMMA CongruentMod ==
    ASSUME NEW a \in Int, NEW b \in Int, Congruent(a, b)
    PROVE  a % W32 = b % W32
<1>1. PICK k \in Int : a = b + k * W32
    BY DEF Congruent
<1> DEFINE x == a \div W32
           y == b \div W32
           v == a % W32
           w == b % W32
<1>2. W32 \in Nat \ {0}
    BY WidthAssumption
<1>3. x \in Int /\ v \in 0 .. W32 - 1 /\ a = W32 * x + v
    BY <1>2, Euclid
<1>4. y \in Int /\ w \in 0 .. W32 - 1 /\ b = W32 * y + w
    BY <1>2, Euclid
<1> HIDE DEF x, y, v, w
<1>5. x - y - k \in Int /\ W32 * (x - y - k) = w - v
  <2>1. W32 * x + v = W32 * y + w + k * W32
      BY <1>1, <1>3, <1>4
  <2>2. W32 * (x - y - k) = W32 * x - W32 * y - k * W32
      BY <1>2, <1>3, <1>4
  <2>3. W32 * x \in Int /\ W32 * y \in Int /\ k * W32 \in Int
      BY <1>2, <1>3, <1>4
  <2> QED BY <2>1, <2>2, <2>3, <1>3, <1>4
<1>6. W32 * (x - y - k) < W32 /\ -W32 < W32 * (x - y - k)
    BY <1>2, <1>3, <1>4, <1>5
<1>7. x - y - k = 0
    BY <1>2, <1>5, <1>6, SmallMultiple
<1>8. w - v = 0
    BY <1>2, <1>5, <1>7
<1> QED BY <1>3, <1>4, <1>8 DEF v, w

(* Congruence survives what the 64-bit counter and the sum do alike. *)
LEMMA CongruentShift ==
    ASSUME NEW a \in Int, NEW b \in Int, NEW c \in Int, Congruent(a, b)
    PROVE  /\ Congruent(a + c, b + c)
           /\ Congruent(a + c - W64, b + c)
           /\ Congruent(a + c + W64, b + c)
           /\ Congruent(a + c, b + c + W32)
           /\ Congruent(a + c + W64, b + c + W32)
<1>1. PICK k \in Int : a = b + k * W32
    BY DEF Congruent
<1> DEFINE m == W64 \div W32
<1>2. m \in Int /\ W64 = W32 * m
  <2>1. W32 \in Nat \ {0} /\ W64 \in Int /\ W64 % W32 = 0
      BY WidthAssumption
  <2> QED BY <2>1, Euclid
<1> HIDE DEF m
<1>3. W32 \in Int
    BY WidthAssumption
<1>4. a + c = b + c + k * W32
    BY <1>1, <1>3
<1>5. a + c - W64 = b + c + (k - m) * W32
    BY <1>1, <1>2, <1>3
<1>6. a + c + W64 = b + c + (k + m) * W32
    BY <1>1, <1>2, <1>3
<1>7. a + c = b + c + W32 + (k - 1) * W32
    BY <1>1, <1>2, <1>3
<1>8. a + c + W64 = b + c + W32 + (k + m - 1) * W32
    BY <1>1, <1>2, <1>3
<1>9. k - m \in Int /\ k + m \in Int /\ k - 1 \in Int /\ k + m - 1 \in Int
    BY <1>2
<1> QED BY <1>4, <1>5, <1>6, <1>7, <1>8, <1>9, Zenon DEF Congruent

-----------------------------------------------------------------------------
(* Sums of shares: no order, one more order, the same shares. *)
LEMMA SharesNone ==
    ASSUME NEW ord
    PROVE  SharesOf({}, ord) = 0
<1>1. ShareUnits({}, ord) = {}
    BY DEF ShareUnits
<1> QED BY <1>1, FS_EmptySet DEF SharesOf

LEMMA SharesSame ==
    ASSUME NEW S, NEW a, NEW b, \A x \in S : a[x].shares = b[x].shares
    PROVE  SharesOf(S, a) = SharesOf(S, b)
<1>1. ShareUnits(S, a) = ShareUnits(S, b)
    BY DEF ShareUnits
<1> QED BY <1>1 DEF SharesOf

LEMMA SharesAdd ==
    ASSUME NEW S \in SUBSET Slots, NEW ord \in [Slots -> Order], NEW o \in Slots, o \notin S
    PROVE  SharesOf(S \cup {o}, ord) = SharesOf(S, ord) + ord[o].shares
<1> DEFINE n == ord[o].shares
           U == ShareUnits(S, ord)
           I == 1 .. n
           V == {o} \X I
<1>1. n \in Nat /\ n <= W32
    BY WidthAssumption DEF Order
<1>2. ShareUnits(S \cup {o}, ord) = U \cup V
  <2>1. ASSUME NEW u \in ShareUnits(S \cup {o}, ord) PROVE u \in U \cup V
      BY <2>1, <1>1, WidthAssumption DEF ShareUnits
  <2>2. ASSUME NEW u \in U \cup V PROVE u \in ShareUnits(S \cup {o}, ord)
      BY <2>2, <1>1, WidthAssumption DEF ShareUnits
  <2> QED BY <2>1, <2>2
<1>3. U \cap V = {}
    BY DEF ShareUnits
<1>4. IsFiniteSet(U) /\ Cardinality(U) \in Nat
    BY SharesFit, FS_CardinalityType
<1> HIDE DEF n, U
<1>5. IsFiniteSet(I) /\ Cardinality(I) = n
    BY <1>1, FS_Interval
<1> HIDE DEF I
<1>6. IsFiniteSet(V) /\ Cardinality(V) = n
  <2>1. IsFiniteSet({o}) /\ Cardinality({o}) = 1
      BY FS_Singleton
  <2>2. IsFiniteSet(V) /\ Cardinality(V) = Cardinality({o}) * Cardinality(I)
      BY <2>1, <1>5, FS_Product
  <2> HIDE DEF V
  <2> QED BY <2>1, <2>2, <1>1, <1>5
<1> HIDE DEF V
<1>7. Cardinality(U \cup V) = Cardinality(U) + Cardinality(V) - Cardinality(U \cap V)
    BY <1>4, <1>6, FS_Union
<1>8. Cardinality(U \cap V) = 0
    BY <1>3, FS_EmptySet
<1>9. Cardinality(U \cup V) = Cardinality(U) + n
    BY <1>1, <1>4, <1>6, <1>7, <1>8
<1> QED BY <1>2, <1>9 DEF SharesOf, n, U

LEMMA SharesRemove ==
    ASSUME NEW S \in SUBSET Slots, NEW ord \in [Slots -> Order], NEW o \in S
    PROVE  SharesOf(S, ord) = SharesOf(S \ {o}, ord) + ord[o].shares
<1>1. S \ {o} \in SUBSET Slots /\ o \in Slots /\ o \notin S \ {o} /\ (S \ {o}) \cup {o} = S
    OBVIOUS
<1>2. SharesOf((S \ {o}) \cup {o}, ord) = SharesOf(S \ {o}, ord) + ord[o].shares
    BY <1>1, SharesAdd
<1> QED BY <1>1, <1>2

-----------------------------------------------------------------------------
(* No share is ever taken twice: the feed or an assertion forbids it. *)
Exact == Conforming \/ ~NDEBUG

(* A level's quantity is the sum of its orders' shares, up to wrapping. *)
LevelSum(lvl, ord) ==
    LET sum == SharesOf(Range(lvl.fifo), ord)
    IN  Congruent(lvl.total_qty, sum) /\ (Exact => lvl.total_qty = sum)

(* What the lemmas below need of a level. *)
LEMMA LevelFacts ==
    ASSUME NEW lvl, LevelOK(lvl, Slots), NEW ord \in [Slots -> Order]
    PROVE  /\ Range(lvl.fifo) \in SUBSET Slots
           /\ lvl.total_qty \in 0 .. W64 - 1
           /\ SharesOf(Range(lvl.fifo), ord) \in 0 .. W64 - 1
<1>1. lvl.fifo \in Seq(Slots) /\ lvl.total_qty \in 0 .. W64 - 1
    BY DEF LevelOK, Level
<1>2. Range(lvl.fifo) \in SUBSET Slots
    BY <1>1, LenProperties DEF Range
<1> QED BY <1>1, <1>2, SharesFit

(* An empty level sums to nothing. *)
LEMMA EmptySum ==
    ASSUME NEW ord
    PROVE  LevelSum(EmptyLevel, ord)
<1>1. SharesOf(Range(EmptyLevel.fifo), ord) = 0 /\ EmptyLevel.total_qty = 0
    BY LevelEmptyOK, SharesNone DEF EmptyLevel
<1>2. Congruent(0, 0)
  <2>1. 0 = 0 + 0 * W32 /\ 0 \in Int
      BY WidthAssumption
  <2> QED BY <2>1 DEF Congruent
<1> QED BY <1>1, <1>2 DEF LevelSum

(* add_order links its order and keeps the level sound. *)
LEMMA AddRange ==
    ASSUME NEW lvl, LevelOK(lvl, Slots), NEW o \in Slots, o \notin Range(lvl.fifo),
           NEW shares \in 0 .. W32 - 1
    PROVE  LET new == level_add_order(lvl, o, shares)
           IN  LevelOK(new, Slots) /\ Range(new.fifo) = Range(lvl.fifo) \cup {o}
BY BookAssumption, WidthsFit, LevelAdd

(* add_order adds the shares of the order it links. *)
LEMMA AddSum ==
    ASSUME NEW lvl, LevelOK(lvl, Slots), NEW a, LevelSum(lvl, a),
           NEW ord \in [Slots -> Order], NEW o \in Slots, o \notin Range(lvl.fifo),
           \A x \in Range(lvl.fifo) : a[x].shares = ord[x].shares
    PROVE  LevelSum(level_add_order(lvl, o, ord[o].shares), ord)
<1> DEFINE n    == ord[o].shares
           new  == level_add_order(lvl, o, n)
           S    == Range(lvl.fifo)
           sum  == SharesOf(S, ord)
           qty  == lvl.total_qty
<1>1. S \in SUBSET Slots /\ qty \in 0 .. W64 - 1 /\ sum \in 0 .. W64 - 1
    BY LevelFacts
<1>2. Congruent(qty, sum) /\ (Exact => qty = sum)
    BY SharesSame DEF LevelSum
<1>3. n \in 0 .. W32 - 1
    BY DEF Order
<1>4. Range(new.fifo) = S \cup {o}
  <2> HIDE DEF n
  <2> QED BY <1>3, AddRange
<1>5. SharesOf(S \cup {o}, ord) = sum + n
    BY <1>1, SharesAdd
<1>6. SharesOf(S \cup {o}, ord) \in 0 .. W64 - 1
    BY <1>1, SharesFit
<1>7. new.total_qty = AddW(qty, n, W64)
    BY DEF level_add_order
<1> HIDE DEF n, new, S, sum, qty
<1>8. AddW(qty, n, W64) = qty + n \/ AddW(qty, n, W64) = qty + n - W64
    BY DEF AddW
<1>9. Congruent(AddW(qty, n, W64), sum + n)
  <2>1. qty \in Int /\ sum \in Int /\ n \in Int
      BY <1>1, <1>3
  <2>2. Congruent(qty + n, sum + n) /\ Congruent(qty + n - W64, sum + n)
      BY <2>1, <1>2, CongruentShift
  <2> QED BY <2>2, <1>8, Zenon
<1>10. Exact => AddW(qty, n, W64) = sum + n
    BY <1>1, <1>2, <1>3, <1>5, <1>6, WidthAssumption DEF AddW
<1> QED BY <1>4, <1>5, <1>7, <1>9, <1>10 DEF LevelSum, new, n

(* remove_order takes off the shares of the order it unlinks. *)
LEMMA RemoveSum ==
    ASSUME NEW lvl, LevelOK(lvl, Slots), NEW a \in [Slots -> Order], LevelSum(lvl, a),
           NEW ord, NEW o \in Range(lvl.fifo),
           \A x \in Range(lvl.fifo) \ {o} : a[x].shares = ord[x].shares
    PROVE  LevelSum(level_remove_order(lvl, o, a[o].shares), ord)
<1> DEFINE n    == a[o].shares
           new  == level_remove_order(lvl, o, n)
           S    == Range(lvl.fifo)
           sum  == SharesOf(S, a)
           rest == SharesOf(S \ {o}, a)
           qty  == lvl.total_qty
<1>1. S \in SUBSET Slots /\ qty \in 0 .. W64 - 1 /\ sum \in 0 .. W64 - 1
    BY LevelFacts
<1>2. Congruent(qty, sum) /\ (Exact => qty = sum)
    BY DEF LevelSum
<1>3. n \in 0 .. W32 - 1
    BY <1>1 DEF Order
<1>4. Range(new.fifo) = S \ {o}
  <2> HIDE DEF n
  <2> QED BY <1>3, LevelRemove
<1>5. sum = rest + n
    BY <1>1, SharesRemove
<1>6. rest \in 0 .. W64 - 1
    BY <1>1, SharesFit
<1>7. new.total_qty = SubW(qty, n, W64)
    BY DEF level_remove_order
<1>8. SharesOf(S \ {o}, ord) = rest
    BY SharesSame
<1> HIDE DEF n, new, S, sum, rest, qty
<1>9. SubW(qty, n, W64) = qty + (-n) \/ SubW(qty, n, W64) = qty + (-n) + W64
    BY <1>1, <1>3, WidthAssumption DEF SubW
<1>10. Congruent(SubW(qty, n, W64), rest)
  <2>1. sum + (-n) = rest /\ -n \in Int
      BY <1>3, <1>5, <1>6
  <2>2. qty \in Int /\ sum \in Int
      BY <1>1
  <2>3. Congruent(qty + (-n), sum + (-n)) /\ Congruent(qty + (-n) + W64, sum + (-n))
      BY <2>1, <2>2, <1>2, CongruentShift
  <2> QED BY <2>1, <2>3, <1>9, Zenon
<1>11. Exact => SubW(qty, n, W64) = rest
    BY <1>1, <1>2, <1>3, <1>5, <1>6, WidthAssumption DEF SubW
<1> QED BY <1>4, <1>7, <1>8, <1>10, <1>11 DEF LevelSum, new, n

(***************************************************************************)
(* reduce_shares takes the same shares off an order and off its level: the *)
(* first wraps at 2^32 and the second at 2^64, and they stay congruent.    *)
(***************************************************************************)
LEMMA ReduceSum ==
    ASSUME NEW lvl, LevelOK(lvl, Slots), NEW a \in [Slots -> Order], LevelSum(lvl, a),
           NEW qty \in 0 .. W32 - 1, NEW o \in Range(lvl.fifo),
           NEW ord \in [Slots -> Order], ord[o].shares = SubW(a[o].shares, qty, W32),
           \A x \in Slots \ {o} : ord[x].shares = a[x].shares,
           Exact => qty <= a[o].shares
    PROVE  LevelSum(level_reduce_shares(lvl, qty), ord)
<1> DEFINE n    == a[o].shares
           m    == ord[o].shares
           S    == Range(lvl.fifo)
           rest == SharesOf(S \ {o}, a)
           old  == SharesOf(S, a)
           sum  == SharesOf(S, ord)
           tot  == lvl.total_qty
           new  == level_reduce_shares(lvl, qty)
<1>1. S \in SUBSET Slots /\ tot \in 0 .. W64 - 1
    BY LevelFacts
<1>2. Congruent(tot, old) /\ (Exact => tot = old)
    BY DEF LevelSum
<1>3. n \in 0 .. W32 - 1 /\ m \in 0 .. W32 - 1
    BY <1>1 DEF Order
<1>4. old = rest + n
    BY <1>1, SharesRemove
<1>5. sum = rest + m
  <2>1. SharesOf(S, ord) = SharesOf(S \ {o}, ord) + m
      BY <1>1, SharesRemove
  <2>2. SharesOf(S \ {o}, ord) = rest
      BY <1>1, SharesSame
  <2> QED BY <2>1, <2>2
<1>6. rest \in 0 .. W64 - 1
    BY <1>1, SharesFit
<1>7. new.total_qty = SubW(tot, qty, W64) /\ new.fifo = lvl.fifo
    BY DEF level_reduce_shares, LevelOK, Level
<1> HIDE DEF n, m, S, rest, old, sum, tot, new
<1>8. SubW(tot, qty, W64) = tot + (-qty) \/ SubW(tot, qty, W64) = tot + (-qty) + W64
    BY <1>1, WidthAssumption DEF SubW
<1>9. sum = old + (-qty) \/ sum = old + (-qty) + W32
  <2>1. m = SubW(n, qty, W32)
      BY DEF m, n
  <2> QED BY <2>1, <1>3, <1>4, <1>5, <1>6, WidthAssumption DEF SubW
<1>10. Congruent(SubW(tot, qty, W64), sum)
  <2>1. /\ Congruent(tot + (-qty), old + (-qty))
        /\ Congruent(tot + (-qty) + W64, old + (-qty))
        /\ Congruent(tot + (-qty), old + (-qty) + W32)
        /\ Congruent(tot + (-qty) + W64, old + (-qty) + W32)
    <3>1. tot \in Int /\ old \in Int /\ -qty \in Int
        BY <1>1, <1>3, <1>4, <1>6
    <3> QED BY <3>1, <1>2, CongruentShift
  <2> QED BY <2>1, <1>8, <1>9, Zenon
<1>11. ASSUME Exact PROVE SubW(tot, qty, W64) = sum
  <2>1. m = SubW(n, qty, W32) /\ qty <= n
      BY <1>11 DEF m, n
  <2>2. m = n - qty
      BY <2>1, <1>3, WidthAssumption DEF SubW
  <2>3. tot = rest + n
      BY <1>11, <1>2, <1>4
  <2> QED BY <2>1, <2>2, <2>3, <1>3, <1>5, <1>6, WidthAssumption DEF SubW
<1> QED BY <1>7, <1>10, <1>11 DEF LevelSum, new, S, sum, tot

-----------------------------------------------------------------------------
(***************************************************************************)
(* What the parts of a handler do to the state: new is st with ...         *)
(***************************************************************************)

(* ... the levels of side s as they were, except that lvl is at index i. *)
LevelSet(st, new, s, i, lvl) ==
    /\ \A t \in Side : new.bk[t].ref = st.bk[t].ref
    /\ \A t \in Side, j \in Indices :
          new.bk[t].levels[j] = IF t = s /\ j = i THEN lvl ELSE st.bk[t].levels[j]

(* ... the order of r unlinked, unmapped and freed. *)
Withdrawn(st, new, r) ==
    LET o == st.map[r]
        s == st.ord[o].side
        i == st.ord[o].level_idx
    IN  /\ new.map = [st.map EXCEPT ![r] = nullptr]
        /\ new.ord = [st.ord EXCEPT ![o] = BlankOrder]
        /\ new.free = st.free \cup {o}
        /\ LevelSet(st, new, s, i, level_remove_order(st.bk[s].levels[i], o, st.ord[o].shares))

(* ... qty shares taken from the order of r and from its level. *)
Reduced(st, new, r, qty) ==
    LET o == st.map[r]
        s == st.ord[o].side
        i == st.ord[o].level_idx
    IN  /\ new.map = st.map
        /\ new.ord = [st.ord EXCEPT ![o].shares = SubW(@, qty, W32)]
        /\ new.free = st.free
        /\ LevelSet(st, new, s, i, level_reduce_shares(st.bk[s].levels[i], qty))

(***************************************************************************)
(* ... an order for r placed in the slot o, at index i of the side sd.     *)
(***************************************************************************)
Entered(st, new, r, s, qty, price, o, i, sd) ==
    /\ o \in st.free /\ i \in Indices
    /\ new.map = [st.map EXCEPT ![r] = o]
    /\ new.free = st.free \ {o}
    /\ new.ord[o] = [shares |-> qty, price |-> price, side |-> s, level_idx |-> i]
    /\ \A t \in Side : t # s => new.bk[t] = st.bk[t]
    /\ new.bk[s].ref = sd.ref
    /\ \A j \in Indices :
          new.bk[s].levels[j] = IF j = i THEN level_add_order(sd.levels[j], o, qty)
                                         ELSE sd.levels[j]

(* sd is the side as it was: the price is inside the window. *)
InWindow(st, new, s, price, o, i, sd) ==
    /\ sd.ref = IF st.bk[s].ref = 0 THEN price ELSE st.bk[s].ref
    /\ sd.levels = st.bk[s].levels
    /\ i = PriceIdx(s, sd.ref, price)
    /\ \A x \in Slots : x # o => new.ord[x] = st.ord[x]

(* The index a recentre on price gives to an order. *)
NewIdx(s, price, od) ==
    IF PriceIdx(s, price, od.price) \in Indices THEN PriceIdx(s, price, od.price) ELSE -1

(* sd is what a recentre on price makes of the side. *)
Recentred(st, new, s, price, o, i, sd) ==
    /\ sd.ref = price /\ i = 0
    /\ PriceIdx(s, IF st.bk[s].ref = 0 THEN price ELSE st.bk[s].ref, price) \notin Indices
    /\ \A x \in Slots : x # o =>
          new.ord[x] = IF x \in Mapped(st.map) /\ st.ord[x].side = s
                       THEN [st.ord[x] EXCEPT !.level_idx = NewIdx(s, price, st.ord[x])]
                       ELSE st.ord[x]
    /\ \A j \in Indices :
          /\ LevelOK(sd.levels[j], Slots)
          /\ At(sd, j) = {x \in Mapped(st.map) : st.ord[x].side = s /\ new.ord[x].level_idx = j}
          /\ sd.levels[j].total_qty = SharesOf(At(sd, j), st.ord)

PlacedFor(st, new, r, s, qty, price) ==
    \E o \in st.free, i \in Indices : \E sd :
        /\ Entered(st, new, r, s, qty, price, o, i, sd)
        /\ \/ InWindow(st, new, s, price, o, i, sd)
           \/ Recentred(st, new, s, price, o, i, sd)

(* remove_order changes one level, whatever it does to the best index. *)
LEMMA RemoveOrderLevels ==
    ASSUME NEW sd \in SideType, NEW ord, NEW o, ord[o].level_idx \in Indices
    PROVE  LET new == remove_order(sd, ord, o)
               i   == ord[o].level_idx
           IN  /\ new.ref = sd.ref
               /\ \A j \in Indices :
                     new.levels[j] = IF j = i
                                     THEN level_remove_order(sd.levels[i], o, ord[o].shares)
                                     ELSE sd.levels[j]
<1> DEFINE new == remove_order(sd, ord, o)
           i   == ord[o].level_idx
           lvl == level_remove_order(sd.levels[i], o, ord[o].shares)
           cut == [sd EXCEPT !.levels[i] = lvl]
<1>1. new = IF i = cut.best /\ level_empty(cut.levels[i]) THEN advance_best(cut) ELSE cut
    BY DEF remove_order
<1> HIDE DEF lvl, new
<1>2. /\ cut.ref = sd.ref
      /\ cut.levels = [sd.levels EXCEPT ![i] = lvl]
      /\ cut = [ref |-> cut.ref, best |-> cut.best, levels |-> cut.levels]
    BY DEF SideType
<1>3. \A j \in Indices : cut.levels[j] = IF j = i THEN lvl ELSE sd.levels[j]
    BY <1>2 DEF SideType
<1> HIDE DEF cut
<1>4. advance_best(cut).ref = cut.ref /\ advance_best(cut).levels = cut.levels
    BY <1>2 DEF advance_best
<1> QED BY <1>1, <1>2, <1>3, <1>4 DEF new, lvl

LEMMA WithdrawEffect ==
    ASSUME NEW st, StateOK(st), NEW r \in Refs, st.map[r] # nullptr,
           st.ord[st.map[r]].level_idx >= 0
    PROVE  Withdrawn(st, withdraw_order(st, r), r)
<1> DEFINE o   == st.map[r]
           s   == st.ord[o].side
           i   == st.ord[o].level_idx
           sd  == remove_order(st.bk[s], st.ord, o)
           lvl == level_remove_order(st.bk[s].levels[i], o, st.ord[o].shares)
           new == withdraw_order(st, r)
<1>1. o \in Slots /\ s \in Side /\ i \in Indices
    BY LiveOrder
<1>2. st.bk \in [Side -> SideType]
    BY DEF StateOK, StateType
<1>3. /\ sd.ref = st.bk[s].ref
      /\ \A j \in Indices : sd.levels[j] = IF j = i THEN lvl ELSE st.bk[s].levels[j]
    BY <1>1, <1>2, RemoveOrderLevels
<1>4. /\ new.map = [st.map EXCEPT ![r] = nullptr]
      /\ new.ord = [st.ord EXCEPT ![o] = BlankOrder]
      /\ new.free = st.free \cup {o}
      /\ new.bk = [st.bk EXCEPT ![s] = sd]
    BY DEF withdraw_order
<1> HIDE DEF sd, new, lvl
<1>5. LevelSet(st, new, s, i, lvl)
  <2>1. \A t \in Side : new.bk[t] = IF t = s THEN sd ELSE st.bk[t]
      BY <1>1, <1>2, <1>4
  <2> HIDE DEF s, i
  <2> QED BY <2>1, <1>1, <1>3 DEF LevelSet
<1> QED BY <1>4, <1>5 DEF Withdrawn, new, lvl

LEMMA ReduceEffect ==
    ASSUME NEW st, StateOK(st), NEW r \in Refs, NEW qty \in Quantities, st.map[r] # nullptr,
           st.ord[st.map[r]].level_idx >= 0
    PROVE  Reduced(st, reduce_shares(st, r, qty), r, qty)
<1> DEFINE o   == st.map[r]
           s   == st.ord[o].side
           i   == st.ord[o].level_idx
           sd  == reduce_level(st.bk[s], i, qty)
           lvl == level_reduce_shares(st.bk[s].levels[i], qty)
           od  == [st.ord EXCEPT ![o].shares = SubW(@, qty, W32)]
           b   == [st.bk EXCEPT ![s] = sd]
           new == reduce_shares(st, r, qty)
<1>1. o \in Slots /\ s \in Side /\ i \in Indices
    BY LiveOrder
<1>2. /\ st.bk \in [Side -> SideType]
      /\ st = [map |-> st.map, ord |-> st.ord, free |-> st.free, bk |-> st.bk]
    BY DEF StateOK, StateType
<1>3. /\ sd.ref = st.bk[s].ref
      /\ \A j \in Indices : sd.levels[j] = IF j = i THEN lvl ELSE st.bk[s].levels[j]
  <2>1. st.bk[s] \in SideType
      BY <1>1, <1>2
  <2> HIDE DEF lvl
  <2>2. sd = [st.bk[s] EXCEPT !.levels[i] = lvl]
      BY DEF reduce_level, lvl
  <2> HIDE DEF sd, s, i
  <2> QED BY <2>1, <2>2, <1>1 DEF SideType
<1>4. new = [st EXCEPT !.ord = od, !.bk = b]
    BY DEF reduce_shares
<1> HIDE DEF sd, new, lvl
<1>5. new.map = st.map /\ new.free = st.free /\ new.ord = od /\ new.bk = b
  <2> HIDE DEF od, b
  <2> QED BY <1>2, <1>4, StateUpdate
<1>6. LevelSet(st, new, s, i, lvl)
  <2>1. \A t \in Side : new.bk[t] = IF t = s THEN sd ELSE st.bk[t]
      BY <1>1, <1>2, <1>5
  <2> HIDE DEF s, i, b, od
  <2> QED BY <2>1, <1>1, <1>3 DEF LevelSet
<1> QED BY <1>5, <1>6 DEF Reduced, new, lvl

(* insert_at changes one level, whatever it does to the best index. *)
LEMMA InsertAtLevels ==
    ASSUME NEW sd \in SideType, NEW o, NEW shares, NEW i \in Indices
    PROVE  LET new == insert_at(sd, o, shares, i)
           IN  /\ new.ref = sd.ref
               /\ \A j \in Indices :
                     new.levels[j] = IF j = i THEN level_add_order(sd.levels[j], o, shares)
                                              ELSE sd.levels[j]
<1> DEFINE lvl == level_add_order(sd.levels[i], o, shares)
           new == insert_at(sd, o, shares, i)
           b   == IF sd.best < 0 \/ i < sd.best THEN i ELSE sd.best
<1> HIDE DEF lvl
<1>1. new = [sd EXCEPT !.levels[i] = lvl, !.best = b]
    BY DEF insert_at, lvl
<1> HIDE DEF new, b
<1>2. new.ref = sd.ref /\ new.levels = [sd.levels EXCEPT ![i] = lvl]
    BY <1>1 DEF SideType
<1>3. \A j \in Indices : new.levels[j] = IF j = i THEN lvl ELSE sd.levels[j]
    BY <1>2 DEF SideType
<1> QED BY <1>2, <1>3 DEF new, lvl

(* A recentre gives each level the sum of the shares it re-inserts there. *)
LEMMA RecentreSum ==
    ASSUME NEW s, NEW p, NEW ord, NEW mapped, NEW sd \in recentre(s, p, ord, mapped),
           NEW i \in Indices
    PROVE  sd.levels[i].total_qty = SharesOf(OrdersAt(s, ord, mapped, i), ord)
<1> DEFINE M(j) == OrdersAt(s, ord, mapped, j)
           used == {j \in Indices : M(j) # {}}
           lv(queue) == [j \in Indices |-> IF j \in used THEN RebuiltLevel(queue[j], M(j), ord)
                                                       ELSE EmptyLevel]
<1>1. PICK queue : sd = [ref |-> p, best |-> LeastOrNone(used), levels |-> lv(queue)]
    BY Zenon DEF recentre
<1>2. sd.levels[i] = IF i \in used THEN RebuiltLevel(queue[i], M(i), ord) ELSE EmptyLevel
    BY <1>1
<1>3. CASE i \in used
    BY <1>2, <1>3 DEF RebuiltLevel
<1>4. CASE i \notin used
  <2>1. M(i) = {}
      BY <1>4
  <2> QED BY <2>1, <1>2, <1>4, SharesNone DEF EmptyLevel
<1> QED BY <1>3, <1>4

(* The two branches of insert_order. *)
LEMMA InsertCases ==
    ASSUME NEW st, NEW s, NEW o, NEW n \in insert_order(st, s, o)
    PROVE  LET price  == st.ord[o].price
               ref    == IF st.bk[s].ref = 0 THEN price ELSE st.bk[s].ref
               idx    == PriceIdx(s, ref, price)
               mapped == Mapped(st.map)
               moved  == Reindexed(s, price, st.ord, mapped)
           IN  \/ /\ idx \in Indices
                  /\ n = Inserted(st, s, o, [st.bk[s] EXCEPT !.ref = ref], st.ord, idx)
               \/ /\ idx \notin Indices
                  /\ \E sd \in recentre(s, price, moved, mapped) :
                        n = Inserted(st, s, o, sd, moved, 0)
BY DEF insert_order, Inserted

LEMMA PlaceEffect ==
    ASSUME NEW st, StateOK(st), NEW r \in Refs, NEW s \in Side, NEW qty \in Quantities,
           NEW price \in Prices, NEW new \in place_order(st, r, s, qty, price)
    PROVE  PlacedFor(st, new, r, s, qty, price)
<1>1. PICK o \in st.free :
        \E n \in insert_order(make_order(st, o, qty, price, s), s, o) :
            new = [n EXCEPT !.map = [st.map EXCEPT ![r] = o]]
    BY DEF place_order
<1>2. PICK n \in insert_order(make_order(st, o, qty, price, s), s, o) :
            new = [n EXCEPT !.map = [st.map EXCEPT ![r] = o]]
    BY <1>1
<1> DEFINE mk == make_order(st, o, qty, price, s)
           od == [shares |-> qty, price |-> price, side |-> s, level_idx |-> -1]
<1>3. StateOK(mk) /\ Pending(mk, s, o)
    BY MakeOrderOK
<1>4. /\ mk.map = st.map /\ mk.bk = st.bk /\ mk.free = st.free \ {o}
      /\ mk.ord = [st.ord EXCEPT ![o] = od]
  <2> DEFINE os == [st.ord EXCEPT ![o] = od]
             fr == st.free \ {o}
  <2>1. st = [map |-> st.map, ord |-> st.ord, free |-> st.free, bk |-> st.bk]
      BY DEF StateOK, StateType
  <2>2. mk = [st EXCEPT !.free = fr, !.ord = os]
      BY DEF make_order
  <2> HIDE DEF mk, os, fr
  <2>3. mk.map = st.map /\ mk.bk = st.bk /\ mk.free = fr /\ mk.ord = os
      BY <2>1, <2>2
  <2> QED BY <2>3 DEF os, fr
<1> HIDE DEF mk
<1>5. /\ st.map \in [Refs -> Slots \cup {nullptr}] /\ st.ord \in [Slots -> Order]
      /\ st.free \in SUBSET Slots /\ st.bk \in [Side -> SideType]
    BY DEF StateOK, StateType
<1>6. mk = [map |-> mk.map, ord |-> mk.ord, free |-> mk.free, bk |-> mk.bk]
    BY <1>3 DEF StateOK, StateType
<1>7. /\ o \in Slots /\ mk.ord \in [Slots -> Order] /\ mk.ord[o] = od
      /\ \A x \in Slots : x # o => mk.ord[x] = st.ord[x]
    BY <1>3, <1>4, <1>5 DEF StateOK, StateType
<1> DEFINE ref    == IF st.bk[s].ref = 0 THEN price ELSE st.bk[s].ref
           idx    == PriceIdx(s, ref, price)
           mapped == Mapped(st.map)
           moved  == Reindexed(s, price, mk.ord, mapped)
           at     == [st.bk[s] EXCEPT !.ref = ref]
<1>a. \/ idx \in Indices /\ n = Inserted(mk, s, o, at, mk.ord, idx)
      \/ /\ idx \notin Indices
         /\ \E sd \in recentre(s, price, moved, mapped) : n = Inserted(mk, s, o, sd, moved, 0)
  <2>1. mk.ord[o].price = price
      BY <1>7
  <2>2. n \in insert_order(mk, s, o)
      BY <1>2 DEF mk
  <2> HIDE DEF od
  <2> DEFINE ref_(m)   == IF m.bk[s].ref = 0 THEN m.ord[o].price ELSE m.bk[s].ref
             idx_(m)   == PriceIdx(s, ref_(m), m.ord[o].price)
             moved_(m) == Reindexed(s, m.ord[o].price, m.ord, Mapped(m.map))
  <2>3. \/ /\ idx_(mk) \in Indices
           /\ n = Inserted(mk, s, o, [mk.bk[s] EXCEPT !.ref = ref_(mk)], mk.ord, idx_(mk))
        \/ /\ idx_(mk) \notin Indices
           /\ \E sd \in recentre(s, mk.ord[o].price, moved_(mk), Mapped(mk.map)) :
                 n = Inserted(mk, s, o, sd, moved_(mk), 0)
      BY <2>2, InsertCases, Zenon
  <2> QED BY <2>1, <2>3, <1>4
(* The fields of new, given the side and the orders that insert_at starts from. *)
<1>8. ASSUME NEW sd \in SideType, NEW ord \in [Slots -> Order], NEW i \in Indices,
             ord[o] = od, n = Inserted(mk, s, o, sd, ord, i)
      PROVE  /\ Entered(st, new, r, s, qty, price, o, i, sd)
             /\ \A x \in Slots : x # o => new.ord[x] = ord[x]
  <2> DEFINE os == [ord EXCEPT ![o].level_idx = i]
             b  == [st.bk EXCEPT ![s] = insert_at(sd, o, qty, i)]
  <2>0. mk.ord[o].shares = qty
      BY <1>7
  <2>1. n = [mk EXCEPT !.ord = os, !.bk = b]
    <3> HIDE DEF od
    <3> QED BY <2>0, <1>8, <1>4 DEF Inserted
  <2> HIDE DEF os, b, od
  <2>2. /\ n.map = st.map /\ n.free = st.free \ {o} /\ n.ord = os /\ n.bk = b
        /\ n = [map |-> n.map, ord |-> n.ord, free |-> n.free, bk |-> n.bk]
      BY <2>1, <1>4, <1>6, StateUpdate
  <2> DEFINE m == [st.map EXCEPT ![r] = o]
  <2>3. new.map = m /\ new.ord = os /\ new.free = st.free \ {o} /\ new.bk = b
    <3>1. new = [n EXCEPT !.map = m]
        BY <1>2
    <3> HIDE DEF m
    <3> QED BY <3>1, <2>2
  <2>4. /\ os[o] = [shares |-> qty, price |-> price, side |-> s, level_idx |-> i]
        /\ \A x \in Slots : x # o => os[x] = ord[x]
      BY <1>7, <1>8 DEF os, od
  <2>5. \A t \in Side : b[t] = IF t = s THEN insert_at(sd, o, qty, i) ELSE st.bk[t]
      BY <1>5 DEF b
  <2>6. LET x == insert_at(sd, o, qty, i)
        IN  /\ x.ref = sd.ref
            /\ \A j \in Indices :
                  x.levels[j] = IF j = i THEN level_add_order(sd.levels[j], o, qty)
                                         ELSE sd.levels[j]
      BY <1>8, InsertAtLevels
  <2> QED BY <2>3, <2>4, <2>5, <2>6 DEF Entered
<1>9. CASE idx \in Indices
  <2>1. n = Inserted(mk, s, o, at, mk.ord, idx)
      BY <1>a, <1>9
  <2>2. at \in SideType /\ at.ref = ref /\ at.levels = st.bk[s].levels
    <3>1. st.bk[s] \in SideType /\ ref \in Prices \cup {0}
        BY <1>5 DEF SideType
    <3> HIDE DEF ref
    <3> QED BY <3>1 DEF SideType
  <2> HIDE DEF at
  <2>3. /\ Entered(st, new, r, s, qty, price, o, idx, at)
        /\ \A x \in Slots : x # o => new.ord[x] = mk.ord[x]
      BY <2>1, <2>2, <1>7, <1>8, <1>9
  <2>4. InWindow(st, new, s, price, o, idx, at)
      BY <2>2, <2>3, <1>7 DEF InWindow
  <2> QED BY <2>3, <2>4, <1>9 DEF PlacedFor
<1>10. CASE idx \notin Indices
  <2>1. PICK sd \in recentre(s, price, moved, mapped) : n = Inserted(mk, s, o, sd, moved, 0)
      BY <1>a, <1>10
  <2>2. mapped \in SUBSET Slots /\ o \notin mapped
    <3>1. \A x \in mapped : \E q \in Refs : x = st.map[q] /\ x # nullptr
        BY DEF Mapped
    <3> QED BY <3>1, <1>3, <1>4, <1>5 DEF Pending
  <2>3. /\ moved \in [Slots -> Order] /\ SameOrders(moved, mk.ord)
        /\ \A x \in Slots : ~(x \in mapped /\ mk.ord[x].side = s) => moved[x] = mk.ord[x]
      BY <1>7, ReindexedOK
  <2>4. \A x \in Slots : x # o =>
           moved[x] = IF x \in mapped /\ st.ord[x].side = s
                      THEN [st.ord[x] EXCEPT !.level_idx = NewIdx(s, price, st.ord[x])]
                      ELSE st.ord[x]
      BY <1>7 DEF Reindexed, NewIdx
  <2> HIDE DEF moved, mapped
  <2>5. SideOK(sd) /\ sd.ref = price /\ \A j \in Indices : At(sd, j) = OrdersAt(s, moved, mapped, j)
      BY <2>1, <2>2, <2>3, RecentreOK
  <2>6. sd \in SideType /\ \A j \in Indices : LevelOK(sd.levels[j], Slots)
      BY <2>5 DEF SideOK, LevelsOK
  <2>7. moved[o] = od /\ 0 \in Indices
      BY <2>2, <2>3, <1>7, IndicesNat
  <2>8. /\ Entered(st, new, r, s, qty, price, o, 0, sd)
        /\ \A x \in Slots : x # o => new.ord[x] = moved[x]
      BY <2>1, <2>3, <2>6, <2>7, <1>8
  <2>9. ASSUME NEW j \in Indices
        PROVE  /\ At(sd, j) = {x \in mapped : st.ord[x].side = s /\ new.ord[x].level_idx = j}
               /\ sd.levels[j].total_qty = SharesOf(At(sd, j), st.ord)
    <3>1. \A x \in mapped : /\ x \in Slots /\ x # o /\ new.ord[x] = moved[x]
                            /\ moved[x].side = st.ord[x].side
                            /\ moved[x].shares = st.ord[x].shares
        BY <2>2, <2>3, <2>8, <1>7 DEF SameOrders
    <3>2. At(sd, j) = OrdersAt(s, moved, mapped, j)
        BY <2>5
    <3>3. sd.levels[j].total_qty = SharesOf(OrdersAt(s, moved, mapped, j), moved)
        BY <2>1, RecentreSum
    <3>4. SharesOf(OrdersAt(s, moved, mapped, j), moved) = SharesOf(OrdersAt(s, moved, mapped, j), st.ord)
      <4>1. \A x \in OrdersAt(s, moved, mapped, j) : moved[x].shares = st.ord[x].shares
          BY <3>1 DEF OrdersAt
      <4> QED BY <4>1, SharesSame
    <3>5. OrdersAt(s, moved, mapped, j) = {x \in mapped : st.ord[x].side = s /\ new.ord[x].level_idx = j}
        BY <3>1 DEF OrdersAt
    <3> QED BY <3>2, <3>3, <3>4, <3>5
  <2>10. Recentred(st, new, s, price, o, 0, sd)
      BY <2>4, <2>5, <2>6, <2>8, <2>9, <1>10 DEF Recentred, mapped
  <2> QED BY <2>7, <2>8, <2>10 DEF PlacedFor
<1> QED BY <1>9, <1>10

-----------------------------------------------------------------------------
(***************************************************************************)
(* The steps of the book.  Whatever the message, a handler that does not   *)
(* stop the process leaves the orders alone, empties the book, or places,  *)
(* reduces, withdraws or replaces one order.                               *)
(***************************************************************************)
Goes(st, r) == r \in Refs /\ st.map[r] # nullptr /\ st.ord[st.map[r]].level_idx >= 0

StopsFor(reason) ==
    \/ reason = "pool" /\ free_list = {}
    \/ \E r \in Refs : order_map_[r] # nullptr /\ reason = remove_fault(Here, r)
    \/ \E r \in Refs, q \in Quantities :
          order_map_[r] # nullptr /\ Covered(r, q) /\ reason = reduce_fault(Here, r, q)

Stays ==
    /\ Here' = Here
    /\ is_open_' \in BOOLEAN
    /\ \/ fault' = fault
       \/ is_open_' = is_open_ /\ StopsFor(fault')

Empties ==
    /\ is_open_' = FALSE
    /\ fault' = fault
    /\ order_map_' = [r \in Refs |-> nullptr]
    /\ pool_' = [o \in Slots |-> BlankOrder]
    /\ free_list' = Slots
    /\ book' = [s \in Side |-> [EmptySide EXCEPT !.ref = book[s].ref]]

Places(r, s, q, p) ==
    /\ is_open_
    /\ FreshRef(r) /\ Sound(q, p)
    /\ PlacedFor(Here, Here', r, s, q, p)

Takes(r, q) ==
    /\ Covered(r, q)
    /\ Goes(Here, r)
    /\ reduce_fault(Here, r, q) = "none"
    /\ \E left : /\ StateOK(left) /\ Goes(left, r) /\ Reduced(Here, left, r, q)
                 /\ IF left.ord[order_map_[r]].shares = 0 THEN Withdrawn(left, Here', r)
                                                          ELSE Here' = left

Deletes(r) == Goes(Here, r) /\ Withdrawn(Here, Here', r)

Replaces(old, new, q, p) ==
    /\ Goes(Here, old)
    /\ FreshRef(new) /\ Sound(q, p)
    /\ \E left : /\ StateOK(left) /\ Withdrawn(Here, left, old)
                 /\ PlacedFor(left, Here', new, pool_[order_map_[old]].side, q, p)

Steps ==
    \/ Stays
    \/ Empties
    \/ /\ is_open_' = is_open_ /\ fault' = fault
       /\ \/ \E r \in Refs, s \in Side, q \in Quantities, p \in Prices : Places(r, s, q, p)
          \/ \E r \in Refs, q \in Quantities : Takes(r, q)
          \/ \E r \in Refs : Deletes(r)
          \/ \E old, new \in Refs, q \in Quantities, p \in Prices : Replaces(old, new, q, p)

(* A handler that ends in a sound state leaves the book in that state. *)
LEMMA BecomesHere ==
    ASSUME NEW st, StateOK(st), Becomes(st)
    PROVE  Here' = st /\ fault' = fault
<1>1. st = [map |-> st.map, ord |-> st.ord, free |-> st.free, bk |-> st.bk]
    BY DEF StateOK, StateType
<1> QED BY <1>1 DEF Becomes, Here

LEMMA AddCases ==
    ASSUME IndInv, NEW r \in Refs, NEW s \in Side, NEW q \in Quantities, NEW p \in Prices,
           FreshRef(r), Sound(q, p), OnAdd(r, s, q, p)
    PROVE  \/ ~is_open_ /\ UNCHANGED vars
           \/ free_list = {} /\ Abort("pool")
           \/ is_open_' = is_open_ /\ fault' = fault /\ Places(r, s, q, p)
<1>0. StateOK(Here)
    BY DEF IndInv
<1>1. CASE /\ is_open_
           /\ \E st \in place_order(Here, r, s, q, p) : Becomes(st)
           /\ UNCHANGED is_open_
  <2>1. PICK st \in place_order(Here, r, s, q, p) : Becomes(st)
      BY <1>1
  <2>2. StateOK(st) /\ PlacedFor(Here, st, r, s, q, p)
      BY <2>1, <1>0, PlaceOrderOK, PlaceEffect
  <2>3. Here' = st /\ fault' = fault
      BY <2>1, <2>2, BecomesHere
  <2>4. Places(r, s, q, p)
      BY <2>2, <2>3, <1>1 DEF Places
  <2> QED BY <2>3, <2>4, <1>1
<1> QED BY <1>1 DEF OnAdd

LEMMA TakeCases ==
    ASSUME IndInv, NEW r \in Refs, NEW q \in Quantities, Covered(r, q), TakeShares(r, q)
    PROVE  \/ order_map_[r] = nullptr /\ UNCHANGED vars
           \/ /\ order_map_[r] # nullptr /\ reduce_fault(Here, r, q) # "none"
              /\ Abort(reduce_fault(Here, r, q))
           \/ is_open_' = is_open_ /\ fault' = fault /\ Takes(r, q)
<1>0. StateOK(Here)
    BY DEF IndInv
<1>1. CASE /\ order_map_[r] # nullptr /\ reduce_fault(Here, r, q) = "none"
           /\ LET left == reduce_shares(Here, r, q)
              IN  Becomes(IF left.ord[order_map_[r]].shares = 0
                          THEN withdraw_order(left, r) ELSE left)
           /\ UNCHANGED is_open_
  <2> DEFINE left == reduce_shares(Here, r, q)
  <2>1. Goes(Here, r)
      BY <1>1, <1>0, HereFields, NoFaultIdx DEF Goes
  <2>2. /\ StateOK(left) /\ left.map = Here.map
        /\ left.ord = [Here.ord EXCEPT ![Here.map[r]].shares = SubW(@, q, W32)]
      BY <2>1, <1>0, ReduceOK DEF Goes
  <2>3. Reduced(Here, left, r, q)
      BY <2>1, <1>0, ReduceEffect DEF Goes
  <2>4. Goes(left, r)
    <3>1. Here.ord \in [Slots -> Order] /\ Here.map[r] \in Slots
        BY <2>1, <1>0 DEF StateOK, StateType, Goes
    <3> HIDE DEF left
    <3> QED BY <3>1, <2>1, <2>2 DEF Order, Goes
  <2>5. StateOK(withdraw_order(left, r)) /\ Withdrawn(left, withdraw_order(left, r), r)
      BY <2>2, <2>4, WithdrawOK, WithdrawEffect DEF Goes
  <2> HIDE DEF left
  <2>6. CASE left.ord[order_map_[r]].shares = 0
    <3>1. Becomes(withdraw_order(left, r))
        BY <1>1, <2>6 DEF left
    <3>2. Here' = withdraw_order(left, r) /\ fault' = fault
        BY <3>1, <2>5, BecomesHere
    <3>3. Takes(r, q)
        BY <3>2, <2>1, <2>2, <2>3, <2>4, <2>5, <2>6, <1>1 DEF Takes
    <3> QED BY <3>2, <3>3, <1>1
  <2>7. CASE left.ord[order_map_[r]].shares # 0
    <3>1. Becomes(left)
        BY <1>1, <2>7 DEF left
    <3>2. Here' = left /\ fault' = fault
        BY <3>1, <2>2, BecomesHere
    <3>3. Takes(r, q)
        BY <3>2, <2>1, <2>2, <2>3, <2>4, <2>7, <1>1 DEF Takes
    <3> QED BY <3>2, <3>3, <1>1
  <2> QED BY <2>6, <2>7
<1> QED BY <1>1 DEF TakeShares

LEMMA DeleteCases ==
    ASSUME IndInv, NEW r \in Refs, OnDelete(r)
    PROVE  \/ order_map_[r] = nullptr /\ UNCHANGED vars
           \/ /\ order_map_[r] # nullptr /\ remove_fault(Here, r) # "none"
              /\ Abort(remove_fault(Here, r))
           \/ is_open_' = is_open_ /\ fault' = fault /\ Deletes(r)
<1>0. StateOK(Here)
    BY DEF IndInv
<1>1. CASE /\ order_map_[r] # nullptr /\ remove_fault(Here, r) = "none"
           /\ Becomes(withdraw_order(Here, r)) /\ UNCHANGED is_open_
  <2>1. Goes(Here, r)
      BY <1>1, <1>0, HereFields, NoFaultIdx DEF Goes
  <2>2. StateOK(withdraw_order(Here, r)) /\ Withdrawn(Here, withdraw_order(Here, r), r)
      BY <2>1, <1>0, WithdrawOK, WithdrawEffect DEF Goes
  <2>3. Here' = withdraw_order(Here, r) /\ fault' = fault
      BY <2>2, <1>1, BecomesHere
  <2> QED BY <2>1, <2>2, <2>3, <1>1 DEF Deletes
<1> QED BY <1>1 DEF OnDelete

LEMMA ReplaceCases ==
    ASSUME IndInv, NEW old \in Refs, NEW new \in Refs, NEW q \in Quantities, NEW p \in Prices,
           FreshRef(new), Sound(q, p), OnReplace(old, new, q, p)
    PROVE  \/ order_map_[old] = nullptr /\ UNCHANGED vars
           \/ /\ order_map_[old] # nullptr /\ remove_fault(Here, old) # "none"
              /\ Abort(remove_fault(Here, old))
           \/ is_open_' = is_open_ /\ fault' = fault /\ Replaces(old, new, q, p)
<1>0. StateOK(Here)
    BY DEF IndInv
<1>1. CASE /\ order_map_[old] # nullptr /\ remove_fault(Here, old) = "none"
           /\ \E st \in place_order(withdraw_order(Here, old), new,
                                    pool_[order_map_[old]].side, q, p) : Becomes(st)
           /\ UNCHANGED is_open_
  <2> DEFINE s    == pool_[order_map_[old]].side
             left == withdraw_order(Here, old)
  <2>1. Goes(Here, old)
      BY <1>1, <1>0, HereFields, NoFaultIdx DEF Goes
  <2>2. StateOK(left) /\ Withdrawn(Here, left, old)
      BY <2>1, <1>0, WithdrawOK, WithdrawEffect DEF Goes
  <2>3. s \in Side
      BY <2>1, <1>0, HereFields, LiveOrder DEF Goes
  <2>4. PICK st \in place_order(left, new, s, q, p) : Becomes(st)
      BY <1>1
  <2> HIDE DEF left, s
  <2>5. StateOK(st) /\ PlacedFor(left, st, new, s, q, p)
      BY <2>2, <2>3, <2>4, PlaceOrderOK, PlaceEffect
  <2>6. Here' = st /\ fault' = fault
      BY <2>4, <2>5, BecomesHere
  <2>7. Replaces(old, new, q, p)
      BY <2>1, <2>2, <2>5, <2>6 DEF Replaces, s
  <2> QED BY <2>6, <2>7, <1>1
<1> QED BY <1>1 DEF OnReplace

(* Every step of the book is one of these. *)
LEMMA StepCases == IndInv /\ [Next]_vars => Steps
<1> SUFFICES ASSUME IndInv, [Next]_vars PROVE Steps
    OBVIOUS
<1>0. StateOK(Here) /\ is_open_ \in BOOLEAN
    BY DEF IndInv
<1>a. ASSUME UNCHANGED vars PROVE Steps
  <2>1. Here' = Here /\ is_open_' = is_open_ /\ fault' = fault
      BY <1>a DEF vars, Here
  <2>2. Stays
      BY <2>1, <1>0, Zenon DEF Stays
  <2> QED BY <2>2 DEF Steps
<1>c. ASSUME NEW f, Abort(f), StopsFor(f) PROVE Steps
  <2>1. Here' = Here /\ is_open_' = is_open_ /\ fault' = f
      BY <1>c DEF Abort, Here
  <2> QED BY <2>1, <1>0, <1>c DEF Steps, Stays
<1>1. ASSUME NEW code, OnSystemEvent(code) PROVE Steps
  <2>1. CASE is_open_' \in BOOLEAN /\ Becomes(Here)
    <3>1. Here' = Here /\ fault' = fault
        BY <2>1, <1>0, BecomesHere
    <3>2. Stays
        BY <3>1, <2>1, Zenon DEF Stays
    <3> QED BY <3>2 DEF Steps
  <2>2. CASE Halt
      BY <2>2 DEF Halt, Steps, Empties
  <2>3. CASE UNCHANGED vars
      BY <2>3, <1>a
  <2> QED BY <1>1, <2>1, <2>2, <2>3 DEF OnSystemEvent
<1>2. ASSUME NEW r \in Refs, NEW s \in Side, NEW q \in Quantities, NEW p \in Prices,
             FreshRef(r), Sound(q, p), OnAdd(r, s, q, p)
      PROVE  Steps
  <2>1. CASE free_list = {} /\ Abort("pool")
      BY <2>1, <1>c DEF StopsFor
  <2>2. CASE is_open_' = is_open_ /\ fault' = fault /\ Places(r, s, q, p)
      BY <2>2 DEF Steps
  <2> QED BY <1>2, <1>a, <2>1, <2>2, AddCases
<1>3. ASSUME NEW r \in Refs, NEW q \in Quantities, Covered(r, q), TakeShares(r, q) PROVE Steps
  <2>1. CASE order_map_[r] # nullptr /\ Abort(reduce_fault(Here, r, q))
      BY <2>1, <1>3, <1>c DEF StopsFor
  <2>2. CASE is_open_' = is_open_ /\ fault' = fault /\ Takes(r, q)
      BY <2>2 DEF Steps
  <2> QED BY <1>3, <1>a, <2>1, <2>2, TakeCases
<1>4. ASSUME NEW r \in Refs, OnDelete(r) PROVE Steps
  <2>1. CASE order_map_[r] # nullptr /\ Abort(remove_fault(Here, r))
      BY <2>1, <1>c DEF StopsFor
  <2>2. CASE is_open_' = is_open_ /\ fault' = fault /\ Deletes(r)
      BY <2>2 DEF Steps
  <2> QED BY <1>4, <1>a, <2>1, <2>2, DeleteCases
<1>5. ASSUME NEW old \in Refs, NEW new \in Refs, NEW q \in Quantities, NEW p \in Prices,
             FreshRef(new), Sound(q, p), OnReplace(old, new, q, p)
      PROVE  Steps
  <2>1. CASE order_map_[old] # nullptr /\ Abort(remove_fault(Here, old))
      BY <2>1, <1>c DEF StopsFor
  <2>2. CASE is_open_' = is_open_ /\ fault' = fault /\ Replaces(old, new, q, p)
      BY <2>2 DEF Steps
  <2> QED BY <1>5, <1>a, <2>1, <2>2, ReplaceCases
<1>6. CASE Next
    BY <1>6, <1>1, <1>2, <1>3, <1>4, <1>5
    DEF Next, OnAddMPID, OnExecute, OnExecuteWithPrice, OnCancel
<1> QED BY <1>6, <1>a

-----------------------------------------------------------------------------
(* Every level of the state sums to its orders' shares. *)
Accounts(st) == \A s \in Side, i \in Indices : LevelSum(st.bk[s].levels[i], st.ord)

(* The fields and the sound levels of a sound state. *)
LEMMA StateFacts ==
    ASSUME NEW st, StateOK(st)
    PROVE  /\ st.map \in [Refs -> Slots \cup {nullptr}] /\ st.ord \in [Slots -> Order]
           /\ st.free \in SUBSET Slots /\ st.bk \in [Side -> SideType]
           /\ \A s \in Side, i \in Indices :
                 /\ LevelOK(st.bk[s].levels[i], Slots)
                 /\ Range(st.bk[s].levels[i].fifo) = At(st.bk[s], i)
                 /\ At(st.bk[s], i) \subseteq Slots
                 /\ \A x \in At(st.bk[s], i) :
                       x \notin st.free /\ st.ord[x].side = s /\ st.ord[x].level_idx = i
<1>1. /\ st.map \in [Refs -> Slots \cup {nullptr}] /\ st.ord \in [Slots -> Order]
      /\ st.free \in SUBSET Slots /\ st.bk \in [Side -> SideType]
    BY DEF StateOK, StateType
<1>2. ASSUME NEW s \in Side, NEW i \in Indices
      PROVE  /\ LevelOK(st.bk[s].levels[i], Slots)
             /\ Range(st.bk[s].levels[i].fifo) = At(st.bk[s], i)
             /\ At(st.bk[s], i) \subseteq Slots
             /\ \A x \in At(st.bk[s], i) :
                   x \notin st.free /\ st.ord[x].side = s /\ st.ord[x].level_idx = i
  <2>1. SideOK(st.bk[s]) /\ LinksOK(s, st.bk[s], st.ord, st.free)
      BY DEF StateOK
  <2> QED BY <2>1, LinkedSlots DEF SideOK, LevelsOK, LinksOK, At
<1> QED BY <1>1, <1>2

(* The mapped slots are allocated slots. *)
LEMMA MappedSlots ==
    ASSUME NEW st, StateOK(st)
    PROVE  /\ Mapped(st.map) \subseteq Slots
           /\ Mapped(st.map) \cap st.free = {}
           /\ \A x \in Mapped(st.map) : \E r \in Refs : st.map[r] = x /\ st.map[r] # nullptr
           /\ \A r \in Refs : st.map[r] # nullptr => st.map[r] \in Mapped(st.map)
<1>1. \A x \in Mapped(st.map) : \E r \in Refs : st.map[r] = x /\ st.map[r] # nullptr
    BY DEF Mapped
<1>2. \A r \in Refs : st.map[r] # nullptr => st.map[r] \in Slots /\ st.map[r] \notin st.free
    BY DEF StateOK, StateType, MapOK
<1>3. \A r \in Refs : st.map[r] # nullptr => st.map[r] \in Mapped(st.map)
    BY DEF Mapped
<1> QED BY <1>1, <1>2, <1>3

(* A level whose orders keep their shares keeps its sum. *)
LEMMA KeepSum ==
    ASSUME NEW lvl, NEW a, NEW b, LevelSum(lvl, a),
           \A x \in Range(lvl.fifo) : a[x].shares = b[x].shares
    PROVE  LevelSum(lvl, b)
<1>1. SharesOf(Range(lvl.fifo), a) = SharesOf(Range(lvl.fifo), b)
    BY SharesSame
<1> QED BY <1>1 DEF LevelSum

LEMMA WithdrawSums ==
    ASSUME NEW st, StateOK(st), Accounts(st), NEW r, Goes(st, r),
           NEW new, Withdrawn(st, new, r)
    PROVE  Accounts(new)
<1> DEFINE o == st.map[r]
           s == st.ord[o].side
           i == st.ord[o].level_idx
           n == st.ord[o].shares
<1>1. o \in Slots /\ s \in Side /\ i \in Indices /\ o \in At(st.bk[s], i)
    BY LiveOrder DEF Goes
<1>2. /\ new.ord = [st.ord EXCEPT ![o] = BlankOrder]
      /\ LevelSet(st, new, s, i, level_remove_order(st.bk[s].levels[i], o, n))
    BY DEF Withdrawn
<1>3. \A x \in Slots : x # o => new.ord[x] = st.ord[x]
  <2>1. st.ord \in [Slots -> Order]
      BY StateFacts
  <2> HIDE DEF o
  <2> QED BY <2>1, <1>1, <1>2
<1> SUFFICES ASSUME NEW t \in Side, NEW j \in Indices
             PROVE  LevelSum(new.bk[t].levels[j], new.ord)
    BY DEF Accounts
<1>4. /\ LevelOK(st.bk[t].levels[j], Slots) /\ LevelSum(st.bk[t].levels[j], st.ord)
      /\ Range(st.bk[t].levels[j].fifo) = At(st.bk[t], j) /\ At(st.bk[t], j) \subseteq Slots
    BY StateFacts DEF Accounts
<1>5. CASE t = s /\ j = i
  <2>1. new.bk[t].levels[j] = level_remove_order(st.bk[t].levels[j], o, n)
      BY <1>2, <1>5 DEF LevelSet
  <2>2. \A x \in Range(st.bk[t].levels[j].fifo) \ {o} : st.ord[x].shares = new.ord[x].shares
      BY <1>3, <1>4
  <2>3. o \in Range(st.bk[t].levels[j].fifo) /\ st.ord \in [Slots -> Order]
      BY <1>1, <1>4, <1>5, StateFacts
  <2> DEFINE L == st.bk[t].levels[j]
             A == st.ord
             B == new.ord
  <2>4. LevelOK(L, Slots) /\ LevelSum(L, A)
      BY <1>4
  <2>5. /\ new.bk[t].levels[j] = level_remove_order(L, o, A[o].shares)
        /\ \A x \in Range(L.fifo) \ {o} : A[x].shares = B[x].shares
        /\ o \in Range(L.fifo) /\ A \in [Slots -> Order]
      BY <2>1, <2>2, <2>3
  <2> HIDE DEF o, L, A, B
  <2>6. LevelSum(level_remove_order(L, o, A[o].shares), B)
      BY <2>4, <2>5, RemoveSum
  <2> QED BY <2>5, <2>6 DEF B
<1>6. CASE ~(t = s /\ j = i)
  <2>1. new.bk[t].levels[j] = st.bk[t].levels[j]
      BY <1>2, <1>6 DEF LevelSet
  <2>2. o \notin At(st.bk[t], j)
      BY <1>6, StateFacts
  <2>3. \A x \in Range(st.bk[t].levels[j].fifo) : st.ord[x].shares = new.ord[x].shares
      BY <2>2, <1>3, <1>4
  <2> QED BY <2>1, <2>3, <1>4, KeepSum
<1> QED BY <1>5, <1>6

LEMMA ReduceSums ==
    ASSUME NEW st, StateOK(st), Accounts(st), NEW r, Goes(st, r), NEW qty \in Quantities,
           Exact => qty <= st.ord[st.map[r]].shares,
           NEW new, StateOK(new), Reduced(st, new, r, qty)
    PROVE  Accounts(new)
<1> DEFINE o == st.map[r]
           s == st.ord[o].side
           i == st.ord[o].level_idx
<1>1. o \in Slots /\ s \in Side /\ i \in Indices /\ o \in At(st.bk[s], i)
    BY LiveOrder DEF Goes
<1>2. /\ new.ord = [st.ord EXCEPT ![o].shares = SubW(@, qty, W32)]
      /\ LevelSet(st, new, s, i, level_reduce_shares(st.bk[s].levels[i], qty))
    BY DEF Reduced
<1>3. /\ st.ord \in [Slots -> Order] /\ new.ord \in [Slots -> Order]
      /\ new.ord[o].shares = SubW(st.ord[o].shares, qty, W32)
      /\ \A x \in Slots : x # o => new.ord[x] = st.ord[x]
  <2>1. st.ord \in [Slots -> Order] /\ new.ord \in [Slots -> Order]
      BY StateFacts
  <2> DEFINE od == [st.ord[o] EXCEPT !.shares = SubW(@, qty, W32)]
  <2>2. od.shares = SubW(st.ord[o].shares, qty, W32)
      BY <2>1, <1>1 DEF Order
  <2>3. new.ord = [st.ord EXCEPT ![o] = od]
      BY <1>2
  <2> HIDE DEF od
  <2> QED BY <2>1, <2>2, <2>3, <1>1
<1>4. qty \in 0 .. W32 - 1
    BY BookAssumption
<1> SUFFICES ASSUME NEW t \in Side, NEW j \in Indices
             PROVE  LevelSum(new.bk[t].levels[j], new.ord)
    BY DEF Accounts
<1>5. /\ LevelOK(st.bk[t].levels[j], Slots) /\ LevelSum(st.bk[t].levels[j], st.ord)
      /\ Range(st.bk[t].levels[j].fifo) = At(st.bk[t], j) /\ At(st.bk[t], j) \subseteq Slots
    BY StateFacts DEF Accounts
<1>6. CASE t = s /\ j = i
  <2>1. new.bk[t].levels[j] = level_reduce_shares(st.bk[t].levels[j], qty)
      BY <1>2, <1>6 DEF LevelSet
  <2>2. o \in Range(st.bk[t].levels[j].fifo)
      BY <1>1, <1>5, <1>6
  <2>3. \A x \in Slots \ {o} : new.ord[x].shares = st.ord[x].shares
      BY <1>3
  <2> HIDE DEF s, i, o
  <2> QED BY <2>1, <2>2, <2>3, <1>3, <1>4, <1>5, ReduceSum DEF o
<1>7. CASE ~(t = s /\ j = i)
  <2>1. new.bk[t].levels[j] = st.bk[t].levels[j]
      BY <1>2, <1>7 DEF LevelSet
  <2>2. o \notin At(st.bk[t], j)
      BY <1>7, StateFacts
  <2>3. \A x \in Range(st.bk[t].levels[j].fifo) : st.ord[x].shares = new.ord[x].shares
      BY <2>2, <1>3, <1>5
  <2> QED BY <2>1, <2>3, <1>5, KeepSum
<1> QED BY <1>6, <1>7

(* Placing an order leaves the other orders as they were, up to their level index. *)
LEMMA PlacedOthers ==
    ASSUME NEW st, StateOK(st), NEW new, NEW s, NEW price, NEW o, NEW i, NEW sd,
           \/ InWindow(st, new, s, price, o, i, sd)
           \/ Recentred(st, new, s, price, o, i, sd),
           NEW x \in Slots, x # o
    PROVE  /\ new.ord[x].side = st.ord[x].side /\ new.ord[x].price = st.ord[x].price
           /\ new.ord[x].shares = st.ord[x].shares
<1>1. st.ord[x] \in Order
    BY StateFacts
<1>2. CASE InWindow(st, new, s, price, o, i, sd)
    BY <1>2 DEF InWindow
<1>3. CASE Recentred(st, new, s, price, o, i, sd)
    BY <1>1, <1>3 DEF Recentred, Order
<1> QED BY <1>2, <1>3

LEMMA PlaceSums ==
    ASSUME NEW st, StateOK(st), Accounts(st), NEW new, StateOK(new),
           NEW r, NEW s \in Side, NEW qty \in Quantities, NEW price \in Prices,
           PlacedFor(st, new, r, s, qty, price)
    PROVE  Accounts(new)
<1>1. PICK o \in st.free, i \in Indices : \E sd :
        /\ Entered(st, new, r, s, qty, price, o, i, sd)
        /\ \/ InWindow(st, new, s, price, o, i, sd)
           \/ Recentred(st, new, s, price, o, i, sd)
    BY DEF PlacedFor
<1>2. PICK sd :
        /\ Entered(st, new, r, s, qty, price, o, i, sd)
        /\ \/ InWindow(st, new, s, price, o, i, sd)
           \/ Recentred(st, new, s, price, o, i, sd)
    BY <1>1
<1>3. o \in Slots /\ new.ord \in [Slots -> Order] /\ new.ord[o].shares = qty
  <2>1. o \in Slots /\ new.ord \in [Slots -> Order]
      BY StateFacts
  <2> QED BY <2>1, <1>2 DEF Entered
<1>4. \A x \in Slots : x # o => new.ord[x].shares = st.ord[x].shares
    BY <1>2, PlacedOthers
<1>5. \A t \in Side, j \in Indices : o \notin At(st.bk[t], j)
    BY StateFacts
<1>6. ASSUME NEW j \in Indices
      PROVE  /\ LevelOK(sd.levels[j], Slots) /\ LevelSum(sd.levels[j], st.ord)
             /\ o \notin Range(sd.levels[j].fifo) /\ Range(sd.levels[j].fifo) \subseteq Slots
  <2>1. CASE InWindow(st, new, s, price, o, i, sd)
    <3>1. sd.levels[j] = st.bk[s].levels[j]
        BY <2>1 DEF InWindow
    <3> QED BY <3>1, <1>5, StateFacts DEF Accounts
  <2>2. CASE Recentred(st, new, s, price, o, i, sd)
    <3>1. /\ LevelOK(sd.levels[j], Slots) /\ At(sd, j) \subseteq Mapped(st.map)
          /\ sd.levels[j].total_qty = SharesOf(At(sd, j), st.ord)
        BY <2>2 DEF Recentred
    <3>2. At(sd, j) \subseteq Slots /\ o \notin At(sd, j)
        BY <3>1, MappedSlots
    <3>3. SharesOf(At(sd, j), st.ord) \in Int
        BY <3>2, SharesFit, StateFacts
    <3>4. LevelSum(sd.levels[j], st.ord)
      <4> DEFINE sum == SharesOf(At(sd, j), st.ord)
      <4> HIDE DEF sum
      <4>1. sum = sum + 0 * W32 /\ 0 \in Int
          BY <3>3, WidthAssumption DEF sum
      <4>2. Congruent(sum, sum)
          BY <4>1 DEF Congruent
      <4> QED BY <4>2, <3>1 DEF sum, LevelSum, At
    <3> QED BY <3>1, <3>2, <3>4 DEF At
  <2> QED BY <2>1, <2>2, <1>2
<1> SUFFICES ASSUME NEW t \in Side, NEW j \in Indices
             PROVE  LevelSum(new.bk[t].levels[j], new.ord)
    BY DEF Accounts
<1>7. CASE t # s
  <2>1. new.bk[t].levels[j] = st.bk[t].levels[j]
      BY <1>2, <1>7 DEF Entered
  <2>2. /\ LevelSum(st.bk[t].levels[j], st.ord)
        /\ \A x \in Range(st.bk[t].levels[j].fifo) : x \in Slots /\ x # o
      BY <1>5, StateFacts DEF Accounts
  <2>3. \A x \in Range(st.bk[t].levels[j].fifo) : st.ord[x].shares = new.ord[x].shares
      BY <2>2, <1>4
  <2> QED BY <2>1, <2>2, <2>3, KeepSum
<1>8. CASE t = s
  <2>1. \A x \in Range(sd.levels[j].fifo) : st.ord[x].shares = new.ord[x].shares
      BY <1>4, <1>6
  <2>2. CASE j = i
    <3>1. new.bk[t].levels[j] = level_add_order(sd.levels[j], o, new.ord[o].shares)
        BY <2>2, <1>2, <1>3, <1>8 DEF Entered
    <3> QED BY <3>1, <2>1, <1>3, <1>6, AddSum
  <2>3. CASE j # i
    <3>1. new.bk[t].levels[j] = sd.levels[j]
        BY <2>3, <1>2, <1>8 DEF Entered
    <3> QED BY <3>1, <2>1, <1>6, KeepSum
  <2> QED BY <2>2, <2>3
<1> QED BY <1>7, <1>8

(* An execute or cancel that passes the checks takes no more than there is. *)
LEMMA TakeFits ==
    ASSUME NEW r, NEW q, Takes(r, q), Exact
    PROVE  q <= Here.ord[Here.map[r]].shares
<1>1. /\ Goes(Here, r) /\ Covered(r, q) /\ reduce_fault(Here, r, q) = "none"
    BY DEF Takes
<1>2. CASE Conforming
    BY <1>1, <1>2, HereFields DEF Covered, Goes
<1>3. CASE ~NDEBUG
  <2> DEFINE o == Here.map[r]
  <2>1. level_reduce_asserts(LevelOf(Here, o), Here.ord[o].shares, q)
      BY <1>1, <1>3 DEF reduce_fault
  <2> QED BY <2>1 DEF level_reduce_asserts
<1> QED BY <1>2, <1>3 DEF Exact

(* The next state is sound as a record. *)
LEMMA NextHere ==
    ASSUME IndInv, [Next]_vars
    PROVE  StateOK(Here) /\ StateOK(Here') /\ Steps
<1>1. IndInv'
    BY NextOK
<1>2. StateOK(Here')
    BY <1>1 DEF IndInv
<1> QED BY <1>2, StepCases DEF IndInv

LEMMA EmptyAccounts ==
    ASSUME NEW st, \A s \in Side, i \in Indices : st.bk[s].levels[i] = EmptyLevel
    PROVE  Accounts(st)
BY EmptySum DEF Accounts

(* Every step keeps the accounts, whatever the feed sends. *)
LEMMA NextAccounts == IndInv /\ Accounts(Here) /\ [Next]_vars => Accounts(Here)'
<1> SUFFICES ASSUME IndInv, Accounts(Here), [Next]_vars PROVE Accounts(Here')
    OBVIOUS
<1>0. StateOK(Here) /\ StateOK(Here') /\ Steps
    BY NextHere
<1>1. CASE Stays
  <2>1. Here' = Here
      BY <1>1 DEF Stays
  <2> QED BY <2>1
<1>2. CASE Empties
  <2>1. Here'.bk = [s \in Side |-> [EmptySide EXCEPT !.ref = book[s].ref]]
      BY <1>2 DEF Empties, Here
  <2>2. \A s \in Side, i \in Indices : Here'.bk[s].levels[i] = EmptyLevel
      BY <2>1 DEF EmptySide
  <2> QED BY <2>2, EmptyAccounts
<1>3. ASSUME NEW r \in Refs, NEW s \in Side, NEW q \in Quantities, NEW p \in Prices,
             Places(r, s, q, p)
      PROVE  Accounts(Here')
    BY <1>0, <1>3, PlaceSums DEF Places
<1>4. ASSUME NEW r \in Refs, NEW q \in Quantities, Takes(r, q) PROVE Accounts(Here')
  <2>1. PICK left : /\ StateOK(left) /\ Goes(left, r) /\ Reduced(Here, left, r, q)
                    /\ IF left.ord[order_map_[r]].shares = 0 THEN Withdrawn(left, Here', r)
                                                             ELSE Here' = left
      BY <1>4 DEF Takes
  <2>2. Goes(Here, r) /\ (Exact => q <= Here.ord[Here.map[r]].shares)
      BY <1>4, TakeFits DEF Takes
  <2>3. Accounts(left)
      BY <2>1, <2>2, <1>0, ReduceSums
  <2> QED BY <2>1, <2>3, WithdrawSums
<1>5. ASSUME NEW r \in Refs, Deletes(r) PROVE Accounts(Here')
    BY <1>0, <1>5, WithdrawSums DEF Deletes
<1>6. ASSUME NEW old \in Refs, NEW new \in Refs, NEW q \in Quantities, NEW p \in Prices,
             Replaces(old, new, q, p)
      PROVE  Accounts(Here')
  <2> DEFINE s == pool_[order_map_[old]].side
  <2>1. PICK left : /\ StateOK(left) /\ Withdrawn(Here, left, old)
                    /\ PlacedFor(left, Here', new, s, q, p)
      BY <1>6 DEF Replaces
  <2>2. Goes(Here, old)
      BY <1>6 DEF Replaces
  <2>3. s \in Side
      BY <2>2, <1>0, HereFields, LiveOrder DEF Goes
  <2>4. Accounts(left)
      BY <2>1, <2>2, <1>0, WithdrawSums
  <2> HIDE DEF s
  <2> QED BY <2>1, <2>3, <2>4, <1>0, PlaceSums
<1> QED BY <1>0, <1>1, <1>2, <1>3, <1>4, <1>5, <1>6 DEF Steps

LEMMA InitAccounts == Init => Accounts(Here)
<1> SUFFICES ASSUME Init PROVE Accounts(Here)
    OBVIOUS
<1>1. \A s \in Side, i \in Indices : Here.bk[s].levels[i] = EmptyLevel
    BY HereFields DEF Init, EmptySide
<1> QED BY <1>1, EmptyAccounts

LEMMA AccountsInvariance == Spec => [](IndInv /\ Accounts(Here))
BY InitAccounts, InitOK, NextOK, NextAccounts, PTL DEF Spec

(***************************************************************************)
(* Whatever the feed sends and in both builds, a level's order_count is    *)
(* the length of its queue and its total_qty agrees with the sum of the    *)
(* shares queued there modulo 2^32; with a conforming feed, or with the    *)
(* assertions on, it is that sum.                                          *)
(***************************************************************************)
THEOREM LevelsAddUp == Spec => []LevelAccounting
<1>1. ASSUME IndInv, Accounts(Here) PROVE LevelAccounting
  <2> SUFFICES ASSUME NEW s \in Side, NEW i \in Indices
               PROVE  LET lvl == book[s].levels[i]
                          sum == SharesOf(Linked(s, i), pool_)
                      IN  /\ lvl.order_count = Len(lvl.fifo)
                          /\ lvl.total_qty % W32 = sum % W32
                          /\ (Conforming \/ ~NDEBUG) => lvl.total_qty = sum
      BY DEF LevelAccounting
  <2> DEFINE lvl == book[s].levels[i]
             sum == SharesOf(Range(lvl.fifo), pool_)
  <2>1. LevelOK(lvl, Slots) /\ pool_ \in [Slots -> Order]
      BY <1>1, StateFacts, HereFields DEF IndInv
  <2>2. Congruent(lvl.total_qty, sum) /\ (Exact => lvl.total_qty = sum)
      BY <1>1, HereFields DEF Accounts, LevelSum
  <2>3. lvl.order_count = Len(lvl.fifo)
      BY <2>1 DEF LevelOK
  <2>4. lvl.total_qty \in Int /\ sum \in Int
      BY <2>1, LevelFacts
  <2> HIDE DEF lvl, sum
  <2>5. lvl.total_qty % W32 = sum % W32
      BY <2>2, <2>4, CongruentMod
  <2> QED BY <2>2, <2>3, <2>5 DEF Exact, Linked, lvl, sum
<1> QED BY <1>1, AccountsInvariance, PTL
=============================================================================

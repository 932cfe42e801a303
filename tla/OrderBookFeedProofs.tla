-------------------------- MODULE OrderBookFeedProofs --------------------------
(***************************************************************************)
(* What a conforming feed can rely on: no Order is lost, every order is at *)
(* the index of its price, the process stops only for a full pool or an    *)
(* order a recentre left out, and best_bid_offer is the market's.  Then    *)
(* what a step may never do, and that the book implements ITCHBook.        *)
(***************************************************************************)
EXTENDS BookFeed, OrderBookProofs

-----------------------------------------------------------------------------
(* What the parts of a handler do to the sets of linked orders. *)
LEMMA WithdrawnAt ==
    ASSUME NEW st, StateOK(st), NEW r, Goes(st, r), NEW new, Withdrawn(st, new, r),
           NEW t \in Side, NEW j \in Indices
    PROVE  At(new.bk[t], j) = At(st.bk[t], j) \ {st.map[r]}
<1> DEFINE o == st.map[r]
           s == st.ord[o].side
           i == st.ord[o].level_idx
           n == st.ord[o].shares
<1>1. o \in Slots /\ s \in Side /\ i \in Indices /\ o \in At(st.bk[s], i)
    BY LiveOrder DEF Goes
<1>2. LevelSet(st, new, s, i, level_remove_order(st.bk[s].levels[i], o, n))
    BY DEF Withdrawn
<1>3. CASE t = s /\ j = i
  <2> DEFINE L == st.bk[t].levels[j]
  <2>1. new.bk[t].levels[j] = level_remove_order(L, o, n)
      BY <1>2, <1>3 DEF LevelSet
  <2>2. LevelOK(L, Slots) /\ o \in Range(L.fifo)
    <3>1. LevelOK(st.bk[t].levels[j], Slots) /\ Range(st.bk[t].levels[j].fifo) = At(st.bk[t], j)
        BY StateFacts
    <3>2. o \in At(st.bk[t], j)
        BY <1>1, <1>3
    <3> QED BY <3>1, <3>2
  <2>3. n \in 0 .. W32 - 1
    <3>1. st.ord[o] \in Order
        BY <1>1, StateFacts
    <3> QED BY <3>1 DEF Order
  <2> HIDE DEF L, o, n
  <2>4. Range(level_remove_order(L, o, n).fifo) = Range(L.fifo) \ {o}
      BY <2>2, <2>3, LevelRemove
  <2> QED BY <2>1, <2>4 DEF At, L, o
<1>4. CASE ~(t = s /\ j = i)
  <2>1. new.bk[t].levels[j] = st.bk[t].levels[j]
      BY <1>2, <1>4 DEF LevelSet
  <2>2. o \notin At(st.bk[t], j)
      BY <1>4, StateFacts
  <2> QED BY <2>1, <2>2 DEF At
<1> QED BY <1>3, <1>4

LEMMA ReducedAt ==
    ASSUME NEW st, StateOK(st), NEW r, NEW qty, NEW new, Reduced(st, new, r, qty),
           NEW t \in Side, NEW j \in Indices
    PROVE  new.bk[t].levels[j].fifo = st.bk[t].levels[j].fifo
<1> DEFINE o == st.map[r]
           s == st.ord[o].side
           i == st.ord[o].level_idx
           L == st.bk[t].levels[j]
<1>1. LevelSet(st, new, s, i, level_reduce_shares(st.bk[s].levels[i], qty))
    BY DEF Reduced
<1>2. new.bk[t].levels[j] = level_reduce_shares(L, qty) \/ new.bk[t].levels[j] = L
    BY <1>1 DEF LevelSet
<1>3. L \in Level(Slots)
    BY StateFacts DEF LevelOK
<1> HIDE DEF L
<1>4. level_reduce_shares(L, qty).fifo = L.fifo
    BY <1>3 DEF level_reduce_shares, Level
<1> QED BY <1>2, <1>4 DEF L

(* An order placed, with the side that insert_at starts from. *)
PlacedAt(st, new, r, s, qty, price, o, i, sd) ==
    /\ Entered(st, new, r, s, qty, price, o, i, sd)
    /\ \/ InWindow(st, new, s, price, o, i, sd)
       \/ Recentred(st, new, s, price, o, i, sd)

(* The sides that insert_at starts from, in both branches of insert_order. *)
LEMMA EnteredAt ==
    ASSUME NEW st, StateOK(st), NEW new, NEW r, NEW s \in Side, NEW qty \in Quantities, NEW price,
           NEW o, NEW i, NEW sd, PlacedAt(st, new, r, s, qty, price, o, i, sd),
           NEW j \in Indices
    PROVE  /\ LevelOK(sd.levels[j], Slots)
           /\ At(sd, j) \subseteq Slots \ {o}
           /\ InWindow(st, new, s, price, o, i, sd) => At(sd, j) = At(st.bk[s], j)
           /\ \A x : x \in At(new.bk[s], j) <=> (x \in At(sd, j) \/ (x = o /\ j = i))
<1>0. /\ Entered(st, new, r, s, qty, price, o, i, sd)
      /\ \/ InWindow(st, new, s, price, o, i, sd)
         \/ Recentred(st, new, s, price, o, i, sd)
    BY DEF PlacedAt
<1>1. o \in st.free /\ o \in Slots
    BY <1>0, StateFacts DEF Entered
<1>2. InWindow(st, new, s, price, o, i, sd) => sd.levels[j] = st.bk[s].levels[j]
    BY DEF InWindow
<1>3. /\ LevelOK(sd.levels[j], Slots) /\ o \notin At(sd, j) /\ At(sd, j) \subseteq Slots
  <2>1. CASE InWindow(st, new, s, price, o, i, sd)
    <3>1. At(sd, j) = At(st.bk[s], j)
        BY <2>1, <1>2 DEF At
    <3> QED BY <3>1, <2>1, <1>1, <1>2, StateFacts
  <2>2. CASE Recentred(st, new, s, price, o, i, sd)
    <3>1. LevelOK(sd.levels[j], Slots) /\ At(sd, j) \subseteq Mapped(st.map)
        BY <2>2 DEF Recentred
    <3> QED BY <3>1, <1>1, MappedSlots
  <2> QED BY <2>1, <2>2, <1>0
<1>4. CASE j = i
  <2> DEFINE L == sd.levels[j]
  <2>1. new.bk[s].levels[j] = level_add_order(L, o, qty)
      BY <1>0, <1>4 DEF Entered
  <2>2. LevelOK(L, Slots) /\ o \notin Range(L.fifo) /\ qty \in 0 .. W32 - 1
      BY <1>3, BookAssumption DEF At
  <2> HIDE DEF L
  <2>3. Range(level_add_order(L, o, qty).fifo) = Range(L.fifo) \cup {o}
      BY <2>2, <1>1, AddRange
  <2> QED BY <2>1, <2>3, <1>2, <1>3, <1>4 DEF At, L
<1>5. CASE j # i
  <2>1. new.bk[s].levels[j] = sd.levels[j]
      BY <1>0, <1>5 DEF Entered
  <2> QED BY <2>1, <1>2, <1>3, <1>5 DEF At
<1> QED BY <1>4, <1>5

(* The slots the map holds after one entry goes or comes. *)
LEMMA UnmappedSlots ==
    ASSUME NEW st, StateOK(st), NEW r \in Refs, st.map[r] # nullptr,
           NEW m, m = [st.map EXCEPT ![r] = nullptr]
    PROVE  Mapped(m) = Mapped(st.map) \ {st.map[r]}
<1>1. \A q \in Refs : m[q] = IF q = r THEN nullptr ELSE st.map[q]
    BY StateFacts
<1>2. \A q \in Refs : st.map[q] = st.map[r] => q = r
    BY DEF StateOK, MapOK
<1> QED BY <1>1, <1>2 DEF Mapped

LEMMA NewlyMapped ==
    ASSUME NEW st, StateOK(st), NEW r \in Refs, st.map[r] = nullptr, NEW o \in Slots,
           NEW m, m = [st.map EXCEPT ![r] = o]
    PROVE  Mapped(m) = Mapped(st.map) \cup {o}
<1>1. \A q \in Refs : m[q] = IF q = r THEN o ELSE st.map[q]
    BY StateFacts
<1>2. o # nullptr
    BY BookAssumption
<1>3. ASSUME NEW x \in Mapped(m) PROVE x \in Mapped(st.map) \cup {o}
    BY <1>1, <1>3 DEF Mapped
<1>4. ASSUME NEW x \in Mapped(st.map) PROVE x \in Mapped(m)
  <2>1. PICK q \in Refs : x = st.map[q] /\ x # nullptr
      BY <1>4 DEF Mapped
  <2>2. q # r /\ m[q] = x
      BY <2>1, <1>1
  <2> QED BY <2>1, <2>2 DEF Mapped
<1>5. o \in Mapped(m)
  <2>1. m[r] = o
      BY <1>1
  <2> QED BY <2>1, <1>2 DEF Mapped
<1> QED BY <1>3, <1>4, <1>5

-----------------------------------------------------------------------------
(* No slot is lost and no level links what the map does not hold. *)
Tidy(st) ==
    /\ Slots = st.free \cup Mapped(st.map)
    /\ \A s \in Side, i \in Indices : At(st.bk[s], i) \subseteq Mapped(st.map)

LEMMA WithdrawTidy ==
    ASSUME NEW st, StateOK(st), Tidy(st), NEW r, Goes(st, r), NEW new, Withdrawn(st, new, r)
    PROVE  Tidy(new)
<1> DEFINE o == st.map[r]
<1>1. r \in Refs /\ o # nullptr /\ o \in Slots
    BY LiveOrder DEF Goes
<1>2. new.map = [st.map EXCEPT ![r] = nullptr] /\ new.free = st.free \cup {o}
    BY DEF Withdrawn
<1>3. Mapped(new.map) = Mapped(st.map) \ {o}
    BY <1>1, <1>2, UnmappedSlots
<1>4. \A t \in Side, j \in Indices : At(new.bk[t], j) = At(st.bk[t], j) \ {o}
    BY WithdrawnAt
<1> HIDE DEF o
<1> QED BY <1>1, <1>2, <1>3, <1>4 DEF Tidy

LEMMA ReduceTidy ==
    ASSUME NEW st, StateOK(st), Tidy(st), NEW r, NEW qty, NEW new, Reduced(st, new, r, qty)
    PROVE  Tidy(new)
<1>1. \A t \in Side, j \in Indices : At(new.bk[t], j) = At(st.bk[t], j)
    BY ReducedAt DEF At
<1>2. new.map = st.map /\ new.free = st.free
    BY DEF Reduced
<1> QED BY <1>1, <1>2 DEF Tidy

LEMMA PlaceTidy ==
    ASSUME NEW st, StateOK(st), Tidy(st), NEW new, NEW r \in Refs, st.map[r] = nullptr,
           NEW s \in Side, NEW qty \in Quantities, NEW price,
           PlacedFor(st, new, r, s, qty, price)
    PROVE  Tidy(new)
<1>1. PICK o, i, sd : o \in st.free /\ PlacedAt(st, new, r, s, qty, price, o, i, sd)
    BY DEF PlacedFor, PlacedAt
<1>2. /\ Entered(st, new, r, s, qty, price, o, i, sd)
      /\ \/ InWindow(st, new, s, price, o, i, sd)
         \/ Recentred(st, new, s, price, o, i, sd)
    BY <1>1 DEF PlacedAt
<1>3. o \in Slots /\ st.free \subseteq Slots
    BY <1>1, StateFacts
<1>4. new.map = [st.map EXCEPT ![r] = o] /\ new.free = st.free \ {o}
    BY <1>2 DEF Entered
<1>5. Mapped(new.map) = Mapped(st.map) \cup {o}
    BY <1>3, <1>4, NewlyMapped
<1>6. ASSUME NEW j \in Indices PROVE At(sd, j) \subseteq Mapped(st.map)
  <2>1. CASE InWindow(st, new, s, price, o, i, sd)
    <3>1. At(sd, j) = At(st.bk[s], j)
        BY <2>1 DEF InWindow, At
    <3> QED BY <3>1 DEF Tidy
  <2>2. CASE Recentred(st, new, s, price, o, i, sd)
      BY <2>2 DEF Recentred
  <2> QED BY <2>1, <2>2, <1>2
<1>7. ASSUME NEW t \in Side, NEW j \in Indices PROVE At(new.bk[t], j) \subseteq Mapped(new.map)
  <2>1. CASE t = s
    <3>1. \A x : x \in At(new.bk[s], j) <=> (x \in At(sd, j) \/ (x = o /\ j = i))
        BY <1>1, EnteredAt
    <3>2. At(sd, j) \subseteq Mapped(st.map)
        BY <1>6
    <3> QED BY <3>1, <3>2, <2>1, <1>5
  <2>2. CASE t # s
    <3>1. new.bk[t] = st.bk[t]
        BY <2>2, <1>2 DEF Entered
    <3> QED BY <3>1, <1>5 DEF Tidy
  <2> QED BY <2>1, <2>2
<1>8. Slots = new.free \cup Mapped(new.map)
    BY <1>3, <1>4, <1>5 DEF Tidy
<1> QED BY <1>7, <1>8 DEF Tidy


-----------------------------------------------------------------------------
(* Where an order of this price belongs, as mathematics has it. *)
IndexFor(s, ref, price) ==
    IF TicksWorse(s, ref, price) \in Indices THEN TicksWorse(s, ref, price) ELSE -1

(* The casts of bid_idx and ask_idx keep the prices, so they find that index. *)
LEMMA IdxIsTicks ==
    ASSUME NEW s \in Side, NEW ref \in Prices, NEW p \in Prices
    PROVE  /\ PriceIdx(s, ref, p) = TicksWorse(s, ref, p)
           /\ (IF PriceIdx(s, ref, p) \in Indices THEN PriceIdx(s, ref, p) ELSE -1)
                = IndexFor(s, ref, p)
<1>1. ref \in Int /\ p \in Int /\ W32 \in Int /\ 2 * ref < W32 /\ 2 * p < W32
    BY BookAssumption, WidthAssumption, PriceAssumption
<1>2. Int32(ref) = ref /\ Int32(p) = p
    BY <1>1 DEF Int32
<1>3. PriceIdx(s, ref, p) = TicksWorse(s, ref, p)
    BY <1>2 DEF PriceIdx, TicksWorse
<1> QED BY <1>3 DEF IndexFor

LEMMA IndexForSelf ==
    ASSUME NEW s \in Side, NEW p \in Prices
    PROVE  IndexFor(s, p, p) = 0
<1>1. TicksWorse(s, p, p) = 0
    BY BookAssumption, WidthAssumption DEF TicksWorse
<1> QED BY <1>1, IndicesNat DEF IndexFor

(***************************************************************************)
(* When the prices fit in the window, a price outside it is better than    *)
(* the reference, so that a recentre on it leaves no order of the side out. *)
(***************************************************************************)
LEMMA WideKeeps ==
    ASSUME WideWindow, NEW s \in Side, NEW ref \in Prices, NEW p \in Prices, NEW u \in Prices,
           IndexFor(s, ref, u) # -1, IndexFor(s, ref, p) = -1
    PROVE  IndexFor(s, p, u) # -1
<1>1. ref \in Int /\ p \in Int /\ u \in Int /\ kLevels \in Int
    BY BookAssumption, WidthAssumption
<1>2. /\ ref - p < kLevels /\ p - ref < kLevels /\ u - ref < kLevels /\ ref - u < kLevels
      /\ p - u < kLevels /\ u - p < kLevels
    BY DEF WideWindow
<1>3. TicksWorse(s, ref, u) \in Indices
    BY DEF IndexFor
<1>4. TicksWorse(s, ref, p) \notin Indices
  <2>1. -1 \notin Indices
      BY IndicesNat
  <2> QED BY <2>1 DEF IndexFor
<1>5. TicksWorse(s, p, u) \in Indices
    BY <1>1, <1>2, <1>3, <1>4 DEF TicksWorse, Indices, Side
<1>6. IndexFor(s, p, u) \in Indices
    BY <1>5 DEF IndexFor
<1> QED BY <1>6, IndicesNat


(* Every live order is where its price says, on a side with a reference,   *)
(* and in a level when the prices fit in the window.                       *)
PricedAt(st, r) ==
    LET od == st.ord[st.map[r]]
    IN  /\ od.price \in Prices /\ od.price # 0
        /\ st.bk[od.side].ref # 0
        /\ od.level_idx = NewIdx(od.side, st.bk[od.side].ref, od)
        /\ od.level_idx = IndexFor(od.side, st.bk[od.side].ref, od.price)
        /\ WideWindow => od.level_idx # -1

Priced(st) == \A r \in Refs : st.map[r] # nullptr => PricedAt(st, r)

LEMMA WithdrawPriced ==
    ASSUME NEW st, StateOK(st), Priced(st), NEW r, Goes(st, r), NEW new, Withdrawn(st, new, r)
    PROVE  Priced(new)
<1> SUFFICES ASSUME NEW q \in Refs, new.map[q] # nullptr PROVE PricedAt(new, q)
    BY DEF Priced
<1> DEFINE x == new.map[q]
<1>1. r \in Refs /\ st.map \in [Refs -> Slots \cup {nullptr}] /\ st.ord \in [Slots -> Order]
    BY StateFacts DEF Goes
<1>2. q # r /\ x = st.map[q] /\ x # st.map[r] /\ x \in Slots
  <2>1. new.map = [st.map EXCEPT ![r] = nullptr]
      BY DEF Withdrawn
  <2>2. q # r /\ x = st.map[q]
      BY <2>1, <1>1
  <2> QED BY <2>2, <1>1 DEF StateOK, MapOK
<1>3. new.ord[x] = st.ord[x]
    BY <1>1, <1>2 DEF Withdrawn
<1>4. \A t \in Side : new.bk[t].ref = st.bk[t].ref
    BY DEF Withdrawn, LevelSet
<1>5. st.ord[x].side \in Side
    BY <1>2 DEF StateOK, MapOK
<1>6. PricedAt(st, q)
    BY <1>2 DEF Priced
<1> QED BY <1>2, <1>3, <1>4, <1>5, <1>6 DEF PricedAt

LEMMA ReducePriced ==
    ASSUME NEW st, StateOK(st), Priced(st), NEW r, Goes(st, r), NEW qty,
           NEW new, Reduced(st, new, r, qty)
    PROVE  Priced(new)
<1> SUFFICES ASSUME NEW q \in Refs, new.map[q] # nullptr PROVE PricedAt(new, q)
    BY DEF Priced
<1> DEFINE x == st.map[q]
<1>1. st.map \in [Refs -> Slots \cup {nullptr}] /\ st.ord \in [Slots -> Order] /\ new.map = st.map
    BY StateFacts DEF Reduced
<1>2. x \in Slots /\ st.ord[x] \in Order /\ st.ord[x].side \in Side
    BY <1>1 DEF StateOK, MapOK
<1>3. /\ new.ord[x].side = st.ord[x].side /\ new.ord[x].price = st.ord[x].price
      /\ new.ord[x].level_idx = st.ord[x].level_idx
  <2>1. new.ord = [st.ord EXCEPT ![st.map[r]].shares = SubW(@, qty, W32)]
      BY DEF Reduced
  <2> QED BY <2>1, <1>1, <1>2 DEF Order
<1>4. \A t \in Side : new.bk[t].ref = st.bk[t].ref
    BY DEF Reduced, LevelSet
<1>5. PricedAt(st, q)
    BY <1>1 DEF Priced
<1> QED BY <1>1, <1>2, <1>3, <1>4, <1>5 DEF PricedAt, NewIdx

(* An order on which a side is centred is at index 0. *)
LEMMA IdxOfSelf ==
    ASSUME NEW s \in Side, NEW p \in Prices
    PROVE  PriceIdx(s, p, p) = 0
<1>1. TicksWorse(s, p, p) = 0
    BY BookAssumption, WidthAssumption DEF TicksWorse
<1> QED BY <1>1, IdxIsTicks

(* The order that comes is at the index of its price ... *)
LEMMA PlaceNewPriced ==
    ASSUME NEW st, StateOK(st), NEW new, NEW r \in Refs, NEW s \in Side, NEW qty,
           NEW price \in Prices, price > 0, NEW o, NEW i, NEW sd,
           PlacedAt(st, new, r, s, qty, price, o, i, sd)
    PROVE  PricedAt(new, r) /\ new.bk[s].ref \in Prices
<1>1. /\ Entered(st, new, r, s, qty, price, o, i, sd)
      /\ \/ InWindow(st, new, s, price, o, i, sd)
         \/ Recentred(st, new, s, price, o, i, sd)
    BY DEF PlacedAt
<1>2. /\ new.map[r] = o /\ new.bk[s].ref = sd.ref /\ i \in Indices
      /\ new.ord[o] = [shares |-> qty, price |-> price, side |-> s, level_idx |-> i]
    BY <1>1, StateFacts DEF Entered
<1>3. price # 0 /\ st.bk[s] \in SideType
    BY StateFacts, BookAssumption, WidthAssumption
<1>4. /\ sd.ref \in Prices /\ sd.ref # 0 /\ i = PriceIdx(s, sd.ref, price)
      /\ i = IndexFor(s, sd.ref, price)
  <2>1. CASE InWindow(st, new, s, price, o, i, sd)
    <3>1. sd.ref = (IF st.bk[s].ref = 0 THEN price ELSE st.bk[s].ref) /\ i = PriceIdx(s, sd.ref, price)
        BY <2>1 DEF InWindow
    <3>2. sd.ref \in Prices /\ sd.ref # 0
        BY <3>1, <1>3 DEF SideType
    <3>3. (IF PriceIdx(s, sd.ref, price) \in Indices THEN PriceIdx(s, sd.ref, price) ELSE -1)
             = IndexFor(s, sd.ref, price)
        BY <3>2, IdxIsTicks
    <3> QED BY <3>1, <3>2, <3>3, <1>2
  <2>2. CASE Recentred(st, new, s, price, o, i, sd)
    <3>1. sd.ref = price /\ i = 0
        BY <2>2 DEF Recentred
    <3> QED BY <3>1, <1>3, IndexForSelf, IdxOfSelf
  <2> QED BY <2>1, <2>2, <1>1
<1>5. NewIdx(s, sd.ref, new.ord[o]) = i
  <2>1. new.ord[o].price = price /\ PriceIdx(s, sd.ref, price) \in Indices
      BY <1>2, <1>4
  <2> QED BY <2>1, <1>4 DEF NewIdx
<1> QED BY <1>2, <1>3, <1>4, <1>5, IndicesNat DEF PricedAt

(* ... and a recentre gives every order that stays the index of its price. *)
LEMMA PlaceOldPriced ==
    ASSUME NEW st, StateOK(st), NEW new, NEW r \in Refs, NEW s \in Side, NEW qty,
           NEW price \in Prices, price > 0, NEW o, NEW i, NEW sd,
           PlacedAt(st, new, r, s, qty, price, o, i, sd),
           NEW q \in Refs, q # r, st.map[q] # nullptr, PricedAt(st, q)
    PROVE  PricedAt(new, q)
<1>1. /\ Entered(st, new, r, s, qty, price, o, i, sd)
      /\ \/ InWindow(st, new, s, price, o, i, sd)
         \/ Recentred(st, new, s, price, o, i, sd)
    BY DEF PlacedAt
<1> DEFINE x == st.map[q]
           t == st.ord[x].side
           u == st.ord[x].price
<1>2. /\ new.map[q] = x /\ new.bk[s].ref = sd.ref /\ o \in st.free
      /\ t # s => new.bk[t] = st.bk[t]
  <2>1. t \in Side
      BY DEF StateOK, MapOK
  <2> QED BY <2>1, <1>1, StateFacts DEF Entered
<1>3. price # 0 /\ st.bk[s] \in SideType
    BY StateFacts, BookAssumption, WidthAssumption
<1>4. x \in Slots /\ x # o /\ t \in Side /\ st.ord[x] \in Order /\ x \in Mapped(st.map)
  <2>1. x \in Slots /\ x \notin st.free /\ t \in Side
      BY StateFacts DEF StateOK, MapOK
  <2> QED BY <2>1, <1>2, StateFacts, MappedSlots
<1>5. /\ u \in Prices /\ u # 0 /\ st.bk[t].ref # 0
      /\ st.ord[x].level_idx = NewIdx(t, st.bk[t].ref, st.ord[x])
      /\ st.ord[x].level_idx = IndexFor(t, st.bk[t].ref, u)
      /\ WideWindow => st.ord[x].level_idx # -1
    BY DEF PricedAt
<1>6. CASE t # s
  <2>1. new.ord[x] = st.ord[x]
      BY <1>1, <1>4, <1>6 DEF InWindow, Recentred
  <2> QED BY <2>1, <1>2, <1>5, <1>6 DEF PricedAt
<1>7. CASE t = s /\ InWindow(st, new, s, price, o, i, sd)
  <2>1. new.ord[x] = st.ord[x] /\ sd.ref = st.bk[s].ref
      BY <1>4, <1>5, <1>7 DEF InWindow
  <2> QED BY <2>1, <1>2, <1>5, <1>7 DEF PricedAt
<1>8. CASE t = s /\ Recentred(st, new, s, price, o, i, sd)
  <2>1. /\ new.ord[x] = [st.ord[x] EXCEPT !.level_idx = NewIdx(s, price, st.ord[x])]
        /\ sd.ref = price
      BY <1>4, <1>8 DEF Recentred
  <2>2. NewIdx(s, price, st.ord[x]) = IndexFor(s, price, u)
      BY <1>5, IdxIsTicks DEF NewIdx
  <2>3. /\ new.ord[x].side = s /\ new.ord[x].price = u
        /\ new.ord[x].level_idx = NewIdx(s, price, st.ord[x])
      BY <2>1, <1>4, <1>8 DEF Order
  <2>4. ASSUME WideWindow PROVE IndexFor(s, price, u) # -1
    <3>1. st.bk[s].ref \in Prices
        BY <1>3, <1>5, <1>8 DEF SideType
    <3>2. IndexFor(s, st.bk[s].ref, u) # -1
        BY <2>4, <3>1, <1>5, <1>8
    <3>3. PriceIdx(s, st.bk[s].ref, price) \notin Indices
        BY <1>5, <1>8 DEF Recentred
    <3>4. (IF PriceIdx(s, st.bk[s].ref, price) \in Indices THEN PriceIdx(s, st.bk[s].ref, price)
           ELSE -1) = IndexFor(s, st.bk[s].ref, price)
        BY <3>1, IdxIsTicks
    <3>5. IndexFor(s, st.bk[s].ref, price) = -1
        BY <3>3, <3>4
    <3> QED BY <2>4, <3>1, <3>2, <3>5, <1>5, WideKeeps
  <2>5. new.ord[x].level_idx = IndexFor(s, price, u)
      BY <2>2, <2>3
  <2>6. WideWindow => new.ord[x].level_idx # -1
      BY <2>4, <2>5
  <2>7. new.map[q] = x /\ new.bk[s].ref = price /\ price # 0 /\ u \in Prices /\ u # 0
      BY <2>1, <1>2, <1>3, <1>5
  <2>8. NewIdx(s, price, new.ord[x]) = NewIdx(s, price, st.ord[x])
      BY <2>3 DEF NewIdx
  <2> HIDE DEF x, u
  <2> QED BY <2>3, <2>5, <2>6, <2>7, <2>8 DEF PricedAt
<1> QED BY <1>1, <1>6, <1>7, <1>8

LEMMA PlacePriced ==
    ASSUME NEW st, StateOK(st), Priced(st), NEW new, NEW r \in Refs, NEW s \in Side,
           NEW qty \in Quantities, NEW price \in Prices, price > 0,
           PlacedFor(st, new, r, s, qty, price)
    PROVE  Priced(new)
<1>1. PICK o, i, sd : o \in st.free /\ PlacedAt(st, new, r, s, qty, price, o, i, sd)
    BY DEF PlacedFor, PlacedAt
<1> SUFFICES ASSUME NEW q \in Refs, new.map[q] # nullptr PROVE PricedAt(new, q)
    BY DEF Priced
<1>2. CASE q = r
    BY <1>1, <1>2, PlaceNewPriced
<1>3. CASE q # r
  <2>1. new.map[q] = st.map[q]
      BY <1>1, <1>3, StateFacts DEF PlacedAt, Entered
  <2>2. st.map[q] # nullptr /\ PricedAt(st, q)
      BY <2>1 DEF Priced
  <2> QED BY <2>2, <1>1, <1>3, PlaceOldPriced
<1> QED BY <1>2, <1>3

-----------------------------------------------------------------------------
(* What a conforming feed keeps true, on top of the structure of the book. *)
Fed(st) == Tidy(st) /\ Priced(st)

LEMMA EmptyFed ==
    ASSUME NEW st, st.map = [r \in Refs |-> nullptr], st.free = Slots,
           \A s \in Side, i \in Indices : st.bk[s].levels[i] = EmptyLevel
    PROVE  Fed(st)
<1>1. \A s \in Side, i \in Indices : At(st.bk[s], i) = {}
    BY LevelEmptyOK DEF At
<1>2. \A r \in Refs : st.map[r] = nullptr
    OBVIOUS
<1>3. Mapped(st.map) = {}
    BY <1>2 DEF Mapped
<1> QED BY <1>1, <1>2, <1>3 DEF Fed, Tidy, Priced

LEMMA WithdrawFed ==
    ASSUME NEW st, StateOK(st), Fed(st), NEW r, Goes(st, r), NEW new, Withdrawn(st, new, r)
    PROVE  Fed(new)
BY WithdrawTidy, WithdrawPriced DEF Fed

LEMMA ReduceFed ==
    ASSUME NEW st, StateOK(st), Fed(st), NEW r, Goes(st, r), NEW qty,
           NEW new, Reduced(st, new, r, qty)
    PROVE  Fed(new)
BY ReduceTidy, ReducePriced DEF Fed

LEMMA PlaceFed ==
    ASSUME NEW st, StateOK(st), Fed(st), NEW new, NEW r \in Refs, st.map[r] = nullptr,
           NEW s \in Side, NEW qty \in Quantities, NEW price \in Prices, price > 0,
           PlacedFor(st, new, r, s, qty, price)
    PROVE  Fed(new)
BY PlaceTidy, PlacePriced DEF Fed


(* Every step of a book that a conforming feed drives keeps it. *)
LEMMA NextFed ==
    IndInv /\ (Conforming => Fed(Here)) /\ [Next]_vars => (Conforming => Fed(Here))'
<1> SUFFICES ASSUME IndInv, Conforming, Fed(Here), [Next]_vars PROVE Fed(Here')
    OBVIOUS
<1>0. StateOK(Here) /\ StateOK(Here') /\ Steps
    BY NextHere
<1>1. CASE Stays
  <2>1. Here' = Here
      BY <1>1 DEF Stays
  <2> QED BY <2>1
<1>2. CASE Empties
  <2>1. /\ Here'.bk = [s \in Side |-> [EmptySide EXCEPT !.ref = book[s].ref]]
        /\ Here'.map = [r \in Refs |-> nullptr] /\ Here'.free = Slots
      BY <1>2 DEF Empties, Here
  <2>2. \A s \in Side, i \in Indices : Here'.bk[s].levels[i] = EmptyLevel
      BY <2>1 DEF EmptySide
  <2> QED BY <2>1, <2>2, EmptyFed
<1>3. ASSUME NEW r \in Refs, NEW s \in Side, NEW q \in Quantities, NEW p \in Prices,
             Places(r, s, q, p)
      PROVE  Fed(Here')
  <2>1. Here.map[r] = nullptr /\ p > 0 /\ PlacedFor(Here, Here', r, s, q, p)
      BY <1>3, HereFields DEF Places, FreshRef, Sound
  <2> QED BY <2>1, <1>0, PlaceFed
<1>4. ASSUME NEW r \in Refs, NEW q \in Quantities, Takes(r, q) PROVE Fed(Here')
  <2>1. PICK left : /\ StateOK(left) /\ Goes(left, r) /\ Reduced(Here, left, r, q)
                    /\ IF left.ord[order_map_[r]].shares = 0 THEN Withdrawn(left, Here', r)
                                                             ELSE Here' = left
      BY <1>4 DEF Takes
  <2>2. Goes(Here, r)
      BY <1>4 DEF Takes
  <2>3. Fed(left)
      BY <2>1, <2>2, <1>0, ReduceFed
  <2> QED BY <2>1, <2>3, WithdrawFed
<1>5. ASSUME NEW r \in Refs, Deletes(r) PROVE Fed(Here')
    BY <1>0, <1>5, WithdrawFed DEF Deletes
<1>6. ASSUME NEW old \in Refs, NEW new \in Refs, NEW q \in Quantities, NEW p \in Prices,
             Replaces(old, new, q, p)
      PROVE  Fed(Here')
  <2> DEFINE s == pool_[order_map_[old]].side
  <2>1. PICK left : /\ StateOK(left) /\ Withdrawn(Here, left, old)
                    /\ PlacedFor(left, Here', new, s, q, p)
      BY <1>6 DEF Replaces
  <2>2. Goes(Here, old) /\ Here.map[new] = nullptr /\ p > 0
      BY <1>6, HereFields DEF Replaces, FreshRef, Sound
  <2>3. s \in Side
      BY <2>2, <1>0, HereFields, LiveOrder DEF Goes
  <2>4. left.map[new] = nullptr
    <3>1. left.map = [Here.map EXCEPT ![old] = nullptr]
        BY <2>1 DEF Withdrawn
    <3>2. Here.map \in [Refs -> Slots \cup {nullptr}]
        BY <1>0, StateFacts
    <3> QED BY <3>1, <3>2, <2>2
  <2>5. Fed(left)
      BY <2>1, <2>2, <1>0, WithdrawFed
  <2> HIDE DEF s
  <2> QED BY <2>1, <2>2, <2>3, <2>4, <2>5, <1>0, PlaceFed
<1> QED BY <1>0, <1>1, <1>2, <1>3, <1>4, <1>5, <1>6 DEF Steps

LEMMA InitFed == Init => Fed(Here)
<1> SUFFICES ASSUME Init PROVE Fed(Here)
    OBVIOUS
<1>1. Here.map = [r \in Refs |-> nullptr] /\ Here.free = Slots
    BY HereFields DEF Init
<1>2. \A s \in Side, i \in Indices : Here.bk[s].levels[i] = EmptyLevel
    BY HereFields DEF Init, EmptySide
<1> QED BY <1>1, <1>2, EmptyFed

(***************************************************************************)
(* Every handler keeps the book's structural invariant and, when the feed  *)
(* conforms, Fed: the pool is the free list and the mapped Orders, only    *)
(* those are linked in the levels, and a mapped Order has a positive price *)
(* and caches, when no two prices are so far apart that their distance     *)
(* wraps into the window, the index of that price.                         *)
(***************************************************************************)
THEOREM FeedInvariance == Spec => [](IndInv /\ (Conforming => Fed(Here)))
<1>1. Init => (Conforming => Fed(Here))
    BY InitFed
<1> QED BY <1>1, InitOK, NextOK, NextFed, PTL DEF Spec

(***************************************************************************)
(* With a conforming feed no Order is lost, across fills, deletes,         *)
(* replaces, recentres and halts: each is free or mapped, and only mapped  *)
(* Orders are linked in the levels.                                        *)
(***************************************************************************)
THEOREM NothingLeaks == Spec => []NoLeak
<1>1. ASSUME IndInv, Conforming => Fed(Here) PROVE NoLeak
  <2> SUFFICES ASSUME Conforming
               PROVE  /\ Slots = free_list \cup Mapped(order_map_)
                      /\ \A s \in Side, i \in Indices : Linked(s, i) \subseteq Mapped(order_map_)
      BY DEF NoLeak
  <2>1. Tidy(Here)
      BY <1>1 DEF Fed
  <2> QED BY <2>1, HereFields DEF Tidy, At, Linked
<1> QED BY <1>1, FeedInvariance, PTL

(***************************************************************************)
(* With a conforming feed of prices below 2^31, a live order's cached      *)
(* level_idx is the distance of its price from the side's reference when   *)
(* that is inside the window and -1 when it is not, whatever recentres and *)
(* halts came between.                                                     *)
(***************************************************************************)
THEOREM IndexIsPrice == Spec => []IndexMatchesPrice
<1>1. ASSUME IndInv, Conforming => Fed(Here) PROVE IndexMatchesPrice
  <2> SUFFICES ASSUME Conforming, NEW r \in live
               PROVE  LET o     == pool_[order_map_[r]]
                          ticks == TicksWorse(o.side, book[o.side].ref, o.price)
                      IN  o.level_idx = IF ticks \in Indices THEN ticks ELSE -1
      BY DEF IndexMatchesPrice
  <2>1. PricedAt(Here, r)
      BY <1>1, HereFields DEF Fed, Priced, live
  <2> QED BY <2>1, HereFields DEF PricedAt, IndexFor
<1> QED BY <1>1, FeedInvariance, PTL


-----------------------------------------------------------------------------
(* Why the process stops. *)
LEMMA EnoughShares ==
    ASSUME NEW st, StateOK(st), Accounts(st), Exact, NEW r, Goes(st, r)
    PROVE  /\ level_remove_asserts(LevelOf(st, st.map[r]), st.ord[st.map[r]].shares)
           /\ st.ord[st.map[r]].shares <= LevelOf(st, st.map[r]).total_qty
<1> DEFINE o == st.map[r]
           s == st.ord[o].side
           i == st.ord[o].level_idx
           L == st.bk[s].levels[i]
           A == Range(L.fifo)
           n == st.ord[o].shares
<1>1. o \in Slots /\ s \in Side /\ i \in Indices /\ o \in At(st.bk[s], i)
    BY LiveOrder DEF Goes
<1>2. LevelOK(L, Slots) /\ o \in A /\ st.ord \in [Slots -> Order]
  <2>1. /\ st.ord \in [Slots -> Order]
        /\ \A t \in Side, j \in Indices : LevelOK(st.bk[t].levels[j], Slots)
      BY StateFacts
  <2> QED BY <2>1, <1>1 DEF At
<1>3. L.total_qty = SharesOf(A, st.ord)
    BY <1>1 DEF Accounts, LevelSum
<1>4. LevelOf(st, o) = L
    BY DEF LevelOf
<1>5. ~level_empty(L)
    BY <1>2, LevelEmpty
<1>6. L.order_count \in Nat /\ A \in SUBSET Slots
  <2> HIDE DEF L
  <2>1. L \in Level(Slots)
      BY <1>2 DEF LevelOK
  <2> QED BY <2>1, <1>2, LevelFacts, WidthAssumption DEF Level
<1>7. A \in SUBSET Slots /\ n \in 0 .. W32 - 1
  <2>1. st.ord[o] \in Order
      BY <1>1, <1>2
  <2> QED BY <2>1, <1>6 DEF Order
<1> HIDE DEF A
<1>8. SharesOf(A, st.ord) = SharesOf(A \ {o}, st.ord) + n
    BY <1>2, <1>7, SharesRemove
<1>9. SharesOf(A \ {o}, st.ord) \in Nat
  <2>1. A \ {o} \in SUBSET Slots
      BY <1>7
  <2>2. SharesOf(A \ {o}, st.ord) \in 0 .. W64 - 1
      BY <2>1, <1>2, SharesFit
  <2> QED BY <2>2, WidthAssumption
<1> HIDE DEF o, n, L
<1> QED BY <1>3, <1>4, <1>5, <1>6, <1>7, <1>8, <1>9, WidthAssumption
        DEF level_remove_asserts, level_empty, o, n

LEMMA NoRemoveFault ==
    ASSUME NEW st, StateOK(st), Accounts(st), Exact, NEW r, Goes(st, r)
    PROVE  remove_fault(st, r) = "none"
<1>1. level_remove_asserts(LevelOf(st, st.map[r]), st.ord[st.map[r]].shares)
    BY EnoughShares
<1>2. ~(st.ord[st.map[r]].level_idx < 0)
  <2>1. st.ord[st.map[r]].level_idx \in Indices
      BY LiveOrder DEF Goes
  <2> QED BY <2>1, BookAssumption DEF Indices
<1> QED BY <1>1, <1>2 DEF remove_fault

LEMMA NoReduceFault ==
    ASSUME NEW st, StateOK(st), Accounts(st), Exact, NEW r, Goes(st, r),
           NEW qty \in Quantities, qty <= st.ord[st.map[r]].shares
    PROVE  reduce_fault(st, r, qty) = "none"
<1> DEFINE o == st.map[r]
           left == reduce_shares(st, r, qty)
<1>1. r \in Refs /\ o # nullptr /\ o \in Slots /\ st.ord[o].level_idx \in Indices
    BY LiveOrder DEF Goes
<1>2. StateOK(left) /\ left.map = st.map
    BY <1>1, ReduceOK DEF Goes
<1>3. Reduced(st, left, r, qty)
    BY <1>1, ReduceEffect DEF Goes
<1>4. left.ord[o].level_idx = st.ord[o].level_idx
  <2>1. left.ord = [st.ord EXCEPT ![o].shares = SubW(@, qty, W32)]
      BY <1>3 DEF Reduced
  <2>2. st.ord \in [Slots -> Order]
      BY StateFacts
  <2> HIDE DEF left
  <2> QED BY <2>1, <2>2, <1>1 DEF Order
<1> HIDE DEF left
<1>5. Goes(left, r)
    BY <1>1, <1>2, <1>4, IndicesNat DEF Goes
<1>6. Accounts(left)
    BY <1>2, <1>3, ReduceSums
<1>7. remove_fault(left, r) = "none"
    BY <1>2, <1>5, <1>6, NoRemoveFault
<1>8. level_reduce_asserts(LevelOf(st, o), st.ord[o].shares, qty)
  <2> DEFINE n == st.ord[o].shares
             t == LevelOf(st, o).total_qty
  <2>1. n <= t
      BY EnoughShares
  <2>2. qty \in Int /\ n \in Int /\ t \in Int
    <3>1. st.ord[o] \in Order
        BY <1>1, StateFacts
    <3>2. LevelOK(LevelOf(st, o), Slots)
      <4>1. st.ord[o].side \in Side /\ st.ord[o].level_idx \in Indices
          BY LiveOrder DEF Goes
      <4>2. \A s \in Side, i \in Indices : LevelOK(st.bk[s].levels[i], Slots)
          BY StateFacts
      <4> QED BY <4>1, <4>2 DEF LevelOf
    <3> QED BY <3>1, <3>2, BookAssumption, WidthAssumption DEF Order, LevelOK, Level
  <2>3. qty <= n
      OBVIOUS
  <2> HIDE DEF n, t
  <2>4. qty <= t
      BY <2>1, <2>2, <2>3
  <2> QED BY <2>4 DEF level_reduce_asserts, n, t
<1>9. ~(st.ord[o].level_idx < 0)
    BY <1>1, BookAssumption DEF Indices
<1> QED BY <1>7, <1>8, <1>9 DEF reduce_fault, left


(* The references the map holds, as a function of the state. *)
LiveRefs(st) == {r \in Refs : st.map[r] # nullptr}

(* There are no more of them than slots, and as many once every slot is mapped. *)
LEMMA LiveCount ==
    ASSUME NEW st, StateOK(st)
    PROVE  /\ IsFiniteSet(LiveRefs(st))
           /\ Slots = Mapped(st.map) => Cardinality(LiveRefs(st)) = Cardinality(Slots)
<1> DEFINE f == [r \in LiveRefs(st) |-> st.map[r]]
<1>1. \A q, r \in Refs : st.map[q] # nullptr /\ st.map[q] = st.map[r] => q = r
    BY DEF StateOK, MapOK
<1>2. st.map \in [Refs -> Slots \cup {nullptr}]
    BY StateFacts
<1>3. f \in [LiveRefs(st) -> Slots]
    BY <1>2 DEF LiveRefs
<1>4. \A q, r \in LiveRefs(st) : f[q] = f[r] => q = r
    BY <1>1 DEF LiveRefs
<1>5. ASSUME Slots = Mapped(st.map), NEW x \in Slots PROVE \E r \in LiveRefs(st) : f[r] = x
  <2>1. PICK r \in Refs : st.map[r] = x /\ x # nullptr
      BY <1>5 DEF Mapped
  <2> QED BY <2>1 DEF LiveRefs
<1> HIDE DEF f
<1>6. f \in Injection(LiveRefs(st), Slots)
    BY <1>3, <1>4 DEF Injection, IsInjective
<1>7. Slots = Mapped(st.map) => f \in Surjection(LiveRefs(st), Slots)
    BY <1>3, <1>5 DEF Surjection
<1> QED BY <1>6, <1>7, FS_Injection, BookAssumption

(* A full pool, an order that a recentre left out: nothing else stops a conforming feed. *)
Explains(reason) ==
    /\ reason \in {"none", "pool", "level_idx"}
    /\ reason = "pool" => free_list = {}
    /\ reason = "level_idx" => \E s \in Side : LeftOut(s) # {}

LEMMA StopCause ==
    ASSUME Conforming, IndInv, Accounts(Here), NEW reason, StopsFor(reason)
    PROVE  Explains(reason)
<1>0. StateOK(Here) /\ Exact
    BY DEF IndInv, Exact
<1>1. ASSUME NEW r \in Refs, order_map_[r] # nullptr, reason = "level_idx",
             ~Goes(Here, r)
      PROVE  Explains(reason)
  <2> DEFINE o == order_map_[r]
             s == pool_[o].side
  <2>1. o \in Slots /\ pool_[o] \in Order /\ s \in Side
    <3>1. Here.map[r] \in Slots /\ Here.ord[Here.map[r]] \in Order
        BY <1>0, <1>1, StateFacts, HereFields
    <3>2. Here.ord[Here.map[r]].side \in Side
        BY <1>0, <1>1, HereFields DEF StateOK, MapOK
    <3> QED BY <3>1, <3>2, HereFields
  <2>2. pool_[o].level_idx = -1
    <3>1. ~(pool_[o].level_idx >= 0)
        BY <1>1, HereFields DEF Goes
    <3>2. pool_[o].level_idx \in Indices \cup {-1}
        BY <2>1 DEF Order
    <3> QED BY <3>1, <3>2, BookAssumption DEF Indices
  <2>3. r \in LeftOut(s)
      BY <1>1, <2>2 DEF LeftOut, live
  <2> QED BY <2>1, <2>3, <1>1 DEF Explains
<1>2. CASE reason = "pool" /\ free_list = {}
    BY <1>2 DEF Explains
<1>3. ASSUME NEW r \in Refs, order_map_[r] # nullptr, reason = remove_fault(Here, r)
      PROVE  Explains(reason)
  <2>1. CASE Goes(Here, r)
    <3>1. reason = "none"
        BY <2>1, <1>0, <1>3, NoRemoveFault
    <3> QED BY <3>1 DEF Explains
  <2>2. CASE ~Goes(Here, r)
    <3>1. reason = "level_idx"
      <4>1. Here.ord[Here.map[r]].level_idx < 0
        <5>1. Here.map[r] \in Slots /\ Here.ord[Here.map[r]] \in Order
            BY <1>0, <1>3, StateFacts, HereFields
        <5>2. Here.ord[Here.map[r]].level_idx \in Indices \cup {-1}
            BY <5>1 DEF Order
        <5> QED BY <5>2, <2>2, <1>3, HereFields, BookAssumption DEF Goes, Indices
      <4> QED BY <4>1, <1>3 DEF remove_fault
    <3> QED BY <3>1, <2>2, <1>1, <1>3
  <2> QED BY <2>1, <2>2
<1>4. ASSUME NEW r \in Refs, NEW q \in Quantities, order_map_[r] # nullptr, Covered(r, q),
             reason = reduce_fault(Here, r, q)
      PROVE  Explains(reason)
  <2>1. CASE Goes(Here, r)
    <3>1. q <= Here.ord[Here.map[r]].shares
        BY <1>4, HereFields DEF Covered
    <3>2. reason = "none"
        BY <3>1, <2>1, <1>0, <1>4, NoReduceFault
    <3> QED BY <3>2 DEF Explains
  <2>2. CASE ~Goes(Here, r)
    <3>1. reason = "level_idx"
      <4>1. Here.ord[Here.map[r]].level_idx < 0
        <5>1. Here.map[r] \in Slots /\ Here.ord[Here.map[r]] \in Order
            BY <1>0, <1>4, StateFacts, HereFields
        <5>2. Here.ord[Here.map[r]].level_idx \in Indices \cup {-1}
            BY <5>1 DEF Order
        <5> QED BY <5>2, <2>2, <1>4, HereFields, BookAssumption DEF Goes, Indices
      <4> QED BY <4>1, <1>4 DEF reduce_fault
    <3> QED BY <3>1, <2>2, <1>1, <1>4
  <2> QED BY <2>1, <2>2
<1> QED BY <1>2, <1>3, <1>4 DEF StopsFor

(* A stopped process takes no further step. *)
LEMMA StoppedStays == [Next]_vars => fault = "none" \/ UNCHANGED vars
BY DEF Next, OnSystemEvent, OnAdd, OnAddMPID, OnExecute, OnExecuteWithPrice, OnCancel,
       TakeShares, OnDelete, OnReplace

LEMMA NextExplained ==
    IndInv /\ Accounts(Here) /\ (Conforming => Explains(fault)) /\ [Next]_vars
        => (Conforming => Explains(fault))'
<1> SUFFICES ASSUME IndInv, Accounts(Here), Conforming, Explains(fault), [Next]_vars
             PROVE  Explains(fault)'
    OBVIOUS
<1>1. CASE UNCHANGED vars
    BY <1>1 DEF vars, Explains, LeftOut, live
<1>2. CASE Stays
  <2>1. order_map_' = order_map_ /\ pool_' = pool_ /\ free_list' = free_list
      BY <1>2, HereFields DEF Stays, Here
  <2>2. Explains(fault')
      BY <1>2, StopCause DEF Stays
  <2> HIDE DEF Explains
  <2> QED BY <2>1, <2>2 DEF Explains, LeftOut, live
<1>3. CASE fault = "none" /\ fault' = fault
    BY <1>3 DEF Explains
<1>4. Steps
    BY NextHere
<1>5. fault = "none" \/ UNCHANGED vars
    BY StoppedStays
<1> QED BY <1>1, <1>2, <1>3, <1>4, <1>5 DEF Steps, Empties

(***************************************************************************)
(* With a conforming feed the process stops only when the pool has run     *)
(* out, and then every slot holds a live order, or when the level_idx      *)
(* assertion has failed, and then a recentre had left a live order out.    *)
(* The quantity assertions of price_level.hpp never fail.                  *)
(***************************************************************************)
THEOREM OnlyTwoStops == Spec => []StopsAreExplained
<1>1. Init => (Conforming => Explains(fault))
    BY DEF Init, Explains
<1>2. Spec => [](IndInv /\ Accounts(Here) /\ (Conforming => Explains(fault)))
    BY <1>1, AccountsInvariance, NextExplained, PTL DEF Spec
<1>3. ASSUME IndInv, Conforming => Fed(Here), Conforming => Explains(fault)
      PROVE  StopsAreExplained
  <2> SUFFICES ASSUME Conforming
               PROVE  /\ fault \in {"none", "pool", "level_idx"}
                      /\ fault = "pool" => Cardinality(live) = Cardinality(Slots)
                      /\ fault = "level_idx" => \E s \in Side : LeftOut(s) # {}
      BY DEF StopsAreExplained
  <2>1. ASSUME fault = "pool" PROVE Cardinality(live) = Cardinality(Slots)
    <3>1. free_list = {} /\ Tidy(Here) /\ StateOK(Here)
        BY <1>3, <2>1 DEF Explains, Fed, IndInv
    <3>2. Slots = Mapped(Here.map)
        BY <3>1, HereFields DEF Tidy
    <3>3. LiveRefs(Here) = live
        BY HereFields DEF LiveRefs, live
    <3> QED BY <3>1, <3>2, <3>3, LiveCount
  <2> QED BY <1>3, <2>1 DEF Explains
<1> QED BY <1>2, <1>3, FeedInvariance, PTL


-----------------------------------------------------------------------------
(* The best bid and offer. *)

(* An order of a side that has left none out is linked at the index of its price. *)
LEMMA OnSide ==
    ASSUME Conforming, IndInv, Fed(Here), NEW s \in Side, LeftOut(s) = {},
           NEW r \in live, pool_[order_map_[r]].side = s
    PROVE  LET od == pool_[order_map_[r]]
           IN  /\ od.level_idx \in Indices /\ od.price \in 0 .. W32 - 1
               /\ od.level_idx = TicksWorse(s, book[s].ref, od.price)
               /\ order_map_[r] \in At(book[s], od.level_idx)
               /\ ~level_empty(book[s].levels[od.level_idx])
<1> DEFINE o  == order_map_[r]
           od == pool_[o]
           i  == od.level_idx
<1>0. StateOK(Here)
    BY DEF IndInv
<1>1. r \in Refs /\ o # nullptr /\ o \in Slots /\ od \in Order
  <2>1. r \in Refs /\ o # nullptr
      BY DEF live
  <2>2. Here.map[r] \in Slots /\ Here.ord[Here.map[r]] \in Order
      BY <2>1, <1>0, StateFacts, HereFields
  <2> QED BY <2>1, <2>2, HereFields
<1>2. i \in Indices
  <2>1. i \in Indices \cup {-1}
      BY <1>1 DEF Order
  <2>2. i # -1
      BY <1>1 DEF LeftOut
  <2> QED BY <2>1, <2>2
<1>3. od.price \in Prices /\ i = IndexFor(s, book[s].ref, od.price)
    BY <1>1, HereFields DEF Fed, Priced, PricedAt
<1>4. i = TicksWorse(s, book[s].ref, od.price)
    BY <1>2, <1>3, IndicesNat DEF IndexFor
<1>5. o \in At(book[s], i)
  <2>1. Here.map[r] \in At(Here.bk[Here.ord[Here.map[r]].side], Here.ord[Here.map[r]].level_idx)
    <3>1. Here.ord[Here.map[r]].level_idx >= 0
        BY <1>2, HereFields, BookAssumption DEF Indices
    <3> QED BY <3>1, <1>0, <1>1, HereFields, LiveOrder
  <2> QED BY <2>1, HereFields
<1>6. ~level_empty(book[s].levels[i])
  <2>1. LevelOK(book[s].levels[i], Slots)
      BY <1>0, <1>2, StateFacts, HereFields
  <2> QED BY <2>1, <1>5, LevelEmpty DEF At
<1>7. od.price \in 0 .. W32 - 1
    BY <1>3, BookAssumption
<1> QED BY <1>2, <1>4, <1>5, <1>6, <1>7

(* What a level links is live, on that side and at that index. *)
LEMMA LinkedLive ==
    ASSUME IndInv, Fed(Here), NEW s \in Side, NEW i \in Indices, NEW x \in At(book[s], i)
    PROVE  \E r \in live : /\ order_map_[r] = x /\ pool_[order_map_[r]].side = s
                           /\ pool_[order_map_[r]].level_idx = i
<1>0. StateOK(Here)
    BY DEF IndInv
<1>1. x \in Mapped(order_map_)
    BY HereFields DEF Fed, Tidy
<1>2. PICK r \in Refs : order_map_[r] = x /\ x # nullptr
    BY <1>1 DEF Mapped
<1>3. \A y \in At(Here.bk[s], i) : Here.ord[y].side = s /\ Here.ord[y].level_idx = i
    BY <1>0, StateFacts
<1> QED BY <1>2, <1>3, HereFields DEF live

LEMMA PriceRange ==
    ASSUME NEW p \in Prices \cup {0}
    PROVE  p \in 0 .. W32 - 1 /\ p \in Int
BY BookAssumption, WidthAssumption

(* The orders at the best index are the best-priced orders of the side. *)
LEMMA BestIsTop ==
    ASSUME Conforming, IndInv, Fed(Here), NEW s \in Side, LeftOut(s) = {},
           book[s].best \in Indices
    PROVE  LET side == {r \in live : pool_[order_map_[r]].side = s}
               top  == {r \in side : \A q \in side :
                           ~Better(s, pool_[order_map_[q]].price, pool_[order_map_[r]].price)}
           IN  /\ top = {r \in side : pool_[order_map_[r]].level_idx = book[s].best}
               /\ top # {}
<1> DEFINE side == {r \in live : pool_[order_map_[r]].side = s}
           top  == {r \in side : \A q \in side :
                       ~Better(s, pool_[order_map_[q]].price, pool_[order_map_[r]].price)}
           idx(r) == pool_[order_map_[r]].level_idx
           price(r) == pool_[order_map_[r]].price
           b   == book[s].best
           ref == book[s].ref
<1>0. SideOK(book[s])
    BY HereFields DEF IndInv, StateOK
<1>1. /\ ~level_empty(book[s].levels[b])
      /\ \A i \in Indices : i < b => level_empty(book[s].levels[i])
    BY <1>0, IndicesNat DEF SideOK, BestOK
<1>2. ref \in Int /\ b \in Nat
  <2>1. ref \in Prices \cup {0}
      BY <1>0 DEF SideOK, LevelsOK, SideType
  <2>2. ref \in Int
      BY <2>1, PriceRange
  <2> QED BY <2>2, IndicesNat
<1>3. ASSUME NEW r \in side
      PROVE  idx(r) \in Nat /\ price(r) \in Int /\ idx(r) = TicksWorse(s, ref, price(r)) /\ b <= idx(r)
  <2>1. /\ idx(r) \in Indices /\ price(r) \in 0 .. W32 - 1 /\ idx(r) = TicksWorse(s, ref, price(r))
        /\ ~level_empty(book[s].levels[idx(r)])
      BY OnSide
  <2>2. idx(r) \in Nat
      BY <2>1, IndicesNat
  <2>3. ~(idx(r) < b)
      BY <2>1, <1>1
  <2> QED BY <2>1, <2>2, <2>3, <1>2
<1>4. PICK m \in side : idx(m) = b
  <2>1. LevelOK(book[s].levels[b], Slots)
      BY <1>0 DEF SideOK, LevelsOK
  <2>2. At(book[s], b) # {}
      BY <2>1, <1>1, LevelEmpty DEF At
  <2>3. PICK x : x \in At(book[s], b)
      BY <2>2
  <2>4. \E r \in live : /\ order_map_[r] = x /\ pool_[order_map_[r]].side = s
                        /\ pool_[order_map_[r]].level_idx = b
      BY <2>3, LinkedLive
  <2> QED BY <2>4
<1>5. ASSUME NEW q \in side, NEW r \in side
      PROVE  Better(s, price(q), price(r)) <=> idx(q) < idx(r)
  <2>1. /\ idx(q) \in Nat /\ price(q) \in Int /\ idx(q) = TicksWorse(s, ref, price(q))
        /\ idx(r) \in Nat /\ price(r) \in Int /\ idx(r) = TicksWorse(s, ref, price(r))
      BY <1>3
  <2> HIDE DEF idx, price
  <2> QED BY <2>1, <1>2 DEF Better, TicksWorse
<1>6. \A r \in side : r \in top <=> \A q \in side : ~Better(s, price(q), price(r))
    OBVIOUS
<1> HIDE DEF side, top, idx, price
<1>7. ASSUME NEW r \in side PROVE r \in top <=> idx(r) = b
  <2>1. ASSUME idx(r) = b PROVE r \in top
    <3>1. ASSUME NEW q \in side PROVE ~Better(s, price(q), price(r))
        BY <2>1, <1>2, <1>3, <1>5
    <3> QED BY <3>1, <1>6
  <2>2. ASSUME r \in top PROVE idx(r) = b
    <3>1. ~(b < idx(r))
        BY <2>2, <1>4, <1>5, <1>6
    <3> QED BY <3>1, <1>2, <1>3
  <2> QED BY <2>1, <2>2
<1>8. top \subseteq side
    BY DEF top
<1>9. top = {r \in side : idx(r) = b} /\ top # {}
    BY <1>4, <1>7, <1>8
<1> QED BY <1>9 DEF side, top, idx, price

(* The price of an index is the price of the orders there. *)
LEMMA PriceOfIndex ==
    ASSUME NEW s \in Side, NEW ref \in 0 .. W32 - 1, NEW p \in 0 .. W32 - 1, NEW i \in Nat,
           i = TicksWorse(s, ref, p)
    PROVE  PriceFromIdx(s, ref, i) = p
<1>1. (IF s = "B" THEN ref - i ELSE ref + i) = p
    BY WidthAssumption DEF TicksWorse
<1>2. p % W32 = p
    BY WidthAssumption
<1> QED BY <1>1, <1>2 DEF PriceFromIdx


(***************************************************************************)
(* With a conforming feed of prices below 2^31, and as long as no recentre *)
(* has left an order of the side out, what best_bid_offer reports, read    *)
(* from the cached best index, the reference price and one level's         *)
(* counter, is the best price of all live orders of the side and the       *)
(* quantity resting there.                                                 *)
(***************************************************************************)
THEOREM BBOIsTheMarkets == Spec => []BBOIsBest
<1>1. ASSUME IndInv, Conforming => Fed(Here), Accounts(Here) PROVE BBOIsBest
  <2> SUFFICES ASSUME Conforming, NEW s \in Side, LeftOut(s) = {}
               PROVE  SideBBO(s) = BBOOfLive(s)
      BY DEF BBOIsBest
  <2> DEFINE side == {r \in live : pool_[order_map_[r]].side = s}
             top  == {r \in side : \A q \in side :
                         ~Better(s, pool_[order_map_[q]].price, pool_[order_map_[r]].price)}
             b    == book[s].best
             L    == book[s].levels[b]
  <2>0. Fed(Here) /\ StateOK(Here) /\ SideOK(book[s])
      BY <1>1, HereFields DEF IndInv, StateOK
  <2>1. CASE b = -1
    <3>1. ASSUME NEW r \in side PROVE FALSE
      <4>1. /\ pool_[order_map_[r]].level_idx \in Indices
            /\ ~level_empty(book[s].levels[pool_[order_map_[r]].level_idx])
          BY <1>1, <2>0, OnSide
      <4>2. \A i \in Indices : level_empty(book[s].levels[i])
          BY <2>0, <2>1, IndicesNat DEF SideOK, BestOK
      <4> QED BY <4>1, <4>2
    <3>2. side = {}
        BY <3>1
    <3> QED BY <3>2, <2>1 DEF SideBBO, BBOOfLive
  <2>2. CASE b \in Indices
    <3>1. top = {r \in side : pool_[order_map_[r]].level_idx = b} /\ top # {}
        BY <1>1, <2>0, <2>2, BestIsTop
    <3> DEFINE m == CHOOSE r \in top : TRUE
    <3>2. m \in top /\ m \in side /\ pool_[order_map_[m]].level_idx = b
        BY <3>1
    <3>3. pool_[order_map_[m]].price = PriceFromIdx(s, book[s].ref, b)
      <4>1. /\ b = TicksWorse(s, book[s].ref, pool_[order_map_[m]].price)
            /\ pool_[order_map_[m]].price \in 0 .. W32 - 1
          BY <3>2, <1>1, <2>0, OnSide
      <4>2. book[s].ref \in 0 .. W32 - 1
        <5>1. book[s] \in SideType
            BY <2>0 DEF SideOK, LevelsOK
        <5>2. book[s].ref \in Prices \cup {0}
            BY <5>1 DEF SideType
        <5> QED BY <5>2, PriceRange
      <4>3. b \in Nat
          BY <2>2, IndicesNat
      <4> HIDE DEF m, b
      <4> QED BY <4>1, <4>2, <4>3, PriceOfIndex
    <3>4. {order_map_[r] : r \in top} = At(book[s], b)
      <4>1. ASSUME NEW r \in top PROVE order_map_[r] \in At(book[s], b)
        <5>1. r \in side /\ pool_[order_map_[r]].level_idx = b
            BY <3>1
        <5>2. order_map_[r] \in At(book[s], pool_[order_map_[r]].level_idx)
            BY <5>1, <1>1, <2>0, OnSide
        <5> QED BY <5>1, <5>2
      <4>2. ASSUME NEW x \in At(book[s], b) PROVE \E r \in top : x = order_map_[r]
        <5>1. PICK r \in live : /\ order_map_[r] = x /\ pool_[order_map_[r]].side = s
                                /\ pool_[order_map_[r]].level_idx = b
          <6> HIDE DEF b
          <6> QED BY <1>1, <2>0, <2>2, LinkedLive
        <5> QED BY <5>1, <3>1
      <4> HIDE DEF top
      <4> QED BY <4>1, <4>2
    <3>5. L.total_qty = SharesOf(At(book[s], b), pool_)
        BY <1>1, <2>2, HereFields DEF Accounts, LevelSum, Exact, At
    <3>6. side # {}
        BY <3>2
    <3>7. ~(b < 0)
        BY <2>2, BookAssumption DEF Indices
    <3>8. SideBBO(s) = [price |-> PriceFromIdx(s, book[s].ref, b), qty |-> L.total_qty % W32]
        BY <3>7 DEF SideBBO
    <3>9. BBOOfLive(s) = [price |-> pool_[order_map_[m]].price,
                          qty   |-> SharesOf({order_map_[r] : r \in top}, pool_) % W32]
        BY <3>6 DEF BBOOfLive
    <3> QED BY <3>3, <3>4, <3>5, <3>8, <3>9
  <2>3. b = -1 \/ b \in Indices
      BY <2>0 DEF SideOK, BestOK
  <2> QED BY <2>1, <2>2, <2>3
<1> QED BY <1>1, AccountsInvariance, FeedInvariance, PTL


-----------------------------------------------------------------------------
(* What a step may never do. *)

(* The references that are live after each part of a handler. *)
LEMMA LiveAfter ==
    ASSUME NEW st, StateOK(st), NEW new, NEW r \in Refs
    PROVE  /\ Withdrawn(st, new, r) => LiveRefs(new) = LiveRefs(st) \ {r}
           /\ \A q : Reduced(st, new, r, q) => LiveRefs(new) = LiveRefs(st)
<1>1. st.map \in [Refs -> Slots \cup {nullptr}] /\ st.free \subseteq Slots
    BY StateFacts
<1>2. ASSUME Withdrawn(st, new, r) PROVE LiveRefs(new) = LiveRefs(st) \ {r}
  <2>1. new.map = [st.map EXCEPT ![r] = nullptr]
      BY <1>2 DEF Withdrawn
  <2> QED BY <2>1, <1>1 DEF LiveRefs
<1>3. ASSUME NEW q, Reduced(st, new, r, q) PROVE LiveRefs(new) = LiveRefs(st)
    BY <1>3 DEF Reduced, LiveRefs
<1> QED BY <1>2, <1>3

LEMMA LivePlaced ==
    ASSUME NEW st, StateOK(st), NEW new, NEW r \in Refs, NEW s, NEW q, NEW p,
           PlacedFor(st, new, r, s, q, p)
    PROVE  LiveRefs(new) = LiveRefs(st) \cup {r}
<1>1. st.map \in [Refs -> Slots \cup {nullptr}] /\ st.free \subseteq Slots
    BY StateFacts
<1>2. PICK o \in Slots : new.map = [st.map EXCEPT ![r] = o]
    BY <1>1 DEF PlacedFor, Entered
<1>3. o # nullptr
    BY BookAssumption
<1> QED BY <1>1, <1>2, <1>3 DEF LiveRefs

(***************************************************************************)
(* Whatever the feed sends, the number of live orders never grows while    *)
(* the session is closed: a replace, the one handler that adds an order    *)
(* without reading is_open_, takes one out first.                          *)
(***************************************************************************)
THEOREM ClosedBookOnlyShrinks == Spec => ClosedNeverGrows
<1>1. ASSUME IndInv, [Next]_vars, ~is_open_
      PROVE  Cardinality(live') <= Cardinality(live)
  <2> DEFINE A == LiveRefs(Here)
             B == LiveRefs(Here')
  <2>0. StateOK(Here) /\ StateOK(Here') /\ Steps
      BY <1>1, NextHere
  <2>1. A = live /\ B = live'
      BY HereFields DEF LiveRefs, live, Here
  <2>2. IsFiniteSet(A)
      BY <2>0, LiveCount
  <2>3. \/ B \subseteq A
        \/ \E old, new : old \in A /\ B = (A \ {old}) \cup {new}
    <3>1. CASE Stays
        BY <3>1 DEF Stays
    <3>2. CASE Empties
        BY <3>2 DEF Empties, LiveRefs, Here
    <3>3. ASSUME NEW r \in Refs, NEW q \in Quantities, Takes(r, q) PROVE B \subseteq A
      <4>1. PICK left : /\ StateOK(left) /\ Goes(left, r) /\ Reduced(Here, left, r, q)
                        /\ IF left.ord[order_map_[r]].shares = 0 THEN Withdrawn(left, Here', r)
                                                                 ELSE Here' = left
          BY <3>3 DEF Takes
      <4>2. LiveRefs(left) = A
          BY <4>1, <2>0, LiveAfter
      <4> QED BY <4>1, <4>2, LiveAfter
    <3>4. ASSUME NEW r \in Refs, Deletes(r) PROVE B \subseteq A
        BY <2>0, <3>4, LiveAfter DEF Deletes
    <3>5. ASSUME NEW old \in Refs, NEW new \in Refs, NEW q \in Quantities, NEW p \in Prices,
                 Replaces(old, new, q, p)
          PROVE  old \in A /\ B = (A \ {old}) \cup {new}
      <4>1. PICK left : /\ StateOK(left) /\ Withdrawn(Here, left, old)
                        /\ PlacedFor(left, Here', new, pool_[order_map_[old]].side, q, p)
          BY <3>5 DEF Replaces
      <4>2. LiveRefs(left) = A \ {old}
          BY <4>1, <2>0, LiveAfter
      <4>3. B = LiveRefs(left) \cup {new}
          BY <4>1, LivePlaced
      <4>4. old \in A
          BY <3>5 DEF Replaces, Goes, LiveRefs
      <4> QED BY <4>2, <4>3, <4>4
    <3> HIDE DEF A, B
    <3> QED BY <1>1, <2>0, <3>1, <3>2, <3>3, <3>4, <3>5 DEF Steps, Places
  <2> HIDE DEF A, B
  <2>4. CASE B \subseteq A
      BY <2>1, <2>2, <2>4, FS_Subset
  <2>5. ASSUME NEW old, NEW new, old \in A, B = (A \ {old}) \cup {new}
        PROVE  Cardinality(B) <= Cardinality(A)
    <3>1. IsFiniteSet(A \ {old}) /\ Cardinality(A \ {old}) = Cardinality(A) - 1
        BY <2>2, <2>5, FS_RemoveElement
    <3>2. Cardinality(B) = Cardinality(A \ {old}) \/ Cardinality(B) = Cardinality(A \ {old}) + 1
        BY <3>1, <2>5, FS_AddElement
    <3>3. Cardinality(A) \in Nat
        BY <2>2, FS_CardinalityType
    <3> QED BY <3>1, <3>2, <3>3
  <2> QED BY <2>1, <2>3, <2>4, <2>5
<1>2. IndInv /\ [Next]_vars => [~is_open_ => Cardinality(live') <= Cardinality(live)]_vars
    BY <1>1
<1> QED BY <1>2, Invariance, PTL DEF Spec, ClosedNeverGrows


(* r1 stands before r2 in the queue of one level, and both are at one level. *)
TurnIn(st, r1, r2) ==
    \E t \in Side, i \in Indices :
        Precedes(st.bk[t].levels[i].fifo, st.map[r1], st.map[r2])

AtOneLevel(st, r1, r2) ==
    /\ st.ord[st.map[r1]].side = st.ord[st.map[r2]].side
    /\ st.ord[st.map[r1]].level_idx = st.ord[st.map[r2]].level_idx
    /\ st.ord[st.map[r1]].level_idx >= 0

LEMMA WithdrawTurn ==
    ASSUME NEW st, StateOK(st), NEW r, Goes(st, r), NEW new, Withdrawn(st, new, r),
           NEW r1 \in LiveRefs(new), NEW r2 \in LiveRefs(new), TurnIn(st, r1, r2)
    PROVE  TurnIn(new, r1, r2)
<1> DEFINE o == st.map[r]
           s == st.ord[o].side
           i == st.ord[o].level_idx
           n == st.ord[o].shares
           a == st.map[r1]
           b == st.map[r2]
<1>1. o \in Slots /\ s \in Side /\ i \in Indices /\ o \in At(st.bk[s], i)
    BY LiveOrder DEF Goes
<1>2. r \in Refs /\ r1 \in Refs /\ r2 \in Refs /\ r1 # r /\ r2 # r
    BY LiveAfter DEF Goes, LiveRefs
<1>3. new.map[r1] = a /\ new.map[r2] = b
  <2>1. new.map = [st.map EXCEPT ![r] = nullptr]
      BY DEF Withdrawn
  <2>2. st.map \in [Refs -> Slots \cup {nullptr}]
      BY StateFacts
  <2> QED BY <2>1, <2>2, <1>2
<1>4. a # o /\ b # o
    BY <1>2 DEF StateOK, MapOK, Goes
<1>5. LevelSet(st, new, s, i, level_remove_order(st.bk[s].levels[i], o, n))
    BY DEF Withdrawn
<1>6. PICK t \in Side, j \in Indices : Precedes(st.bk[t].levels[j].fifo, a, b)
    BY DEF TurnIn
<1> DEFINE L == st.bk[t].levels[j]
           M == new.bk[t].levels[j]
<1>7. CASE t = s /\ j = i
  <2>1. M = level_remove_order(L, o, n)
      BY <1>5, <1>7 DEF LevelSet
  <2>2. LevelOK(L, Slots)
      BY StateFacts
  <2>3. o \in Range(L.fifo)
      BY <1>1, <1>7 DEF At
  <2> HIDE DEF L, M, o, n, a, b
  <2>4. L.fifo \in Seq(Slots)
      BY <2>2 DEF LevelOK, Level
  <2>5. M.fifo = Unlink(L.fifo, o)
      BY <2>1 DEF level_remove_order
  <2>6. Precedes(L.fifo, a, b)
      BY <1>6 DEF L
  <2>7. Precedes(Unlink(L.fifo, o), a, b)
      BY <2>3, <2>4, <2>6, <1>4, UnlinkTurn
  <2> QED BY <2>5, <2>7, <1>3 DEF TurnIn, M
<1>8. CASE ~(t = s /\ j = i)
  <2>1. M = L
      BY <1>5, <1>8 DEF LevelSet
  <2> QED BY <2>1, <1>3, <1>6 DEF TurnIn
<1> QED BY <1>7, <1>8

LEMMA ReduceTurn ==
    ASSUME NEW st, StateOK(st), NEW r, NEW qty, NEW new, Reduced(st, new, r, qty),
           NEW r1, NEW r2, TurnIn(st, r1, r2)
    PROVE  TurnIn(new, r1, r2)
<1>1. \A t \in Side, j \in Indices : new.bk[t].levels[j].fifo = st.bk[t].levels[j].fifo
    BY ReducedAt
<1>2. new.map = st.map
    BY DEF Reduced
<1> QED BY <1>1, <1>2 DEF TurnIn

(* A side never re-centres on the reference it has. *)
LEMMA SelfInWindow ==
    ASSUME NEW s \in Side, NEW p \in Prices
    PROVE  PriceIdx(s, p, p) \in Indices
BY IdxOfSelf, IndicesNat

LEMMA PlaceTurn ==
    ASSUME NEW st, StateOK(st), NEW new, NEW r \in Refs, st.map[r] = nullptr,
           NEW s \in Side, NEW qty \in Quantities, NEW price \in Prices,
           PlacedFor(st, new, r, s, qty, price),
           NEW r1 \in LiveRefs(st), NEW r2 \in LiveRefs(new), AtOneLevel(new, r1, r2),
           r2 \in LiveRefs(st) => TurnIn(st, r1, r2),
           new.bk[st.ord[st.map[r1]].side].ref = st.bk[st.ord[st.map[r1]].side].ref
    PROVE  TurnIn(new, r1, r2)
<1>1. PICK o, i, sd : o \in st.free /\ PlacedAt(st, new, r, s, qty, price, o, i, sd)
    BY DEF PlacedFor, PlacedAt
<1>2. /\ Entered(st, new, r, s, qty, price, o, i, sd)
      /\ \/ InWindow(st, new, s, price, o, i, sd)
         \/ Recentred(st, new, s, price, o, i, sd)
    BY <1>1 DEF PlacedAt
<1> DEFINE a == st.map[r1]
           b == st.map[r2]
           t == st.ord[a].side
<1>3. /\ st.map \in [Refs -> Slots \cup {nullptr}] /\ o \in Slots /\ r1 \in Refs /\ r2 \in Refs
      /\ r1 # r /\ (r2 # r => r2 \in LiveRefs(st))
  <2>1. LiveRefs(new) = LiveRefs(st) \cup {r}
      BY LivePlaced
  <2> QED BY <2>1, <1>1, StateFacts DEF LiveRefs
<1>4. new.map[r1] = a /\ new.map[r2] = (IF r2 = r THEN o ELSE b)
    BY <1>2, <1>3 DEF Entered
<1>5. a \in Slots /\ a # o /\ t \in Side
    BY <1>1, <1>3 DEF StateOK, MapOK, LiveRefs
<1>6. t # s => new.ord[a] = st.ord[a]
    BY <1>2, <1>5 DEF InWindow, Recentred
<1>7. InWindow(st, new, s, price, o, i, sd) => new.ord[a] = st.ord[a]
    BY <1>5 DEF InWindow
<1>8. new.ord[o] = [shares |-> qty, price |-> price, side |-> s, level_idx |-> i] /\ i \in Indices
    BY <1>2 DEF Entered
<1>9. CASE t # s
  <2>1. r2 # r
    <3>1. ASSUME r2 = r PROVE FALSE
      <4>1. new.ord[a].side = new.ord[o].side
          BY <3>1, <1>4 DEF AtOneLevel
      <4> QED BY <4>1, <1>6, <1>8, <1>9
    <3> QED BY <3>1
  <2>2. PICK u \in Side, j \in Indices : Precedes(st.bk[u].levels[j].fifo, a, b)
      BY <2>1, <1>3 DEF TurnIn
  <2>3. a \in At(st.bk[u], j)
      BY <2>2 DEF Precedes, At, Range
  <2>4. u = t
    <3>1. \A x \in At(st.bk[u], j) : st.ord[x].side = u
        BY StateFacts
    <3> QED BY <2>3, <3>1
  <2>5. new.bk[u] = st.bk[u]
      BY <2>4, <1>2, <1>9 DEF Entered
  <2> QED BY <2>1, <2>2, <2>5, <1>4 DEF TurnIn
<1>10. CASE t = s /\ Recentred(st, new, s, price, o, i, sd)
  <2>1. /\ sd.ref = price
        /\ PriceIdx(s, IF st.bk[s].ref = 0 THEN price ELSE st.bk[s].ref, price) \notin Indices
      BY <1>10 DEF Recentred
  <2>2. new.bk[s].ref = sd.ref
      BY <1>2 DEF Entered
  <2>3. st.bk[s].ref = price
      BY <2>1, <2>2, <1>10
  <2>4. PriceIdx(s, price, price) \notin Indices
      BY <2>1, <2>3
  <2> QED BY <2>4, SelfInWindow
<1>11. CASE t = s /\ InWindow(st, new, s, price, o, i, sd)
  <2>1. \A j \in Indices : LevelOK(st.bk[s].levels[j], Slots)
      BY StateFacts
  <2>2. \A j \in Indices : st.bk[s].levels[j].fifo \in Seq(Slots)
    <3> TAKE j \in Indices
    <3> DEFINE L == st.bk[s].levels[j]
    <3>1. LevelOK(L, Slots)
        BY <2>1
    <3> HIDE DEF L
    <3>2. L.fifo \in Seq(Slots)
        BY <3>1 DEF LevelOK, Level
    <3> QED BY <3>2 DEF L
  <2>3. \A j \in Indices : new.bk[s].levels[j].fifo =
            IF j = i THEN Append(st.bk[s].levels[j].fifo, o) ELSE st.bk[s].levels[j].fifo
    <3> TAKE j \in Indices
    <3> DEFINE L == st.bk[s].levels[j]
    <3>1. new.bk[s].levels[j] = IF j = i THEN level_add_order(L, o, qty) ELSE L
        BY <1>2, <1>11 DEF Entered, InWindow
    <3> HIDE DEF L
    <3>2. level_add_order(L, o, qty).fifo = Append(L.fifo, o)
        BY DEF level_add_order
    <3> QED BY <3>1, <3>2 DEF L
  <2>4. CASE r2 = r
    <3>1. new.ord[a].level_idx = i /\ new.ord[a] = st.ord[a]
        BY <2>4, <1>4, <1>7, <1>8, <1>11 DEF AtOneLevel
    <3>2. a \in At(st.bk[s], i)
      <4>1. st.ord[a].level_idx >= 0
          BY <3>1, <1>8, BookAssumption DEF Indices
      <4> QED BY <4>1, <3>1, <1>3, <1>11, LiveOrder DEF LiveRefs
    <3>3. Precedes(Append(st.bk[s].levels[i].fifo, o), a, o)
        BY <3>2, <2>2, <1>3, <1>8, AppendTurn DEF At
    <3>4. Precedes(new.bk[s].levels[i].fifo, a, o)
        BY <3>3, <2>3, <1>8
    <3> QED BY <3>4, <2>4, <1>4, <1>8 DEF TurnIn
  <2>5. CASE r2 # r
    <3>1. PICK u \in Side, j \in Indices : Precedes(st.bk[u].levels[j].fifo, a, b)
        BY <2>5, <1>3 DEF TurnIn
    <3>2. Precedes(new.bk[u].levels[j].fifo, a, b)
      <4>1. CASE u = s
        <5>1. Precedes(Append(st.bk[s].levels[j].fifo, o), a, b)
            BY <4>1, <3>1, <2>2, <1>3, AppendTurn
        <5> QED BY <5>1, <4>1, <3>1, <2>3
      <4>2. CASE u # s
          BY <4>2, <3>1, <1>2 DEF Entered
      <4> QED BY <4>1, <4>2
    <3> QED BY <3>2, <2>5, <1>4 DEF TurnIn
  <2> QED BY <2>4, <2>5
<1> QED BY <1>2, <1>9, <1>10, <1>11


(* The parts of a step, one after the other, keep the turn of the orders that stay. *)
LEMMA NextTurn ==
    ASSUME Conforming, IndInv, [Next]_vars,
           NEW r1 \in LiveRefs(Here) \cap LiveRefs(Here'), NEW r2 \in LiveRefs(Here'), r1 # r2,
           r2 \in LiveRefs(Here) => TurnIn(Here, r1, r2), AtOneLevel(Here', r1, r2),
           Here'.bk[Here.ord[Here.map[r1]].side].ref = Here.bk[Here.ord[Here.map[r1]].side].ref
    PROVE  TurnIn(Here', r1, r2)
<1>0. StateOK(Here) /\ StateOK(Here') /\ Steps
    BY NextHere
<1>1. CASE Stays
  <2>1. Here' = Here
      BY <1>1 DEF Stays
  <2> QED BY <2>1
<1>2. CASE Empties
    BY <1>2 DEF Empties, LiveRefs, Here
<1>3. ASSUME NEW r \in Refs, NEW s \in Side, NEW q \in Quantities, NEW p \in Prices,
             Places(r, s, q, p)
      PROVE  TurnIn(Here', r1, r2)
  <2>1. Here.map[r] = nullptr /\ PlacedFor(Here, Here', r, s, q, p)
      BY <1>3, HereFields DEF Places, FreshRef
  <2> QED BY <2>1, <1>0, PlaceTurn
<1>4. ASSUME NEW r \in Refs, NEW q \in Quantities, Takes(r, q) PROVE TurnIn(Here', r1, r2)
  <2>1. PICK left : /\ StateOK(left) /\ Goes(left, r) /\ Reduced(Here, left, r, q)
                    /\ IF left.ord[order_map_[r]].shares = 0 THEN Withdrawn(left, Here', r)
                                                             ELSE Here' = left
      BY <1>4 DEF Takes
  <2>2. LiveRefs(left) = LiveRefs(Here)
      BY <2>1, <1>0, LiveAfter
  <2>3. CASE Here' = left
    <3>1. TurnIn(Here, r1, r2)
        BY <2>2, <2>3
    <3> QED BY <3>1, <2>1, <2>3, <1>0, ReduceTurn
  <2>4. CASE Withdrawn(left, Here', r)
    <3>1. LiveRefs(Here') = LiveRefs(left) \ {r}
        BY <2>1, <2>4, LiveAfter
    <3>2. TurnIn(Here, r1, r2)
        BY <2>2, <3>1
    <3>3. TurnIn(left, r1, r2)
        BY <3>2, <2>1, <1>0, ReduceTurn
    <3> QED BY <3>3, <2>1, <2>4, WithdrawTurn
  <2> QED BY <2>1, <2>3, <2>4
<1>5. ASSUME NEW r \in Refs, Deletes(r) PROVE TurnIn(Here', r1, r2)
  <2>1. Goes(Here, r) /\ Withdrawn(Here, Here', r)
      BY <1>5 DEF Deletes
  <2>2. LiveRefs(Here') = LiveRefs(Here) \ {r}
      BY <2>1, <1>0, LiveAfter
  <2>3. TurnIn(Here, r1, r2)
      BY <2>2
  <2> QED BY <2>1, <2>3, <1>0, WithdrawTurn
<1>6. ASSUME NEW old \in Refs, NEW new \in Refs, NEW q \in Quantities, NEW p \in Prices,
             Replaces(old, new, q, p)
      PROVE  TurnIn(Here', r1, r2)
  <2> DEFINE s == pool_[order_map_[old]].side
             x == Here.map[r1]
  <2>1. PICK left : /\ StateOK(left) /\ Withdrawn(Here, left, old)
                    /\ PlacedFor(left, Here', new, s, q, p)
      BY <1>6 DEF Replaces
  <2>2. Goes(Here, old) /\ Here.map[new] = nullptr
      BY <1>6, HereFields DEF Replaces, FreshRef
  <2>3. s \in Side
      BY <2>2, <1>0, HereFields, LiveOrder DEF Goes
  <2> HIDE DEF s
  <2>4. LiveRefs(left) = LiveRefs(Here) \ {old} /\ LiveRefs(Here') = LiveRefs(left) \cup {new}
    <3>1. LiveRefs(left) = LiveRefs(Here) \ {old}
        BY <2>1, <1>0, LiveAfter
    <3>2. LiveRefs(Here') = LiveRefs(left) \cup {new}
        BY <2>1, LivePlaced
    <3> QED BY <3>1, <3>2
  <2>5. new \notin LiveRefs(Here) /\ old \in LiveRefs(Here)
      BY <2>2 DEF LiveRefs, Goes
  <2>6. r1 \in LiveRefs(left) /\ (r2 \in LiveRefs(left) => r2 \in LiveRefs(Here))
      BY <2>4, <2>5
  <2>7. r2 \in LiveRefs(left) => TurnIn(left, r1, r2)
      BY <2>1, <2>2, <2>6, <1>0, WithdrawTurn
  <2>8. r1 \in Refs /\ r1 # old /\ left.map[new] = nullptr /\ left.map[r1] = x
    <3>1. left.map = [Here.map EXCEPT ![old] = nullptr]
        BY <2>1 DEF Withdrawn
    <3>2. Here.map \in [Refs -> Slots \cup {nullptr}]
        BY <1>0, StateFacts
    <3>3. r1 \in Refs /\ r1 # old
        BY <2>4, <2>6 DEF LiveRefs
    <3> QED BY <3>1, <3>2, <3>3, <2>2
  <2>9. left.ord[x] = Here.ord[x] /\ Here.ord[x].side \in Side
    <3>1. left.ord = [Here.ord EXCEPT ![Here.map[old]] = BlankOrder]
        BY <2>1 DEF Withdrawn
    <3>2. Here.ord \in [Slots -> Order] /\ Here.map \in [Refs -> Slots \cup {nullptr}]
        BY <1>0, StateFacts
    <3>3. x # nullptr /\ x # Here.map[old] /\ Here.ord[x].side \in Side
        BY <2>8, <1>0 DEF LiveRefs, StateOK, MapOK
    <3>4. x \in Slots
        BY <3>2, <3>3, <2>8
    <3> QED BY <3>1, <3>2, <3>3, <3>4
  <2>10. left.bk[Here.ord[x].side].ref = Here.bk[Here.ord[x].side].ref
      BY <2>1, <2>9 DEF Withdrawn, LevelSet
  <2>11. Here'.bk[left.ord[left.map[r1]].side].ref = left.bk[left.ord[left.map[r1]].side].ref
      BY <2>8, <2>9, <2>10
  <2> QED BY <2>1, <2>3, <2>6, <2>7, <2>8, <2>11, PlaceTurn
<1> QED BY <1>0, <1>1, <1>2, <1>3, <1>4, <1>5, <1>6 DEF Steps

(***************************************************************************)
(* With a conforming feed, as long as a side is not re-centred, orders     *)
(* that stay keep their relative place in the queue of their level and an  *)
(* arrival stands behind all that were there, whatever handler runs.       *)
(***************************************************************************)
THEOREM TurnsAreKept == Conforming => (Spec => TimePriority)
<1> SUFFICES ASSUME Conforming PROVE Spec => TimePriority
    OBVIOUS
<1> DEFINE Step == \A r1 \in live \cap live' : \A r2 \in live' \ {r1} :
                      LET s         == pool_[order_map_[r1]].side
                          recentred == book'[s].ref # book[s].ref
                          earlier   == r2 \in live => Ahead(r1, r2)
                      IN  ~recentred /\ earlier /\ SameLevel(r1, r2)' => Ahead(r1, r2)'
<1>1. ASSUME IndInv, [Next]_vars PROVE Step
  <2> SUFFICES ASSUME NEW r1 \in live \cap live', NEW r2 \in live' \ {r1},
                      book'[pool_[order_map_[r1]].side].ref = book[pool_[order_map_[r1]].side].ref,
                      r2 \in live => Ahead(r1, r2), SameLevel(r1, r2)'
               PROVE  Ahead(r1, r2)'
      OBVIOUS
  <2>1. LiveRefs(Here) = live /\ LiveRefs(Here') = live'
      BY DEF LiveRefs, live, Here
  <2>2. Ahead(r1, r2) => TurnIn(Here, r1, r2)
      BY HereFields DEF Ahead, TurnIn, Precedes
  <2>3. AtOneLevel(Here', r1, r2)
      BY DEF SameLevel, AtOneLevel, Here
  <2>4. Here'.bk[Here.ord[Here.map[r1]].side].ref = Here.bk[Here.ord[Here.map[r1]].side].ref
      BY DEF Here
  <2>5. TurnIn(Here', r1, r2)
      BY <1>1, <2>1, <2>2, <2>3, <2>4, NextTurn
  <2> QED BY <2>5 DEF Ahead, TurnIn, Precedes, Here
<1>2. IndInv /\ [Next]_vars => [Step]_vars
    BY <1>1
<1> QED BY <1>2, Invariance, PTL DEF Spec, TimePriority


-----------------------------------------------------------------------------
(* The book implements ITCHBook. *)

(* What the abstract book sees of an Order, and of a state. *)
Seen(od) == [side |-> od.side, price |-> od.price, shares |-> od.shares]

View(st) == [r \in Refs |-> IF st.map[r] = nullptr THEN nullptr ELSE Seen(st.ord[st.map[r]])]

LEMMA ViewLive ==
    ASSUME NEW st, StateOK(st), NEW r \in Refs, st.map[r] # nullptr
    PROVE  View(st)[r] = Seen(st.ord[st.map[r]]) /\ View(st)[r] # nullptr
<1> DEFINE od == st.ord[st.map[r]]
<1>1. st.map[r] \in Slots
    BY StateFacts
<1>2. od \in Order /\ od.side \in Side
    BY <1>1, StateFacts DEF StateOK, MapOK
<1> HIDE DEF od
<1>3. Seen(od) \in [side : Side, price : Prices \cup {0}, shares : 0 .. W32 - 1]
    BY <1>2 DEF Order, Seen
<1>4. View(st)[r] = Seen(od)
    BY DEF View, od
<1> QED BY <1>3, <1>4, NullAssumption DEF od

LEMMA WithdrawView ==
    ASSUME NEW st, StateOK(st), NEW r, Goes(st, r), NEW new, Withdrawn(st, new, r)
    PROVE  View(new) = [View(st) EXCEPT ![r] = nullptr]
<1> DEFINE o == st.map[r]
<1>1. /\ r \in Refs /\ o # nullptr
      /\ st.map \in [Refs -> Slots \cup {nullptr}] /\ st.ord \in [Slots -> Order]
      /\ new.map = [st.map EXCEPT ![r] = nullptr]
      /\ new.ord = [st.ord EXCEPT ![o] = BlankOrder]
    BY StateFacts DEF Withdrawn, Goes
<1>2. ASSUME NEW q \in Refs PROVE View(new)[q] = IF q = r THEN nullptr ELSE View(st)[q]
  <2>1. CASE q = r
      BY <2>1, <1>1 DEF View
  <2>2. CASE q # r
    <3>1. new.map[q] = st.map[q] /\ st.map[q] # o
        BY <2>2, <1>1 DEF StateOK, MapOK
    <3>2. st.map[q] # nullptr => new.ord[st.map[q]] = st.ord[st.map[q]]
        BY <3>1, <1>1
    <3> QED BY <2>2, <3>1, <3>2 DEF View
  <2> QED BY <2>1, <2>2
<1>3. View(new) = [q \in Refs |-> View(new)[q]] /\ DOMAIN View(st) = Refs
    BY DEF View
<1> QED BY <1>1, <1>2, <1>3

LEMMA ReduceView ==
    ASSUME NEW st, StateOK(st), NEW r, Goes(st, r), NEW qty, NEW new, Reduced(st, new, r, qty)
    PROVE  View(new) = [View(st) EXCEPT ![r] =
                           [@ EXCEPT !.shares = SubW(st.ord[st.map[r]].shares, qty, W32)]]
<1> DEFINE o == st.map[r]
           n == SubW(st.ord[o].shares, qty, W32)
<1>1. /\ r \in Refs /\ o # nullptr
      /\ st.map \in [Refs -> Slots \cup {nullptr}] /\ st.ord \in [Slots -> Order]
      /\ new.map = st.map
      /\ new.ord = [st.ord EXCEPT ![o] = [@ EXCEPT !.shares = n]]
    BY StateFacts DEF Reduced, Goes
<1>2. o \in Slots /\ st.ord[o] \in Order
    BY <1>1
<1>3. View(st)[r] = Seen(st.ord[o])
    BY <1>1, ViewLive
<1> HIDE DEF n
<1>4. ASSUME NEW q \in Refs
      PROVE  View(new)[q] = IF q = r THEN [View(st)[r] EXCEPT !.shares = n] ELSE View(st)[q]
  <2>1. CASE q = r
    <3>1. View(new)[q] = Seen(new.ord[o])
        BY <2>1, <1>1 DEF View
    <3>2. new.ord[o] = [st.ord[o] EXCEPT !.shares = n]
        BY <1>1, <1>2
    <3>3. Seen(new.ord[o]) = [Seen(st.ord[o]) EXCEPT !.shares = n]
        BY <3>2, <1>2 DEF Seen, Order
    <3> QED BY <2>1, <3>1, <3>3, <1>3
  <2>2. CASE q # r
    <3>1. st.map[q] # o
        BY <2>2, <1>1 DEF StateOK, MapOK
    <3>2. st.map[q] # nullptr => new.ord[st.map[q]] = st.ord[st.map[q]]
        BY <3>1, <1>1
    <3> QED BY <2>2, <3>2, <1>1 DEF View
  <2> QED BY <2>1, <2>2
<1>5. View(new) = [q \in Refs |-> View(new)[q]] /\ DOMAIN View(st) = Refs
    BY DEF View
<1> QED BY <1>1, <1>4, <1>5 DEF n

LEMMA PlaceView ==
    ASSUME NEW st, StateOK(st), NEW new, NEW r \in Refs, NEW s \in Side, NEW qty, NEW price,
           PlacedFor(st, new, r, s, qty, price)
    PROVE  View(new) = [View(st) EXCEPT ![r] = [side |-> s, price |-> price, shares |-> qty]]
<1>1. PICK o, i, sd : o \in st.free /\ PlacedAt(st, new, r, s, qty, price, o, i, sd)
    BY DEF PlacedFor, PlacedAt
<1>2. /\ Entered(st, new, r, s, qty, price, o, i, sd)
      /\ \/ InWindow(st, new, s, price, o, i, sd)
         \/ Recentred(st, new, s, price, o, i, sd)
    BY <1>1 DEF PlacedAt
<1>3. /\ st.map \in [Refs -> Slots \cup {nullptr}] /\ st.ord \in [Slots -> Order]
      /\ o \in Slots /\ o # nullptr
    BY <1>1, StateFacts, BookAssumption
<1>4. /\ new.map = [st.map EXCEPT ![r] = o]
      /\ new.ord[o] = [shares |-> qty, price |-> price, side |-> s, level_idx |-> i]
    BY <1>2 DEF Entered
<1>5. ASSUME NEW q \in Refs
      PROVE  View(new)[q] = IF q = r THEN [side |-> s, price |-> price, shares |-> qty]
                                     ELSE View(st)[q]
  <2>1. CASE q = r
    <3>1. new.map[q] = o
        BY <2>1, <1>3, <1>4
    <3>2. View(new)[q] = Seen(new.ord[o])
        BY <3>1, <1>3 DEF View
    <3> QED BY <2>1, <3>2, <1>4 DEF Seen
  <2>2. CASE q # r
    <3>1. new.map[q] = st.map[q]
        BY <2>2, <1>3, <1>4
    <3>2. ASSUME st.map[q] # nullptr PROVE Seen(new.ord[st.map[q]]) = Seen(st.ord[st.map[q]])
      <4> DEFINE x == st.map[q]
      <4>1. x \in Slots /\ x # o
          BY <3>2, <1>1, <1>3 DEF StateOK, MapOK
      <4>2. st.ord[x] \in Order
          BY <4>1, <1>3
      <4>3. \/ new.ord[x] = st.ord[x]
            \/ new.ord[x] = [st.ord[x] EXCEPT !.level_idx = NewIdx(s, price, st.ord[x])]
          BY <4>1, <1>2 DEF InWindow, Recentred
      <4> HIDE DEF x
      <4> QED BY <4>2, <4>3 DEF Seen, Order, x
    <3> QED BY <2>2, <3>1, <3>2 DEF View
  <2> QED BY <2>1, <2>2
<1>6. View(new) = [q \in Refs |-> View(new)[q]] /\ DOMAIN View(st) = Refs
    BY DEF View
<1> QED BY <1>5, <1>6


LEMMA ViewHere == LiveOrders = View(Here) /\ LiveOrders' = View(Here')
BY DEF LiveOrders, View, Seen, Here

(* Taking shares reduces the order, and the last of them removes it. *)
LEMMA TakesImplements ==
    ASSUME IndInv, Exact, is_open_' = is_open_, NEW r \in Refs, NEW q \in Quantities, Takes(r, q)
    PROVE  ITCH!Reduce(r, q)
<1> DEFINE n == Here.ord[Here.map[r]].shares
           V == View(Here)
           W == View(Here')
<1>0. StateOK(Here)
    BY DEF IndInv
<1>1. PICK left : /\ StateOK(left) /\ Goes(left, r) /\ Reduced(Here, left, r, q)
                  /\ IF left.ord[order_map_[r]].shares = 0 THEN Withdrawn(left, Here', r)
                                                           ELSE Here' = left
    BY DEF Takes
<1>2. Goes(Here, r) /\ q <= n
    BY TakeFits DEF Takes
<1>3. n \in 0 .. W32 - 1 /\ Here.map[r] \in Slots /\ Here.ord \in [Slots -> Order]
  <2>1. Here.map[r] \in Slots /\ Here.ord \in [Slots -> Order]
      BY <1>0, <1>2, StateFacts DEF Goes
  <2> QED BY <2>1 DEF Order
<1>4. q \in 0 .. W32 - 1 /\ W32 \in Nat
    BY BookAssumption, WidthAssumption
<1>5. SubW(n, q, W32) = n - q
    BY <1>2, <1>3, <1>4 DEF SubW
<1>6. View(left) = [V EXCEPT ![r] = [@ EXCEPT !.shares = n - q]]
  <2>1. View(left) = [V EXCEPT ![r] = [@ EXCEPT !.shares = SubW(n, q, W32)]]
      BY <1>0, <1>1, <1>2, ReduceView
  <2> QED BY <2>1, <1>5
<1>7. V[r] # nullptr /\ V[r].shares = n
  <2>1. V[r] # nullptr /\ V[r] = Seen(Here.ord[Here.map[r]])
      BY <1>0, <1>2, ViewLive DEF Goes
  <2> QED BY <2>1 DEF Seen
<1>8. left.ord[order_map_[r]].shares = n - q
  <2>1. left.ord = [Here.ord EXCEPT ![Here.map[r]] = [@ EXCEPT !.shares = SubW(n, q, W32)]]
      BY <1>1 DEF Reduced
  <2>2. Here.ord[Here.map[r]] \in Order
      BY <1>3
  <2> HIDE DEF n
  <2>3. left.ord[Here.map[r]].shares = SubW(n, q, W32)
      BY <2>1, <2>2, <1>3 DEF Order
  <2> QED BY <2>3, <1>5, HereFields
<1>9. DOMAIN V = Refs
    BY DEF View
<1> HIDE DEF V, W, n
<1>10. W = [V EXCEPT ![r] = IF n - q = 0 THEN nullptr ELSE [@ EXCEPT !.shares = n - q]]
  <2>1. CASE n = q
    <3>1. Withdrawn(left, Here', r)
        BY <2>1, <1>1, <1>3, <1>4, <1>8
    <3>2. W = [View(left) EXCEPT ![r] = nullptr]
        BY <3>1, <1>1, WithdrawView DEF W
    <3>3. W = [V EXCEPT ![r] = nullptr]
        BY <3>2, <1>6, <1>9
    <3>4. n - q = 0
        BY <2>1, <1>3, <1>4
    <3> QED BY <3>3, <3>4
  <2>2. CASE n # q
    <3>1. Here' = left
        BY <2>2, <1>1, <1>3, <1>4, <1>8
    <3>2. W = [V EXCEPT ![r] = [@ EXCEPT !.shares = n - q]]
        BY <3>1, <1>6 DEF W
    <3>3. ~(n - q = 0)
        BY <2>2, <1>3, <1>4
    <3> QED BY <3>2, <3>3
  <2> QED BY <2>1, <2>2
<1>11. LiveOrders = V /\ LiveOrders' = W
    BY ViewHere DEF V, W
<1> QED BY <1>2, <1>7, <1>10, <1>11 DEF ITCH!Reduce

LEMMA StepImplements ==
    ASSUME IndInv, Exact, [Next]_vars
    PROVE  [ITCH!Next]_<<is_open_, LiveOrders>>
<1> DEFINE V == View(Here)
           W == View(Here')
<1>0. StateOK(Here) /\ StateOK(Here') /\ Steps
    BY NextHere
<1>v. LiveOrders = V /\ LiveOrders' = W
    BY ViewHere
<1>b. is_open_ \in BOOLEAN
    BY DEF IndInv
<1>1. CASE Stays
  <2>1. Here' = Here /\ is_open_' \in BOOLEAN
      BY <1>1 DEF Stays
  <2>2. LiveOrders' = LiveOrders
      BY <2>1, <1>v
  <2>3. ITCH!Open \/ ITCH!Close
      BY <2>1, <2>2 DEF ITCH!Open, ITCH!Close
  <2> QED BY <2>3 DEF ITCH!Next
<1>2. CASE Empties
  <2>1. LiveOrders' = [r \in Refs |-> nullptr] /\ is_open_' = FALSE
      BY <1>2 DEF Empties, LiveOrders
  <2> QED BY <2>1 DEF ITCH!Next, ITCH!Halt
<1> HIDE DEF V, W
<1>3. ASSUME is_open_' = is_open_, NEW r \in Refs, NEW s \in Side, NEW q \in Quantities,
             NEW p \in Prices, Places(r, s, q, p)
      PROVE  ITCH!Next
  <2>1. PlacedFor(Here, Here', r, s, q, p) /\ is_open_
      BY <1>3 DEF Places
  <2>2. W = [V EXCEPT ![r] = [side |-> s, price |-> p, shares |-> q]]
      BY <2>1, <1>0, PlaceView DEF V, W
  <2>3. ITCH!Add(r, s, q, p)
      BY <2>1, <2>2, <1>3, <1>v DEF ITCH!Add
  <2> QED BY <2>3 DEF ITCH!Next
<1>4. ASSUME is_open_' = is_open_, NEW r \in Refs, NEW q \in Quantities, Takes(r, q)
      PROVE  ITCH!Next
  <2>1. ITCH!Reduce(r, q)
      BY <1>4, TakesImplements
  <2> QED BY <2>1 DEF ITCH!Next
<1>5. ASSUME is_open_' = is_open_, NEW r \in Refs, Deletes(r) PROVE ITCH!Next
  <2>1. Goes(Here, r) /\ Withdrawn(Here, Here', r)
      BY <1>5 DEF Deletes
  <2>2. W = [V EXCEPT ![r] = nullptr]
      BY <2>1, <1>0, WithdrawView DEF V, W
  <2>3. V[r] # nullptr
      BY <2>1, <1>0, ViewLive DEF Goes, V
  <2>4. ITCH!Delete(r)
      BY <2>2, <2>3, <1>5, <1>v DEF ITCH!Delete
  <2> QED BY <2>4 DEF ITCH!Next
<1>6. ASSUME is_open_' = is_open_, NEW old \in Refs, NEW new \in Refs, NEW q \in Quantities,
             NEW p \in Prices, Replaces(old, new, q, p)
      PROVE  ITCH!Next
  <2> DEFINE s == pool_[order_map_[old]].side
  <2>1. PICK left : /\ StateOK(left) /\ Withdrawn(Here, left, old)
                    /\ PlacedFor(left, Here', new, s, q, p)
      BY <1>6 DEF Replaces
  <2>2. Goes(Here, old)
      BY <1>6 DEF Replaces
  <2>3. s \in Side /\ V[old] # nullptr /\ V[old].side = s
    <3>1. V[old] # nullptr /\ V[old] = Seen(Here.ord[Here.map[old]])
        BY <2>2, <1>0, ViewLive DEF Goes, V
    <3>2. s \in Side
        BY <2>2, <1>0, HereFields, LiveOrder DEF Goes
    <3> QED BY <3>1, <3>2, HereFields DEF Seen
  <2> HIDE DEF s
  <2>4. View(left) = [V EXCEPT ![old] = nullptr]
      BY <2>1, <2>2, <1>0, WithdrawView DEF V
  <2>5. W = [View(left) EXCEPT ![new] = [side |-> s, price |-> p, shares |-> q]]
      BY <2>1, <2>3, PlaceView DEF W
  <2>6. ITCH!Replace(old, new, q, p)
      BY <2>3, <2>4, <2>5, <1>6, <1>v DEF ITCH!Replace
  <2> QED BY <2>6 DEF ITCH!Next
<1> QED BY <1>0, <1>1, <1>2, <1>3, <1>4, <1>5, <1>6 DEF Steps

(***************************************************************************)
(* The book implements ITCHBook: with a conforming feed, or with the       *)
(* assertions on whatever the feed sends, every handler changes the live   *)
(* orders as its message says and in no other way, whichever levels, slots *)
(* and recentres that goes through.  (Without either, an over-fill wraps.) *)
(***************************************************************************)
THEOREM BookImplementsITCH == (Conforming \/ ~NDEBUG) => (Spec => ImplementsITCH)
<1> SUFFICES ASSUME Exact PROVE Spec => ITCH!Spec
    BY DEF Exact, ImplementsITCH
<1>1. Init => ITCH!Init
  <2> SUFFICES ASSUME Init PROVE ITCH!Init
      OBVIOUS
  <2>1. LiveOrders = [r \in Refs |-> nullptr]
      BY DEF Init, LiveOrders
  <2> QED BY <2>1 DEF Init, ITCH!Init
<1>2. IndInv /\ [Next]_vars => [ITCH!Next]_<<is_open_, LiveOrders>>
    BY StepImplements
<1> QED BY <1>1, <1>2, Invariance, PTL DEF Spec, ITCH!Spec

-----------------------------------------------------------------------------
(***************************************************************************)
(* Books driven by messages: what the programs that replay a file or run a *)
(* workload rest on.                                                       *)
(***************************************************************************)

(* The fields of a message are in range. *)
Fielded(m) ==
    /\ m.type \in {"A", "F"} => m.ref \in Refs /\ m.side \in Side
                                /\ m.shares \in Quantities /\ m.price \in Prices
    /\ m.type \in {"E", "C", "X"} => m.ref \in Refs /\ m.shares \in Quantities
    /\ m.type = "D" => m.ref \in Refs
    /\ m.type = "U" => /\ m.ref \in Refs /\ m.new_ref \in Refs
                       /\ m.shares \in Quantities /\ m.price \in Prices

(* A moment of the market, and what a message makes of it. *)
Resting   == [side : Side, price : Prices \ {0}, shares : 1 .. W32 - 1]
OrderMaps == [Refs -> Resting \cup {nullptr}]
NoOrders  == [r \in Refs |-> nullptr]
Moment    == [open : BOOLEAN, orders : OrderMaps]

Left(od, q) == IF od.shares - q = 0 THEN nullptr ELSE [od EXCEPT !.shares = od.shares - q]

Evolves(m, a, b) ==
    \/ m.type = "S" /\ m.code = "O" /\ b.open = TRUE /\ b.orders = a.orders
    \/ m.type = "S" /\ m.code = "C" /\ b.open = FALSE /\ b.orders = a.orders
    \/ m.type = "S" /\ m.code = "H" /\ b.open = FALSE /\ b.orders = NoOrders
    \/ /\ m.type \in {"A", "F"}
       /\ a.open /\ a.orders[m.ref] = nullptr /\ m.shares > 0 /\ m.price > 0
       /\ b.orders = [a.orders EXCEPT ![m.ref] =
                         [side |-> m.side, price |-> m.price, shares |-> m.shares]]
       /\ b.open = a.open
    \/ /\ m.type \in {"E", "C", "X"}
       /\ a.orders[m.ref] # nullptr /\ m.shares <= a.orders[m.ref].shares
       /\ b.orders = [a.orders EXCEPT ![m.ref] = Left(a.orders[m.ref], m.shares)]
       /\ b.open = a.open
    \/ /\ m.type = "D" /\ a.orders[m.ref] # nullptr
       /\ b.orders = [a.orders EXCEPT ![m.ref] = nullptr]
       /\ b.open = a.open
    \/ /\ m.type = "U" /\ a.orders[m.ref] # nullptr
       /\ a.orders[m.new_ref] = nullptr /\ m.shares > 0 /\ m.price > 0
       /\ b.orders = [[a.orders EXCEPT ![m.ref] = nullptr] EXCEPT ![m.new_ref] =
                         [side |-> a.orders[m.ref].side, price |-> m.price, shares |-> m.shares]]
       /\ b.open = a.open
    \/ m.type \in {"P", "?"} /\ b.open = a.open /\ b.orders = a.orders

LEMMA EvolvesType ==
    ASSUME NEW m, Fielded(m), NEW a \in Moment, NEW b, Evolves(m, a, b)
    PROVE  b.open \in BOOLEAN /\ b.orders \in OrderMaps
<1>1. a.open \in BOOLEAN /\ a.orders \in [Refs -> Resting \cup {nullptr}]
    BY DEF Moment, OrderMaps
<1>2. \A q \in Quantities : q \in Int /\ q >= 0 /\ q < W32
    BY BookAssumption, WidthAssumption
<1>3. nullptr \notin Resting
  <2>1. Resting \subseteq [side : Side, price : Prices \cup {0}, shares : 0 .. W32 - 1]
      BY DEF Resting
  <2> QED BY <2>1, NullAssumption
<1>4. CASE m.type = "S" \/ m.type \in {"P", "?"}
    BY <1>1, <1>4 DEF Evolves, OrderMaps, NoOrders
<1>5. ASSUME NEW s \in Side, m.type \in {"A", "F", "U"}, m.shares > 0, m.price > 0
      PROVE  [side |-> s, price |-> m.price, shares |-> m.shares] \in Resting
  <2>1. m.shares \in Quantities /\ m.price \in Prices
      BY <1>5 DEF Fielded
  <2>2. m.shares \in 1 .. W32 - 1 /\ m.price # 0
    <3>1. m.shares \in Int /\ m.shares < W32 /\ m.price \in Int /\ W32 \in Int
        BY <1>2, <2>1, PriceRange, WidthAssumption
    <3> QED BY <3>1, <1>5
  <2> QED BY <2>1, <2>2 DEF Resting
<1>6. CASE m.type \in {"A", "F"}
    BY <1>1, <1>5, <1>6 DEF Fielded, Evolves, OrderMaps
<1>7. CASE m.type \in {"E", "C", "X"}
  <2> DEFINE od == a.orders[m.ref]
  <2>1. m.ref \in Refs /\ m.shares \in Int /\ m.shares >= 0 /\ od # nullptr /\ m.shares <= od.shares
    <3>1. m.shares \in Quantities /\ m.ref \in Refs
        BY <1>7 DEF Fielded
    <3>2. m.shares \in Int /\ m.shares >= 0
        BY <3>1, <1>2
    <3> QED BY <3>1, <3>2, <1>7 DEF Evolves
  <2>2. od \in Resting
      BY <1>1, <2>1
  <2>3. Left(od, m.shares) \in Resting \cup {nullptr}
    <3> HIDE DEF od
    <3>1. od.shares - m.shares = 0 \/ od.shares - m.shares \in 1 .. W32 - 1
        BY <2>1, <2>2, WidthAssumption DEF Resting
    <3>2. ASSUME od.shares - m.shares \in 1 .. W32 - 1
          PROVE  [od EXCEPT !.shares = od.shares - m.shares] \in Resting
        BY <2>2, <3>2 DEF Resting
    <3> QED BY <3>1, <3>2 DEF Left
  <2>4. b.open = a.open /\ b.orders = [a.orders EXCEPT ![m.ref] = Left(od, m.shares)]
      BY <1>7 DEF Evolves
  <2> HIDE DEF od
  <2> QED BY <1>1, <2>1, <2>3, <2>4 DEF OrderMaps
<1>8. CASE m.type = "D"
    BY <1>1, <1>8 DEF Fielded, Evolves, OrderMaps
<1>9. CASE m.type = "U"
  <2> DEFINE od == a.orders[m.ref]
             new == [side |-> od.side, price |-> m.price, shares |-> m.shares]
  <2>1. m.ref \in Refs /\ m.new_ref \in Refs /\ od # nullptr /\ m.shares > 0 /\ m.price > 0
      BY <1>9 DEF Fielded, Evolves
  <2>2. od \in Resting
      BY <1>1, <2>1
  <2>3. new \in Resting
    <3>1. od.side \in Side
        BY <2>2 DEF Resting
    <3> QED BY <3>1, <2>1, <1>5, <1>9
  <2>4. /\ b.open = a.open
        /\ b.orders = [[a.orders EXCEPT ![m.ref] = nullptr] EXCEPT ![m.new_ref] = new]
      BY <1>9 DEF Evolves
  <2> HIDE DEF new
  <2> QED BY <1>1, <2>1, <2>3, <2>4 DEF OrderMaps
<1> QED BY <1>4, <1>6, <1>7, <1>8, <1>9 DEF Evolves


-----------------------------------------------------------------------------
(* What a message does to a book that agrees with the market. *)

(* The book shows the session and the live orders of the moment a. *)
Agrees(a) == View(Here) = a.orders /\ is_open_ = a.open

(* What the handler of m has done, if the process has not stopped. *)
Applied(m) ==
    \/ m.type = "S" /\ m.code = "O" /\ is_open_' = TRUE /\ Here' = Here
    \/ m.type = "S" /\ m.code = "C" /\ is_open_' = FALSE /\ Here' = Here
    \/ m.type = "S" /\ m.code = "H" /\ Empties
    \/ m.type \in {"A", "F"} /\ is_open_' = is_open_ /\ Places(m.ref, m.side, m.shares, m.price)
    \/ m.type \in {"E", "C", "X"} /\ is_open_' = is_open_ /\ Takes(m.ref, m.shares)
    \/ m.type = "D" /\ is_open_' = is_open_ /\ Deletes(m.ref)
    \/ m.type = "U" /\ is_open_' = is_open_ /\ Replaces(m.ref, m.new_ref, m.shares, m.price)
    \/ m.type \in {"P", "?"} /\ is_open_' = is_open_ /\ Here' = Here

LEMMA AgreedLive ==
    ASSUME IndInv, NEW a, Agrees(a), NEW r \in Refs
    PROVE  /\ a.orders[r] = nullptr <=> order_map_[r] = nullptr
           /\ order_map_[r] # nullptr => /\ a.orders[r].side = pool_[order_map_[r]].side
                                         /\ a.orders[r].price = pool_[order_map_[r]].price
                                         /\ a.orders[r].shares = pool_[order_map_[r]].shares
<1>0. StateOK(Here) /\ a.orders = View(Here)
    BY DEF IndInv, Agrees
<1>1. CASE order_map_[r] = nullptr
    BY <1>0, <1>1, HereFields DEF View
<1>2. CASE order_map_[r] # nullptr
  <2>1. a.orders[r] = Seen(pool_[order_map_[r]]) /\ a.orders[r] # nullptr
      BY <1>0, <1>2, HereFields, ViewLive
  <2> QED BY <1>2, <2>1 DEF Seen
<1> QED BY <1>1, <1>2

LEMMA DispatchApplies ==
    ASSUME Conforming, IndInv, NEW m, Fielded(m), NEW a, NEW b, Agrees(a), Evolves(m, a, b), dispatch(m)
    PROVE  [Next]_vars /\ (fault' = "none" => Applied(m))
<1>0. StateOK(Here) /\ Conforming
    BY DEF IndInv
<1>a. ASSUME NEW reason, reason # "none", Abort(reason) PROVE fault' # "none"
    BY <1>a DEF Abort
<1>1. CASE m.type = "S"
  <2>1. OnSystemEvent(m.code) /\ m.code \in {"O", "C", "H"}
      BY <1>1 DEF dispatch, Evolves
  <2>2. Next
      BY <2>1 DEF Next
  <2>3. CASE m.code = "H" /\ Halt
    <3>1. Empties
        BY <2>3 DEF Halt, Empties
    <3> QED BY <3>1, <2>2, <2>3, <1>1 DEF Applied
  <2>4. CASE m.code \in {"O", "C"} /\ Becomes(Here) /\ is_open_' = (m.code = "O")
    <3>1. Here' = Here
        BY <2>4, <1>0, BecomesHere
    <3> QED BY <3>1, <2>2, <2>4, <1>1 DEF Applied
  <2> QED BY <2>1, <2>2, <2>3, <2>4 DEF OnSystemEvent
<1>2. CASE m.type \in {"A", "F"}
  <2>1. /\ m.ref \in Refs /\ m.side \in Side /\ m.shares \in Quantities /\ m.price \in Prices
        /\ OnAdd(m.ref, m.side, m.shares, m.price)
      BY <1>2 DEF Fielded, dispatch, OnAddMPID
  <2>2. a.open /\ a.orders[m.ref] = nullptr /\ m.shares > 0 /\ m.price > 0
      BY <1>2 DEF Evolves
  <2>3. FreshRef(m.ref) /\ Sound(m.shares, m.price) /\ is_open_
      BY <2>1, <2>2, AgreedLive DEF FreshRef, Sound, Agrees
  <2>4. Next
      BY <2>1, <2>3 DEF Next
  <2>5. \/ ~is_open_
        \/ Abort("pool")
        \/ is_open_' = is_open_ /\ Places(m.ref, m.side, m.shares, m.price)
      BY <2>1, <2>3, AddCases
  <2> QED BY <2>3, <2>4, <2>5, <1>2, <1>a DEF Applied
<1>3. CASE m.type \in {"E", "C", "X"}
  <2>1. m.ref \in Refs /\ m.shares \in Quantities /\ TakeShares(m.ref, m.shares)
      BY <1>3 DEF Fielded, dispatch, OnExecute, OnExecuteWithPrice, OnCancel
  <2>2. a.orders[m.ref] # nullptr /\ m.shares <= a.orders[m.ref].shares
      BY <1>3 DEF Evolves
  <2>3. Covered(m.ref, m.shares) /\ order_map_[m.ref] # nullptr
      BY <2>1, <2>2, AgreedLive DEF Covered
  <2>4. Next
      BY <2>1, <2>3 DEF Next, OnExecute
  <2>5. \/ order_map_[m.ref] = nullptr
        \/ \E reason : reason # "none" /\ Abort(reason)
        \/ is_open_' = is_open_ /\ Takes(m.ref, m.shares)
      BY <2>1, <2>3, TakeCases
  <2> QED BY <2>3, <2>4, <2>5, <1>3, <1>a DEF Applied
<1>4. CASE m.type = "D"
  <2>1. m.ref \in Refs /\ OnDelete(m.ref)
      BY <1>4 DEF Fielded, dispatch
  <2>2. order_map_[m.ref] # nullptr
      BY <1>4, <2>1, AgreedLive DEF Evolves
  <2>3. Next
      BY <2>1 DEF Next
  <2>4. \/ order_map_[m.ref] = nullptr
        \/ \E reason : reason # "none" /\ Abort(reason)
        \/ is_open_' = is_open_ /\ Deletes(m.ref)
      BY <2>1, DeleteCases
  <2> QED BY <2>2, <2>3, <2>4, <1>4, <1>a DEF Applied
<1>5. CASE m.type = "U"
  <2>1. /\ m.ref \in Refs /\ m.new_ref \in Refs /\ m.shares \in Quantities /\ m.price \in Prices
        /\ OnReplace(m.ref, m.new_ref, m.shares, m.price)
      BY <1>5 DEF Fielded, dispatch
  <2>2. a.orders[m.ref] # nullptr /\ a.orders[m.new_ref] = nullptr /\ m.shares > 0 /\ m.price > 0
      BY <1>5 DEF Evolves
  <2>3. FreshRef(m.new_ref) /\ Sound(m.shares, m.price) /\ order_map_[m.ref] # nullptr
      BY <2>1, <2>2, AgreedLive DEF FreshRef, Sound
  <2>4. Next
      BY <2>1, <2>3 DEF Next
  <2>5. \/ order_map_[m.ref] = nullptr
        \/ \E reason : reason # "none" /\ Abort(reason)
        \/ is_open_' = is_open_ /\ Replaces(m.ref, m.new_ref, m.shares, m.price)
      BY <2>1, <2>3, ReplaceCases
  <2> QED BY <2>3, <2>4, <2>5, <1>5, <1>a DEF Applied
<1>6. CASE m.type \in {"P", "?"}
  <2>1. UNCHANGED vars
      BY <1>6 DEF dispatch
  <2>2. Here' = Here /\ is_open_' = is_open_
      BY <2>1 DEF vars, Here
  <2> QED BY <2>1, <2>2, <1>6 DEF Applied
<1> QED BY <1>1, <1>2, <1>3, <1>4, <1>5, <1>6 DEF dispatch

(* ... so that the book agrees with the market after the message too. *)
LEMMA AppliedAgrees ==
    ASSUME Conforming, IndInv, NEW m, Fielded(m), NEW a, NEW b, Agrees(a), Evolves(m, a, b), Applied(m)
    PROVE  View(Here') = b.orders /\ is_open_' = b.open
<1>0. StateOK(Here) /\ Exact /\ View(Here) = a.orders /\ is_open_ = a.open
    BY DEF IndInv, Exact, Agrees
<1>1. CASE m.type = "S" \/ m.type \in {"P", "?"}
  <2>1. CASE m.type = "S" /\ m.code = "H"
    <3>1. Empties
        BY <2>1 DEF Applied
    <3>2. View(Here') = NoOrders /\ is_open_' = FALSE
        BY <3>1 DEF Empties, View, NoOrders, Here
    <3>3. b.orders = NoOrders /\ b.open = FALSE
        BY <2>1 DEF Evolves
    <3> QED BY <3>2, <3>3
  <2>2. CASE ~(m.type = "S" /\ m.code = "H")
    <3>1. Here' = Here /\ b.orders = a.orders
        BY <2>2, <1>1 DEF Applied, Evolves
    <3>2. is_open_' = b.open
      <4>1. CASE m.type = "S" /\ m.code = "O"
        <5>1. is_open_' = TRUE /\ b.open = TRUE
            BY <4>1 DEF Applied, Evolves
        <5> QED BY <5>1
      <4>2. CASE m.type = "S" /\ m.code = "C"
        <5>1. is_open_' = FALSE /\ b.open = FALSE
            BY <4>2 DEF Applied, Evolves
        <5> QED BY <5>1
      <4>3. CASE m.type \in {"P", "?"}
        <5>1. is_open_' = is_open_ /\ b.open = a.open
            BY <4>3 DEF Applied, Evolves
        <5> QED BY <5>1, <1>0
      <4> QED BY <2>2, <1>1, <4>1, <4>2, <4>3 DEF Evolves
    <3> QED BY <3>1, <3>2, <1>0
  <2> QED BY <2>1, <2>2
<1>2. CASE m.type \in {"A", "F"}
  <2>1. m.ref \in Refs /\ m.side \in Side
      BY <1>2 DEF Fielded
  <2>2. is_open_' = is_open_ /\ PlacedFor(Here, Here', m.ref, m.side, m.shares, m.price)
      BY <1>2 DEF Applied, Places
  <2>3. View(Here') = [View(Here) EXCEPT ![m.ref] =
                           [side |-> m.side, price |-> m.price, shares |-> m.shares]]
    <3> DEFINE r == m.ref
               s == m.side
               q == m.shares
               p == m.price
    <3> HIDE DEF r, s, q, p
    <3>1. PlacedFor(Here, Here', r, s, q, p) /\ r \in Refs /\ s \in Side
        BY <2>1, <2>2 DEF r, s, q, p
    <3>2. View(Here') = [View(Here) EXCEPT ![r] = [side |-> s, price |-> p, shares |-> q]]
        BY <3>1, <1>0, PlaceView
    <3> QED BY <3>2 DEF r, s, q, p
  <2> QED BY <2>2, <2>3, <1>0, <1>2 DEF Evolves
<1>3. CASE m.type \in {"E", "C", "X"}
  <2>1. m.ref \in Refs /\ m.shares \in Quantities
      BY <1>3 DEF Fielded
  <2>2. is_open_' = is_open_ /\ Takes(m.ref, m.shares)
      BY <1>3 DEF Applied
  <2>3. ITCH!Reduce(m.ref, m.shares)
      BY <2>1, <2>2, <1>0, TakesImplements
  <2>4. LiveOrders = a.orders /\ LiveOrders' = View(Here')
      BY <1>0, ViewHere
  <2>5. View(Here') = [a.orders EXCEPT ![m.ref] = Left(a.orders[m.ref], m.shares)]
      BY <2>3, <2>4 DEF ITCH!Reduce, Left
  <2> QED BY <2>2, <2>5, <1>0, <1>3 DEF Evolves
<1>4. CASE m.type = "D"
  <2>1. is_open_' = is_open_ /\ Goes(Here, m.ref) /\ Withdrawn(Here, Here', m.ref)
      BY <1>4 DEF Applied, Deletes
  <2>2. View(Here') = [View(Here) EXCEPT ![m.ref] = nullptr]
      BY <2>1, <1>0, WithdrawView
  <2> QED BY <2>1, <2>2, <1>0, <1>4 DEF Evolves
<1>5. CASE m.type = "U"
  <2> DEFINE s == pool_[order_map_[m.ref]].side
  <2>1. m.ref \in Refs /\ m.new_ref \in Refs
      BY <1>5 DEF Fielded
  <2>2. /\ is_open_' = is_open_ /\ Goes(Here, m.ref)
        /\ \E left : /\ StateOK(left) /\ Withdrawn(Here, left, m.ref)
                     /\ PlacedFor(left, Here', m.new_ref, s, m.shares, m.price)
      BY <1>5 DEF Applied, Replaces
  <2>3. PICK left : /\ StateOK(left) /\ Withdrawn(Here, left, m.ref)
                    /\ PlacedFor(left, Here', m.new_ref, s, m.shares, m.price)
      BY <2>2
  <2>4. s \in Side /\ a.orders[m.ref].side = s
      BY <2>1, <2>2, <1>0, HereFields, LiveOrder, AgreedLive DEF Goes
  <2> HIDE DEF s
  <2>5. View(left) = [View(Here) EXCEPT ![m.ref] = nullptr]
      BY <2>2, <2>3, <1>0, WithdrawView
  <2>6. View(Here') = [View(left) EXCEPT ![m.new_ref] =
                           [side |-> s, price |-> m.price, shares |-> m.shares]]
    <3>1. PlacedFor(left, Here', m.new_ref, s, m.shares, m.price) /\ StateOK(left)
        BY <2>3
    <3> DEFINE q == m.shares
               p == m.price
               n == m.new_ref
    <3> HIDE DEF q, p, n
    <3>2. PlacedFor(left, Here', n, s, q, p) /\ n \in Refs
        BY <3>1, <2>1 DEF q, p, n
    <3>3. View(Here') = [View(left) EXCEPT ![n] = [side |-> s, price |-> p, shares |-> q]]
        BY <3>1, <3>2, <2>4, PlaceView
    <3> QED BY <3>3 DEF q, p, n
  <2> QED BY <2>2, <2>4, <2>5, <2>6, <1>0, <1>5 DEF Evolves
<1> QED BY <1>1, <1>2, <1>3, <1>4, <1>5 DEF Applied


-----------------------------------------------------------------------------
(***************************************************************************)
(* Prices that fit in the window: P stands for those of the messages.      *)
(***************************************************************************)
Fits(P) == \A p, q \in P : p - q < kLevels

(* The sides are centred on prices of P, and no live order is left out. *)
KeptAt(st, P, r) ==
    st.ord[st.map[r]].price \in P /\ st.ord[st.map[r]].level_idx # -1

KeptIn(st, P) ==
    /\ \A s \in Side : st.bk[s].ref \in P \cup {0}
    /\ \A r \in Refs : st.map[r] # nullptr => KeptAt(st, P, r)

(* A recentre on a price outside the window keeps the orders inside it. *)
LEMMA FitKeeps ==
    ASSUME NEW P \in SUBSET Prices, Fits(P), NEW s \in Side, NEW ref \in P, NEW p \in P,
           NEW u \in P, PriceIdx(s, ref, u) \in Indices, PriceIdx(s, ref, p) \notin Indices
    PROVE  PriceIdx(s, p, u) \in Indices
<1>1. ref \in Int /\ p \in Int /\ u \in Int /\ kLevels \in Int
    BY BookAssumption, WidthAssumption
<1>2. ref - p < kLevels /\ p - ref < kLevels /\ p - u < kLevels /\ u - p < kLevels
    BY DEF Fits
<1>3. TicksWorse(s, ref, u) \in Indices /\ TicksWorse(s, ref, p) \notin Indices
    BY IdxIsTicks
<1>4. TicksWorse(s, p, u) \in Indices
    BY <1>1, <1>2, <1>3 DEF TicksWorse, Indices, Side
<1> QED BY <1>4, IdxIsTicks

LEMMA WithdrawKept ==
    ASSUME NEW st, StateOK(st), NEW P, KeptIn(st, P), NEW r, Goes(st, r), NEW new,
           Withdrawn(st, new, r)
    PROVE  KeptIn(new, P)
<1>1. r \in Refs /\ st.map \in [Refs -> Slots \cup {nullptr}] /\ st.ord \in [Slots -> Order]
    BY StateFacts DEF Goes
<1>2. \A t \in Side : new.bk[t].ref \in P \cup {0}
    BY DEF Withdrawn, LevelSet, KeptIn
<1>3. ASSUME NEW q \in Refs, new.map[q] # nullptr PROVE KeptAt(new, P, q)
  <2> DEFINE x == new.map[q]
  <2>1. q # r /\ x = st.map[q] /\ x # st.map[r] /\ x \in Slots
    <3>1. new.map = [st.map EXCEPT ![r] = nullptr]
        BY DEF Withdrawn
    <3>2. q # r /\ x = st.map[q]
        BY <3>1, <1>1, <1>3
    <3> QED BY <3>2, <1>1, <1>3 DEF StateOK, MapOK
  <2>2. new.ord[x] = st.ord[x]
      BY <2>1, <1>1 DEF Withdrawn
  <2>3. KeptAt(st, P, q)
      BY <2>1, <1>3 DEF KeptIn
  <2> QED BY <2>1, <2>2, <2>3 DEF KeptAt
<1> QED BY <1>2, <1>3 DEF KeptIn

LEMMA ReduceKept ==
    ASSUME NEW st, StateOK(st), NEW P, KeptIn(st, P), NEW r, Goes(st, r), NEW qty, NEW new,
           Reduced(st, new, r, qty)
    PROVE  KeptIn(new, P)
<1>1. st.map \in [Refs -> Slots \cup {nullptr}] /\ st.ord \in [Slots -> Order] /\ new.map = st.map
    BY StateFacts DEF Reduced
<1>2. \A t \in Side : new.bk[t].ref \in P \cup {0}
    BY DEF Reduced, LevelSet, KeptIn
<1>3. ASSUME NEW q \in Refs, new.map[q] # nullptr PROVE KeptAt(new, P, q)
  <2> DEFINE x == st.map[q]
  <2>1. x \in Slots /\ st.ord[x] \in Order
      BY <1>1, <1>3
  <2>2. new.ord[x].price = st.ord[x].price /\ new.ord[x].level_idx = st.ord[x].level_idx
    <3>1. new.ord = [st.ord EXCEPT ![st.map[r]].shares = SubW(@, qty, W32)]
        BY DEF Reduced
    <3> QED BY <3>1, <1>1, <2>1 DEF Order
  <2>3. KeptAt(st, P, q)
      BY <1>1, <1>3 DEF KeptIn
  <2> QED BY <2>2, <2>3, <1>1 DEF KeptAt
<1> QED BY <1>2, <1>3 DEF KeptIn

LEMMA PlaceKept ==
    ASSUME NEW st, StateOK(st), Priced(st), NEW P \in SUBSET Prices, Fits(P), KeptIn(st, P),
           NEW new, NEW r \in Refs, NEW s \in Side, NEW qty, NEW price \in P,
           PlacedFor(st, new, r, s, qty, price)
    PROVE  KeptIn(new, P)
<1>1. PICK o, i, sd : o \in st.free /\ PlacedAt(st, new, r, s, qty, price, o, i, sd)
    BY DEF PlacedFor, PlacedAt
<1>2. /\ Entered(st, new, r, s, qty, price, o, i, sd)
      /\ \/ InWindow(st, new, s, price, o, i, sd)
         \/ Recentred(st, new, s, price, o, i, sd)
    BY <1>1 DEF PlacedAt
<1>3. /\ st.map \in [Refs -> Slots \cup {nullptr}] /\ st.ord \in [Slots -> Order]
      /\ new.map = [st.map EXCEPT ![r] = o] /\ i \in Indices
      /\ new.ord[o] = [shares |-> qty, price |-> price, side |-> s, level_idx |-> i]
      /\ new.bk[s].ref = sd.ref /\ \A t \in Side : t # s => new.bk[t] = st.bk[t]
    BY <1>2, StateFacts DEF Entered
<1>4. ASSUME NEW t \in Side PROVE new.bk[t].ref \in P \cup {0}
  <2>1. CASE t # s
      BY <2>1, <1>3 DEF KeptIn
  <2>2. CASE t = s
      BY <2>2, <1>2, <1>3 DEF KeptIn, InWindow, Recentred
  <2> QED BY <2>1, <2>2
<1>5. ASSUME NEW q \in Refs, new.map[q] # nullptr PROVE KeptAt(new, P, q)
  <2>1. CASE q = r
    <3>1. new.map[q] = o /\ i # -1
        BY <2>1, <1>3, IndicesNat
    <3> QED BY <3>1, <1>3 DEF KeptAt
  <2>2. CASE q # r
    <3> DEFINE x == st.map[q]
               u == st.ord[x].price
               ref == st.bk[s].ref
    <3>1. new.map[q] = x /\ x # nullptr
        BY <2>2, <1>3, <1>5
    <3>2. x \in Slots /\ x # o /\ st.ord[x] \in Order /\ x \in Mapped(st.map)
      <4>1. x \in Slots /\ x \notin st.free
          BY <3>1, <1>3 DEF StateOK, MapOK
      <4> QED BY <4>1, <3>1, <1>1, <1>3, MappedSlots
    <3>3. KeptAt(st, P, q) /\ PricedAt(st, q)
        BY <3>1 DEF KeptIn, Priced
    <3>4. CASE new.ord[x] = st.ord[x]
        BY <3>1, <3>3, <3>4 DEF KeptAt
    <3>5. CASE new.ord[x] # st.ord[x]
      <4>1. Recentred(st, new, s, price, o, i, sd) /\ st.ord[x].side = s
          BY <3>2, <3>5, <1>2 DEF InWindow, Recentred
      <4>2. /\ new.ord[x] = [st.ord[x] EXCEPT !.level_idx = NewIdx(s, price, st.ord[x])]
            /\ PriceIdx(s, IF ref = 0 THEN price ELSE ref, price) \notin Indices
          BY <4>1, <3>2 DEF Recentred
      <4>3. /\ u \in P /\ ref # 0 /\ st.ord[x].level_idx # -1
            /\ st.ord[x].level_idx = NewIdx(s, ref, st.ord[x])
          BY <4>1, <3>3 DEF KeptAt, PricedAt
      <4>4. ref \in P /\ PriceIdx(s, ref, u) \in Indices /\ PriceIdx(s, ref, price) \notin Indices
          BY <4>2, <4>3 DEF KeptIn, NewIdx
      <4>5. PriceIdx(s, price, u) \in Indices
          BY <4>3, <4>4, FitKeeps
      <4>6. NewIdx(s, price, st.ord[x]) # -1
          BY <4>5, IndicesNat DEF NewIdx
      <4>7. new.ord[x].price = u /\ new.ord[x].level_idx # -1
          BY <4>2, <4>6, <3>2 DEF Order
      <4> QED BY <4>3, <4>7, <3>1 DEF KeptAt
    <3> QED BY <3>4, <3>5
  <2> QED BY <2>1, <2>2
<1> QED BY <1>4, <1>5 DEF KeptIn

LEMMA AppliedKept ==
    ASSUME IndInv, Fed(Here), NEW m, Fielded(m), Applied(m), NEW P \in SUBSET Prices, Fits(P),
           m.type \in {"A", "F", "U"} => m.price \in P, KeptIn(Here, P)
    PROVE  KeptIn(Here', P)
<1>0. StateOK(Here) /\ Priced(Here)
    BY DEF IndInv, Fed
<1>1. CASE Here' = Here
    BY <1>1
<1>2. CASE Empties
  <2>1. \A s \in Side : Here'.bk[s].ref = Here.bk[s].ref
      BY <1>2 DEF Empties, EmptySide, Here
  <2>2. \A r \in Refs : Here'.map[r] = nullptr
      BY <1>2 DEF Empties, Here
  <2> QED BY <2>1, <2>2 DEF KeptIn
<1>3. CASE m.type \in {"A", "F"}
  <2>1. m.ref \in Refs /\ m.side \in Side /\ m.price \in P
      BY <1>3 DEF Fielded
  <2>2. PlacedFor(Here, Here', m.ref, m.side, m.shares, m.price)
      BY <1>3 DEF Applied, Places
  <2> QED BY <2>1, <2>2, <1>0, PlaceKept
<1>4. CASE m.type \in {"E", "C", "X"}
  <2>1. Takes(m.ref, m.shares)
      BY <1>4 DEF Applied
  <2>2. PICK left : /\ StateOK(left) /\ Goes(left, m.ref) /\ Reduced(Here, left, m.ref, m.shares)
                    /\ IF left.ord[order_map_[m.ref]].shares = 0
                       THEN Withdrawn(left, Here', m.ref) ELSE Here' = left
      BY <2>1 DEF Takes
  <2>3. KeptIn(left, P)
    <3>1. Goes(Here, m.ref)
        BY <2>1 DEF Takes
    <3> QED BY <3>1, <2>2, <1>0, ReduceKept
  <2> QED BY <2>2, <2>3, WithdrawKept
<1>5. CASE m.type = "D"
  <2>1. Goes(Here, m.ref) /\ Withdrawn(Here, Here', m.ref)
      BY <1>5 DEF Applied, Deletes
  <2> QED BY <2>1, <1>0, WithdrawKept
<1>6. CASE m.type = "U"
  <2> DEFINE s == pool_[order_map_[m.ref]].side
             q == m.shares
             p == m.price
             n == m.new_ref
  <2>1. m.ref \in Refs /\ n \in Refs /\ p \in P
      BY <1>6 DEF Fielded
  <2>2. /\ Goes(Here, m.ref)
        /\ \E left : /\ StateOK(left) /\ Withdrawn(Here, left, m.ref)
                     /\ PlacedFor(left, Here', n, s, q, p)
      BY <1>6 DEF Applied, Replaces
  <2>3. s \in Side
      BY <2>1, <2>2, <1>0, HereFields, LiveOrder DEF Goes
  <2> HIDE DEF s, q, p, n
  <2>4. PICK left : /\ StateOK(left) /\ Withdrawn(Here, left, m.ref)
                    /\ PlacedFor(left, Here', n, s, q, p)
      BY <2>2
  <2>5. KeptIn(left, P) /\ Priced(left)
      BY <2>2, <2>4, <1>0, WithdrawKept, WithdrawPriced
  <2> QED BY <2>1, <2>3, <2>4, <2>5, PlaceKept
<1> QED BY <1>1, <1>2, <1>3, <1>4, <1>5, <1>6 DEF Applied
=============================================================================

------------------------ MODULE LobsterValidatorProofs ------------------------
(***************************************************************************)
(* Proofs about the validator, for every recorded session, every pair of   *)
(* CSV files and every size of book.                                       *)
(***************************************************************************)
EXTENDS LobsterValidator, OrderBookFeedProofs

-----------------------------------------------------------------------------
(* The n-th smallest of a set of numbers. *)
Below(S, x) == {y \in S : y < x}

LEMMA BelowGrows ==
    ASSUME NEW S \in SUBSET Nat, IsFiniteSet(S), NEW x \in S, NEW z \in S, x < z
    PROVE  Cardinality(Below(S, x)) < Cardinality(Below(S, z))
<1>0. \A y \in S : y \in Nat
    OBVIOUS
<1>1. Below(S, x) \cup {x} \subseteq Below(S, z) /\ x \notin Below(S, x)
  <2>1. x \in Int /\ z \in Int /\ ~(x < x)
      BY <1>0
  <2>2. ASSUME NEW y \in Below(S, x) PROVE y \in Below(S, z)
    <3>1. y \in S /\ y \in Int /\ y < x
        BY <1>0 DEF Below
    <3>2. y < z
        BY <3>1, <2>1
    <3> QED BY <3>1, <3>2 DEF Below
  <2>3. x \in Below(S, z)
      BY DEF Below
  <2>4. x \notin Below(S, x)
      BY <2>1 DEF Below
  <2> QED BY <2>2, <2>3, <2>4
<1>2. IsFiniteSet(Below(S, x)) /\ IsFiniteSet(Below(S, z))
  <2>1. Below(S, x) \in SUBSET S /\ Below(S, z) \in SUBSET S
      BY DEF Below
  <2> QED BY <2>1, FS_Subset
<1>3. Cardinality(Below(S, x) \cup {x}) = Cardinality(Below(S, x)) + 1
    BY <1>1, <1>2, FS_AddElement
<1>4. Cardinality(Below(S, x) \cup {x}) <= Cardinality(Below(S, z))
    BY <1>1, <1>2, FS_Subset
<1>5. Cardinality(Below(S, x)) \in Nat /\ Cardinality(Below(S, z)) \in Nat
    BY <1>2, FS_CardinalityType
<1> QED BY <1>3, <1>4, <1>5

(* Every rank below the size of the set is the rank of one element. *)
LEMMA RankExists ==
    ASSUME NEW S \in SUBSET Nat, IsFiniteSet(S), NEW n \in 1 .. Cardinality(S)
    PROVE  \E x \in S : Cardinality(Below(S, x)) = n - 1
<1> DEFINE c == Cardinality(S)
           T == 0 .. c - 1
           f == [x \in S |-> Cardinality(Below(S, x))]
<1>1. c \in Nat
    BY FS_CardinalityType
<1>2. ASSUME NEW x \in S PROVE f[x] \in T
  <2>1. Below(S, x) \in SUBSET S /\ x \notin Below(S, x)
      BY DEF Below
  <2>2. IsFiniteSet(Below(S, x)) /\ Cardinality(Below(S, x)) <= c /\ Cardinality(Below(S, x)) # c
      BY <2>1, FS_Subset
  <2>3. Cardinality(Below(S, x)) \in Nat
      BY <2>2, FS_CardinalityType
  <2> QED BY <2>2, <2>3, <1>1
<1>3. ASSUME NEW x \in S, NEW z \in S, f[x] = f[z] PROVE x = z
  <2>1. ~(x < z) /\ ~(z < x)
    <3>1. Cardinality(Below(S, x)) \in Int /\ Cardinality(Below(S, z)) \in Int
        BY <1>1, <1>2
    <3> QED BY <3>1, <1>3, BelowGrows
  <2> QED BY <2>1
<1>4. f \in Injection(S, T)
  <2>1. f \in [S -> T] /\ DOMAIN f = S
      BY <1>2
  <2> HIDE DEF f
  <2> QED BY <2>1, <1>3 DEF Injection, IsInjective
<1>5. IsFiniteSet(T) /\ Cardinality(T) = c
  <2> HIDE DEF c
  <2>1. 0 \in Int /\ c - 1 \in Int
      BY <1>1
  <2>2. IsFiniteSet(T) /\ Cardinality(T) = IF 0 > c - 1 THEN 0 ELSE (c - 1) - 0 + 1
      BY <2>1, FS_Interval
  <2> QED BY <1>1, <2>2
<1>6. f \in Surjection(S, T)
    BY <1>4, <1>5, FS_Injection
<1>7. n - 1 \in T
    BY <1>1
<1>8. \E x \in S : f[x] = n - 1
    BY <1>6, <1>7 DEF Surjection
<1> QED BY <1>8

LEMMA NthIs ==
    ASSUME NEW S \in SUBSET Nat, IsFiniteSet(S), NEW n \in 1 .. Cardinality(S)
    PROVE  Nth(S, n) \in S /\ Cardinality(Below(S, Nth(S, n))) = n - 1
BY RankExists DEF Nth, Below

LEMMA NthAscends ==
    ASSUME NEW S \in SUBSET Nat, IsFiniteSet(S), NEW n \in 1 .. Cardinality(S),
           NEW m \in 1 .. Cardinality(S), n < m
    PROVE  Nth(S, n) < Nth(S, m)
<1> DEFINE x == Nth(S, n)
           z == Nth(S, m)
<1>1. /\ x \in S /\ Cardinality(Below(S, x)) = n - 1
      /\ z \in S /\ Cardinality(Below(S, z)) = m - 1
    BY NthIs
<1>2. n \in Int /\ m \in Int
    OBVIOUS
<1> HIDE DEF x, z
<1>3. ~(z < x) /\ x # z
  <2>1. ASSUME z < x PROVE FALSE
    <3>1. Cardinality(Below(S, z)) < Cardinality(Below(S, x))
        BY <2>1, <1>1, BelowGrows
    <3> QED BY <3>1, <1>1, <1>2
  <2> QED BY <2>1, <1>1, <1>2
<1>4. x \in Nat /\ z \in Nat
    BY <1>1
<1> QED BY <1>3, <1>4 DEF x, z

LEMMA NthOnto ==
    ASSUME NEW S \in SUBSET Nat, IsFiniteSet(S), NEW x \in S
    PROVE  \E n \in 1 .. Cardinality(S) : Nth(S, n) = x
<1> DEFINE n == Cardinality(Below(S, x)) + 1
<1>1. n \in 1 .. Cardinality(S) /\ n - 1 = Cardinality(Below(S, x))
  <2>1. Below(S, x) \in SUBSET S /\ x \notin Below(S, x)
      BY DEF Below
  <2>2. /\ IsFiniteSet(Below(S, x)) /\ Cardinality(Below(S, x)) <= Cardinality(S)
        /\ Cardinality(Below(S, x)) # Cardinality(S)
      BY <2>1, FS_Subset
  <2>3. Cardinality(Below(S, x)) \in Nat /\ Cardinality(S) \in Nat
      BY <2>2, FS_CardinalityType
  <2> QED BY <2>2, <2>3
<1> HIDE DEF n
<1>2. Nth(S, n) \in S /\ Cardinality(Below(S, Nth(S, n))) = Cardinality(Below(S, x))
    BY <1>1, NthIs
<1>3. ~(Nth(S, n) < x) /\ ~(x < Nth(S, n))
  <2>1. Cardinality(Below(S, x)) \in Nat
    <3>1. Below(S, x) \in SUBSET S
        BY DEF Below
    <3> QED BY <3>1, FS_Subset, FS_CardinalityType
  <2>2. ~(Cardinality(Below(S, x)) < Cardinality(Below(S, x)))
      BY <2>1
  <2> QED BY <2>2, <1>2, BelowGrows
<1>4. x \in Nat /\ Nth(S, n) \in Nat
    BY <1>2
<1> QED BY <1>1, <1>3, <1>4

(* The n-th of the first numbers is n. *)
LEMMA NthFirst ==
    ASSUME NEW c \in Nat, NEW n \in 1 .. c
    PROVE  Nth(1 .. c, n) = n
<1>1. IsFiniteSet(1 .. c) /\ Cardinality(1 .. c) = c /\ 1 .. c \in SUBSET Nat
    BY FS_Interval
<1>2. Below(1 .. c, n) = 1 .. n - 1
    BY DEF Below
<1>3. Cardinality(1 .. n - 1) = n - 1
    BY FS_Interval
<1>4. Nth(1 .. c, n) \in 1 .. c /\ Cardinality(Below(1 .. c, Nth(1 .. c, n))) = n - 1
    BY <1>1, NthIs
<1>5. ~(Nth(1 .. c, n) < n) /\ ~(n < Nth(1 .. c, n))
    BY <1>1, <1>2, <1>3, <1>4, BelowGrows
<1> QED BY <1>4, <1>5


-----------------------------------------------------------------------------
(* The messages of the ITCH file. *)
Opening == [type |-> "S", ts |-> 0, code |-> "O"]
FileMsg == ParsedMessage \cup {Opening}

LEMMA MsgFields ==
    ASSUME NEW m \in FileMsg
    PROVE  m.ts \in Nat /\ Fielded(m)
<1>1. CASE m = Opening
    BY <1>1 DEF Opening, Fielded
<1>2. CASE m \in SystemEventMsg
    BY <1>2, TimesAssumption DEF SystemEventMsg, Fielded
<1>3. CASE m \in AddOrderMsg \/ m \in AddOrderMPIDMsg
    BY <1>3, TimesAssumption DEF AddOrderMsg, AddOrderMPIDMsg, Fielded
<1>4. CASE m \in ExecuteOrderMsg \/ m \in ExecuteOrderWithPriceMsg \/ m \in CancelOrderMsg
    BY <1>4, TimesAssumption DEF ExecuteOrderMsg, ExecuteOrderWithPriceMsg, CancelOrderMsg, Fielded
<1>5. CASE m \in DeleteOrderMsg
    BY <1>5, TimesAssumption DEF DeleteOrderMsg, Fielded
<1>6. CASE m \in ReplaceOrderMsg
    BY <1>6, TimesAssumption DEF ReplaceOrderMsg, Fielded
<1>7. CASE m \in TradeMsg \/ m \in Unparsed
    BY <1>7, TimesAssumption DEF TradeMsg, Unparsed, Fielded
<1> QED BY <1>1, <1>2, <1>3, <1>4, <1>5, <1>6, <1>7 DEF FileMsg, ParsedMessage

LEMMA MsgTime ==
    ASSUME NEW m \in FileMsg
    PROVE  msg_ts(m) \in Nat /\ msg_ts(m) <= m.ts
BY MsgFields DEF msg_ts

-----------------------------------------------------------------------------
Now == [open |-> session, orders |-> market]

LEMMA HappensEvolves ==
    ASSUME NEW m, Happens(m), market \in OrderMaps
    PROVE  Evolves(m, Now, Now')
<1>0. Conforming
    BY LobsterAssumption
<1>1. Now.open = session /\ Now.orders = market /\ Now'.open = session' /\ Now'.orders = market'
    BY DEF Now
<1> HIDE DEF Now
<1>2. CASE m.type = "S"
    BY <1>1, <1>2 DEF Happens, Evolves, Market!Open, Market!Close, Market!Halt, NoOrders
<1>3. CASE m.type \in {"A", "F"}
    BY <1>0, <1>1, <1>3 DEF Happens, Evolves, Market!Add, Sound
<1>4. CASE m.type \in {"E", "C", "X"}
    BY <1>1, <1>4 DEF Happens, Evolves, Market!Reduce, Left
<1>5. CASE m.type = "D"
    BY <1>1, <1>5 DEF Happens, Evolves, Market!Delete
<1>6. CASE m.type = "U"
    BY <1>0, <1>1, <1>6 DEF Happens, Evolves, Market!Replace, Sound
<1>7. CASE m.type \in {"P", "?"}
    BY <1>1, <1>7 DEF Happens, Evolves
<1> QED BY <1>2, <1>3, <1>4, <1>5, <1>6, <1>7 DEF Happens

-----------------------------------------------------------------------------
(* What load reads. *)

(* Picked gives a sequence of the chosen elements, in their order. *)
LEMMA PickedIs ==
    ASSUME NEW seq, NEW S, NEW K \in SUBSET Nat, IsFiniteSet(K), \A k \in K : seq[k] \in S
    PROVE  /\ Picked(seq, K) \in Seq(S)
           /\ \A n \in 1 .. Len(Picked(seq, K)) :
                 Nth(K, n) \in K /\ Picked(seq, K)[n] = seq[Nth(K, n)]
           /\ \A n, m \in 1 .. Len(Picked(seq, K)) : n < m => Nth(K, n) < Nth(K, m)
<1> DEFINE c == Cardinality(K)
           P == Picked(seq, K)
<1>1. c \in Nat
    BY FS_CardinalityType
<1>2. ASSUME NEW n \in 1 .. c PROVE Nth(K, n) \in K /\ P[n] = seq[Nth(K, n)]
    BY NthIs DEF Picked
<1>3. P \in [1 .. c -> S]
    BY <1>2 DEF Picked
<1>4. P \in Seq(S) /\ Len(P) = c
  <2> HIDE DEF P, c
  <2> QED BY <1>1, <1>3, SeqDef
<1>5. \A n, m \in 1 .. c : n < m => Nth(K, n) < Nth(K, m)
    BY NthAscends
<1> QED BY <1>2, <1>4, <1>5

(* All the elements, when all are chosen. *)
LEMMA PickedAll ==
    ASSUME NEW S, NEW seq \in Seq(S)
    PROVE  Picked(seq, DOMAIN seq) = seq
<1> DEFINE c == Len(seq)
<1>1. c \in Nat /\ DOMAIN seq = 1 .. c
    OBVIOUS
<1>2. Cardinality(1 .. c) = c
  <2> HIDE DEF c
  <2> QED BY <1>1, FS_Interval
<1>3. Picked(seq, 1 .. c) = [n \in 1 .. c |-> seq[n]]
    BY <1>1, <1>2, NthFirst DEF Picked
<1> QED BY <1>1, <1>3

Ascends(ts) == \A j, k \in 1 .. Len(ts) : j <= k => ts[j] <= ts[k]

(* The readable times of a message CSV are in order. *)
TimesOK(csv) ==
    /\ csv \in Seq(Nat \cup {Bad})
    /\ \A j, k \in 1 .. Len(csv) : j <= k /\ csv[j] # Bad /\ csv[k] # Bad => csv[j] <= csv[k]

LEMMA TimesLoaded ==
    ASSUME NEW csv, TimesOK(csv)
    PROVE  /\ load_messages(<<>>, csv) \in Seq(Nat)
           /\ Ascends(load_messages(<<>>, csv))
           /\ (\A k \in DOMAIN csv : csv[k] # Bad) => load_messages(<<>>, csv) = csv
<1> DEFINE K  == {k \in DOMAIN csv : csv[k] # Bad}
           ts == Picked(csv, K)
<1>1. csv \in Seq(Nat \cup {Bad}) /\ DOMAIN csv = 1 .. Len(csv) /\ Len(csv) \in Nat
    BY DEF TimesOK
<1>2. K \in SUBSET Nat /\ IsFiniteSet(K) /\ \A k \in K : csv[k] \in Nat
  <2>1. K \in SUBSET (1 .. Len(csv)) /\ IsFiniteSet(1 .. Len(csv))
      BY <1>1, FS_Interval
  <2>2. IsFiniteSet(K)
      BY <2>1, FS_Subset
  <2> QED BY <1>1, <2>1, <2>2
<1>3. /\ ts \in Seq(Nat)
      /\ \A n \in 1 .. Len(ts) : Nth(K, n) \in K /\ ts[n] = csv[Nth(K, n)]
      /\ \A n, m \in 1 .. Len(ts) : n < m => Nth(K, n) < Nth(K, m)
  <2> HIDE DEF K
  <2> QED BY <1>2, PickedIs
<1>4. load_messages(<<>>, csv) = ts
  <2>1. load_messages(<<>>, csv) = <<>> \o ts
      BY DEF load_messages
  <2> HIDE DEF ts
  <2> QED BY <2>1, <1>3, ConcatEmptySeq
<1>5. Ascends(ts)
  <2> SUFFICES ASSUME NEW j \in 1 .. Len(ts), NEW k \in 1 .. Len(ts), j <= k
               PROVE  ts[j] <= ts[k]
      BY DEF Ascends
  <2> HIDE DEF ts
  <2>1. CASE j = k
    <3>1. ts[j] \in Nat
        BY <1>3
    <3> QED BY <2>1, <3>1
  <2>2. CASE j # k
    <3>1. Nth(K, j) \in K /\ Nth(K, k) \in K /\ Nth(K, j) < Nth(K, k)
        BY <1>3, <2>2
    <3>2. Nth(K, j) \in Nat /\ Nth(K, k) \in Nat
        BY <3>1, <1>2
    <3>3. Nth(K, j) <= Nth(K, k)
        BY <3>1, <3>2
    <3>4. csv[Nth(K, j)] <= csv[Nth(K, k)]
        BY <3>1, <3>3, <1>1 DEF TimesOK
    <3> QED BY <3>4, <1>3
  <2> QED BY <2>1, <2>2
<1>6. ASSUME \A k \in DOMAIN csv : csv[k] # Bad PROVE ts = csv
  <2>1. K = DOMAIN csv
      BY <1>6
  <2> QED BY <2>1, <1>1, PickedAll
<1> QED BY <1>3, <1>4, <1>5, <1>6

(* Snapshots are rows that parse, each with the timestamp at its line, in order of time. *)
SnapsOK(snaps, ts, csv) ==
    /\ snaps \in Seq([ts : Nat, depth : Range(csv)])
    /\ \A j, k \in 1 .. Len(snaps) : j <= k => snaps[j].ts <= snaps[k].ts
    /\ \A n \in 1 .. Len(snaps) : \E k \in DOMAIN csv :
          /\ k \in 1 .. Len(ts) /\ csv[k] # Bad
          /\ snaps[n].ts = ts[k] /\ snaps[n].depth = csv[k]

LEMMA RowsLoaded ==
    ASSUME NEW ts \in Seq(Nat), Ascends(ts), NEW S, NEW csv \in Seq(S)
    PROVE  SnapsOK(load_orderbook(<<>>, ts, csv), ts, csv)
<1> DEFINE D    == DOMAIN csv \cap DOMAIN ts
           rows == [k \in D |-> [ts |-> ts[k], depth |-> csv[k]]]
           K    == {k \in DOMAIN rows : csv[k] # Bad}
           T    == [ts : Nat, depth : Range(csv)]
           snaps == Picked(rows, K)
<1>1. /\ DOMAIN csv = 1 .. Len(csv) /\ Len(csv) \in Nat
      /\ DOMAIN ts = 1 .. Len(ts) /\ Len(ts) \in Nat
    OBVIOUS
<1>2. ASSUME NEW k \in K
      PROVE  k \in Nat /\ k \in DOMAIN csv /\ k \in 1 .. Len(ts) /\ csv[k] # Bad
             /\ rows[k] \in T /\ rows[k].ts = ts[k] /\ rows[k].depth = csv[k]
  <2>1. k \in D
      OBVIOUS
  <2>2. k \in DOMAIN csv /\ k \in 1 .. Len(ts) /\ ts[k] \in Nat /\ csv[k] \in Range(csv)
      BY <2>1, <1>1 DEF Range
  <2>3. rows[k] = [ts |-> ts[k], depth |-> csv[k]]
      BY <2>1
  <2> QED BY <2>2, <2>3, <1>1
<1>3. K \in SUBSET Nat /\ IsFiniteSet(K)
  <2>1. K \in SUBSET (1 .. Len(csv)) /\ IsFiniteSet(1 .. Len(csv))
      BY <1>1, FS_Interval
  <2>2. IsFiniteSet(K)
      BY <2>1, FS_Subset
  <2> QED BY <1>2, <2>2
<1> HIDE DEF rows, K, T
<1>4. /\ snaps \in Seq(T)
      /\ \A n \in 1 .. Len(snaps) : Nth(K, n) \in K /\ snaps[n] = rows[Nth(K, n)]
      /\ \A n, m \in 1 .. Len(snaps) : n < m => Nth(K, n) < Nth(K, m)
    BY <1>2, <1>3, PickedIs
<1>5. load_orderbook(<<>>, ts, csv) = snaps
  <2>1. load_orderbook(<<>>, ts, csv) = <<>> \o snaps
      BY DEF load_orderbook, rows, K
  <2> HIDE DEF snaps
  <2> QED BY <2>1, <1>4, ConcatEmptySeq
<1> HIDE DEF snaps
<1>6. ASSUME NEW n \in 1 .. Len(snaps)
      PROVE  /\ Nth(K, n) \in DOMAIN csv /\ Nth(K, n) \in 1 .. Len(ts) /\ csv[Nth(K, n)] # Bad
             /\ snaps[n].ts = ts[Nth(K, n)] /\ snaps[n].depth = csv[Nth(K, n)]
    BY <1>2, <1>4
<1>7. ASSUME NEW j \in 1 .. Len(snaps), NEW k \in 1 .. Len(snaps), j <= k
      PROVE  snaps[j].ts <= snaps[k].ts
  <2>1. Nth(K, j) \in 1 .. Len(ts) /\ Nth(K, k) \in 1 .. Len(ts)
      BY <1>6
  <2>2. j = k \/ Nth(K, j) < Nth(K, k)
      BY <1>4, <1>7
  <2>3. Nth(K, j) <= Nth(K, k)
      BY <2>1, <2>2, <1>1
  <2>4. ts[Nth(K, j)] <= ts[Nth(K, k)]
      BY <2>1, <2>3 DEF Ascends
  <2> QED BY <2>4, <1>6
<1>8. \A n \in 1 .. Len(snaps) : \E k \in DOMAIN csv :
          /\ k \in 1 .. Len(ts) /\ csv[k] # Bad
          /\ snaps[n].ts = ts[k] /\ snaps[n].depth = csv[k]
    BY <1>6
<1>9. SnapsOK(snaps, ts, csv)
    BY <1>4, <1>7, <1>8 DEF SnapsOK, T
<1> QED BY <1>5, <1>9


-----------------------------------------------------------------------------
(* The files as they are recorded. *)
Recorded ==
    /\ itch_file \in Seq(FileMsg) /\ Len(itch_file) >= 1
    /\ \A j, k \in 1 .. Len(itch_file) : j <= k => itch_file[j].ts <= itch_file[k].ts
    /\ session \in BOOLEAN /\ market \in OrderMaps
    /\ TimesOK(msg_csv)
    /\ \A k \in 1 .. Len(msg_csv) :
          msg_csv[k] # Bad => msg_csv[k] <= itch_file[Len(itch_file)].ts
    /\ book_csv \in Seq({Depth(o) : o \in OrderMaps} \cup {Bad})

LEMMA AppendedAt ==
    ASSUME NEW S, NEW seq \in Seq(S), NEW x \in S
    PROVE  /\ Append(seq, x) \in Seq(S)
           /\ Len(Append(seq, x)) = Len(seq) + 1 /\ Len(seq) \in Nat
           /\ \A k \in 1 .. Len(seq) : Append(seq, x)[k] = seq[k]
           /\ Append(seq, x)[Len(seq) + 1] = x
OBVIOUS

LEMMA RecordKeeps ==
    ASSUME Recorded, NEW m \in ParsedMessage, Record(m)
    PROVE  Recorded' /\ Evolves(m, Now, Now')
<1> DEFINE L == Len(itch_file)
           C == Len(msg_csv)
<1>1. itch_file \in Seq(FileMsg) /\ m \in FileMsg /\ L \in Nat /\ L >= 1
    BY DEF Recorded, FileMsg
<1>2. Evolves(m, Now, Now')
    BY HappensEvolves DEF Recorded, Record
<1>3. session' \in BOOLEAN /\ market' \in OrderMaps
  <2>1. Now \in Moment /\ Now'.open = session' /\ Now'.orders = market'
      BY DEF Recorded, Now, Moment
  <2> QED BY <2>1, <1>1, <1>2, MsgFields, EvolvesType
<1>4. /\ itch_file' \in Seq(FileMsg) /\ Len(itch_file') = L + 1
      /\ \A k \in 1 .. L : itch_file'[k] = itch_file[k]
      /\ itch_file'[L + 1] = m
  <2>1. itch_file' = Append(itch_file, m)
      BY DEF Record
  <2> QED BY <2>1, <1>1, AppendedAt
<1>5. m.ts \in Nat /\ itch_file[L].ts \in Nat /\ m.ts >= itch_file[L].ts
  <2>1. Last(itch_file) = itch_file[L]
      BY DEF Last
  <2> QED BY <2>1, <1>1, MsgFields DEF Record
<1>6. ASSUME NEW j \in 1 .. L + 1, NEW k \in 1 .. L + 1, j <= k
      PROVE  itch_file'[j].ts <= itch_file'[k].ts
  <2>1. CASE k \in 1 .. L
    <3>1. j \in 1 .. L
        BY <2>1, <1>1, <1>6
    <3> QED BY <2>1, <3>1, <1>4, <1>6 DEF Recorded
  <2>2. CASE k = L + 1 /\ j \in 1 .. L
    <3>1. itch_file[j].ts <= itch_file[L].ts /\ itch_file[j].ts \in Nat
        BY <2>2, <1>1, MsgFields DEF Recorded
    <3> QED BY <2>2, <3>1, <1>4, <1>5
  <2>3. CASE k = L + 1 /\ j = L + 1
      BY <2>3, <1>4, <1>5
  <2> QED BY <2>1, <2>2, <2>3, <1>1
<1>7. /\ msg_csv \in Seq(Nat \cup {Bad}) /\ C \in Nat
      /\ book_csv \in Seq({Depth(o) : o \in OrderMaps} \cup {Bad})
    BY DEF Recorded, TimesOK
<1>8. ASSUME NEW k \in 1 .. C, msg_csv[k] # Bad
      PROVE  msg_csv[k] \in Nat /\ msg_csv[k] <= m.ts
  <2>1. msg_csv[k] \in Nat /\ msg_csv[k] <= itch_file[L].ts
      BY <1>7, <1>8 DEF Recorded
  <2> QED BY <2>1, <1>5
<1>9. CASE UNCHANGED <<msg_csv, book_csv>>
  <2>1. \A k \in 1 .. Len(msg_csv') :
            msg_csv'[k] # Bad => msg_csv'[k] <= itch_file'[Len(itch_file')].ts
      BY <1>4, <1>8, <1>9
  <2>2. TimesOK(msg_csv')
      BY <1>9 DEF Recorded
  <2> QED BY <1>1, <1>2, <1>3, <1>4, <1>6, <1>7, <1>9, <2>1, <2>2 DEF Recorded
<1>10. CASE \E row \in {Depth(market'), Bad}, time \in {m.ts, Bad} :
                /\ msg_csv' = Append(msg_csv, time)
                /\ book_csv' = Append(book_csv, row)
  <2>1. PICK row \in {Depth(market'), Bad}, time \in {m.ts, Bad} :
                /\ msg_csv' = Append(msg_csv, time)
                /\ book_csv' = Append(book_csv, row)
      BY <1>10
  <2>2. book_csv' \in Seq({Depth(o) : o \in OrderMaps} \cup {Bad})
    <3>1. row \in {Depth(o) : o \in OrderMaps} \cup {Bad}
        BY <1>3, <2>1
    <3> QED BY <3>1, <2>1, <1>7, AppendedAt
  <2>3. /\ msg_csv' \in Seq(Nat \cup {Bad}) /\ Len(msg_csv') = C + 1
        /\ \A k \in 1 .. C : msg_csv'[k] = msg_csv[k]
        /\ msg_csv'[C + 1] = time
    <3>1. time \in Nat \cup {Bad}
        BY <2>1, <1>5
    <3> QED BY <3>1, <2>1, <1>7, AppendedAt
  <2>4. ASSUME NEW k \in 1 .. C + 1, msg_csv'[k] # Bad
        PROVE  msg_csv'[k] \in Nat /\ msg_csv'[k] <= m.ts
    <3>1. CASE k \in 1 .. C
        BY <3>1, <2>3, <2>4, <1>8
    <3>2. CASE k = C + 1
        BY <3>2, <2>3, <2>4, <2>1, <1>5
    <3> QED BY <3>1, <3>2, <1>7
  <2>5. ASSUME NEW j \in 1 .. C + 1, NEW k \in 1 .. C + 1, j <= k,
               msg_csv'[j] # Bad, msg_csv'[k] # Bad
        PROVE  msg_csv'[j] <= msg_csv'[k]
    <3>1. CASE k \in 1 .. C
      <4>1. j \in 1 .. C
          BY <3>1, <1>7, <2>5
      <4> QED BY <3>1, <4>1, <2>3, <2>5 DEF Recorded, TimesOK
    <3>2. CASE k = C + 1
      <4>1. msg_csv'[k] = m.ts
          BY <3>2, <2>3, <2>5, <2>1
      <4> QED BY <4>1, <2>4, <2>5
    <3> QED BY <3>1, <3>2, <1>7
  <2>6. TimesOK(msg_csv')
      BY <2>3, <2>5 DEF TimesOK
  <2>7. \A k \in 1 .. Len(msg_csv') :
            msg_csv'[k] # Bad => msg_csv'[k] <= itch_file'[Len(itch_file')].ts
      BY <2>3, <2>4, <1>4
  <2> QED BY <1>1, <1>2, <1>3, <1>4, <1>6, <2>2, <2>6, <2>7 DEF Recorded
<1> QED BY <1>2, <1>9, <1>10 DEF Record

LEMMA RecordedFrame ==
    ASSUME Recorded, UNCHANGED <<itch_file, msg_csv, book_csv, session, market>>
    PROVE  Recorded'
BY DEF Recorded

-----------------------------------------------------------------------------
(* The replay: where it is in the ITCH file and in the snapshots. *)
Replaying ==
    /\ phase \in {"record", "load", "validate", "done"}
    /\ phase = "record" => snap_ts_ = <<>> /\ snapshots_ = <<>>
    /\ phase \in {"record", "load"} => pos = 0 /\ snap_idx = 1 /\ total_mismatches = 0
    /\ SnapsOK(snapshots_, snap_ts_, book_csv)
    /\ TimesParse /\ phase # "record" => snap_ts_ = msg_csv
    /\ pos \in 0 .. Len(itch_file)
    /\ snap_idx \in 1 .. Len(snapshots_) + 1

(* No snapshot that is left was due after a message that has been replayed. *)
OnTime ==
    fault = "none" =>
        \A k \in snap_idx .. Len(snapshots_) : \A j \in 1 .. pos :
            msg_ts(itch_file[j]) < snapshots_[k].ts

LEMMA SnapTimes ==
    ASSUME Replaying
    PROVE  /\ Len(snapshots_) \in Nat
           /\ \A k \in 1 .. Len(snapshots_) : snapshots_[k].ts \in Nat
           /\ \A j, k \in 1 .. Len(snapshots_) : j <= k => snapshots_[j].ts <= snapshots_[k].ts
<1> DEFINE T == [ts : Nat, depth : Range(book_csv)]
<1>1. /\ snapshots_ \in Seq(T)
      /\ \A j, k \in 1 .. Len(snapshots_) : j <= k => snapshots_[j].ts <= snapshots_[k].ts
    BY DEF Replaying, SnapsOK
<1>2. \A x \in T : x.ts \in Nat
    OBVIOUS
<1> HIDE DEF T
<1>3. Len(snapshots_) \in Nat /\ \A k \in 1 .. Len(snapshots_) : snapshots_[k] \in T
    BY <1>1
<1> QED BY <1>1, <1>2, <1>3

(* The inner loop compares from snap_idx up to the first snapshot not due. *)
LEMMA DueEnds ==
    ASSUME Replaying, NEW m \in FileMsg, snap_idx <= Len(snapshots_)
    PROVE  \E f \in snap_idx .. Len(snapshots_) + 1 :
              /\ due(m) = snap_idx .. f - 1 /\ Cardinality(due(m)) = f - snap_idx
              /\ \A k \in snap_idx .. f - 1 : snapshots_[k].ts <= msg_ts(m)
              /\ \A k \in f .. Len(snapshots_) : msg_ts(m) < snapshots_[k].ts
<1> DEFINE L == Len(snapshots_)
           F == {k \in snap_idx .. L + 1 : k = L + 1 \/ msg_ts(m) < snapshots_[k].ts}
           f == Least(F)
<1>1. L \in Nat /\ snap_idx \in 1 .. L + 1
    BY SnapTimes DEF Replaying
<1>2. msg_ts(m) \in Nat /\ \A k \in 1 .. L : snapshots_[k].ts \in Nat
    BY MsgTime, SnapTimes
<1>3. f \in F /\ \A k \in F : f <= k
  <2>1. F \in SUBSET Nat /\ L + 1 \in F
      BY <1>1
  <2> HIDE DEF F
  <2> QED BY <2>1, LeastIsLeast
<1>4. f \in snap_idx .. L + 1 /\ (f = L + 1 \/ msg_ts(m) < snapshots_[f].ts)
    BY <1>3
<1>5. ASSUME NEW k \in snap_idx .. f - 1 PROVE snapshots_[k].ts <= msg_ts(m)
  <2>1. k \in 1 .. L /\ k \in snap_idx .. L + 1 /\ k < f /\ f \in Int
      BY <1>1, <1>4
  <2> HIDE DEF f
  <2>2. k \notin F
      BY <2>1, <1>3
  <2> QED BY <2>1, <2>2, <1>1, <1>2
<1> HIDE DEF f, F
<1>6. ASSUME NEW k \in f .. L PROVE msg_ts(m) < snapshots_[k].ts
  <2>1. f \in 1 .. L /\ k \in 1 .. L /\ f <= k
      BY <1>1, <1>4
  <2>2. snapshots_[f].ts <= snapshots_[k].ts /\ msg_ts(m) < snapshots_[f].ts
      BY <2>1, <1>1, <1>4, SnapTimes
  <2> QED BY <2>1, <2>2, <1>2
<1>7. due(m) = snap_idx .. f - 1
  <2>1. ASSUME NEW k \in snap_idx .. f - 1 PROVE k \in due(m)
    <3>1. k \in snap_idx .. L
        BY <1>1, <1>4
    <3>2. ASSUME NEW j \in snap_idx .. k PROVE msg_ts(m) >= snapshots_[j].ts
      <4>1. j \in snap_idx .. f - 1 /\ j \in 1 .. L
          BY <1>1, <1>4
      <4> QED BY <4>1, <1>2, <1>5
    <3> QED BY <3>1, <3>2 DEF due
  <2>2. ASSUME NEW k \in due(m) PROVE k \in snap_idx .. f - 1
    <3>1. k \in snap_idx .. L /\ \A j \in snap_idx .. k : msg_ts(m) >= snapshots_[j].ts
        BY DEF due
    <3>2. ~(f <= k)
      <4>1. ASSUME f <= k PROVE FALSE
        <5>1. f \in snap_idx .. k /\ f \in 1 .. L /\ f # L + 1
            BY <4>1, <3>1, <1>1, <1>4
        <5>2. msg_ts(m) >= snapshots_[f].ts /\ msg_ts(m) < snapshots_[f].ts
            BY <5>1, <3>1, <1>4
        <5>3. snapshots_[f].ts \in Nat
            BY <5>1, <1>2
        <5> QED BY <5>2, <5>3, <1>2
      <4> QED BY <4>1
    <3> QED BY <3>1, <3>2, <1>1, <1>4
  <2> QED BY <2>1, <2>2
<1>8. Cardinality(snap_idx .. f - 1) = f - snap_idx
  <2>1. snap_idx \in Int /\ f - 1 \in Int /\ f \in Int /\ snap_idx <= f
      BY <1>1, <1>4
  <2>2. Cardinality(snap_idx .. f - 1) = IF snap_idx > f - 1 THEN 0 ELSE (f - 1) - snap_idx + 1
      BY <2>1, FS_Interval
  <2> QED BY <2>1, <2>2
<1> QED BY <1>4, <1>5, <1>6, <1>7, <1>8


(***************************************************************************)
(* The replay invariant: the files are in order of time, the snapshots     *)
(* too, and no snapshot still to be compared was due before.               *)
(***************************************************************************)
InTime == Recorded /\ Replaying /\ OnTime

LEMMA InitInTime == LobsterInit => InTime
<1> SUFFICES ASSUME LobsterInit PROVE InTime
    OBVIOUS
<1>1. itch_file = <<Opening>> /\ Opening \in FileMsg
    BY DEF LobsterInit, Opening, FileMsg
<1>2. /\ itch_file \in Seq(FileMsg) /\ Len(itch_file) = 1
      /\ \A j, k \in 1 .. 1 : j = 1 /\ k = 1 
      /\ itch_file[1].ts = 0
    BY <1>1 DEF Opening
<1>3. market \in OrderMaps /\ session \in BOOLEAN
    BY DEF LobsterInit, OrderMaps
<1>4. /\ msg_csv = <<>> /\ book_csv = <<>> /\ snap_ts_ = <<>> /\ snapshots_ = <<>>
      /\ phase = "record" /\ pos = 0 /\ snap_idx = 1 /\ total_mismatches = 0
    BY DEF LobsterInit
<1>5. TimesOK(msg_csv) /\ SnapsOK(snapshots_, snap_ts_, book_csv)
    BY <1>4 DEF TimesOK, SnapsOK
<1>6. \A j, k \in 1 .. Len(itch_file) : j <= k => itch_file[j].ts <= itch_file[k].ts
    BY <1>2
<1>7. Recorded
    BY <1>2, <1>3, <1>4, <1>5, <1>6 DEF Recorded
<1>8. Replaying
    BY <1>2, <1>4, <1>5 DEF Replaying
<1>9. OnTime
    BY <1>4 DEF OnTime
<1> QED BY <1>7, <1>8, <1>9 DEF InTime

LEMMA DispatchRuns ==
    ASSUME NEW m, dispatch(m)
    PROVE  fault = "none"
BY DEF dispatch, OnSystemEvent, OnAdd, OnAddMPID, OnExecute, OnExecuteWithPrice, OnCancel,
       TakeShares, OnDelete, OnReplace

(* Timestamps of messages and of snapshots are numbers. *)
LEMMA TimesAreNumbers ==
    ASSUME InTime
    PROVE  /\ \A j \in 1 .. Len(itch_file) : msg_ts(itch_file[j]) \in Int
           /\ \A j \in 1 .. pos : msg_ts(itch_file[j]) \in Int
           /\ \A k \in 1 .. Len(snapshots_) : snapshots_[k].ts \in Int
           /\ \A k \in snap_idx .. Len(snapshots_) : snapshots_[k].ts \in Int
<1>1. /\ itch_file \in Seq(FileMsg) /\ Len(itch_file) \in Nat /\ pos \in 0 .. Len(itch_file)
      /\ snap_idx \in 1 .. Len(snapshots_) + 1 /\ Replaying
    BY DEF InTime, Recorded, Replaying
<1>2. \A j \in 1 .. Len(itch_file) : itch_file[j] \in FileMsg
    BY <1>1
<1>3. \A j \in 1 .. Len(itch_file) : msg_ts(itch_file[j]) \in Int
    BY <1>2, MsgTime
<1>4. \A k \in 1 .. Len(snapshots_) : snapshots_[k].ts \in Int
    BY <1>1, SnapTimes
<1>5. Len(snapshots_) \in Nat
    BY <1>1, SnapTimes
<1>6. 1 .. pos \subseteq 1 .. Len(itch_file) /\ snap_idx .. Len(snapshots_) \subseteq 1 .. Len(snapshots_)
    BY <1>1, <1>5
<1> QED BY <1>3, <1>4, <1>6

(* The turn of a message: the snapshots up to the first not due. *)
LEMMA TurnEnds ==
    ASSUME InTime, ValidateMessage
    PROVE  /\ fault = "none" /\ itch_file[pos + 1] \in FileMsg
           /\ pos \in Nat /\ pos' = pos + 1 /\ pos' \in 1 .. Len(itch_file)
           /\ snap_idx' \in snap_idx .. Len(snapshots_) + 1
           /\ fault' # "none" => snap_idx' = snap_idx
           /\ fault' = "none" =>
                 /\ \A k \in Compared : snapshots_[k].ts <= msg_ts(itch_file[pos + 1])
                 /\ \A k \in snap_idx' .. Len(snapshots_) :
                       msg_ts(itch_file[pos + 1]) < snapshots_[k].ts
<1> DEFINE m == itch_file[pos + 1]
<1>1. /\ pos < Len(itch_file) /\ snap_idx <= Len(snapshots_) /\ dispatch(m) /\ pos' = pos + 1
      /\ snap_idx' = snap_idx + Cardinality(IF fault' = "none" THEN due(m) ELSE {})
    BY DEF ValidateMessage
<1>2. pos \in 0 .. Len(itch_file) /\ itch_file \in Seq(FileMsg) /\ Len(itch_file) \in Nat
    BY DEF InTime, Recorded, Replaying
<1>3. pos + 1 \in 1 .. Len(itch_file) /\ m \in FileMsg
    BY <1>1, <1>2
<1>4. fault = "none"
    BY <1>1, DispatchRuns
<1>5. Len(snapshots_) \in Nat /\ snap_idx \in 1 .. Len(snapshots_) + 1 /\ Replaying
    BY SnapTimes DEF InTime, Replaying
<1> HIDE DEF m
<1>6. CASE fault' # "none"
  <2>1. snap_idx' = snap_idx
      BY <1>1, <1>5, <1>6, FS_EmptySet
  <2> QED BY <2>1, <1>1, <1>2, <1>3, <1>4, <1>5, <1>6 DEF m
<1>7. CASE fault' = "none"
  <2>1. PICK f \in snap_idx .. Len(snapshots_) + 1 :
              /\ Cardinality(due(m)) = f - snap_idx
              /\ \A k \in snap_idx .. f - 1 : snapshots_[k].ts <= msg_ts(m)
              /\ \A k \in f .. Len(snapshots_) : msg_ts(m) < snapshots_[k].ts
      BY <1>1, <1>3, <1>5, DueEnds
  <2>2. snap_idx' = f
      BY <1>1, <1>5, <1>7, <2>1
  <2> QED BY <2>1, <2>2, <1>1, <1>2, <1>3, <1>4, <1>7 DEF m, Compared
<1> QED BY <1>6, <1>7

LEMMA NextInTime == InTime /\ [LobsterNext]_all_vars => InTime'
<1> SUFFICES ASSUME InTime, [LobsterNext]_all_vars PROVE InTime'
    OBVIOUS
<1>0. Recorded /\ Replaying /\ OnTime
    BY DEF InTime
<1>1. CASE UNCHANGED all_vars
  <2>1. UNCHANGED <<fault, itch_file, msg_csv, book_csv, session, market, snap_ts_, snapshots_,
                    phase, pos, snap_idx, total_mismatches>>
      BY <1>1 DEF all_vars, vars, files, loaded, replay
  <2> QED BY <2>1, <1>0 DEF InTime, Recorded, Replaying, OnTime, TimesParse
<1>2. ASSUME NEW m \in ParsedMessage, Record(m) PROVE InTime'
  <2>1. Recorded'
      BY <1>0, <1>2, RecordKeeps
  <2>2. UNCHANGED <<fault, snap_ts_, snapshots_, phase, pos, snap_idx, total_mismatches>>
        /\ phase = "record"
      BY <1>2 DEF Record, vars, loaded, replay
  <2>3. snap_ts_' = <<>> /\ snapshots_' = <<>> /\ pos' = 0 /\ snap_idx' = 1
        /\ total_mismatches' = 0
      BY <2>2, <1>0 DEF Replaying
  <2>4. SnapsOK(snapshots_', snap_ts_', book_csv')
      BY <2>3 DEF SnapsOK
  <2>5. 0 \in 0 .. Len(itch_file')
      BY <2>1 DEF Recorded
  <2>6. Replaying'
      BY <2>2, <2>3, <2>4, <2>5 DEF Replaying
  <2>7. OnTime'
      BY <2>3 DEF OnTime
  <2> QED BY <2>1, <2>6, <2>7 DEF InTime
<1>3. CASE load
  <2>1. /\ UNCHANGED <<fault, itch_file, msg_csv, book_csv, session, market, pos, snap_idx,
                       total_mismatches>>
        /\ phase = "record" /\ phase' = "load"
        /\ snap_ts_ = <<>> /\ snapshots_ = <<>>
      BY <1>3, <1>0 DEF load, vars, files, replay, Replaying
  <2>2. /\ snap_ts_' = load_messages(<<>>, msg_csv)
        /\ snapshots_' = IF snap_ts_' = <<>> THEN <<>>
                         ELSE load_orderbook(<<>>, snap_ts_', book_csv)
      BY <1>3, <2>1 DEF load
  <2>3. /\ snap_ts_' \in Seq(Nat) /\ Ascends(snap_ts_')
        /\ TimesParse => snap_ts_' = msg_csv
      BY <2>2, <1>0, TimesLoaded DEF Recorded, TimesParse
  <2>4. SnapsOK(snapshots_', snap_ts_', book_csv)
    <3>1. SnapsOK(load_orderbook(<<>>, snap_ts_', book_csv), snap_ts_', book_csv)
        BY <2>3, <1>0, RowsLoaded DEF Recorded
    <3>2. SnapsOK(<<>>, snap_ts_', book_csv)
        BY DEF SnapsOK
    <3> QED BY <2>2, <3>1, <3>2
  <2>5. Recorded'
      BY <2>1, <1>0, RecordedFrame
  <2>6. pos = 0 /\ snap_idx = 1 /\ total_mismatches = 0 /\ pos \in 0 .. Len(itch_file)
      BY <2>1, <1>0 DEF Replaying
  <2>7. Len(snapshots_') \in Nat
      BY <2>4 DEF SnapsOK
  <2>8. Replaying'
      BY <2>1, <2>3, <2>4, <2>6, <2>7 DEF Replaying, TimesParse
  <2>9. OnTime'
      BY <2>1, <2>6 DEF OnTime
  <2> QED BY <2>5, <2>8, <2>9 DEF InTime
<1>4. CASE validate
  <2>1. /\ UNCHANGED <<fault, itch_file, msg_csv, book_csv, session, market, snap_ts_,
                       snapshots_, pos, snap_idx, total_mismatches>>
        /\ phase = "load" /\ phase' \in {"done", "validate"}
      BY <1>4 DEF validate, vars, files, loaded, replay
  <2> QED BY <2>1, <1>0 DEF InTime, Recorded, Replaying, OnTime, TimesParse
<1>5. CASE ValidateMessage
  <2>1. /\ UNCHANGED <<itch_file, msg_csv, book_csv, session, market, snap_ts_, snapshots_, phase>>
        /\ phase = "validate"
      BY <1>5 DEF ValidateMessage, files, loaded
  <2>2. Recorded'
      BY <2>1, <1>0, RecordedFrame
  <2>3. /\ fault = "none" /\ itch_file[pos + 1] \in FileMsg
        /\ pos \in Nat /\ pos' = pos + 1 /\ pos' \in 1 .. Len(itch_file)
        /\ snap_idx' \in snap_idx .. Len(snapshots_) + 1
        /\ fault' = "none" =>
              \A k \in snap_idx' .. Len(snapshots_) :
                  msg_ts(itch_file[pos + 1]) < snapshots_[k].ts
      BY <1>5, TurnEnds
  <2>4. snap_idx \in 1 .. Len(snapshots_) + 1 /\ Len(snapshots_) \in Nat
      BY <1>0, SnapTimes DEF Replaying
  <2>5. Replaying'
    <3>1. pos' \in 0 .. Len(itch_file) /\ snap_idx' \in 1 .. Len(snapshots_) + 1
        BY <2>3, <2>4
    <3> QED BY <3>1, <2>1, <1>0 DEF Replaying, TimesParse
  <2>6. ASSUME fault' = "none", NEW k \in snap_idx' .. Len(snapshots_), NEW j \in 1 .. pos + 1
        PROVE  msg_ts(itch_file[j]) < snapshots_[k].ts
    <3>1. CASE j = pos + 1
        BY <3>1, <2>3, <2>6
    <3>2. CASE j \in 1 .. pos
      <4>1. k \in snap_idx .. Len(snapshots_)
          BY <2>3, <2>4
      <4> QED BY <3>2, <4>1, <2>3, <1>0 DEF OnTime
    <3> QED BY <3>1, <3>2, <2>3
  <2>7. OnTime'
      BY <2>1, <2>3, <2>6 DEF OnTime, msg_ts
  <2> QED BY <2>2, <2>5, <2>7 DEF InTime
<1>6. CASE ValidateRest
  <2>1. /\ UNCHANGED <<fault, itch_file, msg_csv, book_csv, session, market, snap_ts_,
                       snapshots_, pos>>
        /\ phase = "validate" /\ phase' = "done" /\ snap_idx' = Len(snapshots_) + 1
      BY <1>6 DEF ValidateRest, vars, files, loaded
  <2>2. Len(snapshots_) \in Nat
      BY <1>0, SnapTimes
  <2>3. Recorded'
      BY <2>1, <1>0, RecordedFrame
  <2>4. Replaying'
      BY <2>1, <2>2, <1>0 DEF Replaying, TimesParse
  <2>5. OnTime'
      BY <2>1, <2>2 DEF OnTime
  <2> QED BY <2>3, <2>4, <2>5 DEF InTime
<1> QED BY <1>1, <1>2, <1>3, <1>4, <1>5, <1>6 DEF LobsterNext

LEMMA InTimeInvariance == LobsterSpec => []InTime
BY InitInTime, NextInTime, PTL DEF LobsterSpec

LEMMA WithinRows ==
    ASSUME NEW L \in Nat, NEW a \in 1 .. L + 1, NEW n \in a .. L + 1, NEW k \in a .. n - 1
    PROVE  k \in a .. L /\ k \in 1 .. L /\ n # a
OBVIOUS

(***************************************************************************)
(* validate (lobster_validator.cpp:136-189) compares each snapshot in the  *)
(* turn of the first readable message that reaches its time, neither early *)
(* nor late, or after the last message when none reaches it, and no turn   *)
(* leaves a snapshot behind that its message reaches: for all files,       *)
(* whichever CSV lines do not parse.                                       *)
(***************************************************************************)
THEOREM SnapshotsComparedOnTime == LobsterSpec => ComparedOnTime
<1> DEFINE First == \A k \in Compared :
                       /\ \A j \in 1 .. pos : ~Reaches(j, k)
                       /\ IF pos' > pos THEN Reaches(pos', k) ELSE pos = Len(itch_file)
           All == pos' > pos /\ fault' = "none" =>
                     \A k \in snap_idx' .. Len(snapshots_) : ~Reaches(pos', k)
<1>1. InTime /\ [LobsterNext]_all_vars => [First /\ All]_all_vars
  <2> SUFFICES ASSUME InTime, LobsterNext PROVE First /\ All
      OBVIOUS
  <2>0. /\ snap_idx \in 1 .. Len(snapshots_) + 1 /\ Len(snapshots_) \in Nat
        /\ pos \in Nat /\ Len(itch_file) \in Nat
      BY SnapTimes DEF InTime, Replaying, Recorded
  <2>1. ASSUME fault = "none", snap_idx' \in snap_idx .. Len(snapshots_) + 1
        PROVE  \A k \in Compared : /\ k \in snap_idx .. Len(snapshots_)
                                   /\ \A j \in 1 .. pos : ~Reaches(j, k)
    <3> SUFFICES ASSUME NEW k \in Compared
                 PROVE  /\ k \in snap_idx .. Len(snapshots_)
                        /\ \A j \in 1 .. pos : ~Reaches(j, k)
        OBVIOUS
    <3>1. k \in snap_idx .. Len(snapshots_)
        BY <2>0, <2>1, WithinRows DEF Compared
    <3>2. \A j \in 1 .. pos : msg_ts(itch_file[j]) < snapshots_[k].ts
        BY <3>1, <2>1 DEF InTime, OnTime
    <3>3. ASSUME NEW j \in 1 .. pos PROVE ~Reaches(j, k)
      <4>1. msg_ts(itch_file[j]) \in Int /\ snapshots_[k].ts \in Int
          BY <3>1, <2>0, TimesAreNumbers
      <4> QED BY <4>1, <3>2 DEF Reaches
    <3> QED BY <3>1, <3>3
  <2>2. CASE ValidateMessage
    <3>1. /\ fault = "none" /\ pos' = pos + 1 /\ pos' \in 1 .. Len(itch_file)
          /\ snap_idx' \in snap_idx .. Len(snapshots_) + 1
          /\ fault' # "none" => snap_idx' = snap_idx
          /\ fault' = "none" =>
                /\ \A k \in Compared : snapshots_[k].ts <= msg_ts(itch_file[pos + 1])
                /\ \A k \in snap_idx' .. Len(snapshots_) :
                      msg_ts(itch_file[pos + 1]) < snapshots_[k].ts
        BY <2>2, TurnEnds
    <3>2. ASSUME NEW k \in Compared PROVE Reaches(pos', k)
      <4>1. snap_idx' # snap_idx /\ k \in 1 .. Len(snapshots_)
          BY <3>1, <2>0, WithinRows DEF Compared
      <4>2. snapshots_[k].ts <= msg_ts(itch_file[pos']) /\ k \in 1 .. Len(snapshots_)
          BY <4>1, <3>1
      <4>3. msg_ts(itch_file[pos']) \in Int /\ snapshots_[k].ts \in Int
          BY <4>2, <3>1, TimesAreNumbers
      <4> QED BY <4>2, <4>3 DEF Reaches
    <3>3. First
        BY <3>1, <3>2, <2>0, <2>1
    <3>4. ASSUME fault' = "none", NEW k \in snap_idx' .. Len(snapshots_) PROVE ~Reaches(pos', k)
      <4>1. msg_ts(itch_file[pos']) < snapshots_[k].ts /\ k \in 1 .. Len(snapshots_)
          BY <3>1, <3>4, <2>0
      <4>2. msg_ts(itch_file[pos']) \in Int /\ snapshots_[k].ts \in Int
          BY <4>1, <3>1, TimesAreNumbers
      <4> QED BY <4>1, <4>2 DEF Reaches
    <3> QED BY <3>3, <3>4
  <2>3. CASE ValidateRest
    <3>1. /\ fault = "none" /\ snap_idx' \in snap_idx .. Len(snapshots_) + 1 /\ pos' = pos
          /\ pos = Len(itch_file) \/ snap_idx > Len(snapshots_)
        BY <2>0, <2>3 DEF ValidateRest
    <3>2. \A k \in Compared : /\ k \in snap_idx .. Len(snapshots_)
                              /\ \A j \in 1 .. pos : ~Reaches(j, k)
        BY <3>1, <2>1
    <3>3. ASSUME NEW k \in Compared PROVE pos = Len(itch_file)
        BY <3>1, <3>2, <2>0
    <3> QED BY <3>1, <3>2, <3>3, <2>0
  <2>4. CASE load \/ validate \/ \E m \in ParsedMessage : Record(m)
    <3>1. snap_idx' = snap_idx /\ pos' = pos
        BY <2>4 DEF load, validate, Record, replay
    <3> QED BY <3>1, <2>0 DEF Compared
  <2> QED BY <2>2, <2>3, <2>4 DEF LobsterNext
<1> QED BY <1>1, InTimeInvariance, PTL DEF LobsterSpec, ComparedOnTime


-----------------------------------------------------------------------------
(***************************************************************************)
(* The history of the market: h[j] is the moment after the first j         *)
(* messages of the ITCH file.  Every readable row of the depth CSV shows   *)
(* one of these moments, and the book shows the one the replay has reached. *)
(***************************************************************************)
Start == [open |-> FALSE, orders |-> NoOrders]

RowShows(h, k) ==
    \/ book_csv[k] = Bad
    \/ \E j \in 1 .. Len(itch_file) :
          msg_csv[k] \in {itch_file[j].ts, Bad} /\ book_csv[k] = Depth(h[j].orders)

Tracks(h) ==
    /\ h \in [0 .. Len(itch_file) -> Moment]
    /\ h[0] = Start
    /\ \A j \in 1 .. Len(itch_file) : Evolves(itch_file[j], h[j - 1], h[j])
    /\ h[Len(itch_file)] = Now
    /\ Len(book_csv) = Len(msg_csv)
    /\ \A k \in 1 .. Len(book_csv) : RowShows(h, k)
    /\ fault = "none" => Agrees(h[pos])

LEMMA InitAgrees == Init => Agrees(Start)
<1> SUFFICES ASSUME Init PROVE Agrees(Start)
    OBVIOUS
<1>1. View(Here) = NoOrders
    BY HereFields DEF Init, View, NoOrders
<1>2. is_open_ = FALSE
    BY DEF Init
<1> QED BY <1>1, <1>2 DEF Agrees, Start

LEMMA InitTracks == LobsterInit => \E h : Tracks(h)
<1> SUFFICES ASSUME LobsterInit PROVE \E h : Tracks(h)
    OBVIOUS
<1> DEFINE h == [j \in 0 .. 1 |-> IF j = 0 THEN Start ELSE Now]
<1>1. itch_file = <<Opening>> /\ msg_csv = <<>> /\ book_csv = <<>> /\ pos = 0 /\ Init
    BY DEF LobsterInit, Opening
<1>2. Start \in Moment /\ Now \in Moment
    BY DEF LobsterInit, Start, Now, Moment, NoOrders, OrderMaps
<1>3. Evolves(Opening, Start, Now)
    BY DEF LobsterInit, Evolves, Opening, Start, Now, NoOrders
<1>4. /\ h[0] = Start /\ h[1] = Now /\ h \in [0 .. 1 -> Moment]
    BY <1>2
<1>5. Len(itch_file) = 1 /\ itch_file[1] = Opening /\ Len(book_csv) = 0 /\ Len(msg_csv) = 0
    BY <1>1
<1>6. Agrees(h[pos])
    BY <1>1, <1>4, InitAgrees
<1> HIDE DEF h
<1>7. Tracks(h)
    BY <1>3, <1>4, <1>5, <1>6 DEF Tracks
<1> QED BY <1>7

LEMMA RecordTracks ==
    ASSUME Recorded, Init, pos = 0, NEW h, Tracks(h), NEW m \in ParsedMessage, Record(m)
    PROVE  (\E g : Tracks(g))'
<1> DEFINE L == Len(itch_file)
           C == Len(book_csv)
           G == [j \in 0 .. L + 1 |-> IF j <= L THEN h[j] ELSE Now']
<1>1. /\ Recorded' /\ Evolves(m, Now, Now') /\ itch_file \in Seq(FileMsg) /\ L \in Nat /\ L >= 1
      /\ m \in FileMsg /\ Len(msg_csv) = C /\ C \in Nat
      /\ msg_csv \in Seq(Nat \cup {Bad})
      /\ book_csv \in Seq({Depth(o) : o \in OrderMaps} \cup {Bad})
    BY RecordKeeps DEF Recorded, Tracks, FileMsg, TimesOK
<1>2. /\ Len(itch_file') = L + 1 /\ itch_file'[L + 1] = m
      /\ \A k \in 1 .. L : itch_file'[k] = itch_file[k]
  <2>1. itch_file' = Append(itch_file, m)
      BY DEF Record
  <2> QED BY <2>1, <1>1, AppendedAt
<1>3. Now' \in Moment
    BY <1>1 DEF Recorded, Now, Moment
<1>4. PICK g : /\ g \in [0 .. L + 1 -> Moment] /\ g[L + 1] = Now'
               /\ \A j \in 0 .. L : g[j] = h[j]
  <2>1. \A j \in 0 .. L + 1 : (j <= L <=> j # L + 1) /\ (j <= L => j \in 0 .. L)
      BY <1>1
  <2>2. h \in [0 .. L -> Moment]
      BY DEF Tracks
  <2>3. L + 1 \in 0 .. L + 1 /\ \A j \in 0 .. L : j \in 0 .. L + 1 /\ j <= L
      BY <1>1
  <2>4. /\ G \in [0 .. L + 1 -> Moment] /\ G[L + 1] = Now' /\ \A j \in 0 .. L : G[j] = h[j]
      BY <2>1, <2>2, <2>3, <1>3
  <2> HIDE DEF G
  <2> QED BY <2>4
<1> HIDE DEF G
<1>5. g[0] = Start /\ h[L] = Now
  <2>1. 0 \in 0 .. L
      BY <1>1
  <2> QED BY <2>1, <1>4 DEF Tracks
<1>6. ASSUME NEW j \in 1 .. L + 1 PROVE Evolves(itch_file'[j], g[j - 1], g[j])
  <2>1. CASE j \in 1 .. L
    <3>1. j \in 0 .. L /\ j - 1 \in 0 .. L
        BY <2>1, <1>1
    <3>2. Evolves(itch_file[j], h[j - 1], h[j])
        BY <2>1 DEF Tracks
    <3> QED BY <2>1, <3>1, <3>2, <1>2, <1>4
  <2>2. CASE j = L + 1
    <3>1. L \in 0 .. L /\ j - 1 = L
        BY <2>2, <1>1
    <3> QED BY <2>2, <3>1, <1>1, <1>2, <1>4, <1>5
  <2> QED BY <2>1, <2>2, <1>1
<1>7. ASSUME NEW k \in 1 .. C, book_csv'[k] = book_csv[k], msg_csv'[k] = msg_csv[k]
      PROVE  RowShows(g, k)'
  <2>1. RowShows(h, k)
      BY DEF Tracks
  <2>2. ASSUME NEW j \in 1 .. L, msg_csv[k] \in {itch_file[j].ts, Bad},
               book_csv[k] = Depth(h[j].orders)
        PROVE  RowShows(g, k)'
    <3>1. j \in 1 .. L + 1 /\ j \in 0 .. L
        BY <1>1
    <3>2. msg_csv'[k] \in {itch_file'[j].ts, Bad} /\ book_csv'[k] = Depth(g[j].orders)
        BY <2>2, <3>1, <1>2, <1>4, <1>7
    <3> QED BY <3>1, <3>2, <1>2 DEF RowShows
  <2>3. CASE book_csv[k] = Bad
      BY <2>3, <1>7 DEF RowShows
  <2> QED BY <2>1, <2>2, <2>3 DEF RowShows
<1>8. Len(book_csv') = Len(msg_csv') /\ \A k \in 1 .. Len(book_csv') : RowShows(g, k)'
  <2>1. CASE UNCHANGED <<msg_csv, book_csv>>
      BY <2>1, <1>1, <1>7
  <2>2. ASSUME NEW row \in {Depth(market'), Bad}, NEW time \in {m.ts, Bad},
               msg_csv' = Append(msg_csv, time), book_csv' = Append(book_csv, row)
        PROVE  Len(book_csv') = Len(msg_csv') /\ \A k \in 1 .. Len(book_csv') : RowShows(g, k)'
    <3>1. m.ts \in Nat /\ market' \in OrderMaps
        BY <1>1, MsgFields DEF Recorded
    <3>2. time \in Nat \cup {Bad} /\ row \in {Depth(o) : o \in OrderMaps} \cup {Bad}
        BY <3>1
    <3>3. /\ Len(book_csv') = C + 1 /\ book_csv'[C + 1] = row
          /\ \A k \in 1 .. C : book_csv'[k] = book_csv[k]
        BY <2>2, <3>2, <1>1, AppendedAt
    <3>4. /\ Len(msg_csv') = C + 1 /\ msg_csv'[C + 1] = time
          /\ \A k \in 1 .. C : msg_csv'[k] = msg_csv[k]
        BY <2>2, <3>2, <1>1, AppendedAt
    <3>5. ASSUME NEW k \in 1 .. C + 1 PROVE RowShows(g, k)'
      <4>1. CASE k \in 1 .. C
          BY <4>1, <3>3, <3>4, <1>7
      <4>2. CASE k = C + 1
        <5>1. msg_csv'[k] \in {itch_file'[L + 1].ts, Bad} /\ L + 1 \in 1 .. Len(itch_file')
            BY <4>2, <3>4, <1>1, <1>2
        <5>2. g[L + 1].orders = market'
            BY <1>4 DEF Now
        <5>3. book_csv'[k] = Bad \/ book_csv'[k] = Depth(g[L + 1].orders)
            BY <4>2, <3>3, <5>2
        <5> QED BY <5>1, <5>3 DEF RowShows
      <4> QED BY <4>1, <4>2, <1>1
    <3> QED BY <3>3, <3>4, <3>5
  <2> QED BY <2>1, <2>2 DEF Record
<1>9. Agrees(g[pos])'
  <2>1. UNCHANGED <<vars, pos>>
      BY DEF Record, replay
  <2>2. g[pos'] = Start
      BY <2>1, <1>5
  <2>3. Agrees(Start)'
    <3>1. Agrees(Start)
        BY InitAgrees
    <3> QED BY <3>1, <2>1 DEF Agrees, vars, Here, View
  <2> QED BY <2>2, <2>3 DEF Agrees
<1>10. Tracks(g)'
    BY <1>2, <1>4, <1>5, <1>6, <1>8, <1>9 DEF Tracks
<1> QED BY <1>10

(* Steps that leave the files alone. *)
LEMMA TracksFrame ==
    ASSUME NEW h, Tracks(h), UNCHANGED <<itch_file, msg_csv, book_csv, session, market>>,
           fault' = "none" => Agrees(h[pos])'
    PROVE  Tracks(h)'
<1>1. Now' = Now
    BY DEF Now
<1>2. \A k \in 1 .. Len(book_csv) : RowShows(h, k) => RowShows(h, k)'
    BY DEF RowShows
<1> QED BY <1>1, <1>2 DEF Tracks


(* The prices that the ITCH file brings. *)
FilePrices ==
    {itch_file[k].price : k \in {j \in DOMAIN itch_file : itch_file[j].type \in {"A", "F", "U"}}}

LEMMA FilePricesFit ==
    ASSUME Recorded
    PROVE  FilePrices \in SUBSET Prices /\ (PricesFit => Fits(FilePrices))
<1> DEFINE K == {j \in DOMAIN itch_file : itch_file[j].type \in {"A", "F", "U"}}
<1>1. \A k \in K : itch_file[k].price \in Prices
  <2>1. \A k \in DOMAIN itch_file : itch_file[k] \in FileMsg
      BY DEF Recorded
  <2> QED BY <2>1, MsgFields DEF Fielded
<1>2. PricesFit => \A j, k \in K : itch_file[j].price - itch_file[k].price < kLevels
    BY DEF PricesFit
<1>3. FilePrices = {itch_file[k].price : k \in K}
    BY DEF FilePrices
<1> HIDE DEF K
<1> QED BY <1>1, <1>2, <1>3 DEF Fits

(***************************************************************************)
(* The inductive invariant of the validator: the book is sound, it shows   *)
(* the moment of the market that the replay has reached, and, when the     *)
(* prices of the file fit in the window, no live order is left out.        *)
(***************************************************************************)
Followed ==
    /\ InTime
    /\ IndInv /\ Fed(Here) /\ Accounts(Here)
    /\ phase = "record" => Init
    /\ \E h : Tracks(h)
    /\ PricesFit => KeptIn(Here, FilePrices)

LEMMA InitKept ==
    ASSUME Init, NEW P
    PROVE  KeptIn(Here, P)
<1>1. Here.map = [r \in Refs |-> nullptr]
    BY HereFields DEF Init
<1>2. \A s \in Side : Here.bk[s].ref = 0
    BY HereFields DEF Init, EmptySide
<1> QED BY <1>1, <1>2 DEF KeptIn

LEMMA InitFollowed == LobsterInit => Followed
<1> SUFFICES ASSUME LobsterInit PROVE Followed
    OBVIOUS
<1>1. Init
    BY DEF LobsterInit
<1>2. IndInv /\ Fed(Here) /\ Accounts(Here) /\ KeptIn(Here, FilePrices)
    BY <1>1, InitOK, InitFed, InitAccounts, InitKept
<1> QED BY <1>1, <1>2, InitInTime, InitTracks DEF Followed

(* A step of the replay that does not touch the book. *)
LEMMA BookFrame ==
    ASSUME IndInv, Fed(Here), Accounts(Here), UNCHANGED vars
    PROVE  /\ Here' = Here /\ IndInv' /\ Fed(Here)' /\ Accounts(Here)'
           /\ (Init => Init') /\ \A a : Agrees(a) => Agrees(a)'
<1>1. Here' = Here /\ is_open_' = is_open_ /\ fault' = fault
    BY DEF vars, Here
<1>2. IndInv' /\ Fed(Here') /\ Accounts(Here')
    BY <1>1 DEF IndInv
<1>3. Init => Init'
    BY DEF vars, Init
<1>4. \A a : Agrees(a) => Agrees(a)'
    BY <1>1 DEF Agrees
<1> QED BY <1>1, <1>2, <1>3, <1>4

(* The turn of a message. *)
LEMMA TurnFollows ==
    ASSUME Followed, ValidateMessage, NEW h, Tracks(h)
    PROVE  /\ IndInv' /\ Fed(Here)' /\ Accounts(Here)'
           /\ Tracks(h)'
           /\ fault' = "none" => View(Here') = h[pos + 1].orders
           /\ PricesFit => KeptIn(Here', FilePrices)
<1> DEFINE m == itch_file[pos + 1]
<1>0. InTime /\ IndInv /\ Fed(Here) /\ Accounts(Here) /\ Conforming /\ Recorded
    BY LobsterAssumption DEF Followed, InTime
<1>1. fault = "none" /\ m \in FileMsg /\ pos \in Nat /\ pos' = pos + 1 /\ pos + 1 \in 1 .. Len(itch_file)
    BY <1>0, TurnEnds
<1>2. dispatch(m) /\ UNCHANGED <<itch_file, msg_csv, book_csv, session, market>>
    BY DEF ValidateMessage, files
<1>3. Agrees(h[pos]) /\ Evolves(m, h[pos], h[pos + 1])
  <2>1. (pos + 1) - 1 = pos
      BY <1>1
  <2>2. Evolves(m, h[(pos + 1) - 1], h[pos + 1])
      BY <1>1 DEF Tracks
  <2> QED BY <1>1, <2>1, <2>2 DEF Tracks
<1>4. m.type \in {"A", "F", "U"} => m.price \in FilePrices
  <2>1. pos + 1 \in DOMAIN itch_file
      BY <1>0, <1>1 DEF Recorded
  <2> QED BY <2>1 DEF FilePrices
<1>m. Fielded(m)
    BY <1>1, MsgFields
<1> HIDE DEF m
<1>5. [Next]_vars /\ (fault' = "none" => Applied(m))
    BY <1>0, <1>m, <1>2, <1>3, DispatchApplies
<1>6. IndInv' /\ Fed(Here)' /\ Accounts(Here)'
  <2>1. IndInv'
      BY <1>0, <1>5, NextOK
  <2>2. Fed(Here)'
      BY <1>0, <1>5, NextFed
  <2>3. Accounts(Here)'
      BY <1>0, <1>5, NextAccounts
  <2> QED BY <2>1, <2>2, <2>3
<1>7. fault' = "none" => View(Here') = h[pos + 1].orders /\ is_open_' = h[pos + 1].open
    BY <1>0, <1>m, <1>3, <1>5, AppliedAgrees
<1>8. ASSUME PricesFit PROVE KeptIn(Here', FilePrices)
  <2>1. CASE fault' = "none"
    <3>1. FilePrices \in SUBSET Prices /\ Fits(FilePrices) /\ KeptIn(Here, FilePrices) /\ Applied(m)
        BY <1>0, <1>5, <1>8, <2>1, FilePricesFit DEF Followed
    <3> QED BY <3>1, <1>0, <1>m, <1>4, AppliedKept
  <2>2. CASE fault' # "none"
    <3>1. Steps
        BY <1>0, <1>5, NextHere
    <3>2. Here' = Here
        BY <3>1, <2>2, <1>1 DEF Steps, Stays, Empties
    <3> QED BY <3>2, <1>8 DEF Followed
  <2> QED BY <2>1, <2>2
<1>9. Tracks(h)'
  <2>1. fault' = "none" => Agrees(h[pos])'
      BY <1>1, <1>7 DEF Agrees
  <2> QED BY <2>1, <1>2, TracksFrame
<1> QED BY <1>6, <1>7, <1>8, <1>9


LEMMA NextFollowed == Followed /\ [LobsterNext]_all_vars => Followed'
<1> SUFFICES ASSUME Followed, [LobsterNext]_all_vars PROVE Followed'
    OBVIOUS
<1>0. /\ InTime /\ IndInv /\ Fed(Here) /\ Accounts(Here) /\ Recorded /\ Replaying
      /\ phase = "record" => Init
    BY DEF Followed, InTime
<1>1. InTime'
    BY <1>0, NextInTime
<1>2. PICK h : Tracks(h)
    BY DEF Followed
<1>3. ASSUME UNCHANGED vars, UNCHANGED <<itch_file, msg_csv, book_csv, session, market, pos>>,
             phase' = "record" => phase = "record"
      PROVE  Followed'
  <2>1. /\ Here' = Here /\ IndInv' /\ Fed(Here)' /\ Accounts(Here)' /\ (Init => Init')
        /\ Agrees(h[pos]) => Agrees(h[pos])'
    <3>1. /\ Here' = Here /\ IndInv' /\ Fed(Here)' /\ Accounts(Here)' /\ (Init => Init')
        BY <1>0, <1>3, BookFrame
    <3>2. is_open_' = is_open_ /\ pos' = pos
        BY <1>3 DEF vars
    <3> QED BY <3>1, <3>2 DEF Agrees
  <2>2. fault' = fault
      BY <1>3 DEF vars
  <2>3. Tracks(h)'
    <3>1. fault' = "none" => Agrees(h[pos])'
        BY <2>1, <2>2, <1>2 DEF Tracks
    <3> QED BY <3>1, <1>2, <1>3, TracksFrame
  <2>4. (PricesFit => KeptIn(Here, FilePrices))'
    <3>1. PricesFit' = PricesFit /\ FilePrices' = FilePrices
        BY <1>3 DEF PricesFit, FilePrices
    <3>2. PricesFit => KeptIn(Here, FilePrices)
        BY DEF Followed
    <3> QED BY <3>1, <3>2, <2>1 DEF KeptIn, KeptAt
  <2> QED BY <1>0, <1>1, <1>3, <2>1, <2>3, <2>4 DEF Followed
<1>4. CASE UNCHANGED all_vars
    BY <1>3, <1>4 DEF all_vars, vars, files, loaded, replay
<1>5. ASSUME NEW m \in ParsedMessage, Record(m) PROVE Followed'
  <2>1. UNCHANGED vars /\ phase' = phase /\ phase = "record"
      BY <1>5 DEF Record
  <2>2. Init /\ pos = 0
      BY <2>1, <1>0 DEF Replaying
  <2>3. IndInv' /\ Fed(Here)' /\ Accounts(Here)' /\ Init'
      BY <2>1, <2>2, <1>0, BookFrame
  <2>4. (\E g : Tracks(g))'
      BY <2>2, <1>0, <1>2, <1>5, RecordTracks
  <2>5. KeptIn(Here, FilePrices)'
    <3>1. \A r \in Refs : Here'.map[r] = nullptr
        BY <2>3 DEF Init, Here
    <3>2. \A s \in Side : Here'.bk[s].ref = 0
        BY <2>3 DEF Init, EmptySide, Here
    <3> QED BY <3>1, <3>2 DEF KeptIn
  <2> QED BY <2>3, <2>4, <2>5, <1>1 DEF Followed
<1>6. CASE load \/ validate
    BY <1>3, <1>6 DEF load, validate, files, replay
<1>7. CASE ValidateRest
    BY <1>3, <1>7 DEF ValidateRest, files
<1>8. CASE ValidateMessage
  <2>1. /\ UNCHANGED <<itch_file, phase>> /\ phase = "validate"
      BY <1>8 DEF ValidateMessage, files
  <2>2. /\ IndInv' /\ Fed(Here)' /\ Accounts(Here)' /\ Tracks(h)'
        /\ PricesFit => KeptIn(Here', FilePrices)
      BY <1>2, <1>8, TurnFollows
  <2>3. PricesFit' = PricesFit /\ FilePrices' = FilePrices
      BY <2>1 DEF PricesFit, FilePrices
  <2>4. (PricesFit => KeptIn(Here, FilePrices))'
      BY <2>2, <2>3 DEF KeptIn, KeptAt
  <2> QED BY <2>1, <2>2, <2>4, <1>1 DEF Followed
<1> QED BY <1>4, <1>5, <1>6, <1>7, <1>8 DEF LobsterNext

(***************************************************************************)
(* The replay follows the market: after every message that does not stop   *)
(* the process, the book holds the orders and the session flag that the    *)
(* exchange had after that message, and stays sound.                       *)
(***************************************************************************)
THEOREM ReplayFollowsMarket == LobsterSpec => []Followed
BY InitFollowed, NextFollowed, PTL DEF LobsterSpec


-----------------------------------------------------------------------------
(* The depth of a market that the book shows. *)

(* Counting shares by reference or by the Order that the map gives is the same. *)
LEMMA SharesRenamed ==
    ASSUME NEW X, NEW Y \in SUBSET Slots, NEW map, NEW V, NEW ord \in [Slots -> Order],
           \A r \in X : map[r] \in Y /\ V[r].shares = ord[map[r]].shares,
           \A y \in Y : \E r \in X : map[r] = y,
           \A q, r \in X : map[q] = map[r] => q = r
    PROVE  SharesOf(X, V) = SharesOf(Y, ord) /\ IsFiniteSet(ShareUnits(X, V))
<1> DEFINE U == ShareUnits(X, V)
           W == ShareUnits(Y, ord)
           f == [u \in U |-> <<map[u[1]], u[2]>>]
<1>1. IsFiniteSet(W)
    BY SharesFit
<1>2. ASSUME NEW u \in U
      PROVE  /\ u[1] \in X /\ u[2] \in 1 .. W32 /\ u = <<u[1], u[2]>>
             /\ f[u] = <<map[u[1]], u[2]>> /\ f[u] \in W
  <2>1. u \in X \X (1 .. W32) /\ u[2] <= V[u[1]].shares
      BY DEF ShareUnits
  <2>2. u[1] \in X /\ u[2] \in 1 .. W32 /\ u = <<u[1], u[2]>>
      BY <2>1
  <2>3. f[u] = <<map[u[1]], u[2]>>
      OBVIOUS
  <2>4. f[u] \in Y \X (1 .. W32) /\ f[u][1] = map[u[1]] /\ f[u][2] = u[2]
      BY <2>2, <2>3
  <2>5. f[u][2] <= ord[f[u][1]].shares
      BY <2>1, <2>2, <2>4
  <2> QED BY <2>2, <2>3, <2>4, <2>5 DEF ShareUnits
<1>3. ASSUME NEW u \in U, NEW w \in U, f[u] = f[w] PROVE u = w
  <2>1. map[u[1]] = map[w[1]] /\ u[2] = w[2]
      BY <1>2, <1>3
  <2>2. u[1] = w[1]
      BY <2>1, <1>2
  <2>3. u = <<u[1], u[2]>> /\ w = <<w[1], w[2]>>
      BY <1>2
  <2>4. <<u[1], u[2]>> = <<w[1], w[2]>>
      BY <2>1, <2>2
  <2> QED BY <2>3, <2>4, Zenon
<1>4. ASSUME NEW w \in W PROVE \E u \in U : f[u] = w
  <2>1. w \in Y \X (1 .. W32) /\ w[2] <= ord[w[1]].shares
      BY DEF ShareUnits
  <2>2. PICK r \in X : map[r] = w[1]
      BY <2>1
  <2>3. <<r, w[2]>> \in X \X (1 .. W32) /\ w[2] <= V[r].shares
      BY <2>1, <2>2
  <2>4. <<r, w[2]>> \in U
      BY <2>3 DEF ShareUnits
  <2>5. f[<<r, w[2]>>] = <<map[r], w[2]>>
      BY <2>4
  <2>6. w = <<w[1], w[2]>>
      BY <2>1
  <2> QED BY <2>2, <2>4, <2>5, <2>6
<1>5. f \in [U -> W]
    BY <1>2
<1> HIDE DEF f, U, W
<1>6. f \in Injection(U, W) /\ f \in Surjection(U, W)
    BY <1>3, <1>4, <1>5 DEF Injection, IsInjective, Surjection
<1>7. IsFiniteSet(U) /\ Cardinality(U) = Cardinality(W)
    BY <1>1, <1>6, FS_Injection
<1> QED BY <1>7 DEF SharesOf, U, W

LEMMA PricesFinite == IsFiniteSet(Prices) /\ Prices \in SUBSET Nat
<1>1. Prices \in SUBSET (0 .. W32 - 1) /\ IsFiniteSet(0 .. W32 - 1)
    BY BookAssumption, WidthAssumption, FS_Interval
<1>2. 0 .. W32 - 1 \subseteq Nat
    BY WidthAssumption
<1> QED BY <1>1, <1>2, FS_Subset

(* A price of the market's side is a positive price, and there are finitely many. *)
LEMMA PricesOfSide ==
    ASSUME NEW orders \in OrderMaps, NEW s \in Side
    PROVE  /\ PricesOf(orders, s) \in SUBSET Nat /\ IsFiniteSet(PricesOf(orders, s))
           /\ Cardinality(PricesOf(orders, s)) \in Nat
           /\ Cardinality(PricesOf(orders, s)) <= Cardinality(Prices)
           /\ \A p \in PricesOf(orders, s) : p \in Prices /\ p # 0
<1>1. \A r \in RefsOf(orders, s) : orders[r].price \in Prices \ {0}
    BY DEF RefsOf, OrderMaps, Resting
<1>2. PricesOf(orders, s) \in SUBSET Prices /\ \A p \in PricesOf(orders, s) : p # 0
    BY <1>1 DEF PricesOf
<1>3. IsFiniteSet(PricesOf(orders, s)) /\ Cardinality(PricesOf(orders, s)) <= Cardinality(Prices)
    BY <1>2, PricesFinite, FS_Subset
<1> QED BY <1>2, <1>3, PricesFinite, FS_CardinalityType

(* The rows of a side: its prices, each once, then zeros. *)
LEMMA DepthRow ==
    ASSUME NEW orders \in OrderMaps, NEW s \in Side, NEW n \in 1 .. kDepth
    PROVE  LET row == Depth(orders)[s][n]
           IN  \/ row.price = 0 /\ row.qty = 0
               \/ /\ row.price \in PricesOf(orders, s)
                  /\ row.qty = SharesOf(RefsAt(orders, s, row.price), orders)
<1> DEFINE c == Cardinality(PricesOf(orders, s))
           k == IF s = "B" THEN c + 1 - n ELSE n
           p == NthBest(orders, s, n)
<1>1. Depth(orders)[s][n] = IF n > c THEN [price |-> 0, qty |-> 0]
                            ELSE [price |-> p, qty |-> SharesOf(RefsAt(orders, s, p), orders)]
    BY DEF Depth, DepthSide
<1>2. CASE n > c
    BY <1>1, <1>2
<1>3. CASE ~(n > c)
  <2>1. c \in Nat /\ PricesOf(orders, s) \in SUBSET Nat /\ IsFiniteSet(PricesOf(orders, s))
      BY PricesOfSide
  <2>2. k \in 1 .. c
    <3> HIDE DEF c
    <3> QED BY <1>3, <2>1
  <2>3. p = Nth(PricesOf(orders, s), k)
      BY DEF NthBest
  <2> HIDE DEF k
  <2>4. p \in PricesOf(orders, s)
      BY <2>1, <2>2, <2>3, NthIs
  <2> HIDE DEF p, c
  <2> QED BY <1>1, <1>3, <2>4
<1> QED BY <1>2, <1>3

(* Every price has its row, when there are enough rows. *)
LEMMA DepthLists ==
    ASSUME NEW orders \in OrderMaps, NEW s \in Side, Cardinality(Prices) <= kDepth,
           NEW p \in PricesOf(orders, s)
    PROVE  \E n \in 1 .. kDepth :
              /\ Depth(orders)[s][n].price = p
              /\ Depth(orders)[s][n].qty = SharesOf(RefsAt(orders, s, p), orders)
<1> DEFINE c == Cardinality(PricesOf(orders, s))
<1>1. /\ c \in Nat /\ PricesOf(orders, s) \in SUBSET Nat /\ IsFiniteSet(PricesOf(orders, s))
      /\ c <= Cardinality(Prices) /\ Cardinality(Prices) \in Nat /\ kDepth \in Nat
    BY PricesOfSide, PricesFinite, FS_CardinalityType, LobsterAssumption
<1>2. PICK k \in 1 .. c : Nth(PricesOf(orders, s), k) = p
    BY <1>1, NthOnto
<1> DEFINE n == IF s = "B" THEN c + 1 - k ELSE k
<1>3. n \in 1 .. kDepth /\ ~(n > c) /\ (IF s = "B" THEN c + 1 - n ELSE n) = k
  <2> HIDE DEF c
  <2> QED BY <1>1
<1>4. NthBest(orders, s, n) = p
    BY <1>2, <1>3 DEF NthBest
<1>5. Depth(orders)[s][n] = IF n > c THEN [price |-> 0, qty |-> 0]
                            ELSE [price |-> NthBest(orders, s, n),
                                  qty |-> SharesOf(RefsAt(orders, s, NthBest(orders, s, n)), orders)]
    BY <1>3 DEF Depth, DepthSide
<1> HIDE DEF n, c
<1>6. Depth(orders)[s][n] = [price |-> p, qty |-> SharesOf(RefsAt(orders, s, p), orders)]
    BY <1>3, <1>4, <1>5
<1> QED BY <1>3, <1>6


(***************************************************************************)
(* Where the shares resting at a price are counted in the book: the level  *)
(* at its index holds exactly the orders of the side at that price.        *)
(***************************************************************************)
LEMMA LevelShares ==
    ASSUME NEW st, StateOK(st), Fed(st), Accounts(st), View(st) \in OrderMaps,
           NEW P \in SUBSET Prices, Fits(P), KeptIn(st, P),
           NEW s \in Side, NEW p \in PricesOf(View(st), s)
    PROVE  LET idx == PriceIdx(s, st.bk[s].ref, p)
           IN  /\ idx \in Indices /\ ~Better(s, p, st.bk[s].ref)
               /\ st.bk[s].levels[idx].total_qty = SharesOf(RefsAt(View(st), s, p), View(st))
<1> DEFINE V   == View(st)
           X   == RefsAt(V, s, p)
           ref == st.bk[s].ref
           idx == PriceIdx(s, ref, p)
           Y   == At(st.bk[s], idx)
<1>1. /\ st.map \in [Refs -> Slots \cup {nullptr}] /\ st.ord \in [Slots -> Order]
      /\ Exact
    BY StateFacts, LobsterAssumption DEF Exact
<1>2. ASSUME NEW r \in Refs, V[r] # nullptr
      PROVE  /\ st.map[r] # nullptr /\ st.map[r] \in Slots
             /\ V[r].side = st.ord[st.map[r]].side /\ V[r].price = st.ord[st.map[r]].price
             /\ V[r].shares = st.ord[st.map[r]].shares
  <2>1. st.map[r] # nullptr
      BY <1>2 DEF View
  <2>2. V[r] = Seen(st.ord[st.map[r]])
      BY <2>1 DEF View
  <2> QED BY <2>1, <2>2, <1>1 DEF Seen
<1>3. ASSUME NEW r \in Refs, st.map[r] # nullptr, st.ord[st.map[r]].side = s
      PROVE  /\ st.ord[st.map[r]].price \in P /\ ref \in P
             /\ PriceIdx(s, ref, st.ord[st.map[r]].price) = st.ord[st.map[r]].level_idx
             /\ st.ord[st.map[r]].level_idx \in Indices
             /\ PriceIdx(s, ref, st.ord[st.map[r]].price)
                    = TicksWorse(s, ref, st.ord[st.map[r]].price)
  <2> DEFINE od == st.ord[st.map[r]]
  <2>1. PricedAt(st, r) /\ KeptAt(st, P, r)
      BY <1>3 DEF Fed, Priced, KeptIn
  <2>2. od.price \in P /\ ref # 0 /\ od.level_idx # -1 /\ od.level_idx = NewIdx(s, ref, od)
      BY <2>1, <1>3 DEF PricedAt, KeptAt
  <2>3. ref \in P
      BY <2>2 DEF KeptIn
  <2>4. PriceIdx(s, ref, od.price) \in Indices /\ PriceIdx(s, ref, od.price) = od.level_idx
      BY <2>2 DEF NewIdx
  <2>5. PriceIdx(s, ref, od.price) = TicksWorse(s, ref, od.price)
      BY <2>2, <2>3, IdxIsTicks
  <2> QED BY <2>2, <2>3, <2>4, <2>5
<1>4. ASSUME NEW r \in X
      PROVE  /\ r \in Refs /\ V[r] # nullptr /\ st.map[r] # nullptr /\ st.map[r] \in Slots
             /\ st.ord[st.map[r]].side = s /\ st.ord[st.map[r]].price = p
             /\ V[r].shares = st.ord[st.map[r]].shares
  <2>1. r \in Refs /\ V[r] # nullptr /\ V[r].side = s /\ V[r].price = p
      BY DEF RefsAt, RefsOf
  <2> QED BY <2>1, <1>2
<1>5. PICK r0 \in X : TRUE
  <2>1. \E r \in RefsOf(V, s) : V[r].price = p
      BY DEF PricesOf
  <2> QED BY <2>1 DEF RefsAt
<1>6. /\ p \in P /\ ref \in P /\ idx \in Indices /\ idx = TicksWorse(s, ref, p)
    BY <1>3, <1>4, <1>5
<1>6a. idx \in Nat /\ idx >= 0
  <2> HIDE DEF idx
  <2>1. idx \in Nat
      BY <1>6, IndicesNat
  <2> QED BY <2>1
<1> HIDE DEF V, X
<1>7. ~Better(s, p, ref)
  <2>1. p \in Int /\ ref \in Int
      BY <1>6, PriceRange
  <2>2. TicksWorse(s, ref, p) >= 0
      BY <1>6a, <1>6
  <2> QED BY <2>1, <2>2 DEF TicksWorse, Better
<1>8. ASSUME NEW r \in X PROVE st.map[r] \in Y
  <2>1. st.ord[st.map[r]].level_idx = idx
      BY <1>3, <1>4
  <2>2. idx >= 0
      BY <1>6a
  <2> HIDE DEF idx
  <2> QED BY <1>4, <2>1, <2>2 DEF StateOK, MapOK
<1>9. ASSUME NEW y \in Y PROVE \E r \in X : st.map[r] = y
  <2> HIDE DEF idx
  <2>1. y \in Mapped(st.map) /\ st.ord[y].side = s /\ st.ord[y].level_idx = idx
      BY <1>6, StateFacts DEF Fed, Tidy
  <2>2. PICK r \in Refs : st.map[r] = y /\ st.map[r] # nullptr
      BY <2>1, MappedSlots
  <2>3. /\ st.ord[y].price \in P
        /\ TicksWorse(s, ref, st.ord[y].price) = TicksWorse(s, ref, p)
      BY <1>3, <1>6, <2>1, <2>2
  <2>4. st.ord[y].price = p
    <3> DEFINE u == st.ord[y].price
    <3>1. u \in Int /\ p \in Int /\ ref \in Int
        BY <1>6, <2>3, PriceRange
    <3> HIDE DEF u
    <3>2. TicksWorse(s, ref, u) = TicksWorse(s, ref, p)
        BY <2>3 DEF u
    <3>3. u = p
        BY <3>1, <3>2 DEF TicksWorse
    <3> QED BY <3>3 DEF u
  <2>5. V[r] # nullptr /\ V[r].side = s /\ V[r].price = p
    <3>1. V[r] = Seen(st.ord[st.map[r]]) /\ V[r] # nullptr
        BY <2>2, ViewLive DEF V
    <3> QED BY <3>1, <2>1, <2>2, <2>4 DEF Seen
  <2>6. r \in X
      BY <2>5 DEF X, RefsAt, RefsOf
  <2> QED BY <2>2, <2>6
<1>10. \A q, r \in X : st.map[q] = st.map[r] => q = r
    BY <1>4 DEF StateOK, MapOK
<1>11. Y \in SUBSET Slots
    BY <1>6, StateFacts
<1>12. SharesOf(X, V) = SharesOf(Y, st.ord)
  <2> HIDE DEF Y
  <2> QED BY <1>1, <1>4, <1>8, <1>9, <1>10, <1>11, SharesRenamed
<1>13. st.bk[s].levels[idx].total_qty = SharesOf(Y, st.ord)
    BY <1>1, <1>6 DEF Accounts, LevelSum, At
<1> QED BY <1>6, <1>7, <1>12, <1>13 DEF X, V

(* The book has the quantity of every row of its market's depth. *)
LEMMA RowAgrees ==
    ASSUME NEW st, StateOK(st), Fed(st), Accounts(st), View(st) \in OrderMaps,
           NEW P \in SUBSET Prices, Fits(P), KeptIn(st, P),
           NEW s \in Side, NEW n \in 1 .. kDepth, Depth(View(st))[s][n].qty < W32
    PROVE  our_qty(st.bk, s, Depth(View(st))[s][n].price) = Depth(View(st))[s][n].qty
<1> DEFINE V   == View(st)
           row == Depth(V)[s][n]
           p   == row.price
           idx == PriceIdx(s, st.bk[s].ref, p)
<1>1. \/ row.price = 0 /\ row.qty = 0
      \/ /\ row.price \in PricesOf(V, s)
         /\ row.qty = SharesOf(RefsAt(V, s, row.price), V)
    BY DepthRow
<1> HIDE DEF row
<1>2. CASE row.price = 0 /\ row.qty = 0
    BY <1>2 DEF our_qty, row
<1>3. CASE /\ p \in PricesOf(V, s)
           /\ row.qty = SharesOf(RefsAt(V, s, p), V)
  <2> HIDE DEF p
  <2>1. /\ idx \in Indices /\ ~Better(s, p, st.bk[s].ref)
        /\ st.bk[s].levels[idx].total_qty = row.qty
      BY <1>3, LevelShares
  <2>2. p > 0
    <3>1. p \in Prices /\ p # 0
        BY <1>3, PricesOfSide
    <3> QED BY <3>1, PriceRange
  <2>3. row.qty \in 0 .. W32 - 1
    <3>1. LevelOK(st.bk[s].levels[idx], Slots) /\ st.ord \in [Slots -> Order]
        BY <2>1, StateFacts
    <3>2. st.bk[s].levels[idx].total_qty \in 0 .. W64 - 1
        BY <3>1, LevelFacts
    <3>3. row.qty \in Int /\ row.qty >= 0 /\ row.qty < W32 /\ W32 \in Int
        BY <3>2, <2>1, WidthAssumption DEF row
    <3> QED BY <3>3
  <2>4. row.qty % W32 = row.qty
      BY <2>3, WidthAssumption
  <2>5. our_qty(st.bk, s, p) = row.qty
      BY <2>1, <2>2, <2>4 DEF our_qty
  <2> QED BY <2>5 DEF p, row
<1> QED BY <1>1, <1>2, <1>3 DEF row


-----------------------------------------------------------------------------
(* What compare_snapshot counts. *)

Matches(bk, snap) ==
    \A s \in Side : \A n \in 1 .. kDepth :
        our_qty(bk, s, snap.depth[s][n].price) = snap.depth[s][n].qty

LEMMA ZeroMismatches ==
    ASSUME NEW bk, NEW snap
    PROVE  compare_snapshot(bk, snap) = 0 <=> Matches(bk, snap)
<1> DEFINE Wrong(x) == our_qty(bk, x[1], snap.depth[x[1]][x[2]].price) # snap.depth[x[1]][x[2]].qty
           X == Side \X (1 .. kDepth)
           M == {x \in X : Wrong(x)}
<1>1. compare_snapshot(bk, snap) = Cardinality(M)
    BY DEF compare_snapshot
<1>2. IsFiniteSet(M)
  <2>1. IsFiniteSet(Side)
    <3>1. IsFiniteSet({"B"})
        BY FS_Singleton
    <3>2. IsFiniteSet({"B"} \cup {"S"})
        BY <3>1, FS_AddElement
    <3> QED BY <3>2 DEF Side
  <2>2. IsFiniteSet(1 .. kDepth)
      BY LobsterAssumption, FS_Interval
  <2>3. IsFiniteSet(X)
      BY <2>1, <2>2, FS_Product
  <2> HIDE DEF X
  <2>4. M \in SUBSET X
      OBVIOUS
  <2> QED BY <2>3, <2>4, FS_Subset
<1>3. Cardinality(M) = 0 <=> M = {}
  <2> HIDE DEF M
  <2> QED BY <1>2, FS_EmptySet
<1>4. M = {} <=> \A x \in X : ~Wrong(x)
  <2> HIDE DEF Wrong, X
  <2> QED OBVIOUS
<1>5. (\A x \in X : ~Wrong(x)) <=> Matches(bk, snap)
  <2>1. ASSUME \A x \in X : ~Wrong(x) PROVE Matches(bk, snap)
    <3> SUFFICES ASSUME NEW s \in Side, NEW n \in 1 .. kDepth
                 PROVE  our_qty(bk, s, snap.depth[s][n].price) = snap.depth[s][n].qty
        BY DEF Matches
    <3>1. <<s, n>> \in X /\ <<s, n>>[1] = s /\ <<s, n>>[2] = n
        OBVIOUS
    <3>2. ~Wrong(<<s, n>>)
        BY <2>1, <3>1
    <3> QED BY <3>2
  <2>2. ASSUME Matches(bk, snap), NEW x \in X PROVE ~Wrong(x)
    <3>1. x[1] \in Side /\ x[2] \in 1 .. kDepth
        OBVIOUS
    <3> QED BY <2>2, <3>1 DEF Matches
  <2> QED BY <2>1, <2>2
<1> QED BY <1>1, <1>3, <1>4, <1>5

(* Snapshots that agree add nothing to the count. *)
LEMMA CompareAllZero ==
    ASSUME NEW bk, NEW first \in Nat \ {0}, NEW last \in Nat, last >= first - 1,
           total_mismatches = 0,
           \A k \in first .. last : compare_snapshot(bk, snapshots_[k]) = 0
    PROVE  compare_all(bk, first, last) = 0
<1> DEFINE D == first - 1 .. last
           F == [k \in D |-> 0]
           Rec(g) == g = [k \in D |-> IF k < first THEN total_mismatches
                                      ELSE g[k - 1] + compare_snapshot(bk, snapshots_[k])]
           T == CHOOSE g : Rec(g)
<1>1. compare_all(bk, first, last) = T[last]
    BY DEF compare_all
<1>2. \A k \in D : k < first \/ (k \in first .. last /\ k - 1 \in D)
    OBVIOUS
<1>3. Rec(F)
  <2>1. ASSUME NEW k \in D
        PROVE  0 = IF k < first THEN total_mismatches
                   ELSE F[k - 1] + compare_snapshot(bk, snapshots_[k])
      BY <1>2
  <2> QED BY <2>1
<1>4. Rec(T)
  <2> HIDE DEF Rec
  <2> QED BY <1>3
<1> HIDE DEF T
<1>5. \A k \in D : T[k] = IF k < first THEN total_mismatches
                          ELSE T[k - 1] + compare_snapshot(bk, snapshots_[k])
    BY <1>4
<1>6. \A k \in D : k < first => T[k] = 0
    BY <1>5
<1>7. \A k \in D : ~(k < first) /\ T[k - 1] = 0 => T[k] = 0
    BY <1>2, <1>5
<1> HIDE DEF Rec, F
<1>8. ASSUME T[last] # 0 PROVE FALSE
  <2> DEFINE W == {k \in Nat : k \in D /\ T[k] # 0}
             m == Least(W)
  <2>1. last \in W
      BY <1>8
  <2>2. m \in W /\ \A n \in W : m <= n
    <3>1. W \in SUBSET Nat /\ W # {}
        BY <2>1
    <3> HIDE DEF W
    <3> QED BY <3>1, LeastIsLeast
  <2>3. m \in Nat /\ m \in D /\ T[m] # 0
      BY <2>2
  <2> HIDE DEF m
  <2>4. ~(m < first) /\ T[m - 1] # 0 /\ m - 1 \in D
      BY <1>2, <1>6, <1>7, <2>3
  <2>5. m - 1 \in Nat /\ ~(m <= m - 1)
      BY <2>3, <2>4
  <2>6. m - 1 \in W
      BY <2>4, <2>5
  <2> QED BY <2>2, <2>5, <2>6
<1> QED BY <1>1, <1>8

-----------------------------------------------------------------------------
(* Which moment of the market a snapshot shows. *)
LEMMA SnapshotFrom ==
    ASSUME Recorded, Replaying, NEW h, Tracks(h), TimesParse, phase # "record",
           NEW k \in 1 .. Len(snapshots_)
    PROVE  \E j \in 1 .. Len(itch_file) :
              /\ snapshots_[k].ts = itch_file[j].ts
              /\ snapshots_[k].depth = Depth(h[j].orders)
              /\ QuantitiesFit =>
                    \A s \in Side, n \in 1 .. kDepth : snapshots_[k].depth[s][n].qty < W32
<1>1. snap_ts_ = msg_csv
    BY DEF Replaying
<1>2. PICK n \in DOMAIN book_csv :
              /\ n \in 1 .. Len(msg_csv) /\ book_csv[n] # Bad
              /\ snapshots_[k].ts = msg_csv[n] /\ snapshots_[k].depth = book_csv[n]
    BY <1>1 DEF Replaying, SnapsOK
<1>3. msg_csv[n] # Bad
  <2>1. DOMAIN msg_csv = 1 .. Len(msg_csv)
      BY DEF Recorded, TimesOK
  <2> QED BY <1>2, <2>1 DEF TimesParse
<1>4. PICK j \in 1 .. Len(itch_file) :
              msg_csv[n] \in {itch_file[j].ts, Bad} /\ book_csv[n] = Depth(h[j].orders)
    BY <1>2 DEF Tracks, RowShows
<1>5. QuantitiesFit => \A s \in Side, i \in 1 .. kDepth : book_csv[n][s][i].qty < W32
    BY <1>2 DEF QuantitiesFit
<1> QED BY <1>2, <1>3, <1>4, <1>5

(***************************************************************************)
(* With readable times, none of them repeated, a snapshot compared in the  *)
(* turn of a message shows the market after that message: the depth that   *)
(* the book now has.                                                       *)
(***************************************************************************)
LEMMA SnapshotIsNow ==
    ASSUME Followed, ValidateMessage, fault' = "none", TimesParse, AllParsed, StrictTimes,
           NEW k \in Compared
    PROVE  /\ View(Here') \in OrderMaps
           /\ snapshots_[k].depth = Depth(View(Here'))
           /\ QuantitiesFit =>
                 \A s \in Side, n \in 1 .. kDepth : snapshots_[k].depth[s][n].qty < W32
<1>0. InTime /\ Recorded /\ Replaying /\ OnTime /\ phase # "record"
    BY DEF Followed, InTime, ValidateMessage
<1>1. PICK h : Tracks(h)
    BY DEF Followed
<1>2. /\ fault = "none" /\ itch_file[pos + 1] \in FileMsg
      /\ pos \in Nat /\ pos + 1 \in 1 .. Len(itch_file)
      /\ snap_idx' \in snap_idx .. Len(snapshots_) + 1
      /\ snapshots_[k].ts <= msg_ts(itch_file[pos + 1])
    BY <1>0, TurnEnds
<1>3. k \in snap_idx .. Len(snapshots_) /\ k \in 1 .. Len(snapshots_)
  <2> DEFINE a == snap_idx
             n == snap_idx'
             L == Len(snapshots_)
  <2>1. a \in 1 .. L + 1 /\ L \in Nat /\ n \in a .. L + 1 /\ k \in a .. n - 1
      BY <1>0, <1>2, SnapTimes DEF Replaying, Compared
  <2> HIDE DEF a, n, L
  <2>2. k \in a .. L /\ k \in 1 .. L
      BY <2>1
  <2> QED BY <2>2 DEF a, L
<1>4. PICK j \in 1 .. Len(itch_file) :
              /\ snapshots_[k].ts = itch_file[j].ts
              /\ snapshots_[k].depth = Depth(h[j].orders)
              /\ QuantitiesFit =>
                    \A s \in Side, n \in 1 .. kDepth : snapshots_[k].depth[s][n].qty < W32
    BY <1>0, <1>1, <1>3, SnapshotFrom
<1>5. DOMAIN itch_file = 1 .. Len(itch_file) /\ Len(itch_file) \in Nat
      /\ \A i \in 1 .. Len(itch_file) : itch_file[i] \in FileMsg
    BY <1>0 DEF Recorded
<1>6. \A i \in 1 .. Len(itch_file) : msg_ts(itch_file[i]) = itch_file[i].ts /\ itch_file[i].ts \in Nat
    BY <1>5, MsgFields DEF AllParsed, msg_ts
<1>7. ~(j \in 1 .. pos)
  <2>1. ASSUME j \in 1 .. pos PROVE FALSE
    <3>1. msg_ts(itch_file[j]) < snapshots_[k].ts
        BY <2>1, <1>0, <1>2, <1>3 DEF OnTime
    <3>2. itch_file[j].ts < itch_file[j].ts /\ itch_file[j].ts \in Nat
        BY <3>1, <1>4, <1>6
    <3> QED BY <3>2
  <2> QED BY <2>1
<1>8. ~(pos + 1 < j)
  <2>1. ASSUME pos + 1 < j PROVE FALSE
    <3>1. itch_file[pos + 1].ts < itch_file[j].ts
        BY <2>1, <1>2, <1>5 DEF StrictTimes
    <3>2. itch_file[j].ts <= itch_file[pos + 1].ts
        BY <1>2, <1>4, <1>6
    <3>3. itch_file[pos + 1].ts \in Nat /\ itch_file[j].ts \in Nat
        BY <1>2, <1>6
    <3> QED BY <3>1, <3>2, <3>3
  <2> QED BY <2>1
<1>9. j = pos + 1
    BY <1>2, <1>7, <1>8
<1>10. View(Here') = h[j].orders
    BY <1>1, <1>9, TurnFollows
<1>11. h[j].orders \in OrderMaps
  <2>1. j \in 0 .. Len(itch_file)
      BY <1>5
  <2>2. h[j] \in Moment
      BY <2>1, <1>1 DEF Tracks
  <2> QED BY <2>2 DEF Moment
<1> QED BY <1>4, <1>10, <1>11


(* When the file ends, every snapshot with a readable time has been compared. *)
LEMMA NothingLeft ==
    ASSUME Followed, ValidateRest, TimesParse, AllParsed
    PROVE  snap_idx = Len(snapshots_) + 1 /\ snap_idx' = snap_idx /\ Len(snapshots_) \in Nat
<1>0. /\ InTime /\ Recorded /\ Replaying /\ OnTime /\ phase # "record" /\ fault = "none"
      /\ pos = Len(itch_file) \/ snap_idx > Len(snapshots_)
      /\ snap_idx' = Len(snapshots_) + 1
    BY DEF Followed, InTime, ValidateRest
<1>1. PICK h : Tracks(h)
    BY DEF Followed
<1>2. snap_idx \in 1 .. Len(snapshots_) + 1 /\ Len(snapshots_) \in Nat
    BY <1>0, SnapTimes DEF Replaying
<1>3. ASSUME snap_idx <= Len(snapshots_) PROVE FALSE
  <2>1. snap_idx \in 1 .. Len(snapshots_) /\ snap_idx \in snap_idx .. Len(snapshots_)
        /\ pos = Len(itch_file)
      BY <1>0, <1>2, <1>3
  <2>2. PICK j \in 1 .. Len(itch_file) : snapshots_[snap_idx].ts = itch_file[j].ts
      BY <1>0, <1>1, <2>1, SnapshotFrom
  <2>3. msg_ts(itch_file[j]) < itch_file[j].ts
      BY <1>0, <2>1, <2>2 DEF OnTime
  <2>4. itch_file[j] \in FileMsg /\ j \in DOMAIN itch_file
      BY <1>0 DEF Recorded
  <2>5. msg_ts(itch_file[j]) = itch_file[j].ts /\ itch_file[j].ts \in Nat
      BY <2>4, MsgFields DEF AllParsed, msg_ts
  <2> QED BY <2>3, <2>5
<1> QED BY <1>0, <1>2, <1>3

LEMMA NextPerfect ==
    Followed /\ PerfectBookScoresZero /\ [LobsterNext]_all_vars => PerfectBookScoresZero'
<1> DEFINE H == PricesFit /\ TimesParse /\ AllParsed /\ StrictTimes /\ QuantitiesFit
<1> SUFFICES ASSUME Followed, PerfectBookScoresZero, [LobsterNext]_all_vars, H'
             PROVE  total_mismatches' = 0
    BY DEF PerfectBookScoresZero
<1>0. InTime /\ Recorded /\ Replaying
    BY DEF Followed, InTime
<1>1. /\ snap_idx \in 1 .. Len(snapshots_) + 1 /\ Len(snapshots_) \in Nat
      /\ phase = "record" => total_mismatches = 0
    BY <1>0, SnapTimes DEF Replaying
<1>2. ASSUME UNCHANGED files PROVE H /\ total_mismatches = 0
  <2>1. H
      BY <1>2 DEF files, PricesFit, TimesParse, AllParsed, StrictTimes, QuantitiesFit
  <2> QED BY <2>1 DEF PerfectBookScoresZero
<1> HIDE DEF H
<1>3. ASSUME NEW m \in ParsedMessage, Record(m) PROVE total_mismatches' = 0
    BY <1>1, <1>3 DEF Record, replay
<1>4. CASE UNCHANGED all_vars \/ load \/ validate
    BY <1>2, <1>4 DEF all_vars, load, validate, replay
<1>5. CASE ValidateMessage
  <2>1. H /\ total_mismatches = 0
      BY <1>2, <1>5 DEF ValidateMessage
  <2>2. total_mismatches' = compare_all(book', snap_idx, snap_idx' - 1)
      BY <1>5 DEF ValidateMessage
  <2>3. snap_idx' \in snap_idx .. Len(snapshots_) + 1 /\ (fault' # "none" => snap_idx' = snap_idx)
      BY <1>0, <1>5, TurnEnds
  <2>4. ASSUME NEW k \in Compared, fault' = "none"
        PROVE  compare_snapshot(book', snapshots_[k]) = 0
    <3>1. PICK h : Tracks(h)
        BY DEF Followed
    <3>2. /\ StateOK(Here') /\ Fed(Here') /\ Accounts(Here') /\ KeptIn(Here', FilePrices)
          /\ Here'.bk = book'
      <4>1. IndInv' /\ Fed(Here)' /\ Accounts(Here)' /\ KeptIn(Here', FilePrices)
          BY <1>5, <2>1, <3>1, TurnFollows DEF H
      <4> QED BY <4>1 DEF IndInv, Here
    <3>3. FilePrices \in SUBSET Prices /\ Fits(FilePrices)
        BY <1>0, <2>1, FilePricesFit DEF H
    <3>4. /\ View(Here') \in OrderMaps /\ snapshots_[k].depth = Depth(View(Here'))
          /\ \A s \in Side, n \in 1 .. kDepth : snapshots_[k].depth[s][n].qty < W32
        BY <1>5, <2>1, <2>4, SnapshotIsNow DEF H
    <3>5. ASSUME NEW s \in Side, NEW n \in 1 .. kDepth
          PROVE  our_qty(book', s, snapshots_[k].depth[s][n].price) = snapshots_[k].depth[s][n].qty
      <4>1. Depth(View(Here'))[s][n].qty < W32
          BY <3>4
      <4>2. our_qty(Here'.bk, s, Depth(View(Here'))[s][n].price) = Depth(View(Here'))[s][n].qty
          BY <3>2, <3>3, <3>4, <4>1, RowAgrees
      <4> QED BY <3>2, <3>4, <4>2
    <3> QED BY <3>5, ZeroMismatches DEF Matches
  <2>5. \A k \in Compared : compare_snapshot(book', snapshots_[k]) = 0
    <3>1. CASE fault' = "none"
        BY <2>4, <3>1
    <3>2. CASE fault' # "none"
        BY <2>3, <3>2, <1>1 DEF Compared
    <3> QED BY <3>1, <3>2
  <2> DEFINE a == snap_idx
             b == snap_idx' - 1
  <2>6. a \in Nat \ {0} /\ b \in Nat /\ b >= a - 1
    <3> DEFINE n == snap_idx'
               L == Len(snapshots_)
    <3>1. L \in Nat /\ a \in 1 .. L + 1 /\ n \in a .. L + 1
        BY <1>1, <2>3
    <3> HIDE DEF a, n, L
    <3>2. a \in Nat \ {0} /\ n - 1 \in Nat /\ n - 1 >= a - 1
        BY <3>1
    <3> QED BY <3>2 DEF n
  <2>7. \A k \in a .. b : compare_snapshot(book', snapshots_[k]) = 0
      BY <2>5 DEF Compared
  <2>8. total_mismatches' = compare_all(book', a, b)
      BY <2>2
  <2> HIDE DEF a, b
  <2> QED BY <2>1, <2>6, <2>7, <2>8, CompareAllZero
<1>6. CASE ValidateRest
  <2>1. H /\ total_mismatches = 0
      BY <1>2, <1>6 DEF ValidateRest
  <2>2. total_mismatches' = compare_all(book, snap_idx, Len(snapshots_))
      BY <1>6 DEF ValidateRest
  <2>3. snap_idx = Len(snapshots_) + 1
      BY <1>6, <2>1, NothingLeft DEF H
  <2>4. snap_idx \in Nat \ {0} /\ Len(snapshots_) >= snap_idx - 1
      BY <1>1, <2>3
  <2>5. \A k \in snap_idx .. Len(snapshots_) : compare_snapshot(book, snapshots_[k]) = 0
      BY <1>1, <2>3
  <2> QED BY <1>1, <2>1, <2>2, <2>4, <2>5, CompareAllZero
<1> QED BY <1>3, <1>4, <1>5, <1>6 DEF LobsterNext

(***************************************************************************)
(* validate scores a book that follows the market with no mismatch, for    *)
(* every ITCH file and depth CSV: distinct timestamps, prices that fit in  *)
(* the window, quantities that fit in 32 bits and readable times make      *)
(* every comparison one of a depth with itself, whatever rows of the depth *)
(* CSV do not parse.                                                       *)
(***************************************************************************)
THEOREM PerfectBook == LobsterSpec => []PerfectBookScoresZero
<1>1. LobsterInit => PerfectBookScoresZero
    BY DEF LobsterInit, PerfectBookScoresZero
<1> QED BY <1>1, NextPerfect, ReplayFollowsMarket, PTL DEF LobsterSpec

-----------------------------------------------------------------------------
(* A live order that is in no level has a row of the depth that disagrees. *)
LEMMA LeftOutDiffers ==
    ASSUME NEW st, StateOK(st), Fed(st), View(st) \in OrderMaps, Cardinality(Prices) <= kDepth,
           NEW r \in Refs, st.map[r] # nullptr, st.ord[st.map[r]].level_idx = -1,
           NEW snap, snap.depth = Depth(View(st))
    PROVE  ~Matches(st.bk, snap)
<1> DEFINE V  == View(st)
           od == st.ord[st.map[r]]
           s  == od.side
           p  == od.price
           X  == RefsAt(V, s, p)
<1>1. st.map \in [Refs -> Slots \cup {nullptr}] /\ st.ord \in [Slots -> Order]
    BY StateFacts
<1>2. V[r] = Seen(od) /\ V[r] # nullptr /\ V[r].side = s /\ V[r].price = p /\ V[r].shares = od.shares
    BY ViewLive DEF Seen
<1>3. V[r] \in Resting
    BY <1>2 DEF OrderMaps
<1>4. s \in Side /\ V[r].shares \in 1 .. W32 - 1
    BY <1>2, <1>3 DEF Resting
<1>5. r \in X /\ p \in PricesOf(V, s)
    BY <1>2 DEF RefsAt, RefsOf, PricesOf
<1>6. PICK n \in 1 .. kDepth : Depth(V)[s][n].price = p /\ Depth(V)[s][n].qty = SharesOf(X, V)
  <2> HIDE DEF V, s, p
  <2> QED BY <1>4, <1>5, DepthLists DEF V
<1>7. SharesOf(X, V) # 0
  <2> DEFINE Y == {st.map[q] : q \in X}
  <2>1. ASSUME NEW q \in X
        PROVE  /\ q \in Refs /\ st.map[q] \in Slots /\ st.map[q] # nullptr
               /\ V[q].shares = st.ord[st.map[q]].shares
    <3>1. q \in Refs /\ V[q] # nullptr
        BY DEF RefsAt, RefsOf
    <3>2. st.map[q] # nullptr
        BY <3>1 DEF View
    <3>3. V[q] = Seen(st.ord[st.map[q]])
        BY <3>1, <3>2, ViewLive
    <3> QED BY <1>1, <3>1, <3>2, <3>3 DEF Seen
  <2> HIDE DEF X, V
  <2>2. Y \in SUBSET Slots /\ (\A q \in X : st.map[q] \in Y) /\ \A y \in Y : \E q \in X : st.map[q] = y
      BY <2>1
  <2>3. \A q, t \in X : st.map[q] = st.map[t] => q = t
      BY <2>1 DEF StateOK, MapOK
  <2> HIDE DEF Y
  <2>4. IsFiniteSet(ShareUnits(X, V))
    <3> DEFINE map == st.map
               ord == st.ord
    <3>1. ord \in [Slots -> Order] /\ Y \in SUBSET Slots
        BY <1>1, <2>2
    <3>2. \A q \in X : map[q] \in Y /\ V[q].shares = ord[map[q]].shares
        BY <2>1, <2>2
    <3>3. \A y \in Y : \E q \in X : map[q] = y
        BY <2>2
    <3>4. \A q, t \in X : map[q] = map[t] => q = t
        BY <2>3
    <3> HIDE DEF map, ord
    <3>5. SharesOf(X, V) = SharesOf(Y, ord) /\ IsFiniteSet(ShareUnits(X, V))
        BY <3>1, <3>2, <3>3, <3>4, SharesRenamed
    <3> QED BY <3>5
  <2>5. <<r, 1>> \in ShareUnits(X, V)
    <3>1. <<r, 1>> \in X \X (1 .. W32) /\ <<r, 1>>[1] = r /\ <<r, 1>>[2] = 1
        BY <1>5, WidthAssumption
    <3>2. 1 <= V[r].shares
        BY <1>4
    <3> QED BY <3>1, <3>2 DEF ShareUnits
  <2> QED BY <2>4, <2>5, FS_EmptySet DEF SharesOf
<1>8. our_qty(st.bk, s, p) = 0
  <2>1. PricedAt(st, r)
      BY DEF Fed, Priced
  <2>2. NewIdx(s, st.bk[s].ref, od) = -1
      BY <2>1 DEF PricedAt
  <2>3. PriceIdx(s, st.bk[s].ref, p) \notin Indices
      BY <2>2, IndicesNat DEF NewIdx
  <2> HIDE DEF s, p
  <2> QED BY <2>3, Zenon DEF our_qty
<1> HIDE DEF X, s, p, V
<1>9. our_qty(st.bk, s, snap.depth[s][n].price) # snap.depth[s][n].qty
    BY <1>6, <1>7, <1>8 DEF V
<1> QED BY <1>4, <1>9 DEF Matches

(***************************************************************************)
(* The validator reports what a recentre drops (order_book.cpp:160-198):   *)
(* with rows as deep as the market, a snapshot that counts no mismatch     *)
(* shows that every live order is in a level of the book.                  *)
(***************************************************************************)
THEOREM LeftOutOrdersReported == LobsterSpec => LeftOutIsReported
<1> DEFINE OK == \A k \in Compared :
                     /\ TimesParse /\ AllParsed /\ StrictTimes /\ QuantitiesFit
                     /\ Cardinality(Prices) <= kDepth
                     /\ compare_snapshot(book', snapshots_[k]) = 0
                     => \A s \in Side : LeftOut(s)' = {}
<1>1. Followed /\ [LobsterNext]_all_vars => [OK]_all_vars
  <2> SUFFICES ASSUME Followed, LobsterNext, NEW k \in Compared,
                      TimesParse, AllParsed, StrictTimes, Cardinality(Prices) <= kDepth,
                      compare_snapshot(book', snapshots_[k]) = 0, NEW s \in Side
               PROVE  LeftOut(s)' = {}
      OBVIOUS
  <2>0. InTime /\ snap_idx \in 1 .. Len(snapshots_) + 1 /\ Len(snapshots_) \in Nat
      BY SnapTimes DEF Followed, InTime, Replaying
  <2>1. snap_idx' # snap_idx
      BY <2>0 DEF Compared
  <2>2. CASE ValidateMessage
    <3>1. PICK h : Tracks(h)
        BY DEF Followed
    <3>2. StateOK(Here') /\ Fed(Here')
      <4>1. IndInv' /\ Fed(Here)'
          BY <2>2, <3>1, TurnFollows
      <4> QED BY <4>1 DEF IndInv
    <3>3. fault' = "none"
        BY <2>0, <2>1, <2>2, TurnEnds
    <3>4. View(Here') \in OrderMaps /\ snapshots_[k].depth = Depth(View(Here'))
        BY <2>2, <3>3, SnapshotIsNow
    <3>5. Matches(Here'.bk, snapshots_[k])
      <4>1. Here'.bk = book'
          BY DEF Here
      <4> QED BY <4>1, ZeroMismatches
    <3>6. ASSUME NEW r \in LeftOut(s)' PROVE FALSE
      <4>1. r \in Refs /\ Here'.map[r] # nullptr /\ Here'.ord[Here'.map[r]].level_idx = -1
          BY DEF LeftOut, live, Here
      <4> QED BY <3>2, <3>4, <3>5, <4>1, LeftOutDiffers
    <3> QED BY <3>6
  <2>3. CASE ValidateRest
      BY <2>1, <2>3, NothingLeft
  <2>4. CASE load \/ validate \/ \E m \in ParsedMessage : Record(m)
      BY <2>1, <2>4 DEF load, validate, Record, replay
  <2> QED BY <2>2, <2>3, <2>4 DEF LobsterNext
<1> QED BY <1>1, ReplayFollowsMarket, PTL DEF LobsterSpec, LeftOutIsReported
=============================================================================

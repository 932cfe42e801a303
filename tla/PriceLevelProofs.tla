--------------------------- MODULE PriceLevelProofs ---------------------------
(***************************************************************************)
(* Lemmas about queues and price levels: what appending and unlinking an   *)
(* order do to the elements, the length and the counters of a level.       *)
(***************************************************************************)
EXTENDS PriceLevel, TLAPS, FiniteSetTheorems, SequenceTheorems, NaturalsInduction,
        WellFoundedInduction

(* A nonempty set of naturals has a smallest element. *)
LEMMA SmallestExists ==
    ASSUME NEW S \in SUBSET Nat, S # {}
    PROVE  \E x \in S : \A y \in S : x <= y
<1>1. IsWellFoundedOn(OpToRel(<, Nat), Nat)
    BY NatLessThanWellFounded
<1>2. \E x \in S : \A y \in S : ~(<<y, x>> \in OpToRel(<, Nat))
    BY <1>1, WFMin, Zenon
<1>3. PICK x \in S : \A y \in S : ~(<<y, x>> \in OpToRel(<, Nat))
    BY <1>2
<1>4. ASSUME NEW y \in S PROVE x <= y
  <2>1. x \in Nat /\ y \in Nat
      OBVIOUS
  <2>2. ~(y < x)
    <3>1. y < x => <<y, x>> \in OpToRel(<, Nat)
        BY <2>1 DEF OpToRel
    <3> QED BY <3>1, <1>3, Zenon
  <2> QED BY <2>1, <2>2
<1> QED BY <1>4

(* An injective queue over a finite set is no longer than the set is large. *)
LEMMA QueueLength ==
    ASSUME NEW S, IsFiniteSet(S), NEW q \in Seq(S), IsInjective(q)
    PROVE  Len(q) <= Cardinality(S)
<1>1. q \in Injection(1 .. Len(q), S)
    BY LenProperties DEF Injection
<1>2. Cardinality(1 .. Len(q)) <= Cardinality(S)
    BY <1>1, FS_Injection
<1>3. Len(q) \in Nat /\ Cardinality(1 .. Len(q)) = Len(q)
    BY FS_Interval, LenProperties
<1> QED BY <1>2, <1>3

(* An empty range is an empty queue. *)
LEMMA EmptyQueue ==
    ASSUME NEW S, NEW q \in Seq(S)
    PROVE  /\ Len(q) = 0 <=> Range(q) = {}
           /\ Len(q) = 0 <=> q = <<>>
<1>1. DOMAIN q = 1 .. Len(q) /\ Len(q) \in Nat
    BY LenProperties
<1>2. Len(q) = 0 <=> q = <<>>
    BY EmptySeq
<1>3. ASSUME Len(q) = 0 PROVE Range(q) = {}
    BY <1>1, <1>3 DEF Range
<1>4. ASSUME Len(q) # 0 PROVE Range(q) # {}
  <2>1. 1 \in DOMAIN q
      BY <1>1, <1>4
  <2> QED BY <2>1 DEF Range
<1> QED BY <1>2, <1>3, <1>4

(* Appending an order that is not queued keeps the queue injective. *)
LEMMA AppendQueue ==
    ASSUME NEW S, NEW q \in Seq(S), IsInjective(q), NEW o \in S, o \notin Range(q)
    PROVE  /\ Append(q, o) \in Seq(S)
           /\ IsInjective(Append(q, o))
           /\ Range(Append(q, o)) = Range(q) \cup {o}
           /\ Len(Append(q, o)) = Len(q) + 1
<1> DEFINE n == Len(q)
           p == Append(q, o)
<1>1. n \in Nat /\ DOMAIN q = 1 .. n
    BY LenProperties
<1>2. /\ p \in Seq(S) /\ Len(p) = n + 1 /\ DOMAIN p = 1 .. n + 1
      /\ \A k \in 1 .. n : p[k] = q[k]
      /\ p[n + 1] = o
    BY <1>1
<1>3. \A k \in 1 .. n : q[k] # o
    BY <1>1 DEF Range
<1>4. IsInjective(p)
    BY <1>1, <1>2, <1>3 DEF IsInjective
<1>5. Range(p) = Range(q) \cup {o}
    BY <1>1, <1>2 DEF Range
<1> QED BY <1>2, <1>4, <1>5

(* Unlinking moves up by one what stands behind the order that goes. *)
LEMMA UnlinkItems ==
    ASSUME NEW S, NEW q \in Seq(S), NEW o \in Range(q)
    PROVE  \E k \in 1 .. Len(q) :
              /\ q[k] = o
              /\ Unlink(q, o) \in Seq(S) /\ Len(Unlink(q, o)) = Len(q) - 1
              /\ DOMAIN Unlink(q, o) = 1 .. Len(q) - 1
              /\ \A j \in 1 .. Len(q) - 1 : Unlink(q, o)[j] = IF j < k THEN q[j] ELSE q[j + 1]
<1> DEFINE n == Len(q)
           k == CHOOSE k \in DOMAIN q : q[k] = o
           a == SubSeq(q, 1, k - 1)
           b == SubSeq(q, k + 1, n)
           p == a \o b
<1>1. n \in Nat /\ DOMAIN q = 1 .. n /\ \A j \in 1 .. n : q[j] \in S
    BY LenProperties, ElementOfSeq
<1>2. \E j \in DOMAIN q : q[j] = o
    BY DEF Range
<1>3. k \in 1 .. n /\ q[k] = o
    BY <1>1, <1>2
<1> HIDE DEF k
<1>4. a \in Seq(S) /\ Len(a) = k - 1 /\ \A j \in 1 .. k - 1 : a[j] = q[j]
  <2>1. \A j \in 1 .. k - 1 : q[j] \in S
      BY <1>1, <1>3
  <2> QED BY <2>1, <1>1, <1>3, SubSeqProperties
<1>5. b \in Seq(S) /\ Len(b) = n - k /\ \A j \in 1 .. n - k : b[j] = q[k + j]
  <2>1. \A j \in k + 1 .. n : q[j] \in S
      BY <1>1, <1>3
  <2>2. /\ b \in Seq(S)
        /\ Len(b) = IF k + 1 <= n THEN n - (k + 1) + 1 ELSE 0
        /\ \A j \in 1 .. n - (k + 1) + 1 : b[j] = q[(k + 1) + j - 1]
      BY <2>1, <1>1, <1>3, SubSeqProperties
  <2> HIDE DEF a, b, n
  <2>3. Len(b) = n - k
      BY <2>2, <1>1, <1>3
  <2>4. ASSUME NEW j \in 1 .. n - k PROVE b[j] = q[k + j]
    <3>1. j \in 1 .. n - (k + 1) + 1 /\ (k + 1) + j - 1 = k + j
        BY <1>1, <1>3
    <3> QED BY <3>1, <2>2
  <2> QED BY <2>2, <2>3, <2>4
<1> HIDE DEF a, b, n
<1>6. /\ p \in Seq(S) /\ Len(p) = n - 1 /\ DOMAIN p = 1 .. n - 1
      /\ \A j \in 1 .. n - 1 : p[j] = IF j < k THEN q[j] ELSE q[j + 1]
  <2>0. /\ p \in Seq(S) /\ Len(p) = Len(a) + Len(b)
        /\ \A j \in 1 .. Len(a) + Len(b) : p[j] = IF j <= Len(a) THEN a[j] ELSE b[j - Len(a)]
      BY <1>4, <1>5, ConcatProperties, Zenon
  <2>1. /\ p \in Seq(S) /\ Len(p) = (k - 1) + (n - k)
        /\ \A j \in 1 .. (k - 1) + (n - k) : p[j] = IF j <= k - 1 THEN a[j] ELSE b[j - (k - 1)]
      BY <2>0, <1>4, <1>5, Zenon
  <2>2. DOMAIN p = 1 .. Len(p)
      BY <2>1, LenProperties
  <2> HIDE DEF p
  <2>3. Len(p) = n - 1
      BY <2>1, <1>1, <1>3
  <2>4. ASSUME NEW j \in 1 .. n - 1 PROVE p[j] = IF j < k THEN q[j] ELSE q[j + 1]
    <3>1. p[j] = IF j <= k - 1 THEN a[j] ELSE b[j - (k - 1)]
        BY <2>1, <1>1, <1>3
    <3>2. CASE j < k
        BY <3>1, <3>2, <1>1, <1>3, <1>4
    <3>3. CASE ~(j < k)
      <4>1. j - (k - 1) \in 1 .. n - k /\ k + (j - (k - 1)) = j + 1 /\ ~(j <= k - 1)
          BY <3>3, <1>1, <1>3
      <4>2. b[j - (k - 1)] = q[k + (j - (k - 1))]
          BY <4>1, <1>5
      <4> QED BY <4>1, <4>2, <3>1, <3>3
    <3> QED BY <3>2, <3>3
  <2> QED BY <2>1, <2>2, <2>3, <2>4
<1>7. Unlink(q, o) = p
    BY DEF Unlink, RemoveAt, k, a, b, n
<1> QED BY <1>3, <1>6, <1>7 DEF n

(* Unlinking a queued order takes exactly that order out. *)
LEMMA UnlinkQueue ==
    ASSUME NEW S, NEW q \in Seq(S), IsInjective(q), NEW o \in Range(q)
    PROVE  /\ Unlink(q, o) \in Seq(S)
           /\ IsInjective(Unlink(q, o))
           /\ Range(Unlink(q, o)) = Range(q) \ {o}
           /\ Len(Unlink(q, o)) = Len(q) - 1
<1> DEFINE n == Len(q)
           p == Unlink(q, o)
<1>1. n \in Nat /\ DOMAIN q = 1 .. n
    BY LenProperties
<1>3. PICK k \in 1 .. n :
        /\ q[k] = o
        /\ p \in Seq(S) /\ Len(p) = n - 1 /\ DOMAIN p = 1 .. n - 1
        /\ \A j \in 1 .. n - 1 : p[j] = IF j < k THEN q[j] ELSE q[j + 1]
    BY UnlinkItems
<1> HIDE DEF n, p
<1>6. /\ p \in Seq(S) /\ Len(p) = n - 1 /\ DOMAIN p = 1 .. n - 1
      /\ \A j \in 1 .. n - 1 : p[j] = IF j < k THEN q[j] ELSE q[j + 1]
    BY <1>3
<1>a. \A i, j \in 1 .. n : q[i] = q[j] => i = j
    BY <1>1 DEF IsInjective
<1>8. IsInjective(p)
  <2>1. ASSUME NEW i \in 1 .. n - 1, NEW j \in 1 .. n - 1, p[i] = p[j] PROVE i = j
    <3> DEFINE f(x) == IF x < k THEN x ELSE x + 1
    <3>1. f(i) \in 1 .. n /\ f(j) \in 1 .. n /\ p[i] = q[f(i)] /\ p[j] = q[f(j)]
        BY <1>1, <1>3, <1>6
    <3>2. f(i) = f(j)
        BY <3>1, <2>1, <1>a
    <3> QED BY <3>2, <1>1, <1>3
  <2> QED BY <2>1, <1>6 DEF IsInjective
<1>9. Range(p) = Range(q) \ {o}
  <2>1. ASSUME NEW x \in Range(p) PROVE x \in Range(q) \ {o}
    <3>1. PICK j \in 1 .. n - 1 : x = p[j]
        BY <2>1, <1>6 DEF Range
    <3>2. PICK m \in 1 .. n : x = q[m] /\ m # k
      <4>1. CASE j < k
          BY <4>1, <3>1, <1>1, <1>3, <1>6
      <4>2. CASE ~(j < k)
        <5>1. j + 1 \in 1 .. n /\ j + 1 # k /\ x = q[j + 1]
            BY <4>2, <3>1, <1>1, <1>3, <1>6
        <5> QED BY <5>1
      <4> QED BY <4>1, <4>2
    <3> QED BY <3>2, <1>1, <1>3, <1>a DEF Range
  <2>2. ASSUME NEW x \in Range(q) \ {o} PROVE x \in Range(p)
    <3>1. PICK j \in 1 .. n : x = q[j]
        BY <2>2, <1>1 DEF Range
    <3>2. j # k
        BY <3>1, <2>2, <1>3
    <3>3. CASE j < k
      <4>1. j \in 1 .. n - 1 /\ p[j] = x
          BY <3>1, <3>3, <1>1, <1>3, <1>6
      <4> QED BY <4>1, <1>6 DEF Range
    <3>4. CASE j > k
      <4>1. j - 1 \in 1 .. n - 1 /\ p[j - 1] = x
          BY <3>1, <3>4, <1>1, <1>3, <1>6
      <4> QED BY <4>1, <1>6 DEF Range
    <3> QED BY <3>2, <3>3, <3>4, <1>3
  <2> QED BY <2>1, <2>2
<1> QED BY <1>6, <1>8, <1>9 DEF n, p

-----------------------------------------------------------------------------
(* a stands before b in the queue q. *)
Precedes(q, a, b) == \E j, k \in DOMAIN q : j < k /\ q[j] = a /\ q[k] = b

(* An arrival stands behind everyone, and nobody else changes places. *)
LEMMA AppendTurn ==
    ASSUME NEW S, NEW q \in Seq(S), NEW o \in S
    PROVE  /\ \A a, b : Precedes(q, a, b) => Precedes(Append(q, o), a, b)
           /\ \A a \in Range(q) : Precedes(Append(q, o), a, o)
<1> DEFINE n == Len(q)
           p == Append(q, o)
<1>1. n \in Nat /\ DOMAIN q = 1 .. n
    BY LenProperties
<1>2. /\ DOMAIN p = 1 .. n + 1 /\ p[n + 1] = o
      /\ \A j \in 1 .. n : p[j] = q[j]
  <2>1. /\ p \in Seq(S) /\ Len(p) = n + 1 /\ p[n + 1] = o
        /\ \A j \in 1 .. n : p[j] = q[j]
      BY AppendProperties
  <2> QED BY <2>1, LenProperties
<1> HIDE DEF p, n
<1>3. ASSUME NEW a, NEW b, Precedes(q, a, b) PROVE Precedes(p, a, b)
  <2>1. PICK j \in 1 .. n, k \in 1 .. n : j < k /\ q[j] = a /\ q[k] = b
      BY <1>1, <1>3 DEF Precedes
  <2>2. j \in 1 .. n + 1 /\ k \in 1 .. n + 1 /\ p[j] = a /\ p[k] = b
      BY <2>1, <1>1, <1>2
  <2> QED BY <2>1, <2>2, <1>2 DEF Precedes
<1>4. ASSUME NEW a \in Range(q) PROVE Precedes(p, a, o)
  <2>1. PICK j \in 1 .. n : q[j] = a
      BY <1>1 DEF Range
  <2>2. j \in 1 .. n + 1 /\ n + 1 \in 1 .. n + 1 /\ j < n + 1 /\ p[j] = a
      BY <2>1, <1>1, <1>2
  <2> QED BY <2>2, <1>2 DEF Precedes
<1> QED BY <1>3, <1>4 DEF p

(* When one order goes, the others keep their turn. *)
LEMMA UnlinkTurn ==
    ASSUME NEW S, NEW q \in Seq(S), NEW o \in Range(q), NEW a, NEW b, a # o, b # o,
           Precedes(q, a, b)
    PROVE  Precedes(Unlink(q, o), a, b)
<1> DEFINE n == Len(q)
           p == Unlink(q, o)
<1>1. n \in Nat /\ DOMAIN q = 1 .. n
    BY LenProperties
<1>2. PICK k \in 1 .. n :
        /\ q[k] = o
        /\ p \in Seq(S) /\ Len(p) = n - 1 /\ DOMAIN p = 1 .. n - 1
        /\ \A j \in 1 .. n - 1 : p[j] = IF j < k THEN q[j] ELSE q[j + 1]
    BY UnlinkItems, SMTT(20)
<1> HIDE DEF n, p
<1>3. PICK i \in 1 .. n, j \in 1 .. n : i < j /\ q[i] = a /\ q[j] = b
    BY <1>1 DEF Precedes
<1> DEFINE f(m) == IF m < k THEN m ELSE m - 1
<1>4. ASSUME NEW m \in 1 .. n, m # k PROVE f(m) \in 1 .. n - 1 /\ p[f(m)] = q[m]
  <2>1. CASE m < k
      BY <2>1, <1>1, <1>2
  <2>2. CASE m > k
    <3>1. m - 1 \in 1 .. n - 1 /\ ~(m - 1 < k) /\ (m - 1) + 1 = m
        BY <2>2, <1>1, <1>2
    <3> QED BY <3>1, <2>2, <1>1, <1>2
  <2> QED BY <2>1, <2>2, <1>2, <1>4
<1>5. i # k /\ j # k
    BY <1>2, <1>3
<1>6. f(i) < f(j)
    BY <1>1, <1>3, <1>5
<1>7. f(i) \in 1 .. n - 1 /\ f(j) \in 1 .. n - 1 /\ p[f(i)] = a /\ p[f(j)] = b
    BY <1>3, <1>4, <1>5
<1> HIDE DEF f
<1>8. Precedes(p, a, b)
    BY <1>2, <1>6, <1>7 DEF Precedes
<1> QED BY <1>8 DEF p

-----------------------------------------------------------------------------
(* A level of distinct orders of S whose order_count is the queue's length. *)
LevelOK(lvl, S) ==
    /\ lvl \in Level(S)
    /\ IsInjective(lvl.fifo)
    /\ lvl.order_count = Len(lvl.fifo)

(* An empty level is sound and holds nothing. *)
LEMMA LevelEmptyOK ==
    ASSUME NEW S
    PROVE  LevelOK(EmptyLevel, S) /\ Range(EmptyLevel.fifo) = {}
BY WidthAssumption, EmptySeq DEF LevelOK, EmptyLevel, Level, IsInjective, Range

(* Addition and subtraction stay inside the type. *)
LEMMA WrapType ==
    ASSUME NEW w \in Nat \ {0}, NEW a \in 0 .. w - 1, NEW b \in 0 .. w - 1
    PROVE  AddW(a, b, w) \in 0 .. w - 1 /\ SubW(a, b, w) \in 0 .. w - 1
BY DEF AddW, SubW

(* A level is empty, by its counter, exactly when its queue has no order. *)
LEMMA LevelEmpty ==
    ASSUME NEW S, NEW lvl, LevelOK(lvl, S)
    PROVE  /\ level_empty(lvl) <=> Range(lvl.fifo) = {}
           /\ level_empty(lvl) <=> lvl.fifo = <<>>
<1>1. lvl.fifo \in Seq(S) /\ lvl.order_count = Len(lvl.fifo)
    BY DEF LevelOK, Level
<1> QED BY <1>1, EmptyQueue DEF level_empty

(* add_order keeps a level sound, its counter does not wrap, and only o joins. *)
LEMMA LevelAdd ==
    ASSUME NEW S, IsFiniteSet(S), Cardinality(S) < W32,
           NEW lvl, LevelOK(lvl, S),
           NEW o \in S, o \notin Range(lvl.fifo), NEW shares \in 0 .. W32 - 1
    PROVE  LET new == level_add_order(lvl, o, shares)
           IN  LevelOK(new, S) /\ Range(new.fifo) = Range(lvl.fifo) \cup {o}
<1> DEFINE new == level_add_order(lvl, o, shares)
           q   == Append(lvl.fifo, o)
<1>1. /\ lvl.fifo \in Seq(S) /\ IsInjective(lvl.fifo) /\ lvl.order_count = Len(lvl.fifo)
      /\ lvl.total_qty \in 0 .. W64 - 1 /\ lvl.order_count \in 0 .. W32 - 1
    BY DEF LevelOK, Level
<1>2. q \in Seq(S) /\ IsInjective(q) /\ Range(q) = Range(lvl.fifo) \cup {o}
      /\ Len(q) = Len(lvl.fifo) + 1
    BY <1>1, AppendQueue
<1>3. Len(q) <= Cardinality(S)
    BY <1>2, QueueLength
<1>4. Cardinality(S) \in Nat
    BY FS_CardinalityType
<1> HIDE DEF q
<1>5. lvl.order_count + 1 < W32 /\ Len(q) = lvl.order_count + 1
    BY <1>1, <1>2, <1>3, <1>4, WidthAssumption
<1>6. AddW(lvl.order_count, 1, W32) = Len(q) /\ Len(q) \in 0 .. W32 - 1
    BY <1>1, <1>5, WidthAssumption DEF AddW
<1>7. AddW(lvl.total_qty, shares, W64) \in 0 .. W64 - 1
    BY <1>1, WidthAssumption DEF AddW
<1>8. new = [total_qty |-> AddW(lvl.total_qty, shares, W64), order_count |-> Len(q), fifo |-> q]
    BY <1>6 DEF level_add_order, q
<1> HIDE DEF new
<1>9. LevelOK(new, S)
    BY <1>2, <1>6, <1>7, <1>8 DEF LevelOK, Level
<1> QED BY <1>2, <1>8, <1>9 DEF new

(* A difference of two unsigned integers stays in the wider of their widths. *)
LEMMA SubInWidth ==
    ASSUME NEW w \in Nat, NEW v \in Nat, w <= v, NEW a \in 0 .. v - 1, NEW b \in 0 .. w - 1
    PROVE  SubW(a, b, v) \in 0 .. v - 1
<1>1. CASE b <= a
    BY <1>1 DEF SubW
<1>2. CASE ~ (b <= a)
    BY <1>2 DEF SubW
<1> QED BY <1>1, <1>2

(* remove_order keeps a level sound, its counter does not wrap, and only o goes. *)
LEMMA LevelRemove ==
    ASSUME NEW S, NEW lvl, LevelOK(lvl, S),
           NEW o \in Range(lvl.fifo), NEW shares \in 0 .. W32 - 1
    PROVE  LET new == level_remove_order(lvl, o, shares)
           IN  LevelOK(new, S) /\ Range(new.fifo) = Range(lvl.fifo) \ {o}
<1> DEFINE new == level_remove_order(lvl, o, shares)
           q   == Unlink(lvl.fifo, o)
<1>1. /\ lvl.fifo \in Seq(S) /\ IsInjective(lvl.fifo) /\ lvl.order_count = Len(lvl.fifo)
      /\ lvl.total_qty \in 0 .. W64 - 1 /\ lvl.order_count \in 0 .. W32 - 1
    BY DEF LevelOK, Level
<1>2. q \in Seq(S) /\ IsInjective(q) /\ Range(q) = Range(lvl.fifo) \ {o}
      /\ Len(q) = Len(lvl.fifo) - 1
    BY <1>1, UnlinkQueue
<1>3. Len(q) \in Nat
    BY <1>2, LenProperties
<1> HIDE DEF q
<1>4. SubW(lvl.order_count, 1, W32) = Len(q) /\ Len(q) \in 0 .. W32 - 1
    BY <1>1, <1>2, <1>3, WidthAssumption DEF SubW
<1>5. SubW(lvl.total_qty, shares, W64) \in 0 .. W64 - 1
    BY <1>1, WidthAssumption, SubInWidth
<1>6. new = [total_qty |-> SubW(lvl.total_qty, shares, W64), order_count |-> Len(q), fifo |-> q]
    BY <1>4 DEF level_remove_order, q
<1> HIDE DEF new
<1>7. LevelOK(new, S)
    BY <1>2, <1>4, <1>5, <1>6 DEF LevelOK, Level
<1> QED BY <1>2, <1>6, <1>7 DEF new

(* reduce_shares leaves the queue alone. *)
LEMMA LevelReduce ==
    ASSUME NEW S, NEW lvl, LevelOK(lvl, S), NEW by \in 0 .. W32 - 1
    PROVE  LET new == level_reduce_shares(lvl, by)
           IN  LevelOK(new, S) /\ new.fifo = lvl.fifo /\ new.order_count = lvl.order_count
<1>1. lvl \in Level(S)
    BY DEF LevelOK
<1>2. SubW(lvl.total_qty, by, W64) \in 0 .. W64 - 1
  <2>1. lvl.total_qty \in 0 .. W64 - 1
      BY <1>1 DEF Level
  <2> QED BY <2>1, WidthAssumption, SubInWidth
<1> QED BY <1>1, <1>2 DEF LevelOK, Level, level_reduce_shares
=============================================================================

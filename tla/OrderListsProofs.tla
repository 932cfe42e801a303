--------------------------- MODULE OrderListsProofs ---------------------------
(***************************************************************************)
(* Proofs about the linked memory of the book, for every pool capacity and *)
(* number of levels: the lists stay sound, and they implement the queues   *)
(* and the free stack OrderBook is written with.                           *)
(*                                                                         *)
(* WellLinked alone is not inductive: it says what a walk meets, not that  *)
(* every node met carries the level it is in.  Lists(st, Q, F) relates the *)
(* memory to the queues Q and the free stack F that it stands for; each    *)
(* operation is shown to keep it while it changes Q and F as its name says. *)
(***************************************************************************)
EXTENDS OrderLists, PriceLevelProofs

Ptr     == Node \cup {nullptr}
NoLevel == <<"none", -1>>
Places  == ({"B", "S"} \X (-1 .. kLevels - 1)) \cup {NoLevel}

Memory == [next : [Node -> Ptr], prev : [Node -> Ptr], head : [LevelId -> Ptr],
           tail : [LevelId -> Ptr], free : Ptr, at : [Node -> Places], map : SUBSET Node]

(* The k-th element of a queue; nullptr before the first and after the last. *)
Nth(q, k) == IF k \in 1 .. Len(q) THEN q[k] ELSE nullptr

(* From p on, link runs through q and then ends. *)
Chained(link, p, q) ==
    /\ p = Nth(q, 1)
    /\ \A k \in 1 .. Len(q) : link[q[k]] = Nth(q, k + 1)

(* Head, tail and both links of a level are those of the queue q. *)
LinkedAs(st, l, q) ==
    /\ Chained(st.next, st.head[l], q)
    /\ st.tail[l] = Nth(q, Len(q))
    /\ \A k \in 1 .. Len(q) : st.prev[q[k]] = Nth(q, k - 1)

Lists(st, Q, F) ==
    /\ st \in Memory /\ Q \in [LevelId -> Seq(Node)] /\ F \in Seq(Node)
    /\ Chained(st.next, st.free, F) /\ IsInjective(F)
    /\ \A l \in LevelId : LinkedAs(st, l, Q[l]) /\ IsInjective(Q[l])
    /\ \A l \in LevelId : \A o \in Range(Q[l]) : st.at[o] = l /\ o \notin Range(F)

(* Mapped orders are not free, and those with a level_idx are in their queue. *)
Homes(st, Q, F) ==
    \A o \in st.map : /\ o \notin Range(F) /\ st.at[o] # NoLevel
                      /\ st.at[o][2] >= 0 => o \in Range(Q[st.at[o]])

(* The function f with v at k. *)
Put(f, k, v) == [f EXCEPT ![k] = v]

(* A node that is in no list. *)
Loose(o, Q, F) == o \in Node /\ o \notin Range(F) /\ \A l \in LevelId : o \notin Range(Q[l])

-----------------------------------------------------------------------------
LEMMA NodeFacts ==
    /\ IsFiniteSet(Node) /\ Cardinality(Node) = Capacity /\ Capacity \in Nat \ {0}
    /\ nullptr \notin Node /\ nullptr \in Ptr /\ Node \subseteq Ptr
    /\ LevelId \subseteq Places /\ kLevels \in Nat \ {0} /\ NoLevel \in Places /\ NoLevel \notin LevelId
<1>1. Capacity \in Nat \ {0} /\ kLevels \in Nat \ {0} /\ nullptr \notin Node
    BY ListsAssumption DEF Node
<1>2. IsFiniteSet(Node) /\ Cardinality(Node) = Capacity
    BY <1>1, FS_Interval DEF Node
<1>3. LevelId \subseteq Places
    BY <1>1 DEF LevelId, Places
<1> QED BY <1>1, <1>2, <1>3 DEF Ptr, LevelId, NoLevel, Places

(* The elements of a queue of nodes. *)
LEMMA QueueFacts ==
    ASSUME NEW q \in Seq(Node)
    PROVE  /\ Len(q) \in Nat /\ DOMAIN q = 1 .. Len(q)
           /\ \A k \in 1 .. Len(q) : q[k] \in Node /\ q[k] # nullptr /\ q[k] \in Range(q)
           /\ Range(q) \subseteq Node
           /\ \A x \in Range(q) : \E k \in 1 .. Len(q) : x = q[k]
           /\ \A k : Nth(q, k) \in Ptr /\ (Nth(q, k) # nullptr <=> k \in 1 .. Len(q))
           /\ \A k : Nth(q, k) # nullptr => Nth(q, k) = q[k] /\ Nth(q, k) \in Range(q)
<1>1. Len(q) \in Nat /\ DOMAIN q = 1 .. Len(q) /\ \A k \in 1 .. Len(q) : q[k] \in Node
    BY LenProperties, ElementOfSeq
<1> QED BY <1>1, NodeFacts DEF Range, Nth

(* Links that agree on the nodes of a queue chain the same queue. *)
LEMMA SameChain ==
    ASSUME NEW q \in Seq(Node), NEW a, NEW b, NEW p, Chained(a, p, q), \A x \in Range(q) : b[x] = a[x]
    PROVE  Chained(b, p, q)
BY QueueFacts DEF Chained

(***************************************************************************)
(* A walk along links that chain a queue meets exactly that queue.         *)
(***************************************************************************)
LEMMA WalkIs ==
    ASSUME NEW link, NEW p, NEW q \in Seq(Node), IsInjective(q), Chained(link, p, q)
    PROVE  Walk(link, p) = q
<1> DEFINE D == 0 .. Capacity
           Rec(g) == g = [n \in D |-> IF n = 0 THEN p
                                      ELSE IF g[n - 1] = nullptr THEN nullptr ELSE link[g[n - 1]]]
           step == CHOOSE g : Rec(g)
           F == [n \in D |-> Nth(q, n + 1)]
<1>1. Walk(link, p) = [k \in 1 .. Cardinality({n \in D : step[n] # nullptr}) |-> step[k - 1]]
    BY DEF Walk
<1>2. /\ Len(q) \in Nat /\ Len(q) <= Capacity /\ Capacity \in Nat /\ DOMAIN q = 1 .. Len(q)
    BY NodeFacts, QueueLength, QueueFacts
<1>3. p = Nth(q, 1) /\ \A k \in 1 .. Len(q) : link[q[k]] = Nth(q, k + 1)
    BY DEF Chained
<1>4. ASSUME NEW n \in D, n # 0
      PROVE  n - 1 \in D /\ F[n] = IF F[n - 1] = nullptr THEN nullptr ELSE link[F[n - 1]]
  <2>1. n - 1 \in D /\ (n - 1) + 1 = n /\ n \in Nat
      BY <1>2, <1>4
  <2>2. F[n - 1] = Nth(q, n) /\ F[n] = Nth(q, n + 1)
      BY <2>1
  <2>3. CASE n \in 1 .. Len(q)
      BY <1>3, <2>1, <2>2, <2>3, QueueFacts
  <2>4. CASE n \notin 1 .. Len(q)
    <3>1. n + 1 \notin 1 .. Len(q)
        BY <1>2, <1>4, <2>1, <2>4
    <3> QED BY <2>1, <2>2, <2>4, <3>1 DEF Nth
  <2> QED BY <2>3, <2>4
<1>5. F[0] = p /\ 0 \in D
    BY <1>2, <1>3
<1>6. Rec(F)
  <2>1. \A n \in D : F[n] = IF n = 0 THEN p
                            ELSE IF F[n - 1] = nullptr THEN nullptr ELSE link[F[n - 1]]
      BY <1>4, <1>5
  <2>2. F = [n \in D |-> F[n]]
      OBVIOUS
  <2> QED BY <2>1, <2>2
<1>7. Rec(step)
  <2> HIDE DEF Rec
  <2> QED BY <1>6
<1>8. \A n \in D : step[n] = IF n = 0 THEN p
                             ELSE IF step[n - 1] = nullptr THEN nullptr ELSE link[step[n - 1]]
  <2> HIDE DEF step
  <2> QED BY <1>7
<1>a. \A n \in D : F[n] = Nth(q, n + 1)
    OBVIOUS
<1> HIDE DEF step, Rec, F
<1>9. ASSUME NEW c \in D, step[c] # F[c] PROVE FALSE
  <2> DEFINE Bad == {n \in D : step[n] # F[n]}
  <2>1. Bad \in SUBSET Nat /\ Bad # {}
    <3>1. D \subseteq Nat /\ c \in Bad
        BY <1>2, <1>9
    <3> QED BY <3>1
  <2>2. PICK m \in Bad : \A n \in Bad : m <= n
      BY <2>1, SmallestExists
  <2>3. m \in D /\ m \in Nat /\ step[m] # F[m]
      BY <1>2
  <2>4. m # 0
      BY <1>5, <1>8, <2>3
  <2>5. m - 1 \in D /\ ~(m <= m - 1)
      BY <1>4, <2>3, <2>4
  <2>6. step[m - 1] = F[m - 1]
      BY <2>2, <2>5
  <2> QED BY <1>4, <1>8, <2>3, <2>4, <2>6
<1>10. {n \in D : step[n] # nullptr} = 0 .. Len(q) - 1
  <2>1. \A n \in D : step[n] # nullptr <=> n + 1 \in 1 .. Len(q)
      BY <1>9, <1>a, QueueFacts
  <2>2. \A n \in D : n + 1 \in 1 .. Len(q) <=> n \in 0 .. Len(q) - 1
      BY <1>2
  <2>3. 0 .. Len(q) - 1 \subseteq D
      BY <1>2
  <2> QED BY <2>1, <2>2, <2>3
<1>11. Cardinality(0 .. Len(q) - 1) = Len(q)
  <2>1. 0 \in Int /\ Len(q) - 1 \in Int
      BY <1>2
  <2>2. Cardinality(0 .. Len(q) - 1) = IF 0 > Len(q) - 1 THEN 0 ELSE (Len(q) - 1) - 0 + 1
      BY <2>1, FS_Interval
  <2> QED BY <1>2, <2>2
<1>12. Walk(link, p) = [k \in 1 .. Len(q) |-> step[k - 1]]
    BY <1>1, <1>10, <1>11
<1>13. ASSUME NEW k \in 1 .. Len(q) PROVE step[k - 1] = q[k]
  <2>1. k - 1 \in D /\ (k - 1) + 1 = k
      BY <1>2
  <2> QED BY <1>9, <1>a, <2>1 DEF Nth
<1>14. q = [k \in 1 .. Len(q) |-> q[k]]
    BY <1>2
<1> QED BY <1>12, <1>13, <1>14


-----------------------------------------------------------------------------
(* The operations on the memory, one by one. *)

(* What Lists says, in parts. *)
LEMMA ListsFacts ==
    ASSUME NEW st, NEW Q, NEW F, Lists(st, Q, F)
    PROVE  /\ st \in Memory /\ F \in Seq(Node) /\ IsInjective(F) /\ Chained(st.next, st.free, F)
           /\ \A l \in LevelId : /\ Q[l] \in Seq(Node) /\ IsInjective(Q[l]) /\ LinkedAs(st, l, Q[l])
                                 /\ \A o \in Range(Q[l]) : o \in Node /\ st.at[o] = l /\ o \notin Range(F)
           /\ Range(F) \subseteq Node
BY QueueFacts DEF Lists

LEMMA MemoryFields ==
    ASSUME NEW st \in Memory
    PROVE  /\ st.next \in [Node -> Ptr] /\ st.prev \in [Node -> Ptr] /\ st.head \in [LevelId -> Ptr]
           /\ st.tail \in [LevelId -> Ptr] /\ st.free \in Ptr /\ st.at \in [Node -> Places]
           /\ st.map \in SUBSET Node
BY DEF Memory

(* A level none of whose nodes is touched keeps its queue. *)
LEMMA SameLinks ==
    ASSUME NEW st, NEW new, NEW l, NEW q \in Seq(Node), LinkedAs(st, l, q),
           new.head[l] = st.head[l], new.tail[l] = st.tail[l],
           \A x \in Range(q) : new.next[x] = st.next[x] /\ new.prev[x] = st.prev[x]
    PROVE  LinkedAs(new, l, q)
BY QueueFacts DEF LinkedAs, Chained

(* alloc takes the first free node. *)
LEMMA AllocOK ==
    ASSUME NEW st, NEW Q, NEW F, Lists(st, Q, F), st.free # nullptr
    PROVE  /\ F # <<>> /\ st.free = Head(F) /\ Loose(st.free, Q, Tail(F))
           /\ Lists(alloc(st), Q, Tail(F))
           /\ alloc(st).at = st.at /\ alloc(st).map = st.map
           /\ Range(F) = Range(Tail(F)) \cup {st.free}
<1> DEFINE o == st.free
           new == alloc(st)
           T == Tail(F)
           n == Len(F)
<1>0. st \in Memory /\ F \in Seq(Node) /\ IsInjective(F) /\ Chained(st.next, st.free, F)
    BY ListsFacts
<1>1. n \in Nat /\ n # 0 /\ o = F[1] /\ o \in Node /\ o \in Range(F)
  <2>1. n \in Nat /\ 1 \in 1 .. n
      BY <1>0, QueueFacts DEF Chained
  <2> QED BY <1>0, <2>1, QueueFacts DEF Chained, Nth
<1>2. F # <<>> /\ o = Head(F)
    BY <1>0, <1>1, EmptyQueue
<1>3. T \in Seq(Node) /\ Len(T) = n - 1 /\ \A k \in 1 .. n - 1 : T[k] = F[k + 1]
    BY <1>0, <1>2, HeadTailProperties
<1>4. \A j, k \in 1 .. n : F[j] = F[k] => j = k
    BY <1>0, QueueFacts DEF IsInjective
<1>5. \A k \in 1 .. n - 1 : k + 1 \in 1 .. n /\ k + 1 # 1
    BY <1>1
<1>6. IsInjective(T)
  <2>1. ASSUME NEW j \in 1 .. n - 1, NEW k \in 1 .. n - 1, T[j] = T[k] PROVE j = k
    <3>1. j + 1 = k + 1
        BY <1>3, <1>4, <1>5, <2>1
    <3> QED BY <3>1
  <2> QED BY <1>3, <2>1, QueueFacts DEF IsInjective
<1>7. Range(F) = Range(T) \cup {o} /\ o \notin Range(T)
  <2>1. ASSUME NEW x \in Range(T) PROVE x \in Range(F) /\ x # o
    <3>1. PICK k \in 1 .. n - 1 : x = T[k]
      <4> HIDE DEF T
      <4> QED BY <1>3, <2>1, QueueFacts
    <3>2. x = F[k + 1] /\ k + 1 \in 1 .. n /\ k + 1 # 1 /\ 1 \in 1 .. n
        BY <1>1, <1>3, <1>5, <3>1
    <3> QED BY <1>0, <1>1, <1>4, <3>2, QueueFacts
  <2>2. ASSUME NEW x \in Range(F), x # o PROVE x \in Range(T)
    <3>1. PICK k \in 1 .. n : x = F[k]
        BY <1>0, QueueFacts
    <3>2. k - 1 \in 1 .. n - 1 /\ (k - 1) + 1 = k
        BY <1>1, <2>2, <3>1
    <3>3. x = T[k - 1]
        BY <1>3, <3>1, <3>2
    <3> QED BY <1>3, <3>2, <3>3, QueueFacts
  <2> QED BY <1>1, <2>1, <2>2
<1>8. /\ new.free = st.next[o] /\ new.head = st.head /\ new.tail = st.tail
      /\ new.at = st.at /\ new.map = st.map
      /\ new.next = [st.next EXCEPT ![o] = nullptr] /\ new.prev = [st.prev EXCEPT ![o] = nullptr]
    BY <1>0 DEF alloc, Memory
<1>9. new \in Memory /\ \A x \in Node \ {o} : new.next[x] = st.next[x] /\ new.prev[x] = st.prev[x]
    BY <1>0, <1>1, NodeFacts DEF alloc, Memory
<1> HIDE DEF new, T, n
<1>10. Chained(new.next, new.free, T)
  <2>1. new.free = Nth(F, 2)
      BY <1>0, <1>1, <1>8 DEF Chained, n
  <2>2. Nth(F, 2) = Nth(T, 1)
    <3>1. CASE n = 1
        BY <1>3, <3>1 DEF Nth, n
    <3>2. CASE n > 1
        BY <1>1, <1>3, <3>2 DEF Nth, n
    <3> QED BY <1>1, <3>1, <3>2
  <2>3. ASSUME NEW k \in 1 .. n - 1 PROVE new.next[T[k]] = Nth(T, k + 1)
    <3>1. T[k] = F[k + 1] /\ k + 1 \in 1 .. n /\ T[k] \in Range(T)
        BY <1>3, <1>5, QueueFacts
    <3>2. new.next[T[k]] = st.next[F[k + 1]]
        BY <1>3, <1>7, <1>9, <3>1, QueueFacts
    <3>3. st.next[F[k + 1]] = Nth(F, (k + 1) + 1)
        BY <1>0, <3>1 DEF Chained, n
    <3>4. Nth(F, (k + 1) + 1) = Nth(T, k + 1)
      <4>1. CASE k + 1 \in 1 .. n - 1
        <5>1. T[k + 1] = F[(k + 1) + 1] /\ (k + 1) + 1 \in 1 .. n
            BY <1>3, <1>5, <4>1
        <5> QED BY <1>3, <4>1, <5>1 DEF Nth, n
      <4>2. CASE k + 1 \notin 1 .. n - 1
        <5>1. (k + 1) + 1 \notin 1 .. n
            BY <1>1, <4>2
        <5> QED BY <1>3, <4>2, <5>1 DEF Nth, n
      <4> QED BY <4>1, <4>2
    <3> QED BY <3>2, <3>3, <3>4
  <2> QED BY <1>3, <2>1, <2>2, <2>3 DEF Chained
<1>11. ASSUME NEW l \in LevelId
       PROVE  /\ LinkedAs(new, l, Q[l]) /\ IsInjective(Q[l]) /\ o \notin Range(Q[l])
              /\ \A x \in Range(Q[l]) : new.at[x] = l /\ x \notin Range(T)
  <2>1. /\ Q[l] \in Seq(Node) /\ IsInjective(Q[l]) /\ LinkedAs(st, l, Q[l])
        /\ \A x \in Range(Q[l]) : x \in Node /\ st.at[x] = l /\ x \notin Range(F)
      BY ListsFacts
  <2>2. o \notin Range(Q[l]) /\ \A x \in Range(Q[l]) : x \in Node \ {o}
      BY <1>1, <2>1
  <2>3. LinkedAs(new, l, Q[l])
    <3>1. /\ new.head[l] = st.head[l] /\ new.tail[l] = st.tail[l]
          /\ \A x \in Range(Q[l]) : new.next[x] = st.next[x] /\ new.prev[x] = st.prev[x]
        BY <1>8, <1>9, <2>2
    <3> QED BY <2>1, <3>1, SameLinks
  <2> QED BY <1>7, <1>8, <2>1, <2>2, <2>3
<1>12. Lists(new, Q, T)
    BY <1>3, <1>6, <1>9, <1>10, <1>11 DEF Lists
<1>13. Loose(o, Q, T)
    BY <1>1, <1>7, <1>11 DEF Loose
<1> QED BY <1>2, <1>7, <1>8, <1>12, <1>13 DEF new, T

(* free puts a loose node in front of the free nodes. *)
LEMMA FreeOK ==
    ASSUME NEW st, NEW Q, NEW F, Lists(st, Q, F), NEW o, Loose(o, Q, F)
    PROVE  /\ Lists(free(st, o), Q, <<o>> \o F)
           /\ Range(<<o>> \o F) = Range(F) \cup {o}
           /\ free(st, o).at = Put(st.at, o, NoLevel) /\ free(st, o).map = st.map
           /\ free(st, o).free = o
<1> DEFINE new == free(st, o)
           G == <<o>> \o F
           n == Len(F)
<1>0. st \in Memory /\ F \in Seq(Node) /\ IsInjective(F) /\ Chained(st.next, st.free, F)
    BY ListsFacts
<1>1. n \in Nat /\ o \in Node /\ o \notin Range(F) /\ o # nullptr
    BY <1>0, QueueFacts, NodeFacts DEF Loose
<1>2. /\ G \in Seq(Node) /\ Len(G) = n + 1 /\ G[1] = o
      /\ \A k \in 1 .. n : G[k + 1] = F[k]
  <2>1. <<o>> \in Seq(Node) /\ Len(<<o>>) = 1 /\ <<o>>[1] = o
      BY <1>1
  <2>2. /\ G \in Seq(Node) /\ Len(G) = Len(<<o>>) + n
        /\ \A i \in 1 .. Len(<<o>>) + n : G[i] = IF i <= Len(<<o>>) THEN <<o>>[i] ELSE F[i - Len(<<o>>)]
      BY <1>0, <2>1, ConcatProperties
  <2>3. /\ G \in Seq(Node) /\ Len(G) = 1 + n
        /\ \A i \in 1 .. 1 + n : G[i] = IF i <= 1 THEN <<o>>[i] ELSE F[i - 1]
      BY <2>1, <2>2
  <2> HIDE DEF G
  <2> QED BY <1>1, <2>1, <2>3
<1>3. \A j, k \in 1 .. n : F[j] = F[k] => j = k
    BY <1>0, QueueFacts DEF IsInjective
<1>a. \A k \in 1 .. n + 1 : k = 1 \/ (k - 1 \in 1 .. n /\ G[k] = F[k - 1])
  <2>1. ASSUME NEW k \in 1 .. n + 1, k # 1 PROVE k - 1 \in 1 .. n /\ (k - 1) + 1 = k
      BY <1>1, <2>1
  <2> QED BY <1>2, <2>1
<1>b. \A k \in 1 .. n : F[k] # o /\ k + 1 \in 1 .. n + 1
    BY <1>0, <1>1, QueueFacts
<1> HIDE DEF G, n
<1>4. IsInjective(G)
  <2>1. DOMAIN G = 1 .. n + 1
      BY <1>2, QueueFacts
  <2>2. ASSUME NEW j \in 1 .. n + 1, NEW k \in 1 .. n + 1, G[j] = G[k] PROVE j = k
    <3>1. CASE j = 1 /\ k = 1
        BY <3>1
    <3>2. CASE j = 1 /\ k # 1
        BY <1>2, <1>a, <1>b, <2>2, <3>2
    <3>3. CASE j # 1 /\ k = 1
        BY <1>2, <1>a, <1>b, <2>2, <3>3
    <3>4. CASE j # 1 /\ k # 1
      <4>1. j - 1 = k - 1
          BY <1>3, <1>a, <2>2, <3>4
      <4> QED BY <4>1
    <3> QED BY <3>1, <3>2, <3>3, <3>4
  <2> QED BY <2>1, <2>2 DEF IsInjective
<1>5. Range(G) = Range(F) \cup {o}
  <2>1. ASSUME NEW x \in Range(G) PROVE x \in Range(F) \cup {o}
    <3>1. PICK k \in 1 .. n + 1 : x = G[k]
        BY <1>2, QueueFacts
    <3> QED BY <1>0, <1>2, <1>a, <3>1, QueueFacts DEF n
  <2>2. ASSUME NEW x \in Range(F) PROVE x \in Range(G)
    <3>1. PICK k \in 1 .. n : x = F[k]
        BY <1>0, QueueFacts DEF n
    <3> QED BY <1>2, <1>b, <3>1, QueueFacts
  <2>3. o \in Range(G)
    <3>1. 1 \in 1 .. n + 1
        BY <1>1
    <3> QED BY <1>2, <3>1, QueueFacts
  <2> QED BY <2>1, <2>2, <2>3
<1>6. /\ new.free = o /\ new.head = st.head /\ new.tail = st.tail
      /\ new.at = [st.at EXCEPT ![o] = NoLevel] /\ new.map = st.map
      /\ new.next = [st.next EXCEPT ![o] = st.free] /\ new.prev = [st.prev EXCEPT ![o] = nullptr]
    BY <1>0 DEF free, Memory, NoLevel
<1>7. /\ new \in Memory /\ new.next[o] = st.free
      /\ \A x \in Node \ {o} : /\ new.next[x] = st.next[x] /\ new.prev[x] = st.prev[x]
                               /\ new.at[x] = st.at[x]
  <2>1. NoLevel \in Places /\ nullptr \in Ptr /\ o \in Ptr /\ st.free \in Ptr
      BY <1>0, <1>1, NodeFacts, MemoryFields
  <2>3. new \in Memory
      BY <1>0, <2>1 DEF free, Memory, NoLevel
  <2> QED BY <1>0, <1>1, <1>6, <2>3, MemoryFields
<1> HIDE DEF new
<1>8. Chained(new.next, new.free, G)
  <2>1. new.free = Nth(G, 1)
    <3>1. 1 \in 1 .. n + 1
        BY <1>1
    <3> QED BY <1>2, <1>6, <3>1 DEF Nth
  <2>2. \A k \in 1 .. n + 1 : Nth(G, k + 1) = Nth(F, k)
    <3>1. ASSUME NEW k \in 1 .. n + 1 PROVE Nth(G, k + 1) = Nth(F, k)
      <4>1. CASE k \in 1 .. n
          BY <1>2, <1>b, <4>1 DEF Nth, n
      <4>2. CASE k \notin 1 .. n
        <5>1. k + 1 \notin 1 .. n + 1
            BY <1>1, <4>2
        <5> QED BY <1>2, <4>2, <5>1 DEF Nth, n
      <4> QED BY <4>1, <4>2
    <3> QED BY <3>1
  <2>3. ASSUME NEW k \in 1 .. n + 1 PROVE new.next[G[k]] = Nth(G, k + 1)
    <3>1. CASE k = 1
      <4>1. new.next[G[k]] = st.free
          BY <1>2, <1>7, <3>1
      <4>2. st.free = Nth(F, k)
          BY <1>0, <3>1 DEF Chained
      <4> QED BY <2>2, <4>1, <4>2
    <3>2. CASE k # 1
      <4>1. k - 1 \in 1 .. n /\ G[k] = F[k - 1] /\ (k - 1) + 1 = k
          BY <1>a, <3>2
      <4>2. G[k] \in Node \ {o}
          BY <1>0, <1>b, <4>1, QueueFacts DEF n
      <4>3. new.next[G[k]] = st.next[F[k - 1]]
          BY <1>7, <4>1, <4>2
      <4>4. st.next[F[k - 1]] = Nth(F, (k - 1) + 1)
          BY <1>0, <4>1 DEF Chained, n
      <4> QED BY <2>2, <4>1, <4>3, <4>4
    <3> QED BY <3>1, <3>2
  <2> QED BY <1>2, <2>1, <2>3 DEF Chained
<1>9. ASSUME NEW l \in LevelId
      PROVE  /\ LinkedAs(new, l, Q[l]) /\ IsInjective(Q[l])
             /\ \A x \in Range(Q[l]) : new.at[x] = l /\ x \notin Range(G)
  <2>1. /\ Q[l] \in Seq(Node) /\ IsInjective(Q[l]) /\ LinkedAs(st, l, Q[l])
        /\ \A x \in Range(Q[l]) : x \in Node /\ st.at[x] = l /\ x \notin Range(F)
      BY ListsFacts
  <2>2. \A x \in Range(Q[l]) : x \in Node \ {o}
      BY <2>1 DEF Loose
  <2>3. LinkedAs(new, l, Q[l])
    <3>1. /\ new.head[l] = st.head[l] /\ new.tail[l] = st.tail[l]
          /\ \A x \in Range(Q[l]) : new.next[x] = st.next[x] /\ new.prev[x] = st.prev[x]
        BY <1>6, <1>7, <2>2
    <3> QED BY <2>1, <3>1, SameLinks
  <2> QED BY <1>5, <1>7, <2>1, <2>2, <2>3
<1>10. Q \in [LevelId -> Seq(Node)]
    BY DEF Lists
<1>11. Lists(new, Q, G)
    BY <1>2, <1>4, <1>7, <1>8, <1>9, <1>10 DEF Lists
<1> QED BY <1>5, <1>6, <1>11 DEF new, G, Put


(* add_order appends a loose node to a level's queue. *)
LEMMA AddOK ==
    ASSUME NEW st, NEW Q, NEW F, Lists(st, Q, F), NEW l \in LevelId, NEW o, Loose(o, Q, F)
    PROVE  LET new == add_order(st, l, o)
           IN  /\ Lists(new, Put(Q, l, Append(Q[l], o)), F)
               /\ new.at = Put(st.at, o, l) /\ new.map = st.map /\ new.free = st.free
<1> DEFINE new == add_order(st, l, o)
           q == Q[l]
           n == Len(q)
           p == Append(q, o)
           t == st.tail[l]
           R == [Q EXCEPT ![l] = p]
<1>0. st \in Memory /\ F \in Seq(Node) /\ IsInjective(F) /\ Chained(st.next, st.free, F)
    BY ListsFacts
<1>1. /\ q \in Seq(Node) /\ IsInjective(q) /\ LinkedAs(st, l, q)
      /\ \A x \in Range(q) : x \in Node /\ st.at[x] = l /\ x \notin Range(F)
    BY ListsFacts
<1>2. o \in Node /\ o # nullptr /\ o \notin Range(F) /\ o \notin Range(q)
    BY NodeFacts DEF Loose
<1>3. /\ n \in Nat /\ \A k \in 1 .. n : q[k] \in Node /\ q[k] # nullptr /\ q[k] \in Range(q) /\ q[k] # o
      /\ \A j, k \in 1 .. n : q[j] = q[k] => j = k
    BY <1>1, <1>2, QueueFacts DEF IsInjective
<1>4. /\ t = Nth(q, n) /\ st.head[l] = Nth(q, 1)
      /\ \A k \in 1 .. n : st.next[q[k]] = Nth(q, k + 1) /\ st.prev[q[k]] = Nth(q, k - 1)
    BY <1>1 DEF LinkedAs, Chained
<1>5. /\ t \in Ptr /\ (t = nullptr <=> n = 0) /\ (n # 0 => t = q[n] /\ t \in Range(q) /\ t \in Node)
  <2>1. n # 0 => n \in 1 .. n
      BY <1>3
  <2>2. n = 0 => n \notin 1 .. n
      BY <1>3
  <2> HIDE DEF t, n
  <2>3. n = 0 => t = nullptr
      BY <1>4, <2>2 DEF Nth, n
  <2>4. n # 0 => t = q[n] /\ t \in Range(q) /\ t \in Node /\ t # nullptr
      BY <1>3, <1>4, <2>1 DEF Nth, n
  <2> QED BY <2>3, <2>4, NodeFacts
<1>6. /\ p \in Seq(Node) /\ IsInjective(p) /\ Range(p) = Range(q) \cup {o}
      /\ Len(p) = n + 1 /\ p[n + 1] = o /\ \A k \in 1 .. n : p[k] = q[k]
  <2>1. p \in Seq(Node) /\ IsInjective(p) /\ Range(p) = Range(q) \cup {o}
      BY <1>1, <1>2, AppendQueue
  <2> QED BY <1>1, <1>2, <2>1, AppendProperties
<1>7. /\ new.free = st.free /\ new.map = st.map /\ new.at = [st.at EXCEPT ![o] = l]
      /\ new.prev = [st.prev EXCEPT ![o] = t] /\ new.tail = [st.tail EXCEPT ![l] = o]
      /\ new.head = IF t = nullptr THEN [st.head EXCEPT ![l] = o] ELSE st.head
      /\ new.next = [Set(st.next, t, o) EXCEPT ![o] = nullptr]
    BY <1>0 DEF add_order, Memory
<1>8. Set(st.next, t, o) \in [Node -> Ptr] /\ \A x \in Node : Set(st.next, t, o)[x] = IF x = t THEN o ELSE st.next[x]
    BY <1>0, <1>2, <1>5, NodeFacts, MemoryFields DEF Set
<1>9. new \in Memory
  <2>1. o \in Ptr /\ nullptr \in Ptr /\ l \in Places
      BY <1>2, NodeFacts
  <2> QED BY <1>0, <1>5, <1>8, <2>1 DEF add_order, Memory
<1>10. /\ \A x \in Node : new.next[x] = IF x = o THEN nullptr ELSE IF x = t THEN o ELSE st.next[x]
       /\ \A x \in Node : new.prev[x] = IF x = o THEN t ELSE st.prev[x]
       /\ \A x \in Node : new.at[x] = IF x = o THEN l ELSE st.at[x]
       /\ \A m \in LevelId : new.tail[m] = IF m = l THEN o ELSE st.tail[m]
       /\ \A m \in LevelId : new.head[m] = IF m = l /\ n = 0 THEN o ELSE st.head[m]
    BY <1>0, <1>2, <1>5, <1>7, <1>8, MemoryFields
<1> HIDE DEF new, t, p
<1>11. LinkedAs(new, l, p)
  <2>1. new.head[l] = Nth(p, 1)
    <3>1. 1 \in 1 .. n + 1
        BY <1>3
    <3>2. CASE n = 0
        BY <1>6, <1>10, <3>1, <3>2 DEF Nth
    <3>3. CASE n # 0
      <4>1. 1 \in 1 .. n
          BY <1>3, <3>3
      <4> QED BY <1>4, <1>6, <1>10, <3>1, <3>3, <4>1 DEF Nth
    <3> QED BY <3>2, <3>3
  <2>2. new.tail[l] = Nth(p, n + 1)
    <3>1. n + 1 \in 1 .. n + 1
        BY <1>3
    <3> QED BY <1>6, <1>10, <3>1 DEF Nth
  <2>3. ASSUME NEW k \in 1 .. n + 1
        PROVE  new.next[p[k]] = Nth(p, k + 1) /\ new.prev[p[k]] = Nth(p, k - 1)
    <3>1. CASE k = n + 1
      <4>1. p[k] = o /\ new.next[o] = nullptr /\ new.prev[o] = t
          BY <1>2, <1>6, <1>10, <3>1
      <4>2. k + 1 \notin 1 .. n + 1 /\ k - 1 = n
          BY <1>3, <3>1
      <4>3. Nth(p, n) = t
        <5>1. CASE n = 0
            BY <1>5, <5>1 DEF Nth
        <5>2. CASE n # 0
          <6>1. n \in 1 .. n + 1 /\ n \in 1 .. n
              BY <1>3, <5>2
          <6> QED BY <1>5, <1>6, <5>2, <6>1 DEF Nth
        <5> QED BY <5>1, <5>2
      <4> QED BY <1>6, <4>1, <4>2, <4>3 DEF Nth
    <3>2. CASE k # n + 1
      <4>1. k \in 1 .. n /\ p[k] = q[k] /\ q[k] \in Node /\ q[k] # o
          BY <1>3, <1>6, <3>2
      <4>2. new.prev[p[k]] = Nth(q, k - 1)
          BY <1>4, <1>10, <4>1
      <4>3. Nth(q, k - 1) = Nth(p, k - 1)
        <5>1. k - 1 \in 1 .. n <=> k - 1 \in 1 .. n + 1
            BY <1>3, <4>1
        <5> QED BY <1>6, <5>1 DEF Nth
      <4>4. CASE k = n
        <5>1. q[k] = t /\ new.next[p[k]] = o
            BY <1>3, <1>5, <1>10, <4>1, <4>4
        <5>2. k + 1 \in 1 .. n + 1 /\ p[k + 1] = o
            BY <1>3, <1>6, <4>4
        <5> QED BY <1>6, <4>2, <4>3, <5>1, <5>2 DEF Nth
      <4>5. CASE k # n
        <5>1. n \in 1 .. n /\ k + 1 \in 1 .. n /\ k + 1 \in 1 .. n + 1
            BY <1>3, <4>1, <4>5
        <5>2. q[k] # t
            BY <1>3, <1>5, <4>1, <4>5, <5>1
        <5>3. new.next[p[k]] = Nth(q, k + 1)
            BY <1>4, <1>10, <4>1, <5>2
        <5> QED BY <1>6, <4>2, <4>3, <5>1, <5>3 DEF Nth
      <4> QED BY <4>4, <4>5
    <3> QED BY <3>1, <3>2
  <2> QED BY <1>6, <2>1, <2>2, <2>3 DEF LinkedAs, Chained
<1>12. ASSUME NEW m \in LevelId, m # l
       PROVE  /\ LinkedAs(new, m, Q[m]) /\ IsInjective(Q[m])
              /\ \A x \in Range(Q[m]) : new.at[x] = m /\ x \notin Range(F)
  <2>1. /\ Q[m] \in Seq(Node) /\ IsInjective(Q[m]) /\ LinkedAs(st, m, Q[m])
        /\ \A x \in Range(Q[m]) : x \in Node /\ st.at[x] = m /\ x \notin Range(F)
      BY ListsFacts
  <2>2. \A x \in Range(Q[m]) : x # o /\ x # t
      BY <1>1, <1>5, <1>12, <2>1, NodeFacts DEF Loose
  <2>3. /\ new.head[m] = st.head[m] /\ new.tail[m] = st.tail[m]
        /\ \A x \in Range(Q[m]) : /\ new.next[x] = st.next[x] /\ new.prev[x] = st.prev[x]
                                  /\ new.at[x] = st.at[x]
      BY <1>10, <1>12, <2>1, <2>2
  <2>4. LinkedAs(new, m, Q[m])
      BY <2>1, <2>3, SameLinks
  <2> QED BY <2>1, <2>3, <2>4
<1>13. Chained(new.next, new.free, F)
  <2>1. \A x \in Range(F) : x \in Node /\ x # o /\ x # t
      BY <1>0, <1>1, <1>2, <1>5, QueueFacts, NodeFacts
  <2>2. \A x \in Range(F) : new.next[x] = st.next[x]
      BY <1>10, <2>1
  <2>3. F \in Seq(Node) /\ Chained(st.next, st.free, F) /\ new.free = st.free
      BY <1>0, <1>7
  <2> HIDE DEF new
  <2> QED BY <2>2, <2>3, SameChain
<1>14. R \in [LevelId -> Seq(Node)] /\ R[l] = p /\ \A m \in LevelId : m # l => R[m] = Q[m]
    BY <1>6 DEF Lists
<1>15. \A x \in Range(p) : new.at[x] = l /\ x \notin Range(F)
    BY <1>1, <1>2, <1>6, <1>10
<1> HIDE DEF R
<1>16. Lists(new, R, F)
  <2>1. \A m \in LevelId : LinkedAs(new, m, R[m]) /\ IsInjective(R[m])
      BY <1>6, <1>11, <1>12, <1>14
  <2>2. \A m \in LevelId : \A x \in Range(R[m]) : new.at[x] = m /\ x \notin Range(F)
      BY <1>12, <1>14, <1>15
  <2> QED BY <1>0, <1>9, <1>13, <1>14, <2>1, <2>2 DEF Lists
<1> QED BY <1>7, <1>16 DEF new, R, p, Put


(* remove_order unlinks a node from the queue it is in. *)
LEMMA RemoveOK ==
    ASSUME NEW st, NEW Q, NEW F, Lists(st, Q, F), NEW l \in LevelId, NEW o \in Range(Q[l])
    PROVE  LET new == remove_order(st, o)
               R   == Put(Q, l, Unlink(Q[l], o))
           IN  /\ Lists(new, R, F) /\ Loose(o, R, F)
               /\ new.at = st.at /\ new.map = st.map /\ new.free = st.free
<1> DEFINE new == remove_order(st, o)
           q == Q[l]
           n == Len(q)
           p == Unlink(q, o)
           R == [Q EXCEPT ![l] = p]
           a == st.prev[o]
           b == st.next[o]
<1>0. st \in Memory /\ F \in Seq(Node) /\ IsInjective(F) /\ Chained(st.next, st.free, F)
    BY ListsFacts
<1>1. /\ q \in Seq(Node) /\ IsInjective(q) /\ LinkedAs(st, l, q)
      /\ \A x \in Range(q) : x \in Node /\ st.at[x] = l /\ x \notin Range(F)
    BY ListsFacts
<1>2. o \in Node /\ o # nullptr /\ o \notin Range(F) /\ st.at[o] = l
    BY <1>1, NodeFacts
<1>3. /\ n \in Nat /\ \A j \in 1 .. n : q[j] \in Node /\ q[j] # nullptr /\ q[j] \in Range(q)
      /\ \A i, j \in 1 .. n : q[i] = q[j] => i = j
    BY <1>1, QueueFacts DEF IsInjective
<1>4. /\ st.tail[l] = Nth(q, n) /\ st.head[l] = Nth(q, 1)
      /\ \A j \in 1 .. n : st.next[q[j]] = Nth(q, j + 1) /\ st.prev[q[j]] = Nth(q, j - 1)
    BY <1>1 DEF LinkedAs, Chained
<1>5. PICK k \in 1 .. n :
        /\ q[k] = o /\ p \in Seq(Node) /\ Len(p) = n - 1
        /\ \A j \in 1 .. n - 1 : p[j] = IF j < k THEN q[j] ELSE q[j + 1]
  <2>1. o \in Range(q)
      OBVIOUS
  <2> HIDE DEF q
  <2> QED BY <1>1, <2>1, UnlinkItems, SMTT(20)
<1>6. IsInjective(p) /\ Range(p) = Range(q) \ {o} /\ p \in Seq(Node)
    BY <1>1, UnlinkQueue
<1>7. /\ a = Nth(q, k - 1) /\ b = Nth(q, k + 1)
      /\ (k = 1 <=> a = nullptr) /\ (k = n <=> b = nullptr)
      /\ (k # 1 => k - 1 \in 1 .. n /\ a = q[k - 1])
      /\ (k # n => k + 1 \in 1 .. n /\ b = q[k + 1])
  <2>1. a = Nth(q, k - 1) /\ b = Nth(q, k + 1)
      BY <1>4, <1>5
  <2>2. (k # 1 <=> k - 1 \in 1 .. n) /\ (k # n <=> k + 1 \in 1 .. n)
      BY <1>3
  <2> HIDE DEF a, b
  <2> QED BY <1>3, <2>1, <2>2 DEF Nth
<1>8. a \in Ptr /\ b \in Ptr /\ (a # nullptr => a \in Range(q)) /\ (b # nullptr => b \in Range(q))
  <2> HIDE DEF a, b
  <2> QED BY <1>1, <1>7, QueueFacts
<1>9. /\ new.free = st.free /\ new.map = st.map /\ new.at = st.at
      /\ new.head = IF a = nullptr THEN [st.head EXCEPT ![l] = b] ELSE st.head
      /\ new.tail = IF b = nullptr THEN [st.tail EXCEPT ![l] = a] ELSE st.tail
      /\ new.next = [Set(st.next, a, b) EXCEPT ![o] = nullptr]
      /\ new.prev = [Set(st.prev, b, a) EXCEPT ![o] = nullptr]
    BY <1>0, <1>2 DEF remove_order, Memory
<1> HIDE DEF a, b
<1>10. /\ Set(st.next, a, b) \in [Node -> Ptr] /\ Set(st.prev, b, a) \in [Node -> Ptr]
       /\ \A x \in Node : Set(st.next, a, b)[x] = IF x = a THEN b ELSE st.next[x]
       /\ \A x \in Node : Set(st.prev, b, a)[x] = IF x = b THEN a ELSE st.prev[x]
    BY <1>0, <1>8, NodeFacts, MemoryFields DEF Set
<1>11. new \in Memory
  <2>1. /\ [Set(st.next, a, b) EXCEPT ![o] = nullptr] \in [Node -> Ptr]
        /\ [Set(st.prev, b, a) EXCEPT ![o] = nullptr] \in [Node -> Ptr]
      BY <1>2, <1>10, NodeFacts
  <2>2. /\ (IF a = nullptr THEN [st.head EXCEPT ![l] = b] ELSE st.head) \in [LevelId -> Ptr]
        /\ (IF b = nullptr THEN [st.tail EXCEPT ![l] = a] ELSE st.tail) \in [LevelId -> Ptr]
      BY <1>0, <1>8, MemoryFields
  <2>3. new = [st EXCEPT !.next = [Set(st.next, a, b) EXCEPT ![o] = nullptr],
                         !.prev = [Set(st.prev, b, a) EXCEPT ![o] = nullptr],
                         !.head = IF a = nullptr THEN [st.head EXCEPT ![l] = b] ELSE st.head,
                         !.tail = IF b = nullptr THEN [st.tail EXCEPT ![l] = a] ELSE st.tail]
      BY <1>2 DEF remove_order, a, b
  <2> HIDE DEF new
  <2> QED BY <1>0, <2>1, <2>2, <2>3 DEF Memory
<1>12. /\ \A x \in Node : new.next[x] = IF x = o THEN nullptr ELSE IF x = a THEN b ELSE st.next[x]
       /\ \A x \in Node : new.prev[x] = IF x = o THEN nullptr ELSE IF x = b THEN a ELSE st.prev[x]
       /\ \A m \in LevelId : new.head[m] = IF m = l /\ k = 1 THEN b ELSE st.head[m]
       /\ \A m \in LevelId : new.tail[m] = IF m = l /\ k = n THEN a ELSE st.tail[m]
  <2> HIDE DEF new
  <2> QED BY <1>0, <1>2, <1>7, <1>9, <1>10, MemoryFields
<1> HIDE DEF new, p, R, n
<1>13. ASSUME NEW j \in 0 .. n PROVE Nth(p, j) = IF j < k THEN Nth(q, j) ELSE Nth(q, j + 1)
  <2>1. CASE j \in 1 .. n - 1
    <3>1. j \in 1 .. n /\ j + 1 \in 1 .. n
        BY <1>3, <2>1
    <3> QED BY <1>5, <2>1, <3>1 DEF Nth, n
  <2>2. CASE j = 0
    <3>1. j < k /\ j \notin 1 .. n /\ j \notin 1 .. n - 1
        BY <1>3, <2>2
    <3> QED BY <1>5, <3>1 DEF Nth, n
  <2>3. CASE j = n
    <3>1. ~(j < k) /\ j \notin 1 .. n - 1 /\ j + 1 \notin 1 .. n
        BY <1>3, <2>3
    <3> QED BY <1>5, <3>1 DEF Nth, n
  <2> QED BY <1>3, <2>1, <2>2, <2>3
<1>14. ASSUME NEW i \in 1 .. n, i # k
       PROVE  /\ q[i] \in Node /\ q[i] # o
              /\ (q[i] = a <=> i = k - 1) /\ (q[i] = b <=> i = k + 1)
              /\ new.next[q[i]] = IF i = k - 1 THEN b ELSE Nth(q, i + 1)
              /\ new.prev[q[i]] = IF i = k + 1 THEN a ELSE Nth(q, i - 1)
  <2>1. q[i] \in Node /\ q[i] # o /\ q[i] # nullptr
      BY <1>3, <1>5, <1>14
  <2>2. q[i] = a <=> i = k - 1
    <3>1. CASE k = 1
        BY <1>7, <2>1, <3>1
    <3>2. CASE k # 1
        BY <1>3, <1>7, <3>2
    <3> QED BY <3>1, <3>2
  <2>3. q[i] = b <=> i = k + 1
    <3>1. CASE k = n
        BY <1>3, <1>7, <2>1, <3>1
    <3>2. CASE k # n
        BY <1>3, <1>7, <3>2
    <3> QED BY <3>1, <3>2
  <2> QED BY <1>4, <1>12, <2>1, <2>2, <2>3 DEF n
<1>15. LinkedAs(new, l, p)
  <2>1. new.head[l] = Nth(p, 1)
    <3>1. 1 \in 0 .. n /\ (1 < k <=> k # 1)
        BY <1>3
    <3> QED BY <1>4, <1>7, <1>12, <1>13, <3>1
  <2>2. new.tail[l] = Nth(p, n - 1)
    <3>1. n - 1 \in 0 .. n /\ (n - 1 < k <=> k = n) /\ (n - 1) + 1 = n
        BY <1>3
    <3> QED BY <1>4, <1>7, <1>12, <1>13, <3>1
  <2>3. ASSUME NEW j \in 1 .. n - 1
        PROVE  new.next[p[j]] = Nth(p, j + 1) /\ new.prev[p[j]] = Nth(p, j - 1)
    <3>0. j + 1 \in 0 .. n /\ j - 1 \in 0 .. n /\ j \in Int /\ n \in Int /\ k \in Int
        BY <1>3
    <3>1. Nth(p, j + 1) = IF j + 1 < k THEN Nth(q, j + 1) ELSE Nth(q, (j + 1) + 1)
        BY <1>13, <3>0
    <3>2. Nth(p, j - 1) = IF j - 1 < k THEN Nth(q, j - 1) ELSE Nth(q, (j - 1) + 1)
        BY <1>13, <3>0
    <3>3. CASE j < k
      <4>1. p[j] = q[j] /\ j \in 1 .. n /\ j # k /\ j # k + 1 /\ j - 1 < k
          BY <1>3, <1>5, <3>3, <3>0 DEF n
      <4>2. /\ new.next[q[j]] = IF j = k - 1 THEN b ELSE Nth(q, j + 1)
            /\ new.prev[q[j]] = Nth(q, j - 1)
          BY <1>14, <4>1
      <4>3. CASE j = k - 1
        <5>1. (j + 1) + 1 = k + 1 /\ ~(j + 1 < k)
            BY <3>0, <4>3
        <5> QED BY <1>7, <3>1, <3>2, <4>1, <4>2, <4>3, <5>1
      <4>4. CASE j # k - 1
        <5>1. j + 1 < k
            BY <3>0, <3>3, <4>4
        <5> QED BY <3>1, <3>2, <4>1, <4>2, <4>4, <5>1
      <4> QED BY <4>3, <4>4
    <3>4. CASE ~(j < k)
      <4>1. p[j] = q[j + 1] /\ j + 1 \in 1 .. n /\ j + 1 # k /\ j + 1 # k - 1 /\ ~(j + 1 < k)
          BY <1>3, <1>5, <3>4, <3>0 DEF n
      <4>2. /\ new.next[q[j + 1]] = Nth(q, (j + 1) + 1)
            /\ new.prev[q[j + 1]] = IF j + 1 = k + 1 THEN a ELSE Nth(q, (j + 1) - 1)
          BY <1>14, <4>1
      <4>3. CASE j = k
        <5>1. j - 1 = k - 1 /\ j - 1 < k /\ j + 1 = k + 1
            BY <3>0, <4>3
        <5> QED BY <1>7, <3>1, <3>2, <4>1, <4>2, <5>1
      <4>4. CASE j # k
        <5>1. ~(j - 1 < k) /\ (j - 1) + 1 = j /\ (j + 1) - 1 = j /\ j + 1 # k + 1
            BY <3>0, <3>4, <4>4
        <5> QED BY <3>1, <3>2, <4>1, <4>2, <5>1
      <4> QED BY <4>3, <4>4
    <3> QED BY <3>3, <3>4
  <2>4. Len(p) = n - 1
      BY <1>5 DEF n, p
  <2> QED BY <2>1, <2>2, <2>3, <2>4 DEF LinkedAs, Chained
<1>16. ASSUME NEW m \in LevelId, m # l
       PROVE  /\ LinkedAs(new, m, Q[m]) /\ IsInjective(Q[m]) /\ o \notin Range(Q[m])
              /\ \A x \in Range(Q[m]) : new.at[x] = m /\ x \notin Range(F)
  <2>1. /\ Q[m] \in Seq(Node) /\ IsInjective(Q[m]) /\ LinkedAs(st, m, Q[m])
        /\ \A x \in Range(Q[m]) : x \in Node /\ st.at[x] = m /\ x \notin Range(F)
      BY ListsFacts
  <2>2. \A x \in Range(Q[m]) : x # o /\ x # a /\ x # b
      BY <1>1, <1>2, <1>8, <1>16, <2>1, NodeFacts
  <2>3. /\ new.head[m] = st.head[m] /\ new.tail[m] = st.tail[m]
        /\ \A x \in Range(Q[m]) : new.next[x] = st.next[x] /\ new.prev[x] = st.prev[x]
      BY <1>12, <1>16, <2>1, <2>2
  <2>4. LinkedAs(new, m, Q[m])
      BY <2>1, <2>3, SameLinks
  <2> QED BY <1>9, <2>1, <2>2, <2>4
<1>17. Chained(new.next, new.free, F)
  <2>1. \A x \in Range(F) : x \in Node /\ x # o /\ x # a
      BY <1>0, <1>1, <1>2, <1>8, QueueFacts, NodeFacts
  <2>2. \A x \in Range(F) : new.next[x] = st.next[x]
      BY <1>12, <2>1
  <2>3. new.free = st.free
      BY <1>9
  <2> QED BY <1>0, <2>2, <2>3, SameChain
<1>18. R \in [LevelId -> Seq(Node)] /\ R[l] = p /\ \A m \in LevelId : m # l => R[m] = Q[m]
    BY <1>6 DEF Lists, R
<1>19. \A x \in Range(p) : new.at[x] = l /\ x \notin Range(F)
    BY <1>1, <1>6, <1>9
<1>20. Lists(new, R, F)
  <2>1. \A m \in LevelId : LinkedAs(new, m, R[m]) /\ IsInjective(R[m])
      BY <1>6, <1>15, <1>16, <1>18
  <2>2. \A m \in LevelId : \A x \in Range(R[m]) : new.at[x] = m /\ x \notin Range(F)
      BY <1>16, <1>18, <1>19
  <2> QED BY <1>0, <1>11, <1>17, <1>18, <2>1, <2>2 DEF Lists
<1>21. Loose(o, R, F)
    BY <1>2, <1>6, <1>16, <1>18 DEF Loose
<1> QED BY <1>9, <1>20, <1>21 DEF new, R, p, Put


(* The map is no part of the lists. *)
LEMMA MapOK ==
    ASSUME NEW st, NEW Q, NEW F, Lists(st, Q, F), NEW M \in SUBSET Node
    PROVE  LET new == [st EXCEPT !.map = M]
           IN  /\ Lists(new, Q, F) /\ new.at = st.at /\ new.map = M /\ new.free = st.free
<1> DEFINE new == [st EXCEPT !.map = M]
<1>1. st \in Memory
    BY ListsFacts
<1>2. /\ new.next = st.next /\ new.prev = st.prev /\ new.head = st.head /\ new.tail = st.tail
      /\ new.free = st.free /\ new.at = st.at /\ new.map = M /\ new \in Memory
    BY <1>1 DEF Memory
<1> HIDE DEF new
<1>3. Lists(new, Q, F)
    BY <1>2 DEF Lists, LinkedAs
<1> QED BY <1>2, <1>3 DEF new

(* An order leaves its level, and its slot is the next one to be handed out. *)
LEMMA WithdrawOK ==
    ASSUME NEW st, NEW Q, NEW F, Lists(st, Q, F), NEW l \in LevelId, NEW o \in Range(Q[l])
    PROVE  LET new == withdraw(st, o)
               R   == Put(Q, l, Unlink(Q[l], o))
           IN  /\ Lists(new, R, <<o>> \o F) /\ Range(<<o>> \o F) = Range(F) \cup {o}
               /\ new.at = Put(st.at, o, NoLevel) /\ new.map = st.map \ {o} /\ new.free = o
<1> DEFINE out == remove_order(st, o)
           back == free(out, o)
           new == withdraw(st, o)
           R == Put(Q, l, Unlink(Q[l], o))
<1>1. Lists(out, R, F) /\ Loose(o, R, F) /\ out.at = st.at /\ out.map = st.map /\ out.free = st.free
    BY RemoveOK
<1> HIDE DEF out, R
<1>2. /\ Lists(back, R, <<o>> \o F) /\ Range(<<o>> \o F) = Range(F) \cup {o}
      /\ back.at = Put(out.at, o, NoLevel) /\ back.map = out.map /\ back.free = o
    BY <1>1, FreeOK
<1>3. new = [back EXCEPT !.map = st.map \ {o}]
    BY DEF withdraw, back, out
<1>4. st.map \ {o} \in SUBSET Node
    BY ListsFacts, MemoryFields
<1> HIDE DEF back, new
<1>5. Lists(new, R, <<o>> \o F) /\ new.at = back.at /\ new.map = st.map \ {o} /\ new.free = back.free
    BY <1>2, <1>3, <1>4, MapOK
<1> QED BY <1>1, <1>2, <1>5 DEF new, R

(* A node in no list may be rewritten. *)
Bare(st, o, here) ==
    [st EXCEPT !.next = [st.next EXCEPT ![o] = nullptr],
               !.prev = [st.prev EXCEPT ![o] = nullptr],
               !.at   = [st.at EXCEPT ![o] = here]]

LEMMA BareOK ==
    ASSUME NEW st, NEW Q, NEW F, Lists(st, Q, F), NEW o, Loose(o, Q, F), NEW here \in Places
    PROVE  LET new == Bare(st, o, here)
           IN  /\ Lists(new, Q, F) /\ new.at = Put(st.at, o, here)
               /\ new.map = st.map /\ new.free = st.free
<1> DEFINE new == Bare(st, o, here)
<1>1. st \in Memory /\ F \in Seq(Node) /\ IsInjective(F) /\ Chained(st.next, st.free, F)
    BY ListsFacts
<1>2. o \in Node /\ o \notin Range(F) /\ Range(F) \subseteq Node
    BY <1>1, QueueFacts DEF Loose
<1>3. /\ new.head = st.head /\ new.tail = st.tail /\ new.free = st.free /\ new.map = st.map
      /\ new.next = [st.next EXCEPT ![o] = nullptr] /\ new.prev = [st.prev EXCEPT ![o] = nullptr]
      /\ new.at = [st.at EXCEPT ![o] = here]
    BY <1>1 DEF Memory, Bare
<1>4. new \in Memory
    BY <1>1, NodeFacts DEF Memory, Bare
<1> HIDE DEF new
<1>5. \A x \in Node \ {o} : /\ new.next[x] = st.next[x] /\ new.prev[x] = st.prev[x]
                            /\ new.at[x] = st.at[x]
    BY <1>1, <1>3, MemoryFields
<1>6. Chained(new.next, new.free, F)
  <2>1. \A x \in Range(F) : new.next[x] = st.next[x]
      BY <1>2, <1>5
  <2>2. new.free = st.free
      BY <1>3
  <2> QED BY <1>1, <2>1, <2>2, SameChain
<1>7. ASSUME NEW m \in LevelId
      PROVE  /\ LinkedAs(new, m, Q[m]) /\ IsInjective(Q[m])
             /\ \A x \in Range(Q[m]) : new.at[x] = m /\ x \notin Range(F)
  <2>1. /\ Q[m] \in Seq(Node) /\ IsInjective(Q[m]) /\ LinkedAs(st, m, Q[m])
        /\ \A x \in Range(Q[m]) : x \in Node /\ st.at[x] = m /\ x \notin Range(F)
      BY ListsFacts
  <2>2. \A x \in Range(Q[m]) : x \in Node \ {o}
      BY <2>1 DEF Loose
  <2>3. /\ new.head[m] = st.head[m] /\ new.tail[m] = st.tail[m]
        /\ \A x \in Range(Q[m]) : new.next[x] = st.next[x] /\ new.prev[x] = st.prev[x]
      BY <1>3, <1>5, <2>2
  <2>4. LinkedAs(new, m, Q[m])
      BY <2>1, <2>3, SameLinks
  <2> QED BY <1>5, <2>1, <2>2, <2>4
<1>8. Q \in [LevelId -> Seq(Node)]
    BY DEF Lists
<1>9. Lists(new, Q, F)
    BY <1>1, <1>4, <1>6, <1>7, <1>8 DEF Lists
<1> QED BY <1>3, <1>9 DEF new, Put

(* The queues after a visit to o of a recentre's loop. *)
Visited(Q, s, o, i) == IF i >= 0 THEN Put(Q, <<s, i>>, Append(Q[<<s, i>>], o)) ELSE Q

LEMMA RelinkOK ==
    ASSUME NEW st, NEW Q, NEW F, Lists(st, Q, F), NEW o, Loose(o, Q, F),
           NEW s \in {"B", "S"}, NEW i \in -1 .. kLevels - 1
    PROVE  LET new == relink(st, s, o, i)
           IN  /\ Lists(new, Visited(Q, s, o, i), F) /\ new.at = Put(st.at, o, <<s, i>>)
               /\ new.map = st.map /\ new.free = st.free
<1> DEFINE none == <<s, -1>>
           bare == Bare(st, o, none)
           new == relink(st, s, o, i)
<1>0. none \in Places /\ kLevels \in Nat \ {0} /\ o \in Node /\ i \in Int
    BY NodeFacts DEF Places, Loose
<1>3. new = IF i >= 0 THEN add_order(bare, <<s, i>>, o) ELSE bare
    BY DEF relink, Bare
<1> HIDE DEF none
<1>1. /\ Lists(bare, Q, F) /\ bare.at = Put(st.at, o, none)
      /\ bare.map = st.map /\ bare.free = st.free
    BY <1>0, BareOK
<1>2. st.at \in [Node -> Places]
    BY ListsFacts, MemoryFields
<1> HIDE DEF bare, new
<1>4. CASE i >= 0
  <2> DEFINE l == <<s, i>>
  <2>1. l \in LevelId
      BY <1>0, <1>4 DEF LevelId
  <2>3. new = add_order(bare, l, o) /\ Visited(Q, s, o, i) = Put(Q, l, Append(Q[l], o))
      BY <1>3, <1>4 DEF Visited
  <2> HIDE DEF l
  <2>2. /\ Lists(add_order(bare, l, o), Put(Q, l, Append(Q[l], o)), F)
        /\ add_order(bare, l, o).at = Put(bare.at, o, l)
        /\ add_order(bare, l, o).map = bare.map /\ add_order(bare, l, o).free = bare.free
      BY <1>1, <2>1, AddOK
  <2>4. Put(bare.at, o, l) = Put(st.at, o, l)
      BY <1>0, <1>1, <1>2 DEF Put
  <2>5. new.at = Put(st.at, o, l) /\ new.map = st.map /\ new.free = st.free
      BY <1>1, <2>2, <2>3, <2>4
  <2>6. Lists(new, Visited(Q, s, o, i), F)
      BY <2>2, <2>3
  <2> QED BY <2>5, <2>6 DEF new, l
<1>5. CASE ~(i >= 0)
  <2>1. i = -1
      BY <1>0, <1>5
  <2> QED BY <1>1, <1>3, <1>5, <2>1 DEF Visited, new, none
<1> QED BY <1>4, <1>5

(* What the map yields: every order once. *)
LEMMA MapOrder ==
    ASSUME NEW S, IsFiniteSet(S), NEW order \in SetToSeqs(S)
    PROVE  /\ order \in Seq(S) /\ Len(order) \in Nat
           /\ \A j, k \in 1 .. Len(order) : order[j] = order[k] => j = k
           /\ \A k \in 1 .. Len(order) : order[k] \in S
           /\ \A x \in S : \E k \in 1 .. Len(order) : x = order[k]
<1> DEFINE n == Cardinality(S)
           D == 1 .. n
<1>1. order \in [D -> S] /\ \A i, j \in D : i # j => order[i] # order[j]
    BY DEF SetToSeqs
<1>2. n \in Nat
    BY FS_CardinalityType
<1> HIDE DEF n
<1>3. order \in Seq(S) /\ Len(order) = n
    BY <1>1, <1>2
<1>4. order \in Injection(D, S)
    BY <1>1 DEF Injection, IsInjective
<1>5. IsFiniteSet(D) /\ Cardinality(D) = n
    BY <1>2, FS_Interval
<1>6. order \in Surjection(D, S)
    BY <1>4, <1>5, FS_Injection DEF n
<1> QED BY <1>1, <1>2, <1>3, <1>6 DEF Surjection


(* The loop of a recentre, as the states it goes through. *)
Visits(g, st, s, order, idx) ==
    /\ g[0] = st /\ relink_all(st, s, order, idx) = g[Len(order)]
    /\ \A k \in 1 .. Len(order) : g[k] = relink(g[k - 1], s, order[k], idx[order[k]])

LEMMA LoopStates ==
    ASSUME NEW st, NEW s, NEW order, Len(order) \in Nat, NEW idx
    PROVE  \E g : Visits(g, st, s, order, idx)
<1> DEFINE n == Len(order)
           Visit(x, k) == relink(x, s, order[k], idx[order[k]])
           Rec(g, m) == g = [k \in 0 .. m |-> IF k = 0 THEN st ELSE Visit(g[k - 1], k)]
           after == CHOOSE g : Rec(g, n)
<1>1. relink_all(st, s, order, idx) = after[n]
    BY DEF relink_all
<1>2. \A k : Visit(after[k - 1], k) = relink(after[k - 1], s, order[k], idx[order[k]])
    OBVIOUS
<1> HIDE DEF Visit
<1>3. ASSUME NEW c \in Nat, ~ \E g : Rec(g, c) PROVE FALSE
  <2> DEFINE Bad == {m \in Nat : ~ \E g : Rec(g, m)}
  <2>1. Bad \in SUBSET Nat /\ c \in Bad
      BY <1>3
  <2> HIDE DEF Rec
  <2>2. PICK m \in Bad : \A x \in Bad : m <= x
    <3> HIDE DEF Bad
    <3> QED BY <2>1, SmallestExists
  <2>3. m \in Nat /\ ~ \E g : Rec(g, m)
      OBVIOUS
  <2>4. m # 0
    <3> DEFINE z == [k \in 0 .. 0 |-> st]
    <3>1. z = [k \in 0 .. 0 |-> IF k = 0 THEN st ELSE Visit(z[k - 1], k)]
        OBVIOUS
    <3>2. Rec(z, 0)
        BY <3>1 DEF Rec
    <3> HIDE DEF z
    <3> QED BY <2>3, <3>2
  <2>5. m - 1 \in Nat /\ ~(m <= m - 1)
      BY <2>3, <2>4
  <2>6. PICK g : Rec(g, m - 1)
      BY <2>2, <2>5
  <2>7. g = [k \in 0 .. m - 1 |-> IF k = 0 THEN st ELSE Visit(g[k - 1], k)]
      BY <2>6 DEF Rec
  <2> DEFINE h == [k \in 0 .. m |-> IF k = m THEN Visit(g[m - 1], m) ELSE g[k]]
  <2>8. \A k \in 0 .. m - 1 : g[k] = IF k = 0 THEN st ELSE Visit(g[k - 1], k)
      BY <2>7
  <2>9. \A k \in 0 .. m : h[k] = IF k = m THEN Visit(g[m - 1], m) ELSE g[k]
      OBVIOUS
  <2>10. h = [k \in 0 .. m |-> h[k]]
      OBVIOUS
  <2> HIDE DEF h
  <2>11. ASSUME NEW k \in 0 .. m PROVE h[k] = IF k = 0 THEN st ELSE Visit(h[k - 1], k)
    <3>1. CASE k = m
      <4>1. h[m - 1] = g[m - 1]
          BY <2>3, <2>4, <2>9
      <4> QED BY <2>4, <2>9, <3>1, <4>1
    <3>2. CASE k # m
      <4>1. k \in 0 .. m - 1 /\ (k # 0 => k - 1 \in 0 .. m /\ k - 1 # m)
          BY <2>3, <3>2
      <4>2. h[k] = g[k] /\ (k # 0 => h[k - 1] = g[k - 1])
          BY <2>9, <3>2, <4>1
      <4> QED BY <2>8, <4>1, <4>2
    <3> QED BY <3>1, <3>2
  <2>12. Rec(h, m)
      BY <2>10, <2>11 DEF Rec
  <2> QED BY <2>3, <2>12
<1>4. Rec(after, n)
  <2> HIDE DEF Rec
  <2> QED BY <1>3
<1> HIDE DEF after
<1>5. \A k \in 0 .. n : after[k] = IF k = 0 THEN st ELSE Visit(after[k - 1], k)
    BY <1>4
<1>6. after[0] = st /\ \A k \in 1 .. n : after[k] = Visit(after[k - 1], k)
  <2>1. 0 \in 0 .. n /\ \A k \in 1 .. n : k \in 0 .. n /\ k # 0
      OBVIOUS
  <2> QED BY <1>5, <2>1
<1> QED BY <1>1, <1>2, <1>6 DEF Visits

(* What a recentre of side s may assume, and what it leaves after k visits. *)
Recentring(st, Q, F, s, mine, order, idx) ==
    /\ Lists(st, Q, F) /\ s \in {"B", "S"}
    /\ mine = {x \in st.map : st.at[x][1] = s} /\ mine \cap Range(F) = {}
    /\ order \in SetToSeqs(mine) /\ idx \in [mine -> -1 .. kLevels - 1]

Placed(st, Q, F, s, idx, old, P, done) ==
    /\ Lists(st, Q, F) /\ st.map = old.map /\ st.free = old.free
    /\ \A l \in LevelId : IF l[1] = s THEN Range(Q[l]) \subseteq done ELSE Q[l] = P[l]
    /\ \A x \in Node \ done : st.at[x] = old.at[x]
    /\ \A x \in done : /\ st.at[x] = <<s, idx[x]>>
                       /\ idx[x] >= 0 => x \in Range(Q[<<s, idx[x]>>])

(* With its levels cleared, no order of the side is in a list. *)
LEMMA ClearOK ==
    ASSUME NEW st, NEW Q, NEW F, Lists(st, Q, F), NEW s, NEW idx
    PROVE  \E R : Placed([st EXCEPT !.head = clear(st.head, s), !.tail = clear(st.tail, s)],
                         R, F, s, idx, st, Q, {})
<1> DEFINE new == [st EXCEPT !.head = clear(st.head, s), !.tail = clear(st.tail, s)]
           R == [l \in LevelId |-> IF l[1] = s THEN <<>> ELSE Q[l]]
<1>1. st \in Memory /\ F \in Seq(Node) /\ IsInjective(F) /\ Chained(st.next, st.free, F)
    BY ListsFacts
<1>2. /\ new.next = st.next /\ new.prev = st.prev /\ new.free = st.free /\ new.map = st.map
      /\ new.at = st.at /\ new.head = clear(st.head, s) /\ new.tail = clear(st.tail, s)
    BY <1>1 DEF Memory
<1>3. clear(st.head, s) \in [LevelId -> Ptr] /\ clear(st.tail, s) \in [LevelId -> Ptr]
    BY <1>1, NodeFacts, MemoryFields DEF clear
<1>4. new \in Memory
    BY <1>1, <1>3 DEF Memory
<1>5. \A l \in LevelId : /\ new.head[l] = IF l[1] = s THEN nullptr ELSE st.head[l]
                         /\ new.tail[l] = IF l[1] = s THEN nullptr ELSE st.tail[l]
    BY <1>2 DEF clear
<1> HIDE DEF new
<1>6. <<>> \in Seq(Node) /\ Len(<<>>) = 0 /\ Range(<<>>) = {} /\ IsInjective(<<>>)
    BY DEF Range, IsInjective
<1>7. R \in [LevelId -> Seq(Node)] /\ \A l \in LevelId : R[l] = IF l[1] = s THEN <<>> ELSE Q[l]
    BY <1>6, ListsFacts
<1> HIDE DEF R
<1>8. ASSUME NEW l \in LevelId
      PROVE  /\ LinkedAs(new, l, R[l]) /\ IsInjective(R[l])
             /\ \A x \in Range(R[l]) : new.at[x] = l /\ x \notin Range(F)
  <2>1. /\ Q[l] \in Seq(Node) /\ IsInjective(Q[l]) /\ LinkedAs(st, l, Q[l])
        /\ \A x \in Range(Q[l]) : x \in Node /\ st.at[x] = l /\ x \notin Range(F)
      BY ListsFacts
  <2>2. CASE l[1] = s
    <3>1. R[l] = <<>> /\ new.head[l] = nullptr /\ new.tail[l] = nullptr
        BY <1>5, <1>7, <2>2
    <3>2. LinkedAs(new, l, <<>>)
        BY <1>6, <3>1 DEF LinkedAs, Chained, Nth
    <3> QED BY <1>6, <3>1, <3>2
  <2>3. CASE l[1] # s
    <3>1. R[l] = Q[l] /\ new.head[l] = st.head[l] /\ new.tail[l] = st.tail[l]
        BY <1>5, <1>7, <2>3
    <3>2. LinkedAs(new, l, Q[l])
        BY <1>2, <2>1, <3>1 DEF LinkedAs
    <3> QED BY <1>2, <2>1, <3>1, <3>2
  <2> QED BY <2>2, <2>3
<1>9. Lists(new, R, F)
    BY <1>1, <1>2, <1>4, <1>7, <1>8 DEF Lists
<1>10. Placed(new, R, F, s, idx, st, Q, {})
    BY <1>2, <1>6, <1>7, <1>9 DEF Placed
<1> QED BY <1>10 DEF new


(* One visit puts one more order where idx says. *)
LEMMA VisitOK ==
    ASSUME NEW old, NEW P, NEW F, NEW s, NEW mine, NEW order, NEW idx,
           Recentring(old, P, F, s, mine, order, idx),
           NEW st, NEW Q, NEW done \in SUBSET mine, Placed(st, Q, F, s, idx, old, P, done),
           NEW o \in mine \ done
    PROVE  \E R : Placed(relink(st, s, o, idx[o]), R, F, s, idx, old, P, done \cup {o})
<1> DEFINE i == idx[o]
           new == relink(st, s, o, i)
           R == Visited(Q, s, o, i)
<1>1. /\ Lists(old, P, F) /\ s \in {"B", "S"} /\ i \in -1 .. kLevels - 1
      /\ mine \subseteq Node /\ o \in Node /\ o \notin Range(F) /\ old.at[o][1] = s
  <2>1. Lists(old, P, F) /\ s \in {"B", "S"} /\ idx \in [mine -> -1 .. kLevels - 1]
      BY DEF Recentring
  <2>2. old.map \in SUBSET Node
      BY <2>1, ListsFacts, MemoryFields
  <2> QED BY <2>1, <2>2 DEF Recentring
<1>2. /\ Lists(st, Q, F) /\ st.map = old.map /\ st.free = old.free
      /\ \A l \in LevelId : IF l[1] = s THEN Range(Q[l]) \subseteq done ELSE Q[l] = P[l]
      /\ \A x \in Node \ done : st.at[x] = old.at[x]
      /\ \A x \in done : st.at[x] = <<s, idx[x]>> /\ (idx[x] >= 0 => x \in Range(Q[<<s, idx[x]>>]))
    BY DEF Placed
<1>3. \A l \in LevelId : o \notin Range(Q[l])
  <2>1. ASSUME NEW l \in LevelId, o \in Range(Q[l]) PROVE FALSE
    <3>1. CASE l[1] = s
        BY <1>2, <2>1, <3>1
    <3>2. CASE l[1] # s
      <4>1. o \in Range(P[l])
          BY <1>2, <2>1, <3>2
      <4>2. old.at[o] = l
          BY <1>1, <4>1, ListsFacts
      <4> QED BY <1>1, <3>2, <4>2
    <3> QED BY <3>1, <3>2
  <2> QED BY <2>1
<1>4. Loose(o, Q, F)
    BY <1>1, <1>3 DEF Loose
<1> HIDE DEF i
<1>5. /\ Lists(new, R, F) /\ new.at = Put(st.at, o, <<s, i>>)
      /\ new.map = st.map /\ new.free = st.free
    BY <1>1, <1>2, <1>4, RelinkOK
<1>6. \A x \in Node : new.at[x] = IF x = o THEN <<s, i>> ELSE st.at[x]
  <2>1. st.at \in [Node -> Places]
      BY <1>2, ListsFacts, MemoryFields
  <2> HIDE DEF new
  <2> QED BY <1>1, <1>5, <2>1 DEF Put
<1>7. \A l \in LevelId : Q[l] \in Seq(Node) /\ IsInjective(Q[l])
    BY <1>2, ListsFacts
<1>8. Q \in [LevelId -> Seq(Node)]
    BY <1>2 DEF Lists
<1>9. \A l \in LevelId : R[l] = IF i >= 0 /\ l = <<s, i>> THEN Append(Q[l], o) ELSE Q[l]
    BY <1>8 DEF Visited, Put
<1> HIDE DEF new, R
<1>10. \A l \in LevelId : Range(R[l]) = IF i >= 0 /\ l = <<s, i>> THEN Range(Q[l]) \cup {o} ELSE Range(Q[l])
  <2>1. \A l \in LevelId : Range(Append(Q[l], o)) = Range(Q[l]) \cup {o}
      BY <1>1, <1>3, <1>7, AppendQueue
  <2> QED BY <1>9, <2>1
<1>11. ASSUME NEW l \in LevelId
       PROVE  IF l[1] = s THEN Range(R[l]) \subseteq done \cup {o} ELSE R[l] = P[l]
  <2>1. CASE l[1] = s
      BY <1>2, <1>10, <2>1
  <2>2. CASE l[1] # s
    <3>1. l # <<s, i>>
        BY <2>2
    <3> QED BY <1>2, <1>9, <2>2, <3>1
  <2> QED BY <2>1, <2>2
<1>12. ASSUME NEW x \in done \cup {o}
       PROVE  new.at[x] = <<s, idx[x]>> /\ (idx[x] >= 0 => x \in Range(R[<<s, idx[x]>>]))
  <2>0. x \in mine /\ x \in Node /\ idx[x] \in -1 .. kLevels - 1 /\ kLevels \in Nat
      BY <1>1, NodeFacts DEF Recentring
  <2>1. idx[x] >= 0 => <<s, idx[x]>> \in LevelId
    <3>1. idx[x] >= 0 => idx[x] \in 0 .. kLevels - 1
        BY <2>0
    <3> QED BY <1>1, <3>1 DEF LevelId
  <2>2. CASE x = o
      BY <1>6, <1>10, <2>0, <2>1, <2>2 DEF i
  <2>3. CASE x # o
      BY <1>2, <1>6, <1>10, <2>0, <2>1, <2>3
  <2> QED BY <2>2, <2>3
<1>13. \A x \in Node \ (done \cup {o}) : new.at[x] = old.at[x]
    BY <1>2, <1>6
<1>14. Placed(new, R, F, s, idx, old, P, done \cup {o})
    BY <1>2, <1>5, <1>11, <1>12, <1>13 DEF Placed
<1> QED BY <1>14 DEF new, i

(* A recentre puts every order of the side where idx says, and nothing else moves. *)
LEMMA RecentreOK ==
    ASSUME NEW st, NEW Q, NEW F, NEW s, NEW mine, NEW order, NEW idx,
           Recentring(st, Q, F, s, mine, order, idx)
    PROVE  \E R : Placed(recentre(st, s, order, idx), R, F, s, idx, st, Q, mine)
<1> DEFINE n == Len(order)
           bare == [st EXCEPT !.head = clear(st.head, s), !.tail = clear(st.tail, s)]
           Done(k) == {order[j] : j \in 1 .. k}
<1>1. Lists(st, Q, F) /\ IsFiniteSet(mine) /\ order \in SetToSeqs(mine)
  <2>1. Lists(st, Q, F) /\ order \in SetToSeqs(mine) /\ mine \subseteq st.map
      BY DEF Recentring
  <2>2. mine \subseteq Node
      BY <2>1, ListsFacts, MemoryFields
  <2> QED BY <2>1, <2>2, FS_Subset, NodeFacts
<1>2. /\ n \in Nat
      /\ \A j, k \in 1 .. n : order[j] = order[k] => j = k
      /\ \A k \in 1 .. n : order[k] \in mine
      /\ \A x \in mine : \E k \in 1 .. n : x = order[k]
    BY <1>1, MapOrder
<1>5. \E R : Placed(bare, R, F, s, idx, st, Q, {})
    BY <1>1, ClearOK
<1>a. recentre(st, s, order, idx) = relink_all(bare, s, order, idx)
    BY DEF recentre
<1> HIDE DEF bare
<1>b. PICK g : Visits(g, bare, s, order, idx)
    BY <1>2, LoopStates
<1>3. /\ g[0] = bare /\ relink_all(bare, s, order, idx) = g[n]
      /\ \A k \in 1 .. n : g[k] = relink(g[k - 1], s, order[k], idx[order[k]])
    BY <1>b DEF Visits
<1>4. recentre(st, s, order, idx) = g[n]
    BY <1>3, <1>a
<1> HIDE DEF n
<1>6. ASSUME NEW c \in 0 .. n, ~ \E R : Placed(g[c], R, F, s, idx, st, Q, Done(c)) PROVE FALSE
  <2> DEFINE Bad == {k \in 0 .. n : ~ \E R : Placed(g[k], R, F, s, idx, st, Q, Done(k))}
  <2>1. Bad \in SUBSET Nat /\ c \in Bad
    <3>1. 0 .. n \subseteq Nat
        BY <1>2
    <3> QED BY <1>6, <3>1
  <2> HIDE DEF Done
  <2>2. PICK m \in Bad : \A x \in Bad : m <= x
    <3> HIDE DEF Bad
    <3> QED BY <2>1, SmallestExists
  <2>3. m \in 0 .. n /\ m \in Nat /\ ~ \E R : Placed(g[m], R, F, s, idx, st, Q, Done(m))
      BY <2>1
  <2>4. m # 0
    <3>1. Done(0) = {}
        BY DEF Done
    <3> QED BY <1>3, <1>5, <2>3, <3>1
  <2>5. m - 1 \in 0 .. n /\ ~(m <= m - 1) /\ m \in 1 .. n
      BY <1>2, <2>3, <2>4
  <2>6. PICK R : Placed(g[m - 1], R, F, s, idx, st, Q, Done(m - 1))
      BY <2>2, <2>5
  <2>7. /\ \A k \in 1 .. m : k \in 1 .. n /\ (k = m \/ k \in 1 .. m - 1)
        /\ \A k \in 1 .. m - 1 : k \in 1 .. m /\ k \in 1 .. n /\ k # m
        /\ m \in 1 .. m
      BY <1>2, <2>3, <2>5
  <2>8. /\ Done(m) = Done(m - 1) \cup {order[m]} /\ Done(m - 1) \in SUBSET mine
        /\ order[m] \in mine \ Done(m - 1)
      BY <1>2, <2>5, <2>7 DEF Done
  <2>9. g[m] = relink(g[m - 1], s, order[m], idx[order[m]])
      BY <1>3, <2>5
  <2>10. \E S : Placed(relink(g[m - 1], s, order[m], idx[order[m]]), S, F, s, idx, st, Q,
                       Done(m - 1) \cup {order[m]})
      BY <2>6, <2>8, VisitOK
  <2> QED BY <2>3, <2>8, <2>9, <2>10
<1>7. Done(n) = mine
    BY <1>2
<1>8. n \in 0 .. n
    BY <1>2
<1> HIDE DEF Done
<1> QED BY <1>4, <1>6, <1>7, <1>8


(* The level of a mapped order that is in one. *)
LEMMA PlaceFacts ==
    /\ \A p \in Places : p # NoLevel /\ p[2] >= 0 => p \in LevelId
    /\ \A l \in LevelId : l # NoLevel /\ l[2] >= 0 /\ l[1] \in {"B", "S"} /\ l = <<l[1], l[2]>>
    /\ \A s \in {"B", "S"} : <<s, 0>> \in LevelId /\ \A i : <<s, i>> # NoLevel
<1>1. kLevels \in Nat \ {0}
    BY NodeFacts
<1>2. ASSUME NEW p \in Places, p # NoLevel, p[2] >= 0 PROVE p \in LevelId
  <2>1. p \in {"B", "S"} \X (-1 .. kLevels - 1)
      BY <1>2 DEF Places
  <2>2. p[2] \in 0 .. kLevels - 1
      BY <1>1, <1>2, <2>1
  <2> QED BY <2>1, <2>2 DEF LevelId
<1>3. ASSUME NEW l \in LevelId
      PROVE  l # NoLevel /\ l[2] >= 0 /\ l[1] \in {"B", "S"} /\ l = <<l[1], l[2]>>
    BY <1>1 DEF LevelId, NoLevel
<1>4. \A s \in {"B", "S"} : <<s, 0>> \in LevelId /\ \A i : <<s, i>> # NoLevel
    BY <1>1 DEF LevelId, NoLevel
<1> QED BY <1>2, <1>3, <1>4

(* A new order enters a level: it is last there and the others are where they were. *)
LEMMA EnterOK ==
    ASSUME NEW st, NEW Q, NEW F, Lists(st, Q, F), Homes(st, Q, F),
           NEW l \in LevelId, NEW o, Loose(o, Q, F), o \notin st.map
    PROVE  LET new == add_order(st, l, o)
               R   == Put(Q, l, Append(Q[l], o))
           IN  /\ Lists(new, R, F) /\ Homes(new, R, F) /\ new.map = st.map
               /\ new.at[o] = l /\ o \in Range(R[l]) /\ R[l] # <<>> /\ Last(R[l]) = o
               /\ \A m \in LevelId : m # l => R[m] = Q[m]
<1> DEFINE new == add_order(st, l, o)
           R == Put(Q, l, Append(Q[l], o))
           p == Append(Q[l], o)
<1>1. /\ Lists(new, R, F) /\ new.at = Put(st.at, o, l) /\ new.map = st.map
    BY AddOK
<1>2. st.at \in [Node -> Places] /\ o \in Node /\ Q \in [LevelId -> Seq(Node)] /\ st.map \subseteq Node
    BY ListsFacts, MemoryFields DEF Loose, Lists
<1>3. Q[l] \in Seq(Node) /\ IsInjective(Q[l]) /\ o \notin Range(Q[l])
    BY ListsFacts DEF Loose
<1>4. R[l] = p /\ \A m \in LevelId : m # l => R[m] = Q[m]
    BY <1>2 DEF Put
<1> HIDE DEF new, R
<1>5. \A x \in Node : new.at[x] = IF x = o THEN l ELSE st.at[x]
    BY <1>1, <1>2 DEF Put
<1>6. /\ p \in Seq(Node) /\ Range(p) = Range(Q[l]) \cup {o} /\ Len(p) = Len(Q[l]) + 1
      /\ p[Len(Q[l]) + 1] = o /\ Len(Q[l]) \in Nat
  <2>1. p \in Seq(Node) /\ Range(p) = Range(Q[l]) \cup {o}
      BY <1>2, <1>3, AppendQueue
  <2> QED BY <1>2, <1>3, <2>1, AppendProperties, QueueFacts
<1> HIDE DEF p
<1>7. o \in Range(R[l]) /\ R[l] # <<>> /\ Last(R[l]) = o
  <2>1. Range(p) # {}
      BY <1>6
  <2>2. p # <<>>
      BY <1>6, <2>1, EmptyQueue
  <2> QED BY <1>4, <1>6, <2>2 DEF Last
<1>8. Homes(new, R, F)
  <2>1. ASSUME NEW x \in st.map
        PROVE  /\ x \notin Range(F) /\ new.at[x] # NoLevel
               /\ new.at[x][2] >= 0 => x \in Range(R[new.at[x]])
    <3>1. /\ x \notin Range(F) /\ st.at[x] # NoLevel /\ st.at[x] \in Places
          /\ st.at[x][2] >= 0 => x \in Range(Q[st.at[x]])
        BY <1>2 DEF Homes
    <3>2. new.at[x] = st.at[x]
        BY <1>2, <1>5
    <3>3. ASSUME st.at[x][2] >= 0 PROVE x \in Range(R[st.at[x]])
      <4>1. st.at[x] \in LevelId /\ x \in Range(Q[st.at[x]])
          BY <3>1, <3>3, PlaceFacts
      <4> QED BY <1>4, <1>6, <4>1
    <3> QED BY <3>1, <3>2, <3>3
  <2> QED BY <1>1, <2>1 DEF Homes
<1> QED BY <1>1, <1>2, <1>4, <1>5, <1>7, <1>8 DEF new, R

(* What insert_order leaves: the new order o, of side s, is last in a queue of its *)
(* side, and either the other queues are as they were or those of side s are new.  *)
Inserted(new, R, T, st, Q, s, o) ==
    /\ Lists(new, R, T) /\ Homes(new, R, T) /\ new.map = st.map
    /\ new.at[o] \in LevelId /\ new.at[o][1] = s /\ o \in Range(R[new.at[o]]) /\ o \notin Range(T)
    /\ \/ \E l \in LevelId : l[1] = s /\ R = Put(Q, l, Append(Q[l], o))
       \/ /\ \A l \in LevelId : l[1] # s => R[l] = Q[l]
          /\ R[<<s, 0>>] # <<>> /\ Last(R[<<s, 0>>]) = o

LEMMA InsertOK ==
    ASSUME NEW st, NEW Q, NEW F, Lists(st, Q, F), Homes(st, Q, F), st.free # nullptr,
           NEW s \in {"B", "S"}, NEW new \in insert_order(st, s)
    PROVE  \E R : Inserted(new, R, Tail(F), st, Q, s, st.free)
<1> DEFINE o == st.free
           T == Tail(F)
           al == alloc(st)
           mine == {x \in st.map : st.at[x][1] = s}
<1>1. /\ Loose(o, Q, T) /\ Lists(al, Q, T) /\ al.at = st.at /\ al.map = st.map
      /\ Range(F) = Range(T) \cup {o}
    BY AllocOK
<1>a. new \in {add_order(al, <<s, i>>, o) : i \in 0 .. kLevels - 1}
              \cup UNION {{add_order(recentre(al, s, order, idx), <<s, 0>>, o) :
                              idx \in [mine -> -1 .. kLevels - 1]} : order \in SetToSeqs(mine)}
    BY Zenon DEF insert_order
<1> HIDE DEF al, T, mine, o
<1>2. \/ \E i \in 0 .. kLevels - 1 : new = add_order(al, <<s, i>>, o)
      \/ \E order \in SetToSeqs(mine), idx \in [mine -> -1 .. kLevels - 1] :
            new = add_order(recentre(al, s, order, idx), <<s, 0>>, o)
    BY <1>a
<1>3. o \notin st.map /\ o \notin Range(T) /\ Homes(al, Q, T)
    BY <1>1 DEF Homes, Loose
<1>4. ASSUME NEW i \in 0 .. kLevels - 1, new = add_order(al, <<s, i>>, o)
      PROVE  \E R : Inserted(new, R, T, st, Q, s, o)
  <2> DEFINE l == <<s, i>>
             R == Put(Q, l, Append(Q[l], o))
  <2>1. l \in LevelId /\ l[1] = s
      BY DEF LevelId
  <2>0. new = add_order(al, l, o)
      BY <1>4
  <2> HIDE DEF l
  <2>2. /\ Lists(new, R, T) /\ Homes(new, R, T) /\ new.map = al.map
        /\ new.at[o] = l /\ o \in Range(R[l])
      BY <1>1, <1>3, <2>0, <2>1, EnterOK
  <2>3. Inserted(new, R, T, st, Q, s, o)
    <3>1. \E m \in LevelId : m[1] = s /\ R = Put(Q, m, Append(Q[m], o))
        BY <2>1
    <3> HIDE DEF R
    <3> QED BY <1>1, <1>3, <2>1, <2>2, <3>1 DEF Inserted
  <2> QED BY <2>3
<1>5. ASSUME NEW order \in SetToSeqs(mine), NEW idx \in [mine -> -1 .. kLevels - 1],
             new = add_order(recentre(al, s, order, idx), <<s, 0>>, o)
      PROVE  \E R : Inserted(new, R, T, st, Q, s, o)
  <2> DEFINE mid == recentre(al, s, order, idx)
             l == <<s, 0>>
  <2>1. Recentring(al, Q, T, s, mine, order, idx)
    <3>1. mine = {x \in al.map : al.at[x][1] = s}
        BY <1>1 DEF mine
    <3>2. mine \cap Range(T) = {}
        BY <1>1 DEF mine, Homes
    <3> QED BY <1>1, <3>1, <3>2 DEF Recentring
  <2>2. PICK P : Placed(mid, P, T, s, idx, al, Q, mine)
      BY <2>1, RecentreOK
  <2>0. new = add_order(mid, l, o)
      BY <1>5
  <2> HIDE DEF mid
  <2>3. /\ Lists(mid, P, T) /\ mid.map = st.map
        /\ \A m \in LevelId : IF m[1] = s THEN Range(P[m]) \subseteq mine ELSE P[m] = Q[m]
        /\ \A x \in Node \ mine : mid.at[x] = st.at[x]
        /\ \A x \in mine : /\ mid.at[x] = <<s, idx[x]>>
                           /\ idx[x] >= 0 => x \in Range(P[<<s, idx[x]>>])
      BY <1>1, <2>2 DEF Placed
  <2>4. st.map \subseteq Node /\ st.at \in [Node -> Places]
      BY ListsFacts, MemoryFields
  <2>5. Homes(mid, P, T)
    <3>1. ASSUME NEW x \in st.map
          PROVE  /\ x \notin Range(T) /\ mid.at[x] # NoLevel
                 /\ mid.at[x][2] >= 0 => x \in Range(P[mid.at[x]])
      <4>1. /\ x \notin Range(T) /\ st.at[x] # NoLevel /\ st.at[x] \in Places /\ x \in Node
            /\ st.at[x][2] >= 0 => x \in Range(Q[st.at[x]])
          BY <1>1, <2>4 DEF Homes
      <4>2. CASE x \in mine
        <5>1. mid.at[x] = <<s, idx[x]>> /\ <<s, idx[x]>>[2] = idx[x] /\ <<s, idx[x]>> # NoLevel
            BY <2>3, <4>2, PlaceFacts
        <5> QED BY <2>3, <4>1, <4>2, <5>1
      <4>3. CASE x \notin mine
        <5>1. mid.at[x] = st.at[x] /\ st.at[x][1] # s
            BY <2>3, <4>1, <4>3 DEF mine
        <5>2. ASSUME st.at[x][2] >= 0 PROVE x \in Range(P[st.at[x]])
          <6>1. st.at[x] \in LevelId /\ x \in Range(Q[st.at[x]])
              BY <4>1, <5>2, PlaceFacts
          <6> QED BY <2>3, <5>1, <6>1
        <5> QED BY <4>1, <5>1, <5>2
      <4> QED BY <4>2, <4>3
    <3> QED BY <2>3, <3>1 DEF Homes
  <2>6. Loose(o, P, T)
    <3>1. o \notin mine
        BY <1>3 DEF mine
    <3> QED BY <1>1, <2>3, <3>1 DEF Loose
  <2>7. l \in LevelId /\ l[1] = s
      BY PlaceFacts
  <2> DEFINE R == Put(P, l, Append(P[l], o))
  <2> HIDE DEF l
  <2>8. /\ Lists(new, R, T) /\ Homes(new, R, T) /\ new.map = mid.map
        /\ new.at[o] = l /\ o \in Range(R[l]) /\ R[l] # <<>> /\ Last(R[l]) = o
        /\ \A m \in LevelId : m # l => R[m] = P[m]
      BY <1>3, <2>0, <2>3, <2>5, <2>6, <2>7, EnterOK
  <2> HIDE DEF R
  <2>9. Inserted(new, R, T, st, Q, s, o)
    <3>1. \A m \in LevelId : m[1] # s => R[m] = Q[m]
        BY <2>3, <2>7, <2>8
    <3>2. l = <<s, 0>>
        BY DEF l
    <3> QED BY <1>3, <2>3, <2>7, <2>8, <3>1, <3>2 DEF Inserted
  <2> QED BY <2>9
<1> QED BY <1>2, <1>4, <1>5 DEF T, o


-----------------------------------------------------------------------------
(* The actions of the book, as changes of the queues the memory stands for. *)

(* A pool and levels that start again. *)
LEMMA FreshOK ==
    ASSUME NEW st, st.next = [o \in Node |-> IF o < Capacity THEN o + 1 ELSE nullptr],
           st.prev = [o \in Node |-> nullptr], st.head = NoOrders(LevelId),
           st.tail = NoOrders(LevelId), st.free = 1, st.at = [o \in Node |-> NoLevel],
           st.map = {}, st \in Memory
    PROVE  Lists(st, [l \in LevelId |-> <<>>], [k \in Node |-> k])
<1> DEFINE F == [k \in Node |-> k]
           Q == [l \in LevelId |-> <<>>]
<1>1. Capacity \in Nat \ {0} /\ nullptr \notin Node
    BY NodeFacts
<1>2. F \in Seq(Node) /\ Len(F) = Capacity /\ \A k \in 1 .. Capacity : F[k] = k
    BY <1>1 DEF Node
<1>3. IsInjective(F)
    BY DEF IsInjective
<1>4. <<>> \in Seq(Node) /\ Len(<<>>) = 0 /\ Range(<<>>) = {} /\ IsInjective(<<>>)
    BY DEF Range, IsInjective
<1>5. Q \in [LevelId -> Seq(Node)] /\ \A l \in LevelId : Q[l] = <<>>
    BY <1>4
<1> HIDE DEF F, Q
<1>6. Chained(st.next, st.free, F)
  <2>1. 1 = Nth(F, 1)
      BY <1>1, <1>2 DEF Nth
  <2>2. ASSUME NEW k \in 1 .. Capacity PROVE st.next[F[k]] = Nth(F, k + 1)
    <3>1. st.next[F[k]] = IF k < Capacity THEN k + 1 ELSE nullptr
        BY <1>2 DEF Node
    <3>2. k < Capacity <=> k + 1 \in 1 .. Capacity
        BY <1>1
    <3> QED BY <1>2, <3>1, <3>2 DEF Nth
  <2> QED BY <1>2, <2>1, <2>2 DEF Chained
<1>7. \A l \in LevelId : LinkedAs(st, l, <<>>)
    BY <1>4 DEF LinkedAs, Chained, Nth, NoOrders
<1>8. Lists(st, Q, F)
    BY <1>2, <1>3, <1>4, <1>5, <1>6, <1>7 DEF Lists
<1> QED BY <1>8 DEF Q, F

(* The memory is what an action says it becomes. *)
LEMMA BecomesIs ==
    ASSUME NEW st \in Memory, Becomes(st)
    PROVE  Here' = st
BY DEF Becomes, Here, Memory

(* The map after an order has been inserted. *)
LEMMA MappedOK ==
    ASSUME NEW new, NEW R, NEW T, NEW st, NEW Q, NEW s, NEW o, Inserted(new, R, T, st, Q, s, o),
           o \in Node, NEW gone
    PROVE  LET end == [new EXCEPT !.map = (new.map \ gone) \cup {o}]
           IN  Lists(end, R, T) /\ Homes(end, R, T) /\ end \in Memory
<1> DEFINE M == (new.map \ gone) \cup {o}
           end == [new EXCEPT !.map = M]
<1>1. Lists(new, R, T) /\ Homes(new, R, T) /\ M \in SUBSET Node
  <2>1. Lists(new, R, T) /\ Homes(new, R, T)
      BY DEF Inserted
  <2> QED BY <2>1, ListsFacts, MemoryFields
<1> HIDE DEF M
<1>2. Lists(end, R, T) /\ end.at = new.at /\ end.map = M
    BY <1>1, MapOK
<1>3. \A x \in M : /\ x \notin Range(T) /\ new.at[x] # NoLevel
                   /\ new.at[x][2] >= 0 => x \in Range(R[new.at[x]])
    BY <1>1, PlaceFacts DEF M, Inserted, Homes
<1> HIDE DEF end
<1>4. Homes(end, R, T)
    BY <1>2, <1>3 DEF Homes
<1>5. end \in Memory
    BY <1>2, ListsFacts
<1> QED BY <1>2, <1>4, <1>5 DEF end, M

(* A change of the queues and of the free stack. *)
Moves(Q, F, R, G) ==
    \/ /\ F # <<>> /\ G = Tail(F)
       /\ \E l \in LevelId : R = Put(Q, l, Append(Q[l], Head(F)))
    \/ \E l \in LevelId : \E o \in Range(Q[l]) :
          R = Put(Q, l, Unlink(Q[l], o)) /\ G = <<o>> \o F
    \/ /\ G = F
       /\ \E l, m \in LevelId : \E o \in Range(Q[l]) :
             LET left == Put(Q, l, Unlink(Q[l], o)) IN R = Put(left, m, Append(left[m], o))
    \/ \E s \in {"B", "S"} :
          /\ \A l \in LevelId : l[1] # s => R[l] = Q[l]
          /\ R[<<s, 0>>] # <<>>
          /\ \/ F # <<>> /\ G = Tail(F) /\ Last(R[<<s, 0>>]) = Head(F)
             \/ G = F /\ \E l \in LevelId : l[1] = s /\ Last(R[<<s, 0>>]) \in Range(Q[l])
    \/ R = [l \in LevelId |-> <<>>] /\ G = [k \in Node |-> k]

LEMMA AddStep ==
    ASSUME NEW Q, NEW F, Lists(Here, Q, F), Homes(Here, Q, F), NEW s \in {"B", "S"}, Add(s)
    PROVE  \E R, G : Lists(Here', R, G) /\ Homes(Here', R, G) /\ Moves(Q, F, R, G)
<1> DEFINE st == Here
           o == free_head_
<1>1. st.free = o /\ o # nullptr
    BY DEF Here, Add
<1>2. PICK new \in insert_order(st, s), gone \in {{}} \cup {{x} : x \in mapped} :
         Becomes([new EXCEPT !.map = (new.map \ gone) \cup {o}])
    BY DEF Add
<1> HIDE DEF st
<1>3. PICK R : Inserted(new, R, Tail(F), st, Q, s, o)
    BY <1>1, InsertOK DEF st
<1>4. F # <<>> /\ o = Head(F) /\ o \in Node
  <2>1. F # <<>> /\ o = Head(F) /\ Loose(st.free, Q, Tail(F))
      BY <1>1, AllocOK DEF st
  <2> QED BY <1>1, <2>1 DEF Loose
<1> DEFINE end == [new EXCEPT !.map = (new.map \ gone) \cup {o}]
<1>5. Lists(end, R, Tail(F)) /\ Homes(end, R, Tail(F)) /\ end \in Memory
    BY <1>3, <1>4, MappedOK
<1> HIDE DEF end, o
<1>6. Here' = end
    BY <1>2, <1>5, BecomesIs DEF end
<1>7. Moves(Q, F, R, Tail(F))
  <2>1. \/ \E l \in LevelId : l[1] = s /\ R = Put(Q, l, Append(Q[l], o))
        \/ /\ \A l \in LevelId : l[1] # s => R[l] = Q[l]
           /\ R[<<s, 0>>] # <<>> /\ Last(R[<<s, 0>>]) = o
      BY <1>3 DEF Inserted
  <2> QED BY <1>4, <2>1 DEF Moves
<1> QED BY <1>5, <1>6, <1>7

LEMMA LeaveOK ==
    ASSUME NEW Q, NEW F, Lists(Here, Q, F), Homes(Here, Q, F), NEW o \in mapped, at[o][2] >= 0
    PROVE  LET new == withdraw(Here, o)
               R   == Put(Q, at[o], Unlink(Q[at[o]], o))
           IN  /\ at[o] \in LevelId /\ at[o][1] \in {"B", "S"} /\ o \in Range(Q[at[o]]) /\ o \in Node
               /\ Lists(new, R, <<o>> \o F) /\ Homes(new, R, <<o>> \o F) /\ new.free = o
               /\ \A l \in LevelId : l # at[o] => R[l] = Q[l]
<1> DEFINE st == Here
           l == at[o]
           new == withdraw(st, o)
           R == Put(Q, l, Unlink(Q[l], o))
           G == <<o>> \o F
<1>1. st.at = at /\ st.map = mapped /\ st \in Memory
    BY ListsFacts DEF Here
<1> HIDE DEF st
<1>2. mapped \subseteq Node /\ at \in [Node -> Places] /\ Q \in [LevelId -> Seq(Node)]
    BY <1>1, MemoryFields DEF Lists, st
<1>3. l \in LevelId /\ o \in Range(Q[l]) /\ l[1] \in {"B", "S"}
  <2>1. l # NoLevel /\ o \in Range(Q[l]) /\ l \in Places
      BY <1>1, <1>2 DEF Homes, st
  <2> QED BY <2>1, PlaceFacts
<1>4. /\ Lists(new, R, G) /\ Range(G) = Range(F) \cup {o}
      /\ new.at = Put(st.at, o, NoLevel) /\ new.map = st.map \ {o} /\ new.free = o
    BY <1>3, WithdrawOK DEF st
<1>5. R[l] = Unlink(Q[l], o) /\ \A m \in LevelId : m # l => R[m] = Q[m]
    BY <1>2, <1>3 DEF Put
<1>6. Range(Unlink(Q[l], o)) = Range(Q[l]) \ {o}
    BY <1>3, ListsFacts, UnlinkQueue
<1> HIDE DEF new, R, G
<1>7. \A x \in Node : x # o => new.at[x] = at[x]
    BY <1>1, <1>2, <1>4 DEF Put
<1>8. Homes(new, R, G)
  <2>1. ASSUME NEW x \in mapped, x # o
        PROVE  /\ x \notin Range(G) /\ new.at[x] # NoLevel
               /\ new.at[x][2] >= 0 => x \in Range(R[new.at[x]])
    <3>1. /\ x \notin Range(F) /\ at[x] # NoLevel /\ at[x] \in Places /\ x \in Node
          /\ at[x][2] >= 0 => x \in Range(Q[at[x]])
        BY <1>1, <1>2 DEF Homes, st
    <3>2. ASSUME at[x][2] >= 0 PROVE x \in Range(R[at[x]])
      <4>1. at[x] \in LevelId
          BY <3>1, <3>2, PlaceFacts
      <4> HIDE DEF l
      <4> QED BY <1>5, <1>6, <2>1, <3>1, <3>2, <4>1
    <3> QED BY <1>4, <1>7, <2>1, <3>1, <3>2
  <2> QED BY <1>1, <1>4, <2>1 DEF Homes
<1> QED BY <1>2, <1>3, <1>4, <1>5, <1>8 DEF new, R, G, st


LEMMA FreshTypes ==
    /\ [o \in Node |-> IF o < Capacity THEN o + 1 ELSE nullptr] \in [Node -> Ptr]
    /\ [o \in Node |-> nullptr] \in [Node -> Ptr] /\ NoOrders(LevelId) \in [LevelId -> Ptr]
    /\ 1 \in Ptr /\ [o \in Node |-> NoLevel] \in [Node -> Places]
<1>1. \A o \in Node : o < Capacity => o + 1 \in Node
    BY NodeFacts DEF Node
<1>2. 1 \in Node
    BY NodeFacts DEF Node
<1> QED BY <1>1, <1>2, NodeFacts DEF NoOrders


LEMMA DeleteStep ==
    ASSUME NEW Q, NEW F, Lists(Here, Q, F), Homes(Here, Q, F), NEW o \in Node, Delete(o)
    PROVE  \E R, G : Lists(Here', R, G) /\ Homes(Here', R, G) /\ Moves(Q, F, R, G)
<1> DEFINE new == withdraw(Here, o)
           R == Put(Q, at[o], Unlink(Q[at[o]], o))
           G == <<o>> \o F
<1>1. o \in mapped /\ at[o][2] >= 0 /\ Becomes(new)
    BY DEF Delete
<1>2. /\ at[o] \in LevelId /\ o \in Range(Q[at[o]])
      /\ Lists(new, R, G) /\ Homes(new, R, G)
    BY <1>1, LeaveOK
<1>3. Moves(Q, F, R, G)
    BY <1>2 DEF Moves
<1> HIDE DEF new, R, G
<1>4. Here' = new
    BY <1>1, <1>2, ListsFacts, BecomesIs
<1> QED BY <1>2, <1>3, <1>4

LEMMA ReplaceStep ==
    ASSUME NEW Q, NEW F, Lists(Here, Q, F), Homes(Here, Q, F), NEW o \in Node, Replace(o)
    PROVE  \E R, G : Lists(Here', R, G) /\ Homes(Here', R, G) /\ Moves(Q, F, R, G)
<1> DEFINE l == at[o]
           s == at[o][1]
           mid == withdraw(Here, o)
           left == Put(Q, at[o], Unlink(Q[at[o]], o))
           G == <<o>> \o F
<1>1. PICK new \in insert_order(mid, s), gone \in {{}} \cup {{x} : x \in mapped} :
         Becomes([new EXCEPT !.map = (new.map \ gone) \cup {o}])
    BY DEF Replace
<1>2. o \in mapped /\ at[o][2] >= 0
    BY DEF Replace
<1>3. /\ l \in LevelId /\ s \in {"B", "S"} /\ o \in Range(Q[l])
      /\ Lists(mid, left, G) /\ Homes(mid, left, G) /\ mid.free = o
      /\ \A m \in LevelId : m # l => left[m] = Q[m]
    BY <1>2, LeaveOK
<1>a. left = Put(Q, l, Unlink(Q[l], o)) /\ s = l[1]
    OBVIOUS
<1> HIDE DEF l, s, mid, left
<1>4. Tail(G) = F
    BY <1>3, ListsFacts DEF Lists
<1>5. o # nullptr
    BY NodeFacts
<1>6. PICK R : Inserted(new, R, F, mid, left, s, o)
  <2>1. \E R : Inserted(new, R, Tail(G), mid, left, s, mid.free)
    <3> HIDE DEF G
    <3> QED BY <1>3, <1>5, InsertOK
  <2> QED BY <1>3, <1>4, <2>1
<1> DEFINE end == [new EXCEPT !.map = (new.map \ gone) \cup {o}]
<1>7. Lists(end, R, F) /\ Homes(end, R, F) /\ end \in Memory
    BY <1>6, MappedOK
<1>b. Becomes(end)
    BY <1>1
<1> HIDE DEF end
<1>8. Here' = end
    BY <1>b, <1>7, BecomesIs
<1>9. Moves(Q, F, R, F)
  <2>1. CASE \E m \in LevelId : m[1] = s /\ R = Put(left, m, Append(left[m], o))
    <3>1. \E k, m \in LevelId : \E x \in Range(Q[k]) :
             LET gap == Put(Q, k, Unlink(Q[k], x)) IN R = Put(gap, m, Append(gap[m], x))
        BY <1>3, <1>a, <2>1
    <3> QED BY <3>1 DEF Moves
  <2>2. CASE /\ \A m \in LevelId : m[1] # s => R[m] = left[m]
             /\ R[<<s, 0>>] # <<>> /\ Last(R[<<s, 0>>]) = o
    <3>1. \A m \in LevelId : m[1] # s => R[m] = Q[m]
        BY <1>3, <1>a, <2>2
    <3>2. \E k \in LevelId : k[1] = s /\ Last(R[<<s, 0>>]) \in Range(Q[k])
        BY <1>3, <1>a, <2>2
    <3> QED BY <1>3, <2>2, <3>1, <3>2 DEF Moves
  <2> QED BY <1>6, <2>1, <2>2 DEF Inserted
<1> QED BY <1>7, <1>8, <1>9

LEMMA HaltStep ==
    ASSUME NEW Q, NEW F, Lists(Here, Q, F), Halt
    PROVE  \E R, G : Lists(Here', R, G) /\ Homes(Here', R, G) /\ Moves(Q, F, R, G)
<1> DEFINE st == Here
           end == [FreshPool(st) EXCEPT !.head = NoOrders(LevelId), !.tail = NoOrders(LevelId),
                                        !.map = {}]
           R == [l \in LevelId |-> <<>>]
           G == [k \in Node |-> k]
<1>1. Becomes(end)
    BY DEF Halt
<1>2. st \in Memory
    BY ListsFacts
<1> HIDE DEF st
<1>3. /\ end.next = [o \in Node |-> IF o < Capacity THEN o + 1 ELSE nullptr]
      /\ end.prev = [o \in Node |-> nullptr] /\ end.head = NoOrders(LevelId)
      /\ end.tail = NoOrders(LevelId) /\ end.free = 1 /\ end.at = [o \in Node |-> NoLevel]
      /\ end.map = {}
    BY <1>2 DEF FreshPool, Memory, NoLevel
<1>4. /\ [o \in Node |-> IF o < Capacity THEN o + 1 ELSE nullptr] \in [Node -> Ptr]
      /\ [o \in Node |-> nullptr] \in [Node -> Ptr] /\ NoOrders(LevelId) \in [LevelId -> Ptr]
      /\ 1 \in Ptr /\ [o \in Node |-> NoLevel] \in [Node -> Places]
    BY FreshTypes
<1>5. end \in Memory
    BY <1>2, <1>4 DEF FreshPool, Memory, NoLevel
<1> HIDE DEF end
<1>6. Lists(end, R, G)
    BY <1>3, <1>5, FreshOK
<1>7. Here' = end
    BY <1>1, <1>5, BecomesIs
<1>8. Homes(end, R, G)
    BY <1>3 DEF Homes
<1>9. Moves(Q, F, R, G)
    BY DEF Moves
<1> QED BY <1>6, <1>7, <1>8, <1>9

(***************************************************************************)
(* The inductive invariant: the memory stands for some queues and some     *)
(* stack of free nodes.                                                    *)
(***************************************************************************)
ListsInv == \E Q, F : Lists(Here, Q, F) /\ Homes(Here, Q, F)

LEMMA StartOK ==
    ASSUME ListsInit
    PROVE  /\ Lists(Here, [l \in LevelId |-> <<>>], [k \in Node |-> k])
           /\ Homes(Here, [l \in LevelId |-> <<>>], [k \in Node |-> k])
<1>1. /\ Here.next = [o \in Node |-> IF o < Capacity THEN o + 1 ELSE nullptr]
      /\ Here.prev = [o \in Node |-> nullptr] /\ Here.head = NoOrders(LevelId)
      /\ Here.tail = NoOrders(LevelId) /\ Here.free = 1 /\ Here.at = [o \in Node |-> NoLevel]
      /\ Here.map = {}
    BY DEF ListsInit, Here, NoLevel
<1>2. Here \in Memory
    BY FreshTypes DEF ListsInit, Here, NoLevel, Memory
<1> QED BY <1>1, <1>2, FreshOK DEF Homes

LEMMA StepOK ==
    ASSUME NEW Q, NEW F, Lists(Here, Q, F), Homes(Here, Q, F), ListsNext
    PROVE  \E R, G : Lists(Here', R, G) /\ Homes(Here', R, G) /\ Moves(Q, F, R, G)
BY AddStep, DeleteStep, ReplaceStep, HaltStep DEF ListsNext

(* The memory always stands for queues and a free stack, whatever the handlers did. *)
THEOREM ListsInvariance == ListsSpec => []ListsInv
<1>1. ListsInit => ListsInv
    BY StartOK DEF ListsInv
<1>2. ListsInv /\ [ListsNext]_nodes => ListsInv'
  <2>1. ASSUME ListsInv, ListsNext PROVE ListsInv'
      BY <2>1, StepOK DEF ListsInv
  <2>2. ASSUME ListsInv, UNCHANGED nodes PROVE ListsInv'
    <3>1. Here' = Here
        BY <2>2 DEF nodes, Here
    <3> QED BY <2>2, <3>1 DEF ListsInv
  <2> QED BY <2>1, <2>2
<1> QED BY <1>1, <1>2, PTL DEF ListsSpec


-----------------------------------------------------------------------------
(* Backwards, a level is walked in the reverse order. *)
LEMMA BackwardsIs ==
    ASSUME NEW st, NEW l, NEW q \in Seq(Node), IsInjective(q), LinkedAs(st, l, q)
    PROVE  Walk(st.prev, st.tail[l]) = Reverse(q)
<1> DEFINE n == Len(q)
           r == Reverse(q)
<1>1. n \in Nat /\ DOMAIN q = 1 .. n /\ \A k \in 1 .. n : q[k] \in Node
    BY QueueFacts
<1>2. \A k \in 1 .. n : n - k + 1 \in 1 .. n
    BY <1>1
<1>3. r = [k \in 1 .. n |-> q[n - k + 1]]
    BY DEF Reverse
<1>4. r \in Seq(Node) /\ Len(r) = n /\ DOMAIN r = 1 .. n /\ \A k \in 1 .. n : r[k] = q[n - k + 1]
  <2> HIDE DEF n, r
  <2> QED BY <1>1, <1>2, <1>3
<1> HIDE DEF r
<1>5. IsInjective(r)
  <2>1. ASSUME NEW j \in 1 .. n, NEW k \in 1 .. n, r[j] = r[k] PROVE j = k
    <3>1. n - j + 1 = n - k + 1
        BY <1>1, <1>2, <1>4, <2>1 DEF IsInjective
    <3> QED BY <1>1, <3>1
  <2> QED BY <1>4, <2>1 DEF IsInjective
<1>6. st.tail[l] = Nth(q, n) /\ \A k \in 1 .. n : st.prev[q[k]] = Nth(q, k - 1)
    BY DEF LinkedAs
<1> HIDE DEF n
<1>7. ASSUME NEW k \in 1 .. n + 1 PROVE Nth(r, k) = Nth(q, n - k + 1)
  <2>1. CASE k \in 1 .. n
      BY <1>2, <1>4, <2>1 DEF Nth, n
  <2>2. CASE k = n + 1
    <3>1. k \notin 1 .. n /\ n - k + 1 \notin 1 .. n
        BY <1>1, <2>2
    <3> QED BY <1>4, <3>1 DEF Nth, n
  <2> QED BY <1>1, <2>1, <2>2
<1>8. Chained(st.prev, st.tail[l], r)
  <2>1. st.tail[l] = Nth(r, 1)
    <3>1. 1 \in 1 .. n + 1 /\ n - 1 + 1 = n
        BY <1>1
    <3> QED BY <1>6, <1>7, <3>1
  <2>2. ASSUME NEW k \in 1 .. n PROVE st.prev[r[k]] = Nth(r, k + 1)
    <3>1. k + 1 \in 1 .. n + 1 /\ n - (k + 1) + 1 = (n - k + 1) - 1
        BY <1>1
    <3>2. st.prev[r[k]] = Nth(q, (n - k + 1) - 1)
        BY <1>2, <1>4, <1>6
    <3> QED BY <1>7, <3>1, <3>2
  <2> QED BY <1>4, <2>1, <2>2 DEF Chained
<1> QED BY <1>4, <1>5, <1>8, WalkIs DEF r

(* What walks of the memory meet. *)
LEMMA WalksOf ==
    ASSUME NEW st, NEW Q, NEW F, Lists(st, Q, F)
    PROVE  /\ Walk(st.next, st.free) = F
           /\ \A l \in LevelId : /\ Walk(st.next, st.head[l]) = Q[l]
                                 /\ Walk(st.prev, st.tail[l]) = Reverse(Q[l])
           /\ [l \in LevelId |-> Walk(st.next, st.head[l])] = Q
<1>1. Walk(st.next, st.free) = F
    BY ListsFacts, WalkIs
<1>2. ASSUME NEW l \in LevelId
      PROVE  Walk(st.next, st.head[l]) = Q[l] /\ Walk(st.prev, st.tail[l]) = Reverse(Q[l])
  <2>1. Q[l] \in Seq(Node) /\ IsInjective(Q[l]) /\ LinkedAs(st, l, Q[l])
      BY ListsFacts
  <2>2. Chained(st.next, st.head[l], Q[l])
      BY <2>1 DEF LinkedAs
  <2> QED BY <2>1, <2>2, WalkIs, BackwardsIs
<1>3. Q = [l \in LevelId |-> Q[l]]
    BY DEF Lists
<1> QED BY <1>1, <1>2, <1>3

LEMMA WalksAre ==
    ASSUME NEW Q, NEW F, Lists(Here, Q, F)
    PROVE  /\ Walk(next, free_head_) = F
           /\ \A l \in LevelId : /\ Walk(next, head[l]) = Q[l]
                                 /\ Walk(prev, tail[l]) = Reverse(Q[l])
           /\ [l \in LevelId |-> Walk(next, head[l])] = Q
<1> DEFINE st == Here
<1>1. /\ st.next = next /\ st.prev = prev /\ st.head = head /\ st.tail = tail
      /\ st.free = free_head_
    BY DEF Here
<1>2. Lists(st, Q, F)
    OBVIOUS
<1> HIDE DEF st
<1> QED BY <1>1, <1>2, WalksOf

(***************************************************************************)
(* Every level reads the same forwards and backwards, a mapped order is in *)
(* the list its level_idx names, and the free list never runs into the     *)
(* book: for every capacity and after any sequence of adds, deletes,       *)
(* replaces, recentres and halts.                                          *)
(***************************************************************************)
THEOREM ListsAreSound == ListsSpec => []WellLinked
<1>1. ListsInv => WellLinked
  <2> SUFFICES ASSUME NEW Q, NEW F, Lists(Here, Q, F), Homes(Here, Q, F) PROVE WellLinked
      BY DEF ListsInv
  <2>1. Here.at = at /\ Here.map = mapped
      BY DEF Here
  <2>2. at \in [Node -> Places] /\ mapped \subseteq Node
      BY <2>1, ListsFacts, MemoryFields
  <2>3. ASSUME NEW o \in mapped, at[o][2] >= 0 PROVE o \in Range(Walk(next, head[at[o]]))
    <3>1. at[o] # NoLevel /\ at[o] \in Places /\ o \in Range(Q[at[o]])
        BY <2>1, <2>2, <2>3 DEF Homes
    <3>2. at[o] \in LevelId
        BY <2>3, <3>1, PlaceFacts
    <3> QED BY <3>1, <3>2, WalksAre
  <2>4. \A l \in LevelId : Walk(prev, tail[l]) = Reverse(Walk(next, head[l]))
      BY WalksAre
  <2>5. IsInjective(Walk(next, free_head_))
      BY WalksAre, ListsFacts
  <2>6. \A l \in LevelId : Range(Walk(next, free_head_)) \cap Range(Walk(next, head[l])) = {}
      BY WalksAre, ListsFacts
  <2>7. Range(Walk(next, free_head_)) \cap mapped = {}
      BY <2>1, WalksAre DEF Homes
  <2> QED BY <2>3, <2>4, <2>5, <2>6, <2>7 DEF WellLinked
<1> QED BY <1>1, ListsInvariance, PTL

(* The queues of a sound memory do not share an order. *)
LEMMA Apart ==
    ASSUME NEW st, NEW Q, NEW F, Lists(st, Q, F)
    PROVE  \A l \in LevelId : /\ IsInjective(Q[l]) /\ Range(Q[l]) \cap Range(F) = {}
                              /\ \A m \in LevelId \ {l} : Range(Q[l]) \cap Range(Q[m]) = {}
<1>1. \A l \in LevelId : IsInjective(Q[l]) /\ \A o \in Range(Q[l]) : st.at[o] = l /\ o \notin Range(F)
    BY ListsFacts
<1> QED BY <1>1

(***************************************************************************)
(* The linked nodes implement the queues and the free stack OrderBook is   *)
(* written with, for every capacity and number of levels: add_order        *)
(* appends, remove_order closes the gap, and the pool hands out the slot   *)
(* freed last.                                                             *)
(***************************************************************************)
THEOREM ListsImplementQueues == ListsSpec => ImplementsQueues
<1> DEFINE fifo == [l \in LevelId |-> Walk(next, head[l])]
           stack == Walk(next, free_head_)
<1>0. Queues!LevelId = LevelId /\ Queues!Node = Node
    BY DEF Queues!LevelId, Queues!Node, LevelId, Node
<1>a. /\ \A q : Queues!Range(q) = Range(q) /\ Queues!Last(q) = Last(q)
      /\ \A q : Queues!IsInjective(q) <=> IsInjective(q)
      /\ \A q, x : Queues!Unlink(q, x) = Unlink(q, x)
    BY DEF Queues!Range, Range, Queues!Last, Last, Queues!IsInjective, IsInjective,
           Queues!Unlink, Unlink, Queues!RemoveAt, RemoveAt
<1>1. ListsInit => Queues!QueuesInit
  <2> SUFFICES ASSUME ListsInit PROVE Queues!QueuesInit
      OBVIOUS
  <2>1. fifo = [l \in LevelId |-> <<>>] /\ stack = [k \in Node |-> k]
      BY StartOK, WalksAre
  <2> QED BY <1>0, <2>1 DEF Queues!QueuesInit, Queues!AllFree
<1>2. ListsInv /\ [ListsNext]_nodes => [Queues!QueuesNext]_<<fifo, stack>>
  <2> SUFFICES ASSUME ListsInv, [ListsNext]_nodes PROVE [Queues!QueuesNext]_<<fifo, stack>>
      OBVIOUS
  <2>1. CASE UNCHANGED nodes
      BY <2>1 DEF nodes
  <2>2. CASE ListsNext
    <3>1. PICK Q, F : Lists(Here, Q, F) /\ Homes(Here, Q, F)
        BY DEF ListsInv
    <3>2. PICK R, G : Lists(Here', R, G) /\ Moves(Q, F, R, G)
        BY <2>2, <3>1, StepOK
    <3>3. fifo = Q /\ stack = F /\ Q \in [LevelId -> Seq(Node)] /\ F \in Seq(Node)
        BY <3>1, WalksAre DEF Lists
    <3>4. fifo' = R /\ stack' = G
      <4> DEFINE st == Here'
      <4>1. st.next = next' /\ st.head = head' /\ st.free = free_head_'
          BY DEF Here
      <4>2. Lists(st, R, G)
          BY <3>2
      <4> HIDE DEF st
      <4> QED BY <4>1, <4>2, WalksOf
    <3>5. fifo \in [LevelId -> Seq(Node)] /\ fifo' \in [LevelId -> Seq(Node)]
        BY <3>2, <3>3, <3>4 DEF Lists
    <3> HIDE DEF fifo, stack
    <3>6. ASSUME NEW l \in LevelId, F # <<>>, G = Tail(F), R = Put(Q, l, Append(Q[l], Head(F)))
          PROVE  Queues!QueuesNext
      <4>1. /\ stack # <<>> /\ stack' = Tail(stack)
            /\ fifo' = [fifo EXCEPT ![l] = Append(fifo[l], Head(stack))]
          BY <3>3, <3>4, <3>6 DEF Put
      <4>2. Queues!Enqueue(l)
          BY <4>1 DEF Queues!Enqueue, fifo, stack
      <4> QED BY <1>0, <4>2 DEF Queues!QueuesNext
    <3>7. ASSUME NEW l \in LevelId, NEW o \in Range(Q[l]),
                 R = Put(Q, l, Unlink(Q[l], o)), G = <<o>> \o F
          PROVE  Queues!QueuesNext
      <4>1. /\ o \in Queues!Range(fifo[l]) /\ stack' = <<o>> \o stack
            /\ fifo' = [fifo EXCEPT ![l] = Queues!Unlink(fifo[l], o)]
          BY <1>a, <3>3, <3>4, <3>7 DEF Put
      <4>2. Queues!Leave(l, o)
          BY <4>1 DEF Queues!Leave, fifo, stack
      <4>3. o \in Node
          BY <3>3, QueueFacts
      <4> QED BY <1>0, <4>2, <4>3 DEF Queues!QueuesNext
    <3>8. ASSUME NEW l \in LevelId, NEW m \in LevelId, NEW o \in Range(Q[l]), G = F,
                 LET left == Put(Q, l, Unlink(Q[l], o)) IN R = Put(left, m, Append(left[m], o))
          PROVE  Queues!QueuesNext
      <4> DEFINE left == [fifo EXCEPT ![l] = Queues!Unlink(fifo[l], o)]
      <4>1. /\ o \in Queues!Range(fifo[l]) /\ stack' = stack
            /\ fifo' = [left EXCEPT ![m] = Append(left[m], o)]
          BY <1>a, <3>3, <3>4, <3>8 DEF Put
      <4>2. Queues!Requeue(l, o, m)
          BY <4>1 DEF Queues!Requeue, fifo, stack
      <4>3. o \in Node
          BY <3>3, QueueFacts
      <4> QED BY <1>0, <4>2, <4>3 DEF Queues!QueuesNext
    <3>9. ASSUME NEW s \in {"B", "S"}, \A l \in LevelId : l[1] # s => R[l] = Q[l],
                 R[<<s, 0>>] # <<>>,
                 \/ F # <<>> /\ G = Tail(F) /\ Last(R[<<s, 0>>]) = Head(F)
                 \/ G = F /\ \E l \in LevelId : l[1] = s /\ Last(R[<<s, 0>>]) \in Range(Q[l])
          PROVE  Queues!QueuesNext
      <4> DEFINE mine == {l \in LevelId : l[1] = s}
                 others == LevelId \ mine
      <4>1. /\ \A l \in others : fifo'[l] = fifo[l]
            /\ fifo'[<<s, 0>>] # <<>>
            /\ \/ stack # <<>> /\ Queues!Last(fifo'[<<s, 0>>]) = Head(stack) /\ stack' = Tail(stack)
               \/ (\E l \in mine : Queues!Last(fifo'[<<s, 0>>]) \in Queues!Range(fifo[l])) /\ stack' = stack
          BY <1>a, <3>3, <3>4, <3>9
      <4>2. /\ \A l \in mine : Queues!IsInjective(fifo'[l]) /\ Queues!Range(fifo'[l]) \cap Queues!Range(stack') = {}
            /\ \A l \in mine : \A m \in LevelId \ {l} : Queues!Range(fifo'[l]) \cap Queues!Range(fifo'[m]) = {}
          BY <1>a, <3>2, <3>4, Apart
      <4>3. Queues!Rearrange(s)
          BY <1>0, <4>1, <4>2 DEF Queues!Rearrange, fifo, stack
      <4> QED BY <4>3 DEF Queues!QueuesNext
    <3>10. ASSUME R = [l \in LevelId |-> <<>>], G = [k \in Node |-> k] PROVE Queues!QueuesNext
      <4>1. Queues!Drain
          BY <1>0, <3>4, <3>10 DEF Queues!Drain, Queues!AllFree, fifo, stack
      <4> QED BY <4>1 DEF Queues!QueuesNext
    <3>11. Queues!QueuesNext
        BY <3>2, <3>6, <3>7, <3>8, <3>9, <3>10 DEF Moves
    <3> QED BY <3>11
  <2> QED BY <2>1, <2>2
<1> QED BY <1>1, <1>2, ListsInvariance, PTL DEF ListsSpec, ImplementsQueues, Queues!QueuesSpec
=============================================================================

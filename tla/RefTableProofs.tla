--------------------------- MODULE RefTableProofs ---------------------------
(***************************************************************************)
(* Proofs about RefTable for every set of objects, every hash and every    *)
(* number of references: each node of the table is in the chain of its     *)
(* object or in the free list, and what the host holds is counted exactly. *)
(*                                                                         *)
(* A list is described without recursion: it is the least set of nodes     *)
(* that holds the head and is closed under links.                          *)
(***************************************************************************)
EXTENDS RefTable, FiniteSetTheorems, WellFoundedInduction, TLAPS

ClosedBy(links, S) == \A n \in S : links[n] # NIL => links[n] \in S

(* S is what next leads to from head, in a table of the given size. *)
IsChain(size, head, links, S) ==
  /\ S \subseteq 0 .. size - 1 /\ ClosedBy(links, S)
  /\ IF head = NIL THEN S = {}
     ELSE /\ head \in S
          /\ \A T \in SUBSET (0 .. size - 1) : head \in T /\ ClosedBy(links, T) => S \subseteq T

FreeNodes(size, os) == {n \in 0 .. size - 1 : os[n] = NULL}
UsedNodes(size, os) == {n \in 0 .. size - 1 : os[n] # NULL}
Bucket(size, os, b) == {n \in 0 .. size - 1 : os[n] # NULL /\ MainPos(os[n], size) = b}

(* The fields of a table have their types. *)
TableTyped(size, os, links, bucks, free) ==
  /\ size \in Nat \ {0}
  /\ os \in [0 .. size - 1 -> Object \cup {NULL}]
  /\ links \in [0 .. size - 1 -> 0 .. size - 1 \cup {NIL}]
  /\ bucks \in [0 .. size - 1 -> 0 .. size - 1 \cup {NIL}]
  /\ free \in 0 .. size - 1 \cup {NIL}

(* No node is linked twice, and none that is linked begins a list. *)
LinksApart(size, links, bucks, free) ==
  /\ \A i, j \in 0 .. size - 1 : links[i] = links[j] /\ links[i] # NIL => i = j
  /\ \A i \in 0 .. size - 1 : links[i] # NIL => links[i] # free
  /\ \A i, b \in 0 .. size - 1 : links[i] # NIL => links[i] # bucks[b]

(* Each node is in the list it belongs to. *)
ListsRight(size, os, links, bucks, free) ==
  /\ IsChain(size, free, links, FreeNodes(size, os))
  /\ \A b \in 0 .. size - 1 : IsChain(size, bucks[b], links, Bucket(size, os, b))

OneNode(size, os) == \A i, j \in 0 .. size - 1 : os[i] = os[j] /\ os[i] # NULL => i = j

(* What Add, Resize and Release keep, of the table with these fields. *)
TableGood(size, os, links, bucks, free, used) ==
  /\ TableTyped(size, os, links, bucks, free)
  /\ LinksApart(size, links, bucks, free)
  /\ ListsRight(size, os, links, bucks, free)
  /\ used = Cardinality(UsedNodes(size, os))
  /\ OneNode(size, os)

(* The count of a node is what the host holds of its object. *)
CountsRight ==
  /\ refs \in [Node -> Nat] /\ held \in [Object -> Nat]
  /\ \A o \in Object : held[o] <= MaxHeld[o]
  /\ \A n \in Node : refs[n] = IF obj[n] = NULL THEN 0 ELSE held[obj[n]]
  /\ \A o \in Object : held[o] > 0 => \E n \in Node : obj[n] = o

RefInv == TableGood(numofslots, obj, next, buckets, freelist, slotused) /\ CountsRight
-----------------------------------------------------------------------------
(* Induction over the natural numbers, as statements about sets. *)
LEMMA NatLess ==
  \E R : IsWellFoundedOn(R, Nat) /\ \A x, y \in Nat : y < x => <<y, x>> \in R
<1>1. \A x, y \in Nat : y < x => <<y, x>> \in OpToRel(<, Nat)
  BY Zenon DEF OpToRel
<1> QED
  BY <1>1, NatLessThanWellFounded, Zenon

(* A set of natural numbers has a least element. *)
LEMMA NatMin ==
  ASSUME NEW T \in SUBSET Nat, T # {}
  PROVE \E x \in T : \A y \in T : x <= y
<1>1. PICK R : IsWellFoundedOn(R, Nat) /\ \A x, y \in Nat : y < x => <<y, x>> \in R
  BY NatLess
<1>2. \E x \in T : \A y \in T : ~(<<y, x>> \in R)
  BY <1>1, WFMin, Zenon
<1>3. \A x, y \in Nat : y < x => <<y, x>> \in R
  BY <1>1
<1>4. \E x \in T : \A y \in T : ~(y < x)
  BY <1>2, <1>3, Zenon
<1> QED
  BY <1>4

(* A bounded set of natural numbers has a greatest element. *)
LEMMA NatMax ==
  ASSUME NEW N \in Nat, NEW T \in SUBSET (0 .. N), T # {}
  PROVE \E x \in T : \A y \in T : y <= x
<1> DEFINE U == {u \in Nat : \A y \in T : y <= u}
<1>1. N \in U /\ U \in SUBSET Nat
  OBVIOUS
<1>2. PICK u \in U : \A w \in U : u <= w
  BY <1>1, NatMin
<1>3. u \in T
  <2>1. SUFFICES ASSUME u \notin T PROVE FALSE
    OBVIOUS
  <2>2. u > 0
    <3>1. PICK y \in T : TRUE
      OBVIOUS
    <3>2. y \in Nat /\ y <= u /\ y # u
      BY <1>2, <2>1, <3>1
    <3> QED
      BY <1>2, <3>2
  <2>3. u - 1 \in U
    BY <1>2, <2>1, <2>2
  <2> QED
    BY <1>2, <2>2, <2>3
<1> QED
  BY <1>2, <1>3

(* What holds of 0 and goes from each number to the next holds of all. *)
LEMMA NatInd ==
  ASSUME NEW S, 0 \in S, \A n \in Nat : n \in S => n + 1 \in S
  PROVE Nat \subseteq S
<1>1. SUFFICES ASSUME Nat \ S # {} PROVE FALSE
  OBVIOUS
<1>2. PICK m \in Nat \ S : \A y \in Nat \ S : m <= y
  BY <1>1, NatMin
<1>3. m # 0 /\ m - 1 \in Nat /\ m - 1 \in S
  BY <1>2
<1> QED
  BY <1>2, <1>3
-----------------------------------------------------------------------------
(* The function that Chain is computed with. *)
Begins(head) == {head} \ {NIL}
Grows(links, r) == r \cup ({links[n] : n \in r} \ {NIL})
Approx(head, links, h, n) ==
  h[0] = Begins(head) /\ \A k \in Nat : k > 0 /\ k <= n => h[k] = Grows(links, h[k - 1])
IsReach(head, links, g) ==
  g = [k \in Nat |-> IF k = 0 THEN Begins(head) ELSE Grows(links, g[k - 1])]

(* It exists: each of its first values has an approximation, *)
LEMMA ApproxExists ==
  ASSUME NEW head, NEW links, NEW n \in Nat
  PROVE \E h : Approx(head, links, h, n)
<1> DEFINE S == {m \in Nat : \E h : Approx(head, links, h, m)}
<1>1. 0 \in S
  <2> DEFINE h == [k \in Nat |-> Begins(head)]
  <2>1. Approx(head, links, h, 0)
    BY DEF Approx
  <2> QED
    BY <2>1
<1>2. ASSUME NEW m \in Nat, m \in S
      PROVE m + 1 \in S
  <2>1. PICK h : Approx(head, links, h, m)
    BY <1>2
  <2> DEFINE h2 == [k \in Nat |-> IF k = m + 1 THEN Grows(links, h[m]) ELSE h[k]]
  <2>2. h2[m + 1] = Grows(links, h[m]) /\ \A k \in Nat : k # m + 1 => h2[k] = h[k]
    OBVIOUS
  <2> HIDE DEF h2
  <2>3. h2[0] = Begins(head)
    BY <2>1, <2>2 DEF Approx
  <2>4. ASSUME NEW k \in Nat, k > 0, k <= m + 1
        PROVE h2[k] = Grows(links, h2[k - 1])
    <3>1. CASE k = m + 1
      <4>1. k - 1 = m /\ m # m + 1
        BY <3>1
      <4> QED
        BY <2>2, <3>1, <4>1
    <3>2. CASE k # m + 1
      <4>1. k <= m /\ k - 1 \in Nat /\ k - 1 # m + 1
        BY <2>4, <3>2
      <4>2. h[k] = Grows(links, h[k - 1])
        BY <2>1, <2>4, <4>1 DEF Approx
      <4> QED
        BY <2>2, <3>2, <4>1, <4>2
    <3> QED
      BY <3>1, <3>2
  <2>5. Approx(head, links, h2, m + 1)
    BY <2>3, <2>4 DEF Approx
  <2> QED
    BY <2>5
<1>3. Nat \subseteq S
  <2> HIDE DEF S
  <2> QED
    BY <1>1, <1>2, NatInd
<1> QED
  BY <1>3

(* and two approximations agree. *)
LEMMA ApproxAgree ==
  ASSUME NEW head, NEW links, NEW n \in Nat, NEW m \in Nat, NEW g, NEW h,
         Approx(head, links, g, n), Approx(head, links, h, m), NEW k \in Nat, k <= n, k <= m
  PROVE g[k] = h[k]
<1> DEFINE S == {i \in Nat : i <= n /\ i <= m => g[i] = h[i]}
<1>1. 0 \in S
  BY DEF Approx
<1>2. ASSUME NEW i \in Nat, i \in S
      PROVE i + 1 \in S
  <2>1. SUFFICES ASSUME i + 1 <= n, i + 1 <= m PROVE g[i + 1] = h[i + 1]
    OBVIOUS
  <2>2. i + 1 \in Nat /\ i + 1 > 0 /\ (i + 1) - 1 = i /\ i <= n /\ i <= m
    BY <2>1
  <2>3. g[i + 1] = Grows(links, g[(i + 1) - 1]) /\ h[i + 1] = Grows(links, h[(i + 1) - 1])
    BY <2>1, <2>2 DEF Approx
  <2>4. g[i] = h[i]
    BY <1>2, <2>2
  <2> QED
    BY <2>2, <2>3, <2>4
<1>3. Nat \subseteq S
  <2> HIDE DEF S
  <2> QED
    BY <1>1, <1>2, NatInd
<1> QED
  BY <1>3

(* So the function they approximate exists. *)
LEMMA ReachExists ==
  ASSUME NEW head, NEW links
  PROVE \E g : IsReach(head, links, g)
<1> DEFINE a(k) == CHOOSE h : Approx(head, links, h, k)
           g == [k \in Nat |-> a(k)[k]]
<1>1. \A k \in Nat : Approx(head, links, a(k), k)
  BY ApproxExists
<1>2. \A k \in Nat : g[k] = a(k)[k]
  OBVIOUS
<1> HIDE DEF a
<1>3. ASSUME NEW k \in Nat
      PROVE g[k] = IF k = 0 THEN Begins(head) ELSE Grows(links, g[k - 1])
  <2>1. CASE k = 0
    BY <1>1, <1>2, <2>1 DEF Approx
  <2>2. CASE k # 0
    <3>1. k - 1 \in Nat /\ k > 0 /\ k <= k /\ k - 1 <= k /\ k - 1 <= k - 1
      BY <2>2
    <3>2. Approx(head, links, a(k), k) /\ Approx(head, links, a(k - 1), k - 1)
      BY <1>1, <3>1
    <3>3. a(k)[k] = Grows(links, a(k)[k - 1])
      BY <3>1, <3>2 DEF Approx
    <3>4. a(k)[k - 1] = a(k - 1)[k - 1]
      BY <3>1, <3>2, ApproxAgree
    <3> QED
      BY <1>2, <2>2, <3>1, <3>3, <3>4
  <2> QED
    BY <2>1, <2>2
<1>4. DOMAIN g = Nat
  OBVIOUS
<1>5. g = [k \in Nat |-> g[k]]
  OBVIOUS
<1> HIDE DEF g
<1>6. IsReach(head, links, g)
  BY <1>3, <1>4, <1>5 DEF IsReach
<1> QED
  BY <1>6

(* Chain is a value of that function. *)
LEMMA ChainIsReach ==
  ASSUME NEW head, NEW links
  PROVE \E g : IsReach(head, links, g) /\ Chain(head, links) = g[numofslots]
<1> DEFINE G == CHOOSE g : IsReach(head, links, g)
<1>1. IsReach(head, links, G)
  BY ReachExists
<1>2. Chain(head, links) = G[numofslots]
  BY DEF Chain, IsReach, Begins, Grows
<1> QED
  BY <1>1, <1>2

(* What the function reaches is on the list, *)
LEMMA ReachInside ==
  ASSUME NEW head, NEW links, NEW g, IsReach(head, links, g), NEW T,
         head # NIL => head \in T, ClosedBy(links, T), NEW k \in Nat
  PROVE g[k] \subseteq T
<1> DEFINE S == {i \in Nat : g[i] \subseteq T}
<1>1. 0 \in S
  BY DEF IsReach, Begins
<1>2. ASSUME NEW i \in Nat, i \in S
      PROVE i + 1 \in S
  <2>1. g[i + 1] = Grows(links, g[(i + 1) - 1]) /\ (i + 1) - 1 = i
    BY DEF IsReach
  <2> QED
    BY <1>2, <2>1 DEF Grows, ClosedBy
<1>3. Nat \subseteq S
  <2> HIDE DEF S
  <2> QED
    BY <1>1, <1>2, NatInd
<1> QED
  BY <1>3

(* and it gains a node with each step until it has them all. *)
LEMMA ReachGrows ==
  ASSUME numofslots \in Nat, NEW links \in [Node -> Node \cup {NIL}], NEW head \in Node,
         NEW g, IsReach(head, links, g), NEW k \in Nat
  PROVE head \in g[k] /\ (ClosedBy(links, g[k]) \/ Cardinality(g[k]) >= k + 1)
<1>1. IsFiniteSet(Node)
  BY FS_Interval DEF Node
<1>2. head # NIL /\ ClosedBy(links, Node)
  BY DEF Node, NIL, ClosedBy
<1>3. \A i \in Nat : g[i] \subseteq Node
  BY <1>2, ReachInside
<1>4. \A i \in Nat : IsFiniteSet(g[i]) /\ Cardinality(g[i]) \in Nat
  BY <1>1, <1>3, FS_Subset, FS_CardinalityType
<1> DEFINE S == {i \in Nat : head \in g[i] /\ (ClosedBy(links, g[i]) \/ Cardinality(g[i]) >= i + 1)}
<1>5. 0 \in S
  <2>1. g[0] = {head}
    BY <1>2 DEF IsReach, Begins
  <2>2. Cardinality(g[0]) = 1
    BY <2>1, FS_Singleton
  <2>3. Cardinality(g[0]) >= 0 + 1
    BY <2>2
  <2> QED
    BY <2>1, <2>3
<1>6. ASSUME NEW i \in Nat, i \in S
      PROVE i + 1 \in S
  <2>1. g[i + 1] = Grows(links, g[i])
    <3>1. (i + 1) - 1 = i /\ i + 1 # 0 /\ i + 1 \in Nat
      OBVIOUS
    <3> QED
      BY <3>1 DEF IsReach
  <2>2. head \in g[i + 1] /\ g[i] \subseteq g[i + 1]
    BY <1>6, <2>1 DEF Grows
  <2>3. CASE ClosedBy(links, g[i])
    <3>1. g[i + 1] = g[i]
      BY <2>1, <2>3 DEF Grows, ClosedBy
    <3> QED
      BY <2>2, <2>3, <3>1
  <2>4. CASE ~ClosedBy(links, g[i])
    <3>1. PICK n \in g[i] : links[n] # NIL /\ links[n] \notin g[i]
      BY <2>4 DEF ClosedBy
    <3>2. links[n] \in g[i + 1]
      BY <2>1, <3>1 DEF Grows
    <3>3. i + 1 \in Nat /\ IsFiniteSet(g[i + 1]) /\ Cardinality(g[i + 1]) \in Nat
          /\ Cardinality(g[i]) \in Nat
      BY <1>4
    <3>4. Cardinality(g[i]) <= Cardinality(g[i + 1]) /\ Cardinality(g[i + 1]) # Cardinality(g[i])
      BY <2>2, <3>1, <3>2, <3>3, FS_Subset
    <3>5. Cardinality(g[i]) >= i + 1
      BY <1>6, <2>4
    <3>6. Cardinality(g[i + 1]) >= (i + 1) + 1
      BY <3>3, <3>4, <3>5
    <3> QED
      BY <2>2, <3>6
  <2> QED
    BY <2>3, <2>4
<1>7. Nat \subseteq S
  <2> HIDE DEF S
  <2> QED
    BY <1>5, <1>6, NatInd
<1> QED
  BY <1>7

(* Chain computes the list: no list is longer than the table. *)
LEMMA ChainIsList ==
  ASSUME numofslots \in Nat \ {0}, NEW links \in [Node -> Node \cup {NIL}], NEW head \in Node \cup {NIL}
  PROVE IsChain(numofslots, head, links, Chain(head, links))
<1>1. PICK g : IsReach(head, links, g) /\ Chain(head, links) = g[numofslots]
  BY ChainIsReach
<1>2. numofslots \in Nat
  OBVIOUS
<1>3. \A T : (head # NIL => head \in T) /\ ClosedBy(links, T) => g[numofslots] \subseteq T
  BY <1>1, <1>2, ReachInside
<1>4. CASE head = NIL
  <2>1. ClosedBy(links, {})
    BY DEF ClosedBy
  <2>2. g[numofslots] = {}
    BY <1>3, <1>4, <2>1
  <2> QED
    BY <1>1, <1>4, <2>1, <2>2 DEF IsChain
<1>5. CASE head # NIL
  <2>1. head \in Node /\ ClosedBy(links, Node)
    BY <1>5 DEF ClosedBy
  <2>2. g[numofslots] \subseteq Node
    BY <1>3, <2>1
  <2>3. IsFiniteSet(Node) /\ Cardinality(Node) = numofslots
    BY <1>2, FS_Interval DEF Node
  <2>4. Cardinality(g[numofslots]) <= numofslots /\ Cardinality(g[numofslots]) \in Nat
    BY <2>2, <2>3, FS_Subset, FS_CardinalityType
  <2>5. head \in g[numofslots] /\ (ClosedBy(links, g[numofslots]) \/ Cardinality(g[numofslots]) >= numofslots + 1)
    BY <1>1, <1>2, <2>1, ReachGrows
  <2>6. ClosedBy(links, g[numofslots])
    BY <1>2, <2>4, <2>5
  <2> QED
    BY <1>1, <1>3, <1>5, <2>2, <2>5, <2>6 DEF IsChain, Node
<1> QED
  BY <1>4, <1>5

(* There is one such list only. *)
LEMMA ListUnique ==
  ASSUME NEW size, NEW head, NEW links, NEW S, NEW T,
         IsChain(size, head, links, S), IsChain(size, head, links, T)
  PROVE S = T
BY DEF IsChain
-----------------------------------------------------------------------------
(* What becomes of a list when links are written. *)

(* Links outside it are no matter. *)
LEMMA ListKept ==
  ASSUME NEW size, NEW head, NEW links, NEW links2, NEW S, IsChain(size, head, links, S),
         \A x \in S : links2[x] = links[x]
  PROVE IsChain(size, head, links2, S)
<1>1. S \subseteq 0 .. size - 1 /\ ClosedBy(links, S) /\ ClosedBy(links2, S)
  BY DEF IsChain, ClosedBy
<1>2. ASSUME NEW T \in SUBSET (0 .. size - 1), head # NIL, head \in T, ClosedBy(links2, T)
      PROVE S \subseteq T
  <2>1. ClosedBy(links, S \cap T) /\ S \cap T \in SUBSET (0 .. size - 1)
    BY <1>1, <1>2 DEF ClosedBy
  <2>2. head \in S \cap T
    BY <1>2 DEF IsChain
  <2>3. S \subseteq S \cap T
    BY <1>2, <2>1, <2>2 DEF IsChain
  <2> QED
    BY <2>3
<1> QED
  BY <1>1, <1>2 DEF IsChain

(* A node is put before the first one. *)
LEMMA ListPush ==
  ASSUME NEW size, NEW head, NEW links, NEW links2, NEW S, IsChain(size, head, links, S),
         NEW f \in 0 .. size - 1, f # NIL, f \notin S, links2[f] = head, \A x \in S : links2[x] = links[x]
  PROVE IsChain(size, f, links2, S \cup {f})
<1>1. IsChain(size, head, links2, S)
  BY ListKept
<1>2. S \cup {f} \subseteq 0 .. size - 1 /\ ClosedBy(links2, S \cup {f})
  BY <1>1 DEF IsChain, ClosedBy
<1>3. ASSUME NEW T \in SUBSET (0 .. size - 1), f \in T, ClosedBy(links2, T)
      PROVE S \subseteq T
  BY <1>1, <1>3 DEF IsChain, ClosedBy
<1> QED
  BY <1>2, <1>3 DEF IsChain

(* The first node is taken away. *)
LEMMA ListPop ==
  ASSUME NEW size, NEW head, NEW links, NEW links2, NEW S, IsChain(size, head, links, S),
         head # NIL, \A x \in S : links[x] # head, \A x \in S \ {head} : links2[x] = links[x]
  PROVE IsChain(size, links[head], links2, S \ {head})
<1>1. head \in S /\ S \subseteq 0 .. size - 1 /\ ClosedBy(links, S)
  BY DEF IsChain
<1>2. ClosedBy(links2, S \ {head})
  BY <1>1 DEF ClosedBy
<1>3. CASE links[head] = NIL
  <2>1. ClosedBy(links, {head}) /\ {head} \in SUBSET (0 .. size - 1)
    BY <1>1, <1>3 DEF ClosedBy
  <2>2. S \ {head} = {}
    BY <2>1 DEF IsChain
  <2> QED
    BY <1>2, <1>3, <2>2 DEF IsChain
<1>4. CASE links[head] # NIL
  <2>1. links[head] \in S \ {head}
    BY <1>1, <1>4 DEF ClosedBy
  <2>2. ASSUME NEW T \in SUBSET (0 .. size - 1), links[head] \in T, ClosedBy(links2, T)
        PROVE S \ {head} \subseteq T
    <3> DEFINE U == (S \cap T) \cup {head}
    <3>1. U \in SUBSET (0 .. size - 1) /\ ClosedBy(links, U)
      BY <1>1, <2>1, <2>2 DEF ClosedBy
    <3>2. S \subseteq U
      BY <3>1 DEF IsChain
    <3> QED
      BY <3>2
  <2> QED
    BY <1>1, <1>2, <1>4, <2>1, <2>2 DEF IsChain
<1> QED
  BY <1>3, <1>4

(* Every node but the first is linked from another of the list. *)
LEMMA ListPrevious ==
  ASSUME NEW size, NEW head, NEW links, NEW S, IsChain(size, head, links, S), NEW n \in S, n # head
  PROVE \E p \in S : p # n /\ links[p] = n
<1>1. SUFFICES ASSUME \A p \in S : p # n => links[p] # n PROVE FALSE
  OBVIOUS
<1>2. head # NIL /\ head \in S \ {n} /\ S \ {n} \in SUBSET (0 .. size - 1)
  BY DEF IsChain
<1>3. ClosedBy(links, S \ {n})
  BY <1>1 DEF IsChain, ClosedBy
<1> QED
  BY <1>2, <1>3 DEF IsChain

(* A node behind the first is taken out. *)
LEMMA ListCut ==
  ASSUME NEW size, NEW head, NEW links, NEW links2, NEW S, IsChain(size, head, links, S),
         NEW n \in S, NEW p \in S, n # head, p # n, n # NIL, links[p] = n,
         \A x \in S : links[x] = n => x = p, links2[p] = links[n],
         \A x \in S \ {n, p} : links2[x] = links[x]
  PROVE IsChain(size, head, links2, S \ {n})
<1>1. head # NIL /\ head \in S \ {n} /\ S \subseteq 0 .. size - 1 /\ ClosedBy(links, S)
  BY DEF IsChain
<1>2. ClosedBy(links2, S \ {n})
  BY <1>1 DEF ClosedBy
<1>3. ASSUME NEW T \in SUBSET (0 .. size - 1), head \in T, ClosedBy(links2, T)
      PROVE S \ {n} \subseteq T
  <2>1. CASE p \in T
    <3> DEFINE U == (S \cap T) \cup {n}
    <3>1. U \in SUBSET (0 .. size - 1)
      BY <1>1
    <3>2. ASSUME NEW x \in U, links[x] # NIL
          PROVE links[x] \in U
      <4>1. CASE x = n
        BY <1>1, <1>3, <2>1, <3>2, <4>1 DEF ClosedBy
      <4>2. CASE x = p
        BY <4>2
      <4>3. CASE x # n /\ x # p
        BY <1>1, <1>3, <3>2, <4>3 DEF ClosedBy
      <4> QED
        BY <4>1, <4>2, <4>3
    <3>3. ClosedBy(links, U)
      BY <3>2 DEF ClosedBy
    <3>4. S \subseteq U
      BY <1>1, <1>3, <3>1, <3>3 DEF IsChain
    <3> QED
      BY <3>4
  <2>2. CASE p \notin T
    <3> DEFINE U == (S \cap T) \ {n}
    <3>1. U \in SUBSET (0 .. size - 1) /\ head \in U
      BY <1>1, <1>3
    <3>2. ClosedBy(links, U)
      BY <1>1, <1>3, <2>2 DEF ClosedBy
    <3>3. S \subseteq U
      BY <1>1, <3>1, <3>2 DEF IsChain
    <3> QED
      BY <3>3
  <2> QED
    BY <2>1, <2>2
<1> QED
  BY <1>1, <1>2, <1>3 DEF IsChain
-----------------------------------------------------------------------------
(* The node of an object that is added comes from the free list. *)
LEMMA AddGood ==
  ASSUME NEW size, NEW os, NEW links, NEW bucks, NEW free, NEW used,
         TableGood(size, os, links, bucks, free, used), free # NIL,
         NEW o \in Object, \A n \in 0 .. size - 1 : os[n] # o
  PROVE LET b == MainPos(o, size)
        IN TableGood(size, [os EXCEPT ![free] = o], [links EXCEPT ![free] = bucks[b]],
                     [bucks EXCEPT ![b] = free], links[free], used + 1)
<1> DEFINE N == 0 .. size - 1
           b == MainPos(o, size)
           os2 == [os EXCEPT ![free] = o]
           links2 == [links EXCEPT ![free] = bucks[b]]
           bucks2 == [bucks EXCEPT ![b] = free]
<1>1. /\ size \in Nat \ {0} /\ os \in [N -> Object \cup {NULL}] /\ links \in [N -> N \cup {NIL}]
      /\ bucks \in [N -> N \cup {NIL}] /\ free \in N
  BY DEF TableGood, TableTyped
<1>2. b \in N
  BY <1>1, ObjectAssumption DEF MainPos
<1>3. /\ os2 \in [N -> Object \cup {NULL}] /\ links2 \in [N -> N \cup {NIL}]
      /\ bucks2 \in [N -> N \cup {NIL}] /\ links[free] \in N \cup {NIL}
  BY <1>1, <1>2
<1>4. /\ os2[free] = o /\ \A n \in N : n # free => os2[n] = os[n]
      /\ links2[free] = bucks[b] /\ \A n \in N : n # free => links2[n] = links[n]
      /\ bucks2[b] = free /\ \A c \in N : c # b => bucks2[c] = bucks[c]
  BY <1>1, <1>2
<1> HIDE DEF b, os2, links2, bucks2
<1>5. /\ \A i, j \in N : links[i] = links[j] /\ links[i] # NIL => i = j
      /\ \A i \in N : links[i] # NIL => links[i] # free
      /\ \A i, c \in N : links[i] # NIL => links[i] # bucks[c]
  BY DEF TableGood, LinksApart
<1>6. /\ IsChain(size, free, links, FreeNodes(size, os))
      /\ \A c \in N : IsChain(size, bucks[c], links, Bucket(size, os, c))
  BY DEF TableGood, ListsRight
<1>7. free \in FreeNodes(size, os) /\ os[free] = NULL
  BY <1>6 DEF IsChain, FreeNodes
<1>8. \A c \in N : bucks[c] # NIL => bucks[c] \in Bucket(size, os, c)
  BY <1>6 DEF IsChain
<1>9. links[free] # NIL => links[free] \in FreeNodes(size, os)
  BY <1>6, <1>7 DEF IsChain, ClosedBy
<1>10. /\ FreeNodes(size, os2) = FreeNodes(size, os) \ {free}
       /\ Bucket(size, os2, b) = Bucket(size, os, b) \cup {free}
       /\ \A c \in N : c # b => Bucket(size, os2, c) = Bucket(size, os, c)
       /\ UsedNodes(size, os2) = UsedNodes(size, os) \cup {free}
       /\ free \notin UsedNodes(size, os) /\ \A c \in N : free \notin Bucket(size, os, c)
  BY <1>1, <1>4, <1>7, ObjectAssumption DEF FreeNodes, Bucket, UsedNodes, b
<1>11. IsChain(size, links[free], links2, FreeNodes(size, os2))
  <2>1. /\ \A x \in FreeNodes(size, os) : links[x] # free
        /\ \A x \in FreeNodes(size, os) \ {free} : links2[x] = links[x]
    BY <1>4, <1>5 DEF FreeNodes
  <2> QED
    BY <1>6, <1>10, <2>1, ListPop
<1>12. IsChain(size, free, links2, Bucket(size, os2, b))
  <2>1. IsChain(size, bucks[b], links, Bucket(size, os, b))
    BY <1>2, <1>6
  <2>2. free \notin Bucket(size, os, b) /\ \A x \in Bucket(size, os, b) : links2[x] = links[x]
    BY <1>2, <1>4, <1>10 DEF Bucket
  <2> QED
    BY <1>1, <1>4, <1>10, <2>1, <2>2, ListPush
<1>13. ASSUME NEW c \in N, c # b
       PROVE IsChain(size, bucks[c], links2, Bucket(size, os2, c))
  <2>1. \A x \in Bucket(size, os, c) : links2[x] = links[x]
    BY <1>4, <1>10 DEF Bucket
  <2> QED
    BY <1>6, <1>10, <1>13, <2>1, ListKept
<1>14. ListsRight(size, os2, links2, bucks2, links[free])
  BY <1>4, <1>11, <1>12, <1>13 DEF ListsRight
<1>15. \A c \in N : c # b /\ bucks[b] # NIL => bucks[b] # bucks[c]
  BY <1>2, <1>8 DEF Bucket, NIL
<1>16. /\ bucks[b] # NIL => bucks[b] # free /\ bucks[b] # links[free]
       /\ \A i \in N : bucks[b] # NIL => links[i] # bucks[b]
  <2>1. \A x \in Bucket(size, os, b) : x \notin FreeNodes(size, os)
    BY DEF Bucket, FreeNodes
  <2> QED
    BY <1>2, <1>5, <1>7, <1>8, <1>9, <2>1
<1>17. LinksApart(size, links2, bucks2, links[free])
  <2>1. \A i, j \in N : links2[i] = links2[j] /\ links2[i] # NIL => i = j
    BY <1>4, <1>5, <1>16
  <2>2. \A i \in N : links2[i] # NIL => links2[i] # links[free]
    BY <1>1, <1>4, <1>5, <1>16
  <2>3. \A i, c \in N : links2[i] # NIL => links2[i] # bucks2[c]
    BY <1>4, <1>5, <1>15, <1>16
  <2> QED
    BY <2>1, <2>2, <2>3 DEF LinksApart
<1>18. used + 1 = Cardinality(UsedNodes(size, os2))
  <2>1. IsFiniteSet(UsedNodes(size, os))
    <3>1. IsFiniteSet(N)
      BY <1>1, FS_Interval
    <3>2. UsedNodes(size, os) \in SUBSET N
      BY DEF UsedNodes
    <3> QED
      BY <3>1, <3>2, FS_Subset
  <2> QED
    BY <1>10, <2>1, FS_AddElement DEF TableGood
<1>19. OneNode(size, os2)
  BY <1>1, <1>4 DEF TableGood, OneNode
<1>20. TableTyped(size, os2, links2, bucks2, links[free])
  BY <1>1, <1>3 DEF TableTyped
<1>21. TableGood(size, os2, links2, bucks2, links[free], used + 1)
  BY <1>14, <1>17, <1>18, <1>19, <1>20 DEF TableGood
<1> QED
  BY <1>21 DEF b, os2, links2, bucks2
-----------------------------------------------------------------------------
(* The table without the object of node n, which goes to the free list. *)
LEMMA UnlinkGood ==
  ASSUME NEW size, NEW os, NEW links, NEW bucks, NEW free, NEW used,
         TableGood(size, os, links, bucks, free, used), NEW n \in 0 .. size - 1, os[n] # NULL,
         NEW links2, NEW bucks2,
         LET b == MainPos(os[n], size)
         IN \/ /\ bucks[b] = n /\ links2 = [links EXCEPT ![n] = free]
               /\ bucks2 = [bucks EXCEPT ![b] = links[n]]
            \/ /\ bucks[b] # n /\ bucks2 = bucks
               /\ \E p \in 0 .. size - 1 : /\ links[p] = n
                     /\ links2 = [links EXCEPT ![p] = links[n], ![n] = free]
  PROVE TableGood(size, [os EXCEPT ![n] = NULL], links2, bucks2, n, used - 1)
<1> DEFINE N == 0 .. size - 1
           b == MainPos(os[n], size)
           os2 == [os EXCEPT ![n] = NULL]
<1>1. /\ size \in Nat \ {0} /\ os \in [N -> Object \cup {NULL}] /\ links \in [N -> N \cup {NIL}]
      /\ bucks \in [N -> N \cup {NIL}] /\ free \in N \cup {NIL} /\ n # NIL
  BY DEF TableGood, TableTyped, NIL
<1>2. b \in N
  <2>1. os[n] \in Object
    BY <1>1
  <2> QED
    BY <1>1, <2>1, ObjectAssumption DEF MainPos
<1>3. /\ os2 \in [N -> Object \cup {NULL}]
      /\ os2[n] = NULL /\ \A m \in N : m # n => os2[m] = os[m]
  BY <1>1
<1>4. /\ \A i, j \in N : links[i] = links[j] /\ links[i] # NIL => i = j
      /\ \A i \in N : links[i] # NIL => links[i] # free
      /\ \A i, c \in N : links[i] # NIL => links[i] # bucks[c]
  BY DEF TableGood, LinksApart
<1>5. /\ IsChain(size, free, links, FreeNodes(size, os))
      /\ \A c \in N : IsChain(size, bucks[c], links, Bucket(size, os, c))
  BY DEF TableGood, ListsRight
<1>6. /\ FreeNodes(size, os2) = FreeNodes(size, os) \cup {n}
      /\ Bucket(size, os2, b) = Bucket(size, os, b) \ {n}
      /\ \A c \in N : c # b => Bucket(size, os2, c) = Bucket(size, os, c)
      /\ UsedNodes(size, os2) = UsedNodes(size, os) \ {n}
      /\ n \in Bucket(size, os, b) /\ n \in UsedNodes(size, os) /\ n \notin FreeNodes(size, os)
  BY <1>1, <1>3, ObjectAssumption DEF FreeNodes, Bucket, UsedNodes
<1>7. /\ \A x \in Bucket(size, os, b) : x \in N /\ x \notin FreeNodes(size, os)
      /\ \A c \in N : c # b => \A x \in Bucket(size, os, b) : x \notin Bucket(size, os, c)
      /\ \A c \in N : Bucket(size, os, c) \subseteq N
      /\ FreeNodes(size, os) \subseteq N
  BY DEF Bucket, FreeNodes
<1>8. /\ free # NIL => free \in FreeNodes(size, os)
      /\ \A c \in N : bucks[c] # NIL => bucks[c] \in Bucket(size, os, c)
      /\ \A c \in N : \A x \in Bucket(size, os, c) : links[x] # NIL => links[x] \in Bucket(size, os, c)
  BY <1>5 DEF IsChain, ClosedBy
<1> HIDE DEF b, os2
<1>9. /\ free # n /\ \A c \in N : free # NIL => free # bucks[c]
      /\ \A c, d \in N : bucks[c] = bucks[d] /\ bucks[c] # NIL => c = d
  BY <1>1, <1>6, <1>7, <1>8 DEF Bucket, FreeNodes
<1>10. /\ links2 \in [N -> N \cup {NIL}] /\ bucks2 \in [N -> N \cup {NIL}]
       /\ \A c \in N : c # b => bucks2[c] = bucks[c]
       /\ \A c \in N : c # b => \A x \in Bucket(size, os, c) : links2[x] = links[x]
       /\ IsChain(size, n, links2, FreeNodes(size, os2))
       /\ IsChain(size, bucks2[b], links2, Bucket(size, os2, b))
       /\ LinksApart(size, links2, bucks2, n)
  <2>1. CASE bucks[b] = n /\ links2 = [links EXCEPT ![n] = free] /\ bucks2 = [bucks EXCEPT ![b] = links[n]]
    <3>1. /\ links2 \in [N -> N \cup {NIL}] /\ bucks2 \in [N -> N \cup {NIL}]
          /\ links2[n] = free /\ \A m \in N : m # n => links2[m] = links[m]
          /\ bucks2[b] = links[n] /\ \A c \in N : c # b => bucks2[c] = bucks[c]
      BY <1>1, <1>2, <2>1
    <3>2. IsChain(size, n, links2, FreeNodes(size, os2))
      <4>1. n \notin FreeNodes(size, os) /\ \A x \in FreeNodes(size, os) : links2[x] = links[x]
        BY <1>6, <1>7, <3>1
      <4> QED
        BY <1>1, <1>5, <1>6, <3>1, <4>1, ListPush
    <3>3. IsChain(size, links[n], links2, Bucket(size, os2, b))
      <4>1. /\ \A x \in Bucket(size, os, b) : links[x] # n
            /\ \A x \in Bucket(size, os, b) \ {n} : links2[x] = links[x]
            /\ IsChain(size, n, links, Bucket(size, os, b))
        BY <1>1, <1>2, <1>4, <1>5, <1>7, <2>1, <3>1
      <4> QED
        <5>1. PICK S : S = Bucket(size, os, b)
          OBVIOUS
        <5>2. /\ \A x \in S : links[x] # n
              /\ \A x \in S \ {n} : links2[x] = links[x]
              /\ IsChain(size, n, links, S) /\ n # NIL
          BY <1>1, <4>1, <5>1
        <5>3. IsChain(size, links[n], links2, S \ {n})
          BY <5>2, ListPop
        <5> QED
          BY <1>6, <5>1, <5>3
    <3>4. LinksApart(size, links2, bucks2, n)
      <4>1. \A i, j \in N : links2[i] = links2[j] /\ links2[i] # NIL => i = j
        BY <1>1, <1>4, <3>1
      <4>2. \A i \in N : links2[i] # NIL => links2[i] # n
        BY <1>1, <1>2, <1>4, <1>9, <2>1, <3>1
      <4>3. \A i, c \in N : links2[i] # NIL => links2[i] # bucks2[c]
        BY <1>1, <1>2, <1>4, <1>9, <3>1
      <4> QED
        BY <4>1, <4>2, <4>3 DEF LinksApart
    <3>5. \A c \in N : c # b => \A x \in Bucket(size, os, c) : links2[x] = links[x]
      BY <1>6, <1>7, <3>1
    <3> QED
      BY <3>1, <3>2, <3>3, <3>4, <3>5
  <2>2. CASE /\ bucks[b] # n /\ bucks2 = bucks
              /\ \E p \in N : links[p] = n /\ links2 = [links EXCEPT ![p] = links[n], ![n] = free]
    <3>1. PICK p \in N : links[p] = n /\ links2 = [links EXCEPT ![p] = links[n], ![n] = free]
      BY <2>2
    <3>2. PICK q \in Bucket(size, os, b) : q # n /\ links[q] = n
      BY <1>2, <1>5, <1>6, <2>2, ListPrevious
    <3>3. p = q /\ p # n /\ p \in Bucket(size, os, b)
      BY <1>1, <1>4, <1>7, <3>1, <3>2
    <3>4. /\ links2 \in [N -> N \cup {NIL}] /\ links2[n] = free /\ links2[p] = links[n]
          /\ \A m \in N : m # n /\ m # p => links2[m] = links[m]
      BY <1>1, <3>1, <3>3
    <3>5. IsChain(size, n, links2, FreeNodes(size, os2))
      <4>1. n \notin FreeNodes(size, os) /\ \A x \in FreeNodes(size, os) : links2[x] = links[x]
        BY <1>6, <1>7, <3>3, <3>4
      <4> QED
        BY <1>1, <1>5, <1>6, <3>4, <4>1, ListPush
    <3>6. IsChain(size, bucks[b], links2, Bucket(size, os2, b))
      <4>1. /\ \A x \in Bucket(size, os, b) : links[x] = n => x = p
            /\ \A x \in Bucket(size, os, b) \ {n, p} : links2[x] = links[x]
            /\ IsChain(size, bucks[b], links, Bucket(size, os, b))
        BY <1>1, <1>2, <1>4, <1>5, <1>7, <3>1, <3>4
      <4> QED
        <5>1. n \in Bucket(size, os, b) /\ n # bucks[b] /\ n # NIL /\ links[p] = n
          BY <1>1, <1>6, <2>2, <3>1
        <5>2. PICK S, head : S = Bucket(size, os, b) /\ head = bucks[b]
          OBVIOUS
        <5>3. /\ \A x \in S : links[x] = n => x = p
              /\ \A x \in S \ {n, p} : links2[x] = links[x]
              /\ IsChain(size, head, links, S) /\ n \in S /\ p \in S /\ p # n /\ n # head
              /\ links2[p] = links[n]
          BY <3>3, <3>4, <4>1, <5>1, <5>2
        <5>4. IsChain(size, head, links2, S \ {n})
          BY <5>1, <5>3, ListCut
        <5> QED
          BY <1>6, <5>2, <5>4
    <3>7. LinksApart(size, links2, bucks2, n)
      <4>1. \A i, j \in N : links2[i] = links2[j] /\ links2[i] # NIL => i = j
        BY <1>1, <1>4, <3>1, <3>3, <3>4
      <4>2. \A i \in N : links2[i] # NIL => links2[i] # n
        BY <1>1, <1>4, <1>9, <3>1, <3>3, <3>4
      <4>3. \A i, c \in N : links2[i] # NIL => links2[i] # bucks2[c]
        BY <1>1, <1>4, <1>9, <2>2, <3>1, <3>3, <3>4
      <4> QED
        BY <4>1, <4>2, <4>3 DEF LinksApart
    <3>8. \A c \in N : c # b => \A x \in Bucket(size, os, c) : links2[x] = links[x]
      BY <1>6, <1>7, <3>3, <3>4
    <3> QED
      BY <1>1, <2>2, <3>4, <3>5, <3>6, <3>7, <3>8
  <2>3. \/ bucks[b] = n /\ links2 = [links EXCEPT ![n] = free] /\ bucks2 = [bucks EXCEPT ![b] = links[n]]
        \/ /\ bucks[b] # n /\ bucks2 = bucks
           /\ \E p \in N : links[p] = n /\ links2 = [links EXCEPT ![p] = links[n], ![n] = free]
    BY DEF b
  <2> QED
    BY <2>1, <2>2, <2>3
<1>13. ListsRight(size, os2, links2, bucks2, n)
  <2>1. ASSUME NEW c \in N, c # b
        PROVE IsChain(size, bucks2[c], links2, Bucket(size, os2, c))
    <3>1. IsChain(size, bucks[c], links, Bucket(size, os, c)) /\ \A x \in Bucket(size, os, c) : links2[x] = links[x]
      BY <1>5, <1>10, <2>1
    <3>2. IsChain(size, bucks[c], links2, Bucket(size, os, c))
      BY <3>1, ListKept
    <3> QED
      BY <1>6, <1>10, <2>1, <3>2
  <2> QED
    BY <1>10, <2>1 DEF ListsRight
<1>14. used - 1 = Cardinality(UsedNodes(size, os2))
  <2>1. IsFiniteSet(UsedNodes(size, os))
    <3>1. IsFiniteSet(N)
      BY <1>1, FS_Interval
    <3>2. UsedNodes(size, os) \in SUBSET N
      BY DEF UsedNodes
    <3> QED
      BY <3>1, <3>2, FS_Subset
  <2>2. used = Cardinality(UsedNodes(size, os))
    BY DEF TableGood
  <2> QED
    BY <1>6, <2>1, <2>2, FS_RemoveElement
<1>15. OneNode(size, os2)
  BY <1>1, <1>3 DEF TableGood, OneNode
<1>16. TableTyped(size, os2, links2, bucks2, n)
  BY <1>1, <1>3, <1>10 DEF TableTyped
<1>17. TableGood(size, os2, links2, bucks2, n, used - 1)
  BY <1>10, <1>13, <1>14, <1>15, <1>16 DEF TableGood
<1> QED
  BY <1>17 DEF os2
-----------------------------------------------------------------------------
(* AllocNodes links the free nodes in ascending order. *)
LEMMA AscendingList ==
  ASSUME NEW size \in Nat, NEW a \in 0 .. size - 1, NEW links,
         \A n \in a .. size - 1 : links[n] = IF n = size - 1 THEN NIL ELSE n + 1
  PROVE IsChain(size, a, links, a .. size - 1)
<1> DEFINE S == a .. size - 1
<1>1. S \subseteq 0 .. size - 1 /\ a \in S /\ a # NIL
  BY DEF NIL
<1>2. ClosedBy(links, S)
  BY DEF ClosedBy, NIL
<1>3. ASSUME NEW T \in SUBSET (0 .. size - 1), a \in T, ClosedBy(links, T)
      PROVE S \subseteq T
  <2>1. SUFFICES ASSUME S \ T # {} PROVE FALSE
    OBVIOUS
  <2>2. PICK m \in S \ T : \A y \in S \ T : m <= y
    <3>1. S \ T \in SUBSET Nat
      OBVIOUS
    <3> QED
      BY <2>1, <3>1, NatMin
  <2>3. m - 1 \in S /\ m - 1 \in T /\ links[m - 1] = m /\ m # NIL
    <3>1. m \in S /\ m # a
      BY <1>3, <2>2
    <3>2. m - 1 \in S /\ ~(m <= m - 1) /\ m - 1 # size - 1 /\ (m - 1) + 1 = m /\ m # NIL
      BY <3>1 DEF NIL
    <3> QED
      BY <2>2, <3>2
  <2> QED
    BY <1>3, <2>2, <2>3 DEF ClosedBy
<1> QED
  BY <1>1, <1>2, <1>3 DEF IsChain

(* x is the greatest element of S, NIL when there is none. *)
LastIs(S, x) == IF S = {} THEN x = NIL ELSE x \in S /\ \A k \in S : k <= x

(* The table that Resize builds of one that is full: each bucket lists its *)
(* nodes last first.                                                       *)
IsResized(N, os0, os, links, bucks) ==
  /\ os = [n \in 0 .. 2 * N - 1 |-> IF n < N THEN os0[n] ELSE NULL]
  /\ DOMAIN links = 0 .. 2 * N - 1 /\ links = [n \in 0 .. 2 * N - 1 |-> links[n]]
  /\ DOMAIN bucks = 0 .. 2 * N - 1 /\ bucks = [n \in 0 .. 2 * N - 1 |-> bucks[n]]
  /\ \A n \in 0 .. N - 1 :
       LastIs({m \in 0 .. N - 1 : m < n /\ MainPos(os0[m], 2 * N) = MainPos(os0[n], 2 * N)}, links[n])
  /\ \A n \in N .. 2 * N - 1 : links[n] = IF n = 2 * N - 1 THEN NIL ELSE n + 1
  /\ \A b \in 0 .. 2 * N - 1 :
       LastIs({m \in 0 .. N - 1 : m < N /\ MainPos(os0[m], 2 * N) = b}, bucks[b])

(* The nodes of the old table are each in the one bucket that they hash to *)
(* now, and the upper half is the free list.                               *)
LEMMA ResizedGood ==
  ASSUME NEW N \in Nat \ {0}, NEW os0 \in [0 .. N - 1 -> Object], OneNode(N, os0),
         NEW os, NEW links, NEW bucks, IsResized(N, os0, os, links, bucks)
  PROVE TableGood(2 * N, os, links, bucks, N, N)
<1> DEFINE size == 2 * N
           M == 0 .. size - 1
           main(n) == MainPos(os0[n], size)
           B(b) == {m \in 0 .. N - 1 : main(m) = b}
<1>1. /\ size \in Nat \ {0} /\ N \in M /\ N - 1 \in Nat
      /\ \A n : n \in M <=> n \in 0 .. N - 1 \/ n \in N .. size - 1
      /\ \A n \in 0 .. N - 1 : n \in Nat /\ n < N /\ n \in M
      /\ \A n \in N .. size - 1 : n \in Nat /\ ~(n < N)
  OBVIOUS
<1>2. /\ \A n \in 0 .. N - 1 : os[n] = os0[n] /\ os0[n] \in Object /\ os0[n] # NULL
      /\ \A n \in N .. size - 1 : os[n] = NULL
      /\ os \in [M -> Object \cup {NULL}]
  BY <1>1, ObjectAssumption DEF IsResized
<1>3. \A n \in 0 .. N - 1 : main(n) \in M
  BY <1>1, <1>2, ObjectAssumption DEF MainPos
<1>4. \A n \in 0 .. N - 1 :
        IF \A m \in B(main(n)) : ~(m < n) THEN links[n] = NIL
        ELSE links[n] \in B(main(n)) /\ links[n] < n /\ \A m \in B(main(n)) : m < n => m <= links[n]
  <2> SUFFICES ASSUME NEW n \in 0 .. N - 1
               PROVE IF \A m \in B(main(n)) : ~(m < n) THEN links[n] = NIL
                     ELSE links[n] \in B(main(n)) /\ links[n] < n /\ \A m \in B(main(n)) : m < n => m <= links[n]
    OBVIOUS
  <2> DEFINE P == {m \in 0 .. N - 1 : m < n /\ main(m) = main(n)}
  <2>1. LastIs(P, links[n])
    BY DEF IsResized
  <2>2. \A m : m \in P <=> m \in B(main(n)) /\ m < n
    OBVIOUS
  <2> HIDE DEF P, B
  <2> QED
    BY <2>1, <2>2 DEF LastIs
<1>5. \A n \in N .. size - 1 : links[n] = IF n = size - 1 THEN NIL ELSE n + 1
  BY DEF IsResized
<1>6. \A b \in M : LastIs(B(b), bucks[b])
  <2> SUFFICES ASSUME NEW b \in M
               PROVE LastIs(B(b), bucks[b])
    OBVIOUS
  <2> DEFINE P == {m \in 0 .. N - 1 : m < N /\ main(m) = b}
  <2>1. LastIs(P, bucks[b])
    BY DEF IsResized
  <2>2. P = B(b)
    BY <1>1
  <2> QED
    BY <2>1, <2>2
<1>7. /\ \A b \in M : Bucket(size, os, b) = B(b)
      /\ FreeNodes(size, os) = N .. size - 1
      /\ UsedNodes(size, os) = 0 .. N - 1
  BY <1>1, <1>2 DEF Bucket, FreeNodes, UsedNodes
<1>8. /\ \A b : \A m : m \in B(b) <=> m \in 0 .. N - 1 /\ main(m) = b
      /\ \A b : B(b) \subseteq M
  BY <1>1
<1>9. links = [n \in M |-> links[n]] /\ bucks = [n \in M |-> bucks[n]]
  BY DEF IsResized
<1>10. \A i, j \in 0 .. N - 1 : os0[i] = os0[j] => i = j
  BY <1>2 DEF OneNode
<1> HIDE DEF B, main, size
<1>11. IsChain(size, N, links, FreeNodes(size, os))
  <2>1. N \in 0 .. size - 1 /\ size \in Nat
    BY <1>1
  <2> QED
    BY <1>5, <1>7, <2>1, AscendingList
<1>12. ASSUME NEW b \in M
       PROVE IsChain(size, bucks[b], links, B(b))
  <2>1. ClosedBy(links, B(b))
    BY <1>4, <1>8 DEF ClosedBy
  <2>2. CASE B(b) = {}
    BY <1>6, <1>12, <2>1, <2>2 DEF IsChain, LastIs
  <2>3. CASE B(b) # {}
    <3>1. /\ bucks[b] \in B(b) /\ bucks[b] # NIL
          /\ \A m \in B(b) : m \in 0 .. N - 1 /\ m <= bucks[b]
      <4>1. bucks[b] \in B(b) /\ \A m \in B(b) : m <= bucks[b]
        BY <1>6, <1>12, <2>3 DEF LastIs
      <4> QED
        BY <1>8, <4>1 DEF NIL
    <3>2. ASSUME NEW T \in SUBSET M, bucks[b] \in T, ClosedBy(links, T)
          PROVE B(b) \subseteq T
      <4>1. SUFFICES ASSUME B(b) \ T # {} PROVE FALSE
        OBVIOUS
      <4>2. PICK d \in B(b) \ T : \A y \in B(b) \ T : y <= d
        <5>1. PICK D : D = B(b) \ T
          OBVIOUS
        <5>2. D \in SUBSET (0 .. N - 1) /\ D # {}
          BY <3>1, <4>1, <5>1
        <5>3. \E x \in D : \A y \in D : y <= x
          BY <1>1, <5>2, NatMax
        <5> QED
          BY <5>1, <5>3
      <4>3. PICK u \in B(b) : u > d /\ \A y \in B(b) : y > d => u <= y
        <5>1. PICK U : U = {m \in B(b) : m > d}
          OBVIOUS
        <5>2. d \in 0 .. N - 1 /\ bucks[b] \in 0 .. N - 1 /\ d <= bucks[b] /\ d # bucks[b]
          BY <3>1, <3>2, <4>2
        <5>3. U \in SUBSET Nat /\ U # {}
          <6>1. bucks[b] > d
            BY <5>2
          <6>2. bucks[b] \in U
            BY <3>1, <5>1, <6>1
          <6> QED
            BY <3>1, <5>1, <6>2
        <5>4. PICK u \in U : \A y \in U : u <= y
          BY <5>3, NatMin
        <5> QED
          BY <5>1, <5>4
      <4>4. d \in 0 .. N - 1 /\ u \in 0 .. N - 1 /\ d < u /\ main(u) = b
        BY <1>8, <4>2, <4>3
      <4>5. u \in T
        BY <4>2, <4>3, <4>4
      <4>6. links[u] \in B(b) /\ links[u] < u /\ d <= links[u]
        BY <1>4, <4>2, <4>4
      <4>7. links[u] = d /\ d # NIL
        <5>1. links[u] \in 0 .. N - 1
          BY <1>8, <4>6
        <5> QED
          BY <4>3, <4>4, <4>6, <5>1 DEF NIL
      <4> QED
        BY <3>2, <4>2, <4>5, <4>7 DEF ClosedBy
    <3> QED
      BY <1>8, <2>1, <3>1, <3>2 DEF IsChain
  <2> QED
    BY <2>2, <2>3
<1>13. ListsRight(size, os, links, bucks, N)
  BY <1>7, <1>11, <1>12 DEF ListsRight
<1>14. \A n \in 0 .. N - 1 : links[n] # NIL =>
         /\ links[n] \in 0 .. N - 1 /\ main(links[n]) = main(n) /\ links[n] < n
         /\ \A m \in 0 .. N - 1 : main(m) = main(n) /\ m < n => m <= links[n]
  BY <1>4, <1>8
<1>15. \A b \in M : bucks[b] # NIL =>
         /\ bucks[b] \in 0 .. N - 1 /\ main(bucks[b]) = b
         /\ \A m \in 0 .. N - 1 : main(m) = b => m <= bucks[b]
  BY <1>6, <1>8 DEF LastIs
<1>16. \A n \in N .. size - 1 : links[n] # NIL => links[n] = n + 1 /\ links[n] \in M /\ links[n] > N
  BY <1>1, <1>5 DEF NIL
<1>17. TableTyped(size, os, links, bucks, N)
  <2>1. \A n \in M : links[n] \in M \cup {NIL} /\ bucks[n] \in M \cup {NIL}
    BY <1>1, <1>14, <1>15, <1>16
  <2>2. links \in [M -> M \cup {NIL}] /\ bucks \in [M -> M \cup {NIL}]
    BY <1>9, <2>1
  <2> QED
    BY <1>1, <1>2, <2>2 DEF TableTyped
<1>18. LinksApart(size, links, bucks, N)
  <2>1. ASSUME NEW i \in M, NEW j \in M, links[i] = links[j], links[i] # NIL
        PROVE i = j
    <3>1. CASE i \in 0 .. N - 1 /\ j \in 0 .. N - 1
      BY <1>14, <2>1, <3>1
    <3>2. CASE i \in N .. size - 1 /\ j \in N .. size - 1
      BY <1>16, <2>1, <3>2
    <3>3. CASE i \in 0 .. N - 1 /\ j \in N .. size - 1
      BY <1>14, <1>16, <2>1, <3>3
    <3>4. CASE i \in N .. size - 1 /\ j \in 0 .. N - 1
      BY <1>14, <1>16, <2>1, <3>4
    <3> QED
      BY <1>1, <3>1, <3>2, <3>3, <3>4
  <2>2. ASSUME NEW i \in M, links[i] # NIL
        PROVE links[i] # N
    BY <1>1, <1>14, <1>16, <2>2
  <2>3. ASSUME NEW i \in M, NEW b \in M, links[i] # NIL, links[i] = bucks[b]
        PROVE FALSE
    <3>1. CASE i \in 0 .. N - 1
      BY <1>14, <1>15, <2>3, <3>1
    <3>2. CASE i \in N .. size - 1
      BY <1>15, <1>16, <2>3, <3>2
    <3> QED
      BY <1>1, <3>1, <3>2
  <2> QED
    BY <2>1, <2>2, <2>3 DEF LinksApart
<1>19. N = Cardinality(UsedNodes(size, os))
  BY <1>1, <1>7, FS_Interval
<1>20. OneNode(size, os)
  BY <1>1, <1>2, <1>10 DEF OneNode
<1>21. TableGood(size, os, links, bucks, N, N)
  BY <1>13, <1>17, <1>18, <1>19, <1>20 DEF TableGood
<1> QED
  BY <1>21 DEF size
-----------------------------------------------------------------------------
(* The free list is empty exactly when every node is in use. *)
LEMMA FullExact ==
  ASSUME NEW size, NEW os, NEW links, NEW bucks, NEW free, NEW used,
         TableGood(size, os, links, bucks, free, used)
  PROVE /\ used = size <=> free = NIL
        /\ used \in 0 .. size
        /\ used = size => \A n \in 0 .. size - 1 : os[n] # NULL
<1> DEFINE N == 0 .. size - 1
<1>1. size \in Nat /\ IsFiniteSet(N) /\ Cardinality(N) = size
  BY FS_Interval DEF TableGood, TableTyped
<1>2. UsedNodes(size, os) \subseteq N
  BY DEF UsedNodes
<1>3. /\ IsFiniteSet(UsedNodes(size, os)) /\ Cardinality(UsedNodes(size, os)) <= size
      /\ Cardinality(UsedNodes(size, os)) \in Nat
      /\ Cardinality(UsedNodes(size, os)) = size => UsedNodes(size, os) = N
  BY <1>1, <1>2, FS_Subset, FS_CardinalityType
<1>4. used = Cardinality(UsedNodes(size, os))
  BY DEF TableGood
<1>5. free = NIL <=> FreeNodes(size, os) = {}
  BY DEF TableGood, ListsRight, IsChain
<1>6. FreeNodes(size, os) = {} <=> UsedNodes(size, os) = N
  BY DEF FreeNodes, UsedNodes
<1>7. UsedNodes(size, os) = N => \A n \in N : os[n] # NULL
  BY DEF UsedNodes
<1> HIDE DEF N
<1>8. used = size <=> UsedNodes(size, os) = N
  BY <1>1, <1>3, <1>4
<1>9. used \in 0 .. size
  BY <1>1, <1>3, <1>4
<1> QED
  BY <1>5, <1>6, <1>7, <1>8, <1>9 DEF N

(* Chain finds the lists of the table, *)
LEMMA ChainsRight ==
  ASSUME TableGood(numofslots, obj, next, buckets, freelist, slotused)
  PROVE /\ Chain(freelist, next) = FreeNodes(numofslots, obj)
        /\ \A b \in Node : Chain(buckets[b], next) = Bucket(numofslots, obj, b)
<1>1. /\ numofslots \in Nat \ {0} /\ next \in [Node -> Node \cup {NIL}]
      /\ buckets \in [Node -> Node \cup {NIL}] /\ freelist \in Node \cup {NIL}
  BY DEF TableGood, TableTyped, Node
<1>2. Chain(freelist, next) = FreeNodes(numofslots, obj)
  <2>1. IsChain(numofslots, freelist, next, Chain(freelist, next))
    BY <1>1, ChainIsList
  <2>2. IsChain(numofslots, freelist, next, FreeNodes(numofslots, obj))
    BY DEF TableGood, ListsRight
  <2> QED
    BY <2>1, <2>2, ListUnique
<1>3. ASSUME NEW b \in Node
      PROVE Chain(buckets[b], next) = Bucket(numofslots, obj, b)
  <2>1. PICK head : head = buckets[b]
    OBVIOUS
  <2>2. IsChain(numofslots, head, next, Chain(head, next))
    BY <1>1, <2>1, ChainIsList
  <2>3. IsChain(numofslots, head, next, Bucket(numofslots, obj, b))
    BY <2>1 DEF TableGood, ListsRight, Node
  <2> QED
    BY <2>1, <2>2, <2>3, ListUnique
<1> QED
  BY <1>2, <1>3

(* so a lookup finds every node with the object. *)
LEMMA LookupRight ==
  ASSUME TableGood(numofslots, obj, next, buckets, freelist, slotused), NEW o \in Object
  PROVE Lookup(o) = {n \in Node : obj[n] = o}
<1>1. numofslots \in Nat \ {0}
  BY DEF TableGood, TableTyped
<1>2. MainPos(o, numofslots) \in Node
  BY <1>1, ObjectAssumption DEF MainPos, Node
<1>3. Chain(buckets[MainPos(o, numofslots)], next) = Bucket(numofslots, obj, MainPos(o, numofslots))
  BY <1>2, ChainsRight
<1> QED
  BY <1>3, ObjectAssumption DEF Lookup, Bucket, Node

(* The references of a table with objects os are those that are held. *)
RefsMatch(size, os, rs) ==
  /\ rs \in [0 .. size - 1 -> Nat]
  /\ \A n \in 0 .. size - 1 : rs[n] = IF os[n] = NULL THEN 0 ELSE held[os[n]]

(* Every field after Add, and what the new node holds. *)
LEMMA AddStep ==
  ASSUME NEW size, NEW os, NEW rs, NEW links, NEW bucks, NEW free, NEW used,
         TableGood(size, os, links, bucks, free, used), free # NIL, RefsMatch(size, os, rs),
         NEW o \in Object, \A n \in 0 .. size - 1 : os[n] # o, NEW r \in Nat,
         Add(o, r, size, os, rs, links, bucks, free, used)
  PROVE /\ TableGood(numofslots', obj', next', buckets', freelist', slotused')
        /\ numofslots' = size /\ free \in 0 .. size - 1
        /\ refs' \in [0 .. size - 1 -> Nat] /\ refs'[free] = r
        /\ obj'[free] = o /\ \A n \in 0 .. size - 1 : n # free => obj'[n] = os[n] /\ refs'[n] = rs[n]
        /\ os[free] = NULL
<1>1. TableGood(numofslots', obj', next', buckets', freelist', slotused')
  BY AddGood DEF Add
<1>2. size \in Nat \ {0} /\ os \in [0 .. size - 1 -> Object \cup {NULL}] /\ free \in 0 .. size - 1
  BY DEF TableGood, TableTyped
<1>3. os[free] = NULL
  BY DEF TableGood, ListsRight, IsChain, FreeNodes
<1> QED
  BY <1>1, <1>2, <1>3 DEF Add, RefsMatch

(* Get with add = true of an object that the table does not have: one node *)
(* more, and the others keep what they had.                                *)
LEMMA GetAddStep ==
  ASSUME RefInv, NEW o \in Object, \A n \in Node : obj[n] # o, NEW r \in Nat, GetAdd(o, r)
  PROVE /\ TableGood(numofslots', obj', next', buckets', freelist', slotused')
        /\ refs' \in [Node' -> Nat] /\ Node \subseteq Node'
        /\ \E f \in Node' :
             /\ obj'[f] = o /\ refs'[f] = r /\ (f \in Node => obj[f] = NULL)
             /\ \A n \in Node' : n # f =>
                  \/ n \in Node /\ obj'[n] = obj[n] /\ refs'[n] = refs[n]
                  \/ n \notin Node /\ obj'[n] = NULL /\ refs'[n] = 0
<1>1. /\ TableGood(numofslots, obj, next, buckets, freelist, slotused)
      /\ RefsMatch(numofslots, obj, refs)
      /\ numofslots \in Nat \ {0} /\ obj \in [Node -> Object \cup {NULL}]
      /\ OneNode(numofslots, obj)
  BY DEF RefInv, CountsRight, RefsMatch, TableGood, TableTyped, Node
<1>2. /\ slotused = numofslots <=> freelist = NIL
      /\ slotused = numofslots => \A n \in Node : obj[n] # NULL
  <2>1. \A n \in Node : n \in 0 .. numofslots - 1
    BY DEF Node
  <2>2. /\ slotused = numofslots <=> freelist = NIL
        /\ slotused = numofslots => \A n \in 0 .. numofslots - 1 : obj[n] # NULL
    BY <1>1, FullExact
  <2> QED
    BY <2>1, <2>2
<1>3. CASE numofslots # slotused /\ Add(o, r, numofslots, obj, refs, next, buckets, freelist, slotused)
  <2>1. freelist # NIL /\ \A n \in 0 .. numofslots - 1 : obj[n] # o
    BY <1>2, <1>3 DEF Node
  <2>2. /\ TableGood(numofslots', obj', next', buckets', freelist', slotused')
        /\ numofslots' = numofslots /\ freelist \in Node
        /\ refs' \in [Node -> Nat] /\ refs'[freelist] = r
        /\ obj'[freelist] = o /\ \A n \in Node : n # freelist => obj'[n] = obj[n] /\ refs'[n] = refs[n]
        /\ obj[freelist] = NULL
    BY <1>1, <1>3, <2>1, AddStep DEF Node
  <2>3. Node' = Node
    BY <2>2 DEF Node
  <2> QED
    BY <2>2, <2>3
<1>4. CASE numofslots = slotused /\ AddResized(o, r)
  <2> DEFINE size == 2 * numofslots
             main(n) == MainPos(obj[n], size)
             before(n, b) == {m \in Node : m < n /\ main(m) = b}
             last(S) == IF S = {} THEN NIL ELSE CHOOSE m \in S : \A k \in S : k <= m
             os == [n \in 0 .. size - 1 |-> IF n < numofslots THEN obj[n] ELSE NULL]
             rs == [n \in 0 .. size - 1 |-> IF n < numofslots THEN refs[n] ELSE 0]
             links == [n \in 0 .. size - 1 |-> IF n < numofslots THEN last(before(n, main(n)))
                                               ELSE IF n = size - 1 THEN NIL ELSE n + 1]
             bucks == [b \in 0 .. size - 1 |-> last(before(numofslots, b))]
  <2>1. Add(o, r, size, os, rs, links, bucks, numofslots, numofslots)
    BY <1>4 DEF AddResized
  <2>2. ASSUME NEW S \in SUBSET Node
        PROVE LastIs(S, last(S))
    <3>1. CASE S = {}
      BY <3>1 DEF LastIs
    <3>2. CASE S # {}
      <4>1. numofslots - 1 \in Nat /\ S \in SUBSET (0 .. numofslots - 1)
        BY <1>1, <2>2 DEF Node
      <4>2. \E x \in S : \A y \in S : y <= x
        BY <3>2, <4>1, NatMax
      <4> QED
        BY <3>2, <4>2 DEF LastIs
    <3> QED
      BY <3>1, <3>2
  <2>3. /\ size \in Nat /\ 0 .. size - 1 = 0 .. 2 * numofslots - 1
        /\ \A n \in 0 .. size - 1 : n \in Node <=> n < numofslots
        /\ \A n \in Node : n \in 0 .. size - 1 /\ n < numofslots
        /\ \A n \in numofslots .. 2 * numofslots - 1 : n \in 0 .. size - 1 /\ ~(n < numofslots)
        /\ numofslots # NIL
    BY <1>1 DEF Node, NIL
  <2>4. /\ \A n \in 0 .. size - 1 : n < numofslots => links[n] = last(before(n, main(n)))
        /\ \A n \in 0 .. size - 1 : ~(n < numofslots) => links[n] = IF n = size - 1 THEN NIL ELSE n + 1
        /\ \A b \in 0 .. size - 1 : bucks[b] = last(before(numofslots, b))
        /\ DOMAIN links = 0 .. size - 1 /\ links = [n \in 0 .. size - 1 |-> links[n]]
        /\ DOMAIN bucks = 0 .. size - 1 /\ bucks = [n \in 0 .. size - 1 |-> bucks[n]]
    OBVIOUS
  <2>5. \A n, b : before(n, b) \in SUBSET Node
    OBVIOUS
  <2> HIDE DEF last, links, bucks
  <2>6. /\ \A n \in 0 .. numofslots - 1 :
             LastIs({m \in 0 .. numofslots - 1 : m < n /\ MainPos(obj[m], 2 * numofslots)
                                                  = MainPos(obj[n], 2 * numofslots)}, links[n])
        /\ \A b \in 0 .. 2 * numofslots - 1 :
             LastIs({m \in 0 .. numofslots - 1 : m < numofslots
                                                 /\ MainPos(obj[m], 2 * numofslots) = b}, bucks[b])
    <3>1. ASSUME NEW n \in 0 .. numofslots - 1
          PROVE LastIs(before(n, main(n)), links[n])
      <4>1. n \in 0 .. size - 1 /\ n < numofslots
        BY <2>3 DEF Node
      <4>2. LastIs(before(n, main(n)), last(before(n, main(n))))
        BY <2>2, <2>5
      <4> QED
        BY <2>4, <4>1, <4>2
    <3>2. ASSUME NEW b \in 0 .. size - 1
          PROVE LastIs(before(numofslots, b), bucks[b])
      <4>1. LastIs(before(numofslots, b), last(before(numofslots, b)))
        BY <2>2, <2>5
      <4> QED
        BY <2>4, <4>1
    <3> QED
      BY <3>1, <3>2 DEF Node
  <2>7. IsResized(numofslots, obj, os, links, bucks)
    <3>1. \A n \in numofslots .. 2 * numofslots - 1 : links[n] = IF n = 2 * numofslots - 1 THEN NIL ELSE n + 1
      BY <2>3, <2>4
    <3> QED
      BY <2>4, <2>6, <3>1 DEF IsResized
  <2>8. obj \in [0 .. numofslots - 1 -> Object]
    BY <1>1, <1>2, <1>4 DEF Node
  <2>9. TableGood(size, os, links, bucks, numofslots, numofslots)
    <3>1. TableGood(2 * numofslots, os, links, bucks, numofslots, numofslots)
      BY <1>1, <2>7, <2>8, ResizedGood
    <3> QED
      BY <3>1
  <2>10. /\ \A n \in Node : os[n] = obj[n] /\ rs[n] = refs[n]
         /\ \A n \in 0 .. size - 1 : n \notin Node => os[n] = NULL /\ rs[n] = 0
         /\ rs \in [0 .. size - 1 -> Nat]
    <3>1. refs \in [Node -> Nat]
      BY <1>1 DEF RefsMatch, Node
    <3> QED
      BY <2>3, <3>1
  <2> HIDE DEF os, rs, size
  <2>11. RefsMatch(size, os, rs) /\ \A n \in 0 .. size - 1 : os[n] # o
    <3>1. \A n \in Node : refs[n] = IF obj[n] = NULL THEN 0 ELSE held[obj[n]]
      BY <1>1 DEF RefsMatch, Node
    <3> QED
      BY <2>10, <3>1, ObjectAssumption DEF RefsMatch
  <2>12. /\ TableGood(numofslots', obj', next', buckets', freelist', slotused')
         /\ numofslots' = size /\ numofslots \in 0 .. size - 1
         /\ refs' \in [0 .. size - 1 -> Nat] /\ refs'[numofslots] = r
         /\ obj'[numofslots] = o
         /\ \A n \in 0 .. size - 1 : n # numofslots => obj'[n] = os[n] /\ refs'[n] = rs[n]
    <3>1. numofslots # NIL
      BY <2>3
    <3> QED
      BY <2>1, <2>9, <2>11, <3>1, AddStep
  <2>13. Node' = 0 .. size - 1 /\ numofslots \notin Node
    BY <1>1, <2>12 DEF Node
  <2> QED
    <3>1. \A n \in Node : n \in 0 .. size - 1
      BY <2>3
    <3>2. Node \subseteq Node' /\ numofslots \in Node'
      BY <2>12, <2>13, <3>1
    <3>3. \A n \in Node' : n # numofslots =>
            \/ n \in Node /\ obj'[n] = obj[n] /\ refs'[n] = refs[n]
            \/ n \notin Node /\ obj'[n] = NULL /\ refs'[n] = 0
      BY <2>10, <2>12, <2>13
    <3>4. refs' \in [Node' -> Nat]
      BY <2>12, <2>13
    <3> QED
      BY <2>12, <2>13, <3>2, <3>3, <3>4
<1> QED
  BY <1>3, <1>4 DEF GetAdd
-----------------------------------------------------------------------------
(* AllocNodes: the new table. *)
LEMMA InitGood ==
  Init => RefInv
<1> SUFFICES ASSUME Init PROVE RefInv
  OBVIOUS
<1> DEFINE N == 0 .. 4 - 1
<1>1. /\ numofslots = 4 /\ slotused = 0 /\ obj = [n \in N |-> NULL] /\ refs = [n \in N |-> 0]
      /\ next = [n \in N |-> IF n = 3 THEN NIL ELSE n + 1] /\ buckets = [b \in N |-> NIL]
      /\ freelist = 0 /\ held = [o \in Object |-> 0] /\ Node = N
  BY DEF Init, Node
<1>2. /\ FreeNodes(4, obj) = 0 .. 4 - 1 /\ UsedNodes(4, obj) = {} /\ \A b : Bucket(4, obj, b) = {}
  BY <1>1 DEF FreeNodes, UsedNodes, Bucket
<1>3. IsChain(4, 0, next, 0 .. 4 - 1)
  <2>1. 4 \in Nat /\ 0 \in 0 .. 4 - 1 /\ \A n \in 0 .. 4 - 1 : next[n] = IF n = 4 - 1 THEN NIL ELSE n + 1
    BY <1>1
  <2> QED
    BY <2>1, AscendingList
<1>4. \A b \in N : IsChain(4, NIL, next, {})
  BY DEF IsChain, ClosedBy
<1>5. ListsRight(4, obj, next, buckets, 0)
  BY <1>1, <1>2, <1>3, <1>4 DEF ListsRight
<1>6. TableTyped(4, obj, next, buckets, 0) /\ LinksApart(4, next, buckets, 0) /\ OneNode(4, obj)
  BY <1>1 DEF TableTyped, LinksApart, OneNode, NIL
<1>7. slotused = Cardinality(UsedNodes(4, obj))
  BY <1>1, <1>2, FS_EmptySet
<1>8. TableGood(numofslots, obj, next, buckets, freelist, slotused)
  BY <1>1, <1>5, <1>6, <1>7 DEF TableGood
<1>9. CountsRight
  BY <1>1, BoundAssumption DEF CountsRight
<1> QED
  BY <1>8, <1>9 DEF RefInv

(* A new object, with the references that the host then holds on it. *)
LEMMA NewCounted ==
  ASSUME RefInv, NEW o \in Object, Lookup(o) = {}, NEW r \in Nat, GetAdd(o, r),
         held' = [held EXCEPT ![o] = r], r <= MaxHeld[o]
  PROVE RefInv'
<1>1. \A n \in Node : obj[n] # o
  BY LookupRight DEF RefInv
<1>2. /\ refs \in [Node -> Nat] /\ held \in [Object -> Nat]
      /\ \A x \in Object : held[x] <= MaxHeld[x]
      /\ \A n \in Node : refs[n] = IF obj[n] = NULL THEN 0 ELSE held[obj[n]]
      /\ \A x \in Object : held[x] > 0 => \E n \in Node : obj[n] = x
      /\ \A n \in Node : obj[n] = NULL \/ obj[n] \in Object
  BY DEF RefInv, CountsRight, TableGood, TableTyped, Node
<1>3. /\ TableGood(numofslots', obj', next', buckets', freelist', slotused')
      /\ refs' \in [Node' -> Nat] /\ Node \subseteq Node'
      /\ \E f \in Node' :
           /\ obj'[f] = o /\ refs'[f] = r /\ (f \in Node => obj[f] = NULL)
           /\ \A n \in Node' : n # f =>
                \/ n \in Node /\ obj'[n] = obj[n] /\ refs'[n] = refs[n]
                \/ n \notin Node /\ obj'[n] = NULL /\ refs'[n] = 0
  BY <1>1, GetAddStep
<1>4. PICK f \in Node' :
           /\ obj'[f] = o /\ refs'[f] = r /\ (f \in Node => obj[f] = NULL)
           /\ \A n \in Node' : n # f =>
                \/ n \in Node /\ obj'[n] = obj[n] /\ refs'[n] = refs[n]
                \/ n \notin Node /\ obj'[n] = NULL /\ refs'[n] = 0
  BY <1>3
<1>5. /\ held' \in [Object -> Nat] /\ held'[o] = r /\ \A x \in Object : x # o => held'[x] = held[x]
      /\ \A x \in Object : held'[x] <= MaxHeld[x]
  BY <1>2
<1>6. ASSUME NEW n \in Node'
      PROVE refs'[n] = IF obj'[n] = NULL THEN 0 ELSE held'[obj'[n]]
  BY <1>1, <1>2, <1>4, <1>5, ObjectAssumption
<1>7. ASSUME NEW x \in Object, held'[x] > 0
      PROVE \E n \in Node' : obj'[n] = x
  <2>1. CASE x = o
    BY <1>4, <2>1
  <2>2. CASE x # o
    <3>1. PICK n \in Node : obj[n] = x
      BY <1>2, <1>5, <1>7, <2>2
    <3>2. n \in Node' /\ n # f
      BY <1>3, <1>4, <3>1, ObjectAssumption
    <3> QED
      BY <1>4, <3>1, <3>2
  <2> QED
    BY <2>1, <2>2
<1> QED
  BY <1>3, <1>5, <1>6, <1>7 DEF RefInv, CountsRight

(* What RefInv says of the node of an object. *)
LEMMA NodeOf ==
  ASSUME RefInv, NEW o \in Object
  PROVE /\ Lookup(o) = {n \in Node : obj[n] = o}
        /\ Lookup(o) = {} => held[o] = 0
        /\ \A n \in Lookup(o) : n \in Node /\ obj[n] = o /\ refs[n] = held[o]
        /\ \A n \in Lookup(o), m \in Node : obj[m] = o => m = n
<1>1. Lookup(o) = {n \in Node : obj[n] = o}
  BY LookupRight DEF RefInv
<1>2. \A n, m \in Node : obj[n] = o /\ obj[m] = o => m = n
  BY ObjectAssumption DEF RefInv, TableGood, OneNode, Node
<1> QED
  BY <1>1, <1>2, ObjectAssumption DEF RefInv, CountsRight

(* sq_addref. *)
LEMMA AddRefGood ==
  ASSUME RefInv, NEW o \in Object, AddRef(o)
  PROVE RefInv'
<1>1. /\ refs \in [Node -> Nat] /\ held \in [Object -> Nat] /\ MaxHeld[o] \in Nat
      /\ \A x \in Object : held[x] <= MaxHeld[x]
      /\ \A n \in Node : refs[n] = IF obj[n] = NULL THEN 0 ELSE held[obj[n]]
      /\ \A x \in Object : held[x] > 0 => \E n \in Node : obj[n] = x
      /\ \A n \in Node : obj[n] = NULL \/ obj[n] \in Object
  BY BoundAssumption DEF RefInv, CountsRight, TableGood, TableTyped, Node
<1>2. held' = [held EXCEPT ![o] = held[o] + 1] /\ held[o] < MaxHeld[o]
  BY DEF AddRef
<1>3. CASE AddRefNew(o)
  <2>1. Lookup(o) = {} /\ GetAdd(o, 1) /\ held[o] = 0
    BY <1>3, NodeOf DEF AddRefNew
  <2>2. held' = [held EXCEPT ![o] = 1] /\ 1 <= MaxHeld[o] /\ 1 \in Nat
    BY <1>1, <1>2, <2>1
  <2> QED
    BY <2>1, <2>2, NewCounted
<1>4. CASE AddRefKnown(o)
  <2>1. PICK n \in Lookup(o) : refs' = [refs EXCEPT ![n] = @ + 1]
    BY <1>4 DEF AddRefKnown
  <2>2. /\ n \in Node /\ obj[n] = o /\ refs[n] = held[o]
        /\ \A m \in Node : obj[m] = o => m = n
    BY NodeOf
  <2>3. UNCHANGED <<numofslots, slotused, obj, next, buckets, freelist>> /\ Node' = Node
    BY <1>4 DEF AddRefKnown, Node
  <2>4. /\ held' \in [Object -> Nat] /\ held'[o] = held[o] + 1 /\ \A x \in Object : x # o => held'[x] = held[x]
        /\ \A x \in Object : held'[x] <= MaxHeld[x]
    BY <1>1, <1>2
  <2>5. /\ refs' \in [Node -> Nat] /\ refs'[n] = held[o] + 1 /\ \A m \in Node : m # n => refs'[m] = refs[m]
    BY <1>1, <2>1, <2>2
  <2>6. \A m \in Node : refs'[m] = IF obj[m] = NULL THEN 0 ELSE held'[obj[m]]
    BY <1>1, <2>2, <2>4, <2>5, ObjectAssumption
  <2>7. \A x \in Object : held'[x] > 0 => \E m \in Node : obj[m] = x
    BY <1>1, <2>2, <2>4
  <2>8. CountsRight'
    BY <2>3, <2>4, <2>5, <2>6, <2>7 DEF CountsRight
  <2> QED
    BY <2>3, <2>8 DEF RefInv
<1> QED
  BY <1>3, <1>4 DEF AddRef

(* sq_getrefcount. *)
LEMMA GetRefCountGood ==
  ASSUME RefInv, NEW o \in Object, GetRefCount(o)
  PROVE RefInv'
<1>1. CASE Lookup(o) = {} /\ GetAdd(o, 0)
  <2>1. held[o] = 0 /\ held' = held /\ held \in [Object -> Nat] /\ 0 <= MaxHeld[o] /\ 0 \in Nat
    BY <1>1, NodeOf, BoundAssumption DEF GetRefCount, RefInv, CountsRight
  <2>2. held' = [held EXCEPT ![o] = 0]
    BY <2>1
  <2> QED
    BY <1>1, <2>1, <2>2, NewCounted
<1>2. CASE UNCHANGED tableVars
  BY <1>2 DEF GetRefCount, RefInv, CountsRight, Node, tableVars
<1> QED
  BY <1>1, <1>2 DEF GetRefCount

(* sq_release. *)
LEMMA ReleaseGood ==
  ASSUME RefInv, NEW o \in Object, Release(o)
  PROVE RefInv'
<1>1. /\ refs \in [Node -> Nat] /\ held \in [Object -> Nat]
      /\ \A x \in Object : held[x] <= MaxHeld[x] /\ MaxHeld[x] \in Nat
      /\ \A n \in Node : refs[n] = IF obj[n] = NULL THEN 0 ELSE held[obj[n]]
      /\ \A x \in Object : held[x] > 0 => \E n \in Node : obj[n] = x
      /\ obj \in [Node -> Object \cup {NULL}]
  BY BoundAssumption DEF RefInv, CountsRight, TableGood, TableTyped, Node
<1>2. /\ held' = [held EXCEPT ![o] = held[o] - 1] /\ held[o] > 0
      /\ numofslots' = numofslots /\ Node' = Node
  BY DEF Release, Node
<1>3. PICK n \in Lookup(o) :
       /\ refs' = [refs EXCEPT ![n] = @ - 1]
       /\ IF refs[n] = 1
          THEN /\ Unlink(n)
               /\ freelist' = n
               /\ slotused' = slotused - 1
               /\ obj' = [obj EXCEPT ![n] = NULL]
          ELSE UNCHANGED <<next, buckets, freelist, slotused, obj>>
  BY DEF Release
<1>4. /\ n \in Node /\ obj[n] = o /\ refs[n] = held[o] /\ o # NULL
      /\ \A m \in Node : obj[m] = o => m = n
  BY NodeOf, ObjectAssumption
<1>5. /\ held' \in [Object -> Nat] /\ held'[o] = held[o] - 1 /\ \A x \in Object : x # o => held'[x] = held[x]
      /\ \A x \in Object : held'[x] <= MaxHeld[x]
  BY <1>1, <1>2
<1>6. /\ refs' \in [Node -> Nat] /\ refs'[n] = held[o] - 1 /\ \A m \in Node : m # n => refs'[m] = refs[m]
  BY <1>1, <1>2, <1>3, <1>4
<1>7. CASE refs[n] # 1
  <2>1. UNCHANGED <<next, buckets, freelist, slotused, obj>>
    BY <1>3, <1>7
  <2>2. \A m \in Node : refs'[m] = IF obj[m] = NULL THEN 0 ELSE held'[obj[m]]
    BY <1>1, <1>4, <1>5, <1>6
  <2>3. \A x \in Object : held'[x] > 0 => \E m \in Node : obj[m] = x
    BY <1>1, <1>4, <1>5
  <2>4. CountsRight'
    BY <1>2, <1>5, <1>6, <2>1, <2>2, <2>3 DEF CountsRight
  <2> QED
    BY <1>2, <2>1, <2>4 DEF RefInv
<1>8. CASE refs[n] = 1
  <2>1. Unlink(n) /\ freelist' = n /\ slotused' = slotused - 1 /\ obj' = [obj EXCEPT ![n] = NULL]
    BY <1>3, <1>8
  <2>2. /\ obj'[n] = NULL /\ \A m \in Node : m # n => obj'[m] = obj[m]
        /\ held'[o] = 0 /\ refs'[n] = 0
    BY <1>1, <1>4, <1>5, <1>6, <1>8, <2>1
  <2>3. \A m \in Node : refs'[m] = IF obj'[m] = NULL THEN 0 ELSE held'[obj'[m]]
    BY <1>1, <1>4, <1>5, <1>6, <2>2
  <2>4. \A x \in Object : held'[x] > 0 => \E m \in Node : obj'[m] = x
    BY <1>1, <1>4, <1>5, <2>2
  <2>5. CountsRight'
    BY <1>2, <1>5, <1>6, <2>3, <2>4 DEF CountsRight
  <2> DEFINE b == MainPos(obj[n], numofslots)
  <2>6. \/ /\ buckets[b] = n /\ next' = [next EXCEPT ![n] = freelist]
           /\ buckets' = [buckets EXCEPT ![b] = next[n]]
        \/ /\ buckets[b] # n /\ buckets' = buckets
           /\ \E p \in Node : next[p] = n /\ next' = [next EXCEPT ![p] = next[n], ![n] = freelist]
    <3>1. CASE buckets[b] = n
      <4>1. Prev(n) = NIL
        BY <3>1 DEF Prev
      <4> QED
        BY <2>1, <3>1, <4>1 DEF Unlink
    <3>2. CASE buckets[b] # n
      <4>1. numofslots \in Nat \ {0} /\ b \in Node
        <5>1. numofslots \in Nat \ {0}
          BY DEF RefInv, TableGood, TableTyped
        <5> QED
          BY <1>4, <5>1, ObjectAssumption DEF MainPos, Node
      <4>2. \E p \in Node : next[p] = n
        <5>1. IsChain(numofslots, buckets[b], next, Bucket(numofslots, obj, b))
          BY <4>1 DEF RefInv, TableGood, ListsRight, Node
        <5>2. n \in Bucket(numofslots, obj, b) /\ Bucket(numofslots, obj, b) \subseteq Node
          BY <1>4 DEF Bucket, Node
        <5>3. \E p \in Bucket(numofslots, obj, b) : p # n /\ next[p] = n
          BY <3>2, <5>1, <5>2, ListPrevious
        <5> QED
          BY <5>2, <5>3
      <4>3. Prev(n) \in Node /\ next[Prev(n)] = n
        BY <3>2, <4>2 DEF Prev
      <4>4. Prev(n) # NIL
        BY <4>1, <4>3 DEF Node, NIL
      <4>5. next' = [next EXCEPT ![Prev(n)] = next[n], ![n] = freelist] /\ buckets' = buckets
        BY <2>1, <4>4 DEF Unlink
      <4> QED
        BY <3>2, <4>3, <4>5
    <3> QED
      BY <3>1, <3>2
  <2>7. TableGood(numofslots, obj', next', buckets', n, slotused - 1)
    <3>1. TableGood(numofslots, obj, next, buckets, freelist, slotused) /\ n \in 0 .. numofslots - 1 /\ obj[n] # NULL
      BY <1>4 DEF RefInv, Node
    <3> QED
      BY <2>1, <2>6, <3>1, UnlinkGood DEF Node
  <2> QED
    BY <1>2, <2>1, <2>5, <2>7 DEF RefInv
<1> QED
  BY <1>7, <1>8

(* RefInv is inductive. *)
LEMMA RefInvAlways ==
  Spec => []RefInv
<1>1. Init => RefInv
  BY InitGood
<1>2. RefInv /\ [Next]_vars => RefInv'
  <2> SUFFICES ASSUME RefInv, [Next]_vars PROVE RefInv'
    OBVIOUS
  <2>1. CASE Next
    BY <2>1, AddRefGood, GetRefCountGood, ReleaseGood DEF Next
  <2>2. CASE UNCHANGED vars
    BY <2>2 DEF vars, tableVars, RefInv, CountsRight, Node
  <2> QED
    BY <2>1, <2>2
<1> QED
  BY <1>1, <1>2, PTL DEF Spec

(* The fields of RefTable always have their types, and no more slots are   *)
(* counted than there are.                                                 *)
THEOREM TypeAlwaysOK ==
  Spec => []TypeOK
<1>1. RefInv => TypeOK
  <2> SUFFICES ASSUME RefInv PROVE TypeOK
    OBVIOUS
  <2>1. slotused \in 0 .. numofslots
    BY FullExact DEF RefInv
  <2>2. \A o \in Object : held[o] \in 0 .. MaxHeld[o]
    BY BoundAssumption DEF RefInv, CountsRight
  <2> QED
    BY <2>1, <2>2 DEF RefInv, CountsRight, TableGood, TableTyped, TypeOK, Node
<1> QED
  BY <1>1, RefInvAlways, PTL

(* Whatever the host adds, asks for and releases, and whatever the objects *)
(* hash to: Add, Resize and Release lose no node of the table and put none *)
(* in two lists, and Add never takes a null free node.                     *)
THEOREM NodesAlwaysAccounted ==
  Spec => []NodesAccounted
<1>1. RefInv => NodesAccounted
  <2> SUFFICES ASSUME RefInv PROVE NodesAccounted
    OBVIOUS
  <2>1. slotused = numofslots <=> freelist = NIL
    BY FullExact DEF RefInv
  <2>2. /\ Chain(freelist, next) = FreeNodes(numofslots, obj)
        /\ \A b \in Node : Chain(buckets[b], next) = Bucket(numofslots, obj, b)
    BY ChainsRight DEF RefInv
  <2>3. \A n \in Node : obj[n] = NULL => refs[n] = 0
    BY DEF RefInv, CountsRight
  <2> QED
    BY <2>1, <2>2, <2>3 DEF NodesAccounted, FreeNodes, Bucket, Node
<1> QED
  BY <1>1, RefInvAlways, PTL

(* The assertion of Resize has failed if the table grew with an object     *)
(* that the host did not hold, as the counts are exact.                    *)
Watched == failed <=> unheld

LEMMA GetAddWatched ==
  ASSUME RefInv, Watched, NEW o \in Object, NEW r \in Nat, GetAdd(o, r)
  PROVE Watched'
<1>1. /\ \A n \in Node : obj[n] \in Object \cup {NULL}
      /\ \A n \in Node : refs[n] = IF obj[n] = NULL THEN 0 ELSE held[obj[n]]
  BY DEF RefInv, CountsRight, TableGood, TableTyped, Node
<1>2. CASE UNCHANGED <<failed, unheld>>
  BY <1>2 DEF Watched
<1>3. CASE /\ numofslots = slotused /\ AddResized(o, r)
           /\ unheld' = (unheld \/ \E x \in Roots : held[x] = 0)
  <2>1. failed' = (failed \/ \E n \in Node : refs[n] = 0)
    BY <1>3 DEF AddResized
  <2>2. \A n \in Node : obj[n] # NULL
    BY <1>3, FullExact DEF RefInv, Node
  <2>3. (\E n \in Node : refs[n] = 0) <=> \E x \in Roots : held[x] = 0
    BY <1>1, <2>2 DEF Roots
  <2> QED
    BY <1>3, <2>1, <2>3 DEF Watched
<1> QED
  BY <1>2, <1>3 DEF GetAdd

LEMMA WatchedAlways ==
  Spec => []Watched
<1>1. Init => Watched
  BY DEF Init, Watched
<1>2. RefInv /\ Watched /\ [Next]_vars => Watched'
  <2> SUFFICES ASSUME RefInv, Watched, [Next]_vars
               PROVE Watched'
    OBVIOUS
  <2>1. CASE UNCHANGED <<failed, unheld>>
    BY <2>1 DEF Watched
  <2>2. CASE UNCHANGED vars
    BY <2>1, <2>2 DEF vars
  <2>3. CASE Next
    <3>1. PICK o \in Object : AddRef(o) \/ GetRefCount(o) \/ Release(o)
      BY <2>3 DEF Next
    <3>2. CASE AddRef(o)
      BY <2>1, <3>2, GetAddWatched DEF AddRef, AddRefNew, AddRefKnown
    <3>3. CASE GetRefCount(o)
      BY <2>1, <3>3, GetAddWatched DEF GetRefCount
    <3>4. CASE Release(o)
      BY <2>1, <3>4 DEF Release
    <3> QED
      BY <3>1, <3>2, <3>3, <3>4
  <2> QED
    BY <2>2, <2>3
<1> QED
  BY <1>1, <1>2, RefInvAlways, PTL DEF Spec

(* What the host holds is always found, counted exactly and a root of the  *)
(* collector, through every collision and every Resize; and the assertion  *)
(* of Resize has failed when, and only when, the table grew with an object *)
(* that the host did not hold.                                             *)
THEOREM HeldAlwaysCounted ==
  Spec => []HeldIsCounted
<1>1. RefInv /\ Watched => HeldIsCounted
  <2> SUFFICES ASSUME RefInv, NEW o \in Object
               PROVE /\ held[o] > 0 => o \in Roots
                     /\ \A n \in Node : obj[n] = o => Lookup(o) = {n} /\ refs[n] = held[o]
    BY DEF HeldIsCounted, Watched
  <2>1. held[o] > 0 => o \in Roots
    BY ObjectAssumption DEF RefInv, CountsRight, Roots
  <2>2. ASSUME NEW n \in Node, obj[n] = o
        PROVE Lookup(o) = {n} /\ refs[n] = held[o]
    <3>1. n \in Lookup(o)
      BY <2>2, NodeOf
    <3> QED
      BY <2>2, <3>1, NodeOf
  <2> QED
    BY <2>1, <2>2
<1> QED
  BY <1>1, RefInvAlways, WatchedAlways, PTL
=============================================================================

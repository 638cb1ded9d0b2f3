--------------------------- MODULE CollectorProofs ---------------------------
(* Theorems on reference counts and the garbage collector: the counts, the *)
(* chains and the weak references are exact, whatever Releases nest in.    *)
EXTENDS Collector, FiniteSetTheorems, SequenceTheorems, WellFoundedInduction, TLAPS

(* Chains without repetitions, as the sets of what they hold, and the order *)
(* in them.                                                                *)
Distinct(c) == \A i, j \in DOMAIN c : c[i] = c[j] => i = j
Before(c, a, b) == \E i, j \in DOMAIN c : i < j /\ c[i] = a /\ c[j] = b

LEMMA InRange ==
  ASSUME NEW S, NEW c \in Seq(S)
  PROVE /\ DOMAIN c = 1 .. Len(c) /\ Len(c) \in Nat
        /\ \A x : x \in Range(c) <=> \E i \in 1 .. Len(c) : c[i] = x
        /\ Range(c) \subseteq S
<1>1. DOMAIN c = 1 .. Len(c) /\ Len(c) \in Nat OBVIOUS
<1>2. \A x : x \in Range(c) <=> \E i \in 1 .. Len(c) : c[i] = x BY <1>1 DEF Range
<1>3. QED BY <1>1, <1>2

LEMMA Joined ==
  ASSUME NEW S, NEW c \in Seq(S), NEW d \in Seq(S), Distinct(c), Distinct(d), Range(c) \cap Range(d) = {}
  PROVE c \o d \in Seq(S) /\ Range(c \o d) = Range(c) \union Range(d) /\ Distinct(c \o d)
<1>1. /\ c \o d \in Seq(S) /\ Len(c \o d) = Len(c) + Len(d)
      /\ \A i \in 1 .. Len(c) + Len(d) : (c \o d)[i] = IF i <= Len(c) THEN c[i] ELSE d[i - Len(c)]
  BY ConcatProperties
<1>2. Range(c \o d) = Range(c) \union Range(d) BY RangeConcatenation
<1>3. Len(c) \in Nat /\ Len(d) \in Nat /\ DOMAIN c = 1 .. Len(c) /\ DOMAIN d = 1 .. Len(d) BY InRange
<1> DEFINE e == c \o d
<1> HIDE DEF e
<1>4. ASSUME NEW i \in 1 .. Len(e), NEW j \in 1 .. Len(e), e[i] = e[j] PROVE i = j
  <2>1. /\ e[i] = IF i <= Len(c) THEN c[i] ELSE d[i - Len(c)]
        /\ e[j] = IF j <= Len(c) THEN c[j] ELSE d[j - Len(c)]
    BY <1>1 DEF e
  <2>2. CASE i <= Len(c) /\ j <= Len(c)
    <3>1. i \in DOMAIN c /\ j \in DOMAIN c BY <1>3, <2>2
    <3>2. QED BY <1>4, <2>1, <2>2, <3>1 DEF Distinct
  <2>3. CASE ~(i <= Len(c)) /\ ~(j <= Len(c))
    <3>1. i - Len(c) \in DOMAIN d /\ j - Len(c) \in DOMAIN d BY <1>1, <1>3, <2>3 DEF e
    <3>2. i - Len(c) = j - Len(c) BY <1>4, <2>1, <2>3, <3>1 DEF Distinct
    <3>3. QED BY <1>3, <3>2
  <2>4. CASE i <= Len(c) /\ ~(j <= Len(c))
    <3>1. i \in 1 .. Len(c) /\ j - Len(c) \in 1 .. Len(d) BY <1>1, <1>3, <2>4 DEF e
    <3>2. c[i] \in Range(c) /\ d[j - Len(c)] \in Range(d) BY <3>1, InRange
    <3>3. QED BY <1>4, <2>1, <2>4, <3>2
  <2>5. CASE ~(i <= Len(c)) /\ j <= Len(c)
    <3>1. j \in 1 .. Len(c) /\ i - Len(c) \in 1 .. Len(d) BY <1>1, <1>3, <2>5 DEF e
    <3>2. c[j] \in Range(c) /\ d[i - Len(c)] \in Range(d) BY <3>1, InRange
    <3>3. QED BY <1>4, <2>1, <2>5, <3>2
  <2>6. QED BY <2>2, <2>3, <2>4, <2>5
<1>5. DOMAIN e = 1 .. Len(e) BY <1>1, InRange DEF e
<1>6. Distinct(e) BY <1>4, <1>5 DEF Distinct
<1>7. QED BY <1>1, <1>2, <1>6 DEF e

LEMMA Single ==
  ASSUME NEW S, NEW x \in S
  PROVE <<x>> \in Seq(S) /\ Range(<<x>>) = {x} /\ Distinct(<<x>>)
<1>1. <<x>> \in Seq(S) /\ DOMAIN <<x>> = {1} /\ <<x>>[1] = x OBVIOUS
<1>2. QED BY <1>1 DEF Range, Distinct

LEMMA AddedFirst ==
  ASSUME NEW S, NEW c \in Seq(S), NEW x \in S, Distinct(c), x \notin Range(c)
  PROVE <<x>> \o c \in Seq(S) /\ Range(<<x>> \o c) = {x} \union Range(c) /\ Distinct(<<x>> \o c)
<1> DEFINE e == <<x>>
<1>1. e \in Seq(S) /\ Range(e) = {x} /\ Distinct(e) BY Single
<1> HIDE DEF e
<1>2. Range(e) \cap Range(c) = {} BY <1>1
<1>3. e \o c \in Seq(S) /\ Range(e \o c) = Range(e) \union Range(c) /\ Distinct(e \o c) BY <1>1, <1>2, Joined
<1>4. QED BY <1>1, <1>3 DEF e

LEMMA AddedLast ==
  ASSUME NEW S, NEW c \in Seq(S), NEW x \in S, Distinct(c), x \notin Range(c)
  PROVE Append(c, x) \in Seq(S) /\ Range(Append(c, x)) = Range(c) \union {x} /\ Distinct(Append(c, x))
<1> DEFINE e == <<x>>
<1>1. e \in Seq(S) /\ Range(e) = {x} /\ Distinct(e) /\ Append(c, x) = c \o e BY Single, AppendIsConcat
<1> HIDE DEF e
<1>2. Range(c) \cap Range(e) = {} BY <1>1
<1>3. c \o e \in Seq(S) /\ Range(c \o e) = Range(c) \union Range(e) /\ Distinct(c \o e) BY <1>1, <1>2, Joined
<1>4. QED BY <1>1, <1>3

LEMMA Removed ==
  ASSUME NEW S, NEW c \in Seq(S), NEW o, Distinct(c), o \in Range(c)
  PROVE /\ Without(c, o) \in Seq(S)
        /\ Range(Without(c, o)) = Range(c) \ {o} /\ Distinct(Without(c, o))
        /\ \A a, b : Before(Without(c, o), a, b) => Before(c, a, b)
<1> DEFINE i == Index(c, o)
           r == Without(c, o)
           n == Len(c)
<1>1. DOMAIN c = 1 .. n /\ Len(c) = n /\ n \in Nat /\ i \in 1 .. Len(c) /\ c[i] = o
  <2>1. DOMAIN c = 1 .. Len(c) /\ Len(c) \in Nat /\ \E k \in 1 .. Len(c) : c[k] = o BY InRange
  <2>2. QED BY <2>1 DEF Index
<1> HIDE DEF i, n
<1>2. /\ r \in Seq(S) /\ Len(r) = n - 1
      /\ \A k \in 1 .. n - 1 : r[k] = IF k < i THEN c[k] ELSE c[k + 1]
  <2> DEFINE low == SubSeq(c, 1, i - 1)
             high == SubSeq(c, i + 1, n)
  <2>1. low \in Seq(S) /\ Len(low) = i - 1 /\ \A k \in 1 .. i - 1 : low[k] = c[k]
    <3>1. \A k \in 1 .. i - 1 : c[k] \in S BY <1>1, ElementOfSeq
    <3>2. /\ low \in Seq(S) /\ Len(low) = (IF 1 <= i - 1 THEN i - 1 - 1 + 1 ELSE 0)
          /\ \A k \in 1 .. i - 1 - 1 + 1 : low[k] = c[1 + k - 1]
      BY <1>1, <3>1, SubSeqProperties
    <3> HIDE DEF low
    <3>3. QED BY <1>1, <3>2
  <2>2. high \in Seq(S) /\ Len(high) = n - i /\ \A k \in 1 .. n - i : high[k] = c[i + k]
    <3>1. \A k \in i + 1 .. n : c[k] \in S BY <1>1, ElementOfSeq
    <3>2. /\ high \in Seq(S) /\ Len(high) = (IF i + 1 <= n THEN n - (i + 1) + 1 ELSE 0)
          /\ \A k \in 1 .. n - (i + 1) + 1 : high[k] = c[i + 1 + k - 1]
      BY <1>1, <3>1, SubSeqProperties
    <3> HIDE DEF high
    <3>3. QED BY <1>1, <3>2
  <2>3. r = low \o high BY DEF Without, RemoveAt, i, n
  <2> HIDE DEF low, high, r
  <2>4. /\ r \in Seq(S) /\ Len(r) = Len(low) + Len(high)
        /\ \A k \in 1 .. Len(low) + Len(high) : r[k] = IF k <= Len(low) THEN low[k] ELSE high[k - Len(low)]
    BY <2>1, <2>2, <2>3, ConcatProperties
  <2>5. Len(r) = n - 1 BY <1>1, <2>1, <2>2, <2>4
  <2>6. ASSUME NEW k \in 1 .. n - 1 PROVE r[k] = IF k < i THEN c[k] ELSE c[k + 1]
    <3>1. CASE k < i BY <1>1, <2>1, <2>2, <2>4, <3>1
    <3>2. CASE ~(k < i)
      <4>1. r[k] = high[k - (i - 1)] BY <1>1, <2>1, <2>2, <2>4, <3>2
      <4>2. k - (i - 1) \in 1 .. n - i BY <1>1, <3>2
      <4>3. i + (k - (i - 1)) = k + 1 BY <1>1
      <4>4. QED BY <2>2, <3>2, <4>1, <4>2, <4>3
    <3>3. QED BY <3>1, <3>2
  <2>7. QED BY <2>4, <2>5, <2>6
<1> HIDE DEF r
<1>3. DOMAIN r = 1 .. n - 1 BY <1>1, <1>2, InRange
<1> DEFINE at(k) == IF k < i THEN k ELSE k + 1
<1>4. /\ \A k \in 1 .. n - 1 : at(k) \in 1 .. n /\ at(k) # i /\ r[k] = c[at(k)]
      /\ \A k, l \in 1 .. n - 1 : (at(k) = at(l) => k = l) /\ (k < l => at(k) < at(l))
      /\ \A l \in 1 .. n : l # i => \E k \in 1 .. n - 1 : at(k) = l
  <2>1. \A k \in 1 .. n - 1 : at(k) \in 1 .. n /\ at(k) # i /\ r[k] = c[at(k)] BY <1>1, <1>2
  <2>2. \A k, l \in 1 .. n - 1 : (at(k) = at(l) => k = l) /\ (k < l => at(k) < at(l)) BY <1>1
  <2>3. ASSUME NEW l \in 1 .. n, l # i PROVE \E k \in 1 .. n - 1 : at(k) = l
    <3>1. CASE l < i BY <1>1, <3>1
    <3>2. CASE l > i
      <4>1. l - 1 \in 1 .. n - 1 /\ at(l - 1) = l BY <1>1, <3>2
      <4>2. QED BY <4>1
    <3>3. QED BY <1>1, <2>3, <3>1, <3>2
  <2>4. QED BY <2>1, <2>2, <2>3
<1> HIDE DEF at
<1>5. Distinct(r) BY <1>1, <1>3, <1>4 DEF Distinct
<1>6. \A a, b : Before(r, a, b) => Before(c, a, b) BY <1>1, <1>3, <1>4 DEF Before
<1>7. Range(r) = Range(c) \ {o}
  <2>1. \A x : x \in Range(r) <=> \E k \in 1 .. n - 1 : r[k] = x BY <1>2, InRange
  <2>2. \A x : x \in Range(c) <=> \E k \in 1 .. n : c[k] = x BY <1>1, InRange
  <2>3. \A l \in 1 .. n : l # i => c[l] # o BY <1>1 DEF Distinct
  <2>4. ASSUME NEW x \in Range(r) PROVE x \in Range(c) \ {o} BY <1>4, <2>1, <2>2, <2>3
  <2>5. ASSUME NEW x \in Range(c) \ {o} PROVE x \in Range(r) BY <1>1, <1>4, <2>1, <2>2
  <2>6. QED BY <2>4, <2>5
<1>8. QED BY <1>2, <1>5, <1>6, <1>7 DEF r

LEMMA Dropped ==
  ASSUME NEW S, NEW c \in Seq(S), Distinct(c), c # <<>>
  PROVE /\ Last(c) \in Range(c) /\ Last(c) \in S
        /\ Front(c) \in Seq(S) /\ Range(Front(c)) = Range(c) \ {Last(c)} /\ Distinct(Front(c))
<1> DEFINE n == Len(c)
<1>1. n \in Nat /\ n > 0 /\ Len(c) = n /\ DOMAIN c = 1 .. n OBVIOUS
<1> HIDE DEF n
<1>2. Front(c) \in Seq(S) /\ Len(Front(c)) = n - 1 /\ \A k \in 1 .. n - 1 : Front(c)[k] = c[k]
  <2> DEFINE low == SubSeq(c, 1, n - 1)
  <2>1. \A k \in 1 .. n - 1 : c[k] \in S BY <1>1, ElementOfSeq
  <2>2. /\ low \in Seq(S) /\ Len(low) = (IF 1 <= n - 1 THEN n - 1 - 1 + 1 ELSE 0)
        /\ \A k \in 1 .. n - 1 - 1 + 1 : low[k] = c[1 + k - 1]
    BY <1>1, <2>1, SubSeqProperties
  <2>3. Front(c) = low BY DEF Front, n
  <2> HIDE DEF low
  <2>4. QED BY <1>1, <2>2, <2>3
<1> DEFINE f == Front(c)
<1> HIDE DEF f
<1>3. Last(c) = c[n] BY DEF Last, n
<1>4. \A x : x \in Range(f) <=> \E k \in 1 .. n - 1 : f[k] = x BY <1>2, InRange DEF f
<1>5. \A x : x \in Range(c) <=> \E k \in 1 .. n : c[k] = x BY <1>1, InRange
<1>6. DOMAIN f = 1 .. n - 1 BY <1>2, InRange DEF f
<1>7. \A k \in 1 .. n - 1 : f[k] = c[k] /\ k \in 1 .. n /\ k # n BY <1>1, <1>2 DEF f
<1>8. Distinct(f) BY <1>1, <1>6, <1>7 DEF Distinct
<1>9. Range(f) = Range(c) \ {Last(c)}
  <2>1. \A k \in 1 .. n - 1 : c[k] # c[n] BY <1>1, <1>7 DEF Distinct
  <2>2. \A k \in 1 .. n : k # n => k \in 1 .. n - 1 BY <1>1
  <2>3. \A x \in Range(f) : x \in Range(c) \ {Last(c)} BY <1>3, <1>4, <1>5, <1>7, <2>1
  <2>4. \A x \in Range(c) \ {Last(c)} : x \in Range(f) BY <1>3, <1>4, <1>5, <1>7, <2>2
  <2>5. QED BY <2>3, <2>4
<1>10. Last(c) \in Range(c) BY <1>1, <1>3, <1>5
<1>11. QED BY <1>2, <1>8, <1>9, <1>10, InRange DEF f

(* The head of a chain comes before everything, and what follows an object *)
(* comes after it at once.                                                 *)
LEMMA AtHead ==
  ASSUME NEW S, NEW c \in Seq(S), Distinct(c)
  PROVE /\ c = <<>> => First(c) = NULL /\ Range(c) = {}
        /\ c # <<>> => First(c) \in Range(c) /\ \A a : ~Before(c, a, First(c))
<1>1. DOMAIN c = 1 .. Len(c) /\ Len(c) \in Nat /\ \A x : x \in Range(c) <=> \E i \in 1 .. Len(c) : c[i] = x
  BY InRange
<1>2. CASE c = <<>>
  <2>1. Len(c) = 0 BY <1>2
  <2>2. Range(c) = {} BY <1>1, <2>1
  <2>3. QED BY <1>2, <2>2 DEF First
<1>3. CASE c # <<>>
  <2>1. First(c) = c[1] /\ 1 \in 1 .. Len(c) BY <1>1, <1>3 DEF First
  <2>2. \A i \in 1 .. Len(c) : ~(i < 1) BY <1>1
  <2>3. \A a : ~Before(c, a, c[1]) BY <1>1, <2>1, <2>2 DEF Before, Distinct
  <2>4. QED BY <1>1, <1>3, <2>1, <2>3
<1>4. QED BY <1>2, <1>3

LEMMA AfterIt ==
  ASSUME NEW S, NEW c \in Seq(S), NEW o, Distinct(c), o \in Range(c), NULL \notin S
  PROVE LET nx == First(SubSeq(c, Index(c, o) + 1, Len(c)))
        IN \/ nx = NULL /\ \A a \in Range(c) : a = o \/ Before(c, a, o)
           \/ nx \in Range(c) /\ nx # o /\ \A a : Before(c, a, nx) => a = o \/ Before(c, a, o)
<1> DEFINE i == Index(c, o)
           n == Len(c)
           high == SubSeq(c, i + 1, n)
<1>1. DOMAIN c = 1 .. n /\ Len(c) = n /\ n \in Nat /\ i \in 1 .. Len(c) /\ c[i] = o
  <2>1. DOMAIN c = 1 .. Len(c) /\ Len(c) \in Nat /\ \E k \in 1 .. Len(c) : c[k] = o BY InRange
  <2>2. QED BY <2>1 DEF Index
<1> HIDE DEF i, n
<1>2. \A x : x \in Range(c) <=> \E k \in 1 .. n : c[k] = x BY <1>1, InRange
<1>3. /\ high \in Seq(S) /\ Len(high) = (IF i + 1 <= n THEN n - (i + 1) + 1 ELSE 0)
      /\ \A k \in 1 .. n - (i + 1) + 1 : high[k] = c[i + 1 + k - 1]
  <2>1. \A k \in i + 1 .. n : c[k] \in S BY <1>1, ElementOfSeq
  <2>2. QED BY <1>1, <2>1, SubSeqProperties
<1> HIDE DEF high
<1>4. CASE i = n
  <2>1. Len(high) = 0 BY <1>1, <1>3, <1>4
  <2>2. First(high) = NULL BY <1>3, <2>1 DEF First
  <2>3. \A k \in 1 .. n : k = i \/ k < i BY <1>1, <1>4
  <2>4. \A a \in Range(c) : a = o \/ Before(c, a, o) BY <1>1, <1>2, <2>3 DEF Before
  <2>5. QED BY <2>2, <2>4 DEF high, i, n
<1>5. CASE i # n
  <2>1. Len(high) > 0 /\ high[1] = c[i + 1] /\ i + 1 \in 1 .. n BY <1>1, <1>3, <1>5
  <2>2. First(high) = c[i + 1] BY <1>3, <2>1 DEF First
  <2>3. c[i + 1] \in Range(c) BY <1>2, <2>1
  <2>4. c[i + 1] # o BY <1>1, <2>1 DEF Distinct
  <2>5. \A k \in 1 .. n : k < i + 1 => k = i \/ k < i BY <1>1
  <2>6. \A a : Before(c, a, c[i + 1]) => a = o \/ Before(c, a, o) BY <1>1, <2>1, <2>5 DEF Before, Distinct
  <2>7. QED BY <2>2, <2>3, <2>4, <2>6 DEF high, i, n
<1>6. QED BY <1>4, <1>5
-----------------------------------------------------------------------------
(* The inductive invariant. *)
FieldSlot == Obj \X Field

Types ==
  /\ live \subseteq Counted /\ marked \subseteq Obj
  /\ slot \in [Slot -> Counted \union {NULL}]
  /\ uiRef \in [Counted -> Nat]
  /\ weakref \in [Obj -> Weak \union {NULL}] /\ target \in [Weak -> Obj \union {NULL}]
  /\ gcChain \in Seq(Obj) /\ tchain \in Seq(Obj) /\ dying \in Seq(Counted)
  /\ stray \subseteq Seq(Obj) /\ strayed \in BOOLEAN
  /\ pc \in {"idle", "mark", "markall", "sweep", "close", "delete", "closed"}
  /\ t \in Obj \union {NULL}

(* Reference counts. *)
Refs(x) == {s \in Slot : slot[s] = x}
Counts ==
  /\ \A x \in Counted : IsFiniteSet(Refs(x)) /\ uiRef[x] = Cardinality(Refs(x)) + B(x = t)
  /\ \A x \in live : uiRef[x] = 0 <=> x \in Range(dying)

(* What refers to what. *)
KeptLower == \A s \in Kept : IsObj(slot[s]) => Level[s[1]] < Level[slot[s]]

Pointers ==
  /\ \A s \in Slot : slot[s] \in live \union {NULL}
  /\ t \in live \union {NULL}
  /\ \A s \in FieldSlot : slot[s] # NULL => s[1] \in live
  /\ KeptLower

WeakPointers ==
  /\ \A w \in Weak : target[w] # NULL => w \in live /\ target[w] \in live /\ weakref[target[w]] = w
  /\ \A o \in Obj : weakref[o] # NULL => o \in live /\ weakref[o] \in live /\ target[weakref[o]] = o

(* The lists of the objects that are not marked, and what they hold. *)
ListsOK ==
  /\ \A c \in Lists : Distinct(c)
  /\ \A c, d \in Lists : c # d => Range(c) \cap Range(d) = {}
  /\ <<>> \notin stray /\ gcChain \notin stray

Held == UNION {Range(c) : c \in Lists}

Chains ==
  /\ ListsOK /\ Distinct(tchain) /\ Distinct(dying)
  /\ Range(tchain) = marked /\ Held \cap marked = {}
  /\ Held \subseteq live /\ marked \subseteq live
  /\ (live \cap Obj) \ Range(dying) \subseteq Held \union marked
  /\ Range(dying) \subseteq live \ marked
  /\ ~strayed => stray = {}

(* The phases of a collection. *)
MarkClosed == \A s \in Followed(marked) : IsObj(slot[s]) => slot[s] \in marked
Swept(o) == t = NULL \/ Before(gcChain, o, t)
SweptClear == ~strayed => \A o \in Range(gcChain) : Swept(o) => ToClear(o) = {}

Phases ==
  /\ dying # <<>> => pc \in {"idle", "sweep", "close", "delete"}
  /\ t # NULL => pc \in {"sweep", "delete"} /\ t \notin marked
  /\ pc \notin {"mark", "markall", "sweep"} => marked = {}
  /\ marked \subseteq Reachable
  /\ pc \in {"sweep", "delete"} => MarkClosed /\ SweptClear
  /\ pc \in {"delete", "closed"} => \A r \in Root : slot[r] = NULL
  /\ pc = "closed" /\ ~strayed => live = {}

CollectorInv == Types /\ Counts /\ Pointers /\ WeakPointers /\ Chains /\ Phases
-----------------------------------------------------------------------------
(* What the lists hold. *)
LEMMA ListFacts ==
  ASSUME gcChain \in Seq(Obj), stray \subseteq Seq(Obj)
  PROVE /\ \A c \in Lists : c \in Seq(Obj) /\ (\A o : Contains(c, o) <=> o \in Range(c)) /\ Range(c) \subseteq Held
        /\ \A o : o \in Held <=> \E c \in Lists : o \in Range(c)
        /\ \A o : OnList(o) <=> o \in Held
        /\ Held \subseteq Obj /\ gcChain \in Lists /\ Range(gcChain) \subseteq Held
        /\ stray = {} => Lists = {gcChain} /\ Held = Range(gcChain)
<1>1. \A c \in Lists : c \in Seq(Obj) BY DEF Lists
<1>2. ASSUME NEW c \in Lists, NEW o PROVE Contains(c, o) <=> o \in Range(c)
  BY <1>1, InRange DEF Contains
<1>3. \A c \in Lists : Range(c) \subseteq Obj BY <1>1, InRange
<1>4. \A o : o \in Held <=> \E c \in Lists : o \in Range(c) BY DEF Held
<1>5. gcChain \in Lists /\ (stray = {} => Lists = {gcChain}) BY DEF Lists
<1>6. \A o : OnList(o) <=> o \in Held BY <1>2, <1>4 DEF OnList
<1>7. Held \subseteq Obj /\ (\A c \in Lists : Range(c) \subseteq Held) BY <1>3, <1>4
<1>8. stray = {} => Held = Range(gcChain) BY <1>4, <1>5
<1>9. QED BY <1>1, <1>2, <1>4, <1>5, <1>6, <1>7, <1>8

LEMMA ListsStay ==
  ASSUME UNCHANGED <<gcChain, stray>>
  PROVE Lists' = Lists /\ Held' = Held /\ (ListsOK' <=> ListsOK)
<1>1. Lists' = Lists BY DEF Lists
<1>2. QED BY <1>1 DEF Held, ListsOK, Distinct, Range

(* One list is replaced by what is left of it, and an empty one may go. *)
LEMMA ListReplaced ==
  ASSUME gcChain \in Seq(Obj), stray \subseteq Seq(Obj), ListsOK, NEW c \in Lists, NEW r \in Seq(Obj), NEW o,
         o \in Range(c), Range(r) = Range(c) \ {o}, Distinct(r),
         r \in Lists', \A d \in Lists' : d = r \/ d \in Lists \ {c},
         \A d \in Lists \ {c} : d \in Lists' \/ d = <<>>,
         <<>> \notin stray', gcChain' \notin stray'
  PROVE ListsOK' /\ Held' = Held \ {o}
<1>1. \A d \in Lists : Distinct(d) BY DEF ListsOK
<1>2. \A d \in Lists' : Distinct(d) BY <1>1
<1>3. \A d, e \in Lists : d # e => Range(d) \cap Range(e) = {} BY DEF ListsOK
<1>4. \A d, e \in Lists' : d # e => Range(d) \cap Range(e) = {}
  <2>1. \A d \in Lists \ {c} : Range(d) \cap Range(c) = {} BY <1>3
  <2>2. \A d \in Lists \ {c} : Range(d) \cap Range(r) = {} BY <2>1
  <2>3. QED BY <1>3, <2>2
<1>5. ListsOK' BY <1>2, <1>4 DEF ListsOK, Distinct, Range
<1>6. ASSUME NEW x PROVE x \in Held' <=> x \in Held /\ x # o
  <2>1. x \in Held' <=> \E d \in Lists' : x \in Range(d) BY DEF Held, Range
  <2>2. x \in Held <=> \E d \in Lists : x \in Range(d) BY DEF Held
  <2>3. Range(<<>>) = {} BY DEF Range
  <2>4. ASSUME x \in Held' PROVE x \in Held /\ x # o
    <3>1. PICK d \in Lists' : x \in Range(d) BY <2>1, <2>4
    <3>2. CASE d = r BY <2>2, <3>1, <3>2
    <3>3. CASE d \in Lists \ {c}
      <4>1. o \notin Range(d) BY <1>3, <3>3
      <4>2. QED BY <2>2, <3>1, <3>3, <4>1
    <3>4. QED BY <3>1, <3>2, <3>3
  <2>5. ASSUME x \in Held, x # o PROVE x \in Held'
    <3>1. PICK d \in Lists : x \in Range(d) BY <2>2, <2>5
    <3>2. CASE d = c
      <4>1. x \in Range(r) BY <2>5, <3>1, <3>2
      <4>2. QED BY <2>1, <4>1
    <3>3. CASE d # c
      <4>1. d # <<>> BY <2>3, <3>1
      <4>2. QED BY <2>1, <3>1, <3>3, <4>1
    <3>4. QED BY <3>2, <3>3
  <2>6. QED BY <2>4, <2>5
<1>7. QED BY <1>5, <1>6

(* An object is linked out of its list, whatever becomes of _gc_chain. *)
LEMMA LinkedOut ==
  ASSUME gcChain \in Seq(Obj), stray \subseteq Seq(Obj), ListsOK, NEW o, RemoveFromChain(o)
  PROVE /\ gcChain' \in Seq(Obj) /\ stray' \subseteq Seq(Obj) /\ ListsOK'
        /\ o \in Held /\ Held' = Held \ {o}
        /\ stray = {} => stray' = {} /\ \A a, b : Before(gcChain', a, b) => Before(gcChain, a, b)
<1>1. PICK c \in Lists :
        /\ Contains(c, o)
        /\ \/ c = gcChain /\ gcChain' = Without(c, o) /\ stray' = stray
           \/ /\ c # gcChain /\ o = Head(c)
              /\ gcChain' = Without(c, o) /\ stray' = (stray \ {c}) \union ({gcChain} \ {<<>>})
           \/ /\ c # gcChain /\ o # Head(c)
              /\ gcChain' = gcChain /\ stray' = (stray \ {c}) \union {Without(c, o)}
  BY DEF RemoveFromChain
<1>2. c \in Seq(Obj) /\ o \in Range(c) /\ Distinct(c) /\ o \in Held BY <1>1, ListFacts DEF ListsOK
<1> DEFINE r == Without(c, o)
<1>3. /\ r \in Seq(Obj) /\ Range(r) = Range(c) \ {o} /\ Distinct(r)
      /\ \A a, b : Before(r, a, b) => Before(c, a, b)
  BY <1>2, Removed
<1>4. \/ c = gcChain /\ gcChain' = r /\ stray' = stray
      \/ /\ c # gcChain /\ o = Head(c)
         /\ gcChain' = r /\ stray' = (stray \ {c}) \union ({gcChain} \ {<<>>})
      \/ /\ c # gcChain /\ o # Head(c)
         /\ gcChain' = gcChain /\ stray' = (stray \ {c}) \union {r}
  BY <1>1
<1> HIDE DEF r
<1>5. Lists = {gcChain} \union stray /\ Lists' = {gcChain'} \union stray' BY DEF Lists
<1>6. <<>> \notin stray /\ gcChain \notin stray BY DEF ListsOK
<1>7. r # <<>> => r \notin Lists \ {c}
  <2>1. r # <<>> => First(r) \in Range(r) BY <1>3, AtHead
  <2>2. \A d \in Lists : d # c => Range(d) \cap Range(c) = {} BY DEF ListsOK
  <2>3. QED BY <1>3, <2>1, <2>2
<1>8. c # <<>>
  <2>1. Range(<<>>) = {} BY DEF Range
  <2>2. QED BY <1>2, <2>1
<1>9. o # Head(c) => r # <<>>
  <2>1. Head(c) \in Range(c) BY <1>2, <1>8, AtHead DEF First
  <2>2. Range(<<>>) = {} BY DEF Range
  <2>3. QED BY <1>3, <2>1, <2>2
<1>10. r \in Lists' BY <1>4, <1>5
<1>11. \A d \in Lists' : d = r \/ d \in Lists \ {c}
  <2>1. CASE c = gcChain /\ gcChain' = r /\ stray' = stray BY <1>5, <1>6, <2>1
  <2>2. CASE c # gcChain /\ gcChain' = r /\ stray' = (stray \ {c}) \union ({gcChain} \ {<<>>}) BY <1>5, <2>2
  <2>3. CASE c # gcChain /\ gcChain' = gcChain /\ stray' = (stray \ {c}) \union {r} BY <1>5, <2>3
  <2>4. QED BY <1>4, <2>1, <2>2, <2>3
<1>12. \A d \in Lists \ {c} : d \in Lists' \/ d = <<>>
  <2>1. CASE c = gcChain /\ gcChain' = r /\ stray' = stray BY <1>5, <2>1
  <2>2. CASE c # gcChain /\ gcChain' = r /\ stray' = (stray \ {c}) \union ({gcChain} \ {<<>>}) BY <1>5, <2>2
  <2>3. CASE c # gcChain /\ gcChain' = gcChain /\ stray' = (stray \ {c}) \union {r} BY <1>5, <2>3
  <2>4. QED BY <1>4, <2>1, <2>2, <2>3
<1>13. <<>> \notin stray' BY <1>4, <1>6, <1>9
<1>14. gcChain' \notin stray'
  <2>1. CASE c = gcChain /\ gcChain' = r /\ stray' = stray BY <1>5, <1>6, <1>7, <2>1
  <2>2. CASE c # gcChain /\ gcChain' = r /\ stray' = (stray \ {c}) \union ({gcChain} \ {<<>>})
    BY <1>5, <1>6, <1>7, <2>2
  <2>3. CASE c # gcChain /\ o # Head(c) /\ gcChain' = gcChain /\ stray' = (stray \ {c}) \union {r}
    BY <1>5, <1>6, <1>7, <1>9, <2>3
  <2>4. QED BY <1>4, <2>1, <2>2, <2>3
<1>15. ListsOK' /\ Held' = Held \ {o} BY <1>2, <1>3, <1>10, <1>11, <1>12, <1>13, <1>14, ListReplaced
<1>16. gcChain' \in Seq(Obj) /\ stray' \subseteq Seq(Obj) BY <1>3, <1>4
<1>17. stray = {} => c = gcChain /\ gcChain' = r /\ stray' = {} BY <1>4, <1>5
<1>18. QED BY <1>2, <1>3, <1>15, <1>16, <1>17

LEMMA ListGrows ==
  ASSUME gcChain \in Seq(Obj), stray \subseteq Seq(Obj), ListsOK, NEW o, o \notin Held, stray' = stray,
         Range(gcChain') = {o} \union Range(gcChain), Distinct(gcChain')
  PROVE ListsOK' /\ Held' = Held \union {o}
<1>1. Lists = {gcChain} \union stray /\ Lists' = {gcChain'} \union stray BY DEF Lists
<1>2. \A c \in Lists : Range(c) \subseteq Held BY ListFacts
<1>3. /\ \A c \in Lists : Distinct(c)
      /\ \A c, d \in Lists : c # d => Range(c) \cap Range(d) = {}
      /\ <<>> \notin stray /\ gcChain \notin stray
  BY DEF ListsOK
<1>4. gcChain' \notin stray BY <1>1, <1>2
<1>5. \A c \in Lists' : Distinct(c) BY <1>1, <1>3
<1>6. \A c, d \in Lists' : c # d => Range(c) \cap Range(d) = {}
  <2>1. \A c \in stray : Range(c) \cap Range(gcChain) = {} /\ o \notin Range(c) BY <1>1, <1>2, <1>3
  <2>2. \A c \in stray : Range(c) \cap Range(gcChain') = {} BY <2>1
  <2>3. QED BY <1>1, <1>3, <2>2
<1>7. ListsOK' BY <1>3, <1>4, <1>5, <1>6 DEF ListsOK, Distinct, Range
<1>8. ASSUME NEW x PROVE x \in Held' <=> x \in Held \/ x = o
  <2>1. x \in Held' <=> \E d \in Lists' : x \in Range(d) BY DEF Held, Range
  <2>2. x \in Held <=> \E d \in Lists : x \in Range(d) BY DEF Held
  <2>3. QED BY <1>1, <2>1, <2>2
<1>9. QED BY <1>7, <1>8

LEMMA ChainsStay ==
  ASSUME Chains, UNCHANGED <<gcChain, tchain, stray, strayed, marked>>, Distinct(dying'),
         Range(dying') \subseteq live' \ marked, Held \subseteq live', marked \subseteq live',
         (live' \cap Obj) \ Range(dying') \subseteq Held \union marked
  PROVE Chains'
<1>1. Held' = Held /\ (ListsOK' <=> ListsOK) BY ListsStay
<1>2. Distinct(tchain)' /\ Distinct(dying)' BY DEF Chains, Distinct
<1>3. Range(tchain)' = Range(tchain) /\ Range(dying)' = Range(dying') BY DEF Range
<1>4. QED BY <1>1, <1>2, <1>3 DEF Chains

(* References that are stored and dropped. *)
Exact == \A x \in Counted : IsFiniteSet(Refs(x)) /\ uiRef[x] = Cardinality(Refs(x)) + B(x = t)

LEMMA NullFacts == NULL \notin Counted /\ NULL \notin Obj /\ NULL \notin Weak /\ Obj \cap Weak = {}
BY DisjointAssumption DEF Counted

LEMMA CountIsNat ==
  ASSUME Exact, NEW x \in Counted
  PROVE /\ Cardinality(Refs(x)) \in Nat
        /\ Cardinality(Refs(x)) = 0 <=> Refs(x) = {}
        /\ uiRef[x] = 0 <=> Refs(x) = {} /\ x # t
<1>1. IsFiniteSet(Refs(x)) /\ uiRef[x] = Cardinality(Refs(x)) + B(x = t) BY DEF Exact
<1>2. Cardinality(Refs(x)) \in Nat BY <1>1, FS_CardinalityType
<1>3. Cardinality(Refs(x)) = 0 <=> Refs(x) = {} BY <1>1, FS_EmptySet
<1>4. CASE x = t
  <2>1. B(x = t) = 1 BY <1>4 DEF B
  <2>2. QED BY <1>1, <1>2, <1>3, <1>4, <2>1
<1>5. CASE x # t
  <2>1. B(x = t) = 0 BY <1>5 DEF B
  <2>2. QED BY <1>1, <1>2, <1>3, <1>5, <2>1
<1>6. QED BY <1>4, <1>5

ZeroIsNone == \A x \in Counted : uiRef[x] = 0 <=> Refs(x) = {} /\ x # t

LEMMA ZeroCount == Exact => ZeroIsNone
BY CountIsNat DEF ZeroIsNone

(* One slot changes: what the counts become. *)
LEMMA PutExact ==
  ASSUME Types, Exact, NEW s \in Slot, NEW v \in Counted \union {NULL}, Put(s, v), t' = t
  PROVE /\ slot' \in [Slot -> Counted \union {NULL}] /\ uiRef' \in [Counted -> Nat] /\ Exact'
        /\ slot'[s] = v /\ \A q \in Slot : q # s => slot'[q] = slot[q]
        /\ \A x \in Counted : x # v /\ x # slot[s] => uiRef'[x] = uiRef[x]
<1> DEFINE old == slot[s]
<1>1. /\ slot \in [Slot -> Counted \union {NULL}] /\ uiRef \in [Counted -> Nat]
      /\ slot' = [slot EXCEPT ![s] = v]
      /\ uiRef' = [x \in Counted |-> uiRef[x] + B(x = v) - B(x = old)]
  BY DEF Put, Types
<1>2. /\ slot' \in [Slot -> Counted \union {NULL}] /\ slot'[s] = v /\ \A q \in Slot : q # s => slot'[q] = slot[q] BY <1>1
<1>3. ASSUME NEW x \in Counted
      PROVE IsFiniteSet(Refs(x)') /\ uiRef'[x] = Cardinality(Refs(x)') + B(x = t') /\ uiRef'[x] \in Nat
            /\ (x # v /\ x # slot[s] => uiRef'[x] = uiRef[x])
  <2>1. IsFiniteSet(Refs(x)) /\ uiRef[x] = Cardinality(Refs(x)) + B(x = t) /\ Cardinality(Refs(x)) \in Nat
    BY CountIsNat DEF Exact
  <2>2. uiRef'[x] = uiRef[x] + B(x = v) - B(x = old) BY <1>1
  <2>3. B(x = t) \in {0, 1} /\ t' = t BY DEF B
  <2>4. Refs(x)' = {q \in Slot : slot'[q] = x} BY DEF Refs, Slot
  <2>5. CASE x = v /\ x = old
    <3>1. Refs(x)' = Refs(x) BY <1>2, <2>4, <2>5 DEF Refs
    <3>2. B(x = v) = 1 /\ B(x = old) = 1 BY <2>5 DEF B
    <3>3. QED BY <2>1, <2>2, <2>3, <2>5, <3>1, <3>2
  <2>6. CASE x = v /\ x # old
    <3>1. Refs(x)' = Refs(x) \union {s} /\ s \notin Refs(x) BY <1>2, <2>4, <2>6 DEF Refs
    <3>2. IsFiniteSet(Refs(x)') /\ Cardinality(Refs(x)') = Cardinality(Refs(x)) + 1 BY <2>1, <3>1, FS_AddElement
    <3>3. B(x = v) = 1 /\ B(x = old) = 0 BY <2>6 DEF B
    <3>4. QED BY <2>1, <2>2, <2>3, <2>6, <3>2, <3>3
  <2>7. CASE x # v /\ x = old
    <3>1. Refs(x)' = Refs(x) \ {s} /\ s \in Refs(x) BY <1>2, <2>4, <2>7 DEF Refs
    <3>2. IsFiniteSet(Refs(x)') /\ Cardinality(Refs(x)') = Cardinality(Refs(x)) - 1 BY <2>1, <3>1, FS_RemoveElement
    <3>3. Cardinality(Refs(x)') \in Nat BY <3>2, FS_CardinalityType
    <3>4. B(x = v) = 0 /\ B(x = old) = 1 BY <2>7 DEF B
    <3>5. QED BY <2>1, <2>2, <2>3, <2>7, <3>2, <3>3, <3>4
  <2>8. CASE x # v /\ x # old
    <3>1. Refs(x)' = Refs(x) BY <1>2, <2>4, <2>8 DEF Refs
    <3>2. B(x = v) = 0 /\ B(x = old) = 0 BY <2>8 DEF B
    <3>3. QED BY <2>1, <2>2, <2>3, <2>8, <3>1, <3>2
  <2>9. QED BY <2>5, <2>6, <2>7, <2>8
<1>4. Exact' BY <1>3 DEF Exact, Counted
<1>5. uiRef' \in [Counted -> Nat] BY <1>1, <1>3
<1>6. QED BY <1>2, <1>3, <1>4, <1>5

(* What has lost its last reference is released, and nothing else is: a    *)
(* marked object is always referred to.                                    *)
LEMMA PutDying ==
  ASSUME Types, Counts, Pointers, Chains, NEW s \in Slot, NEW v \in Counted \union {NULL}, Put(s, v), t' = t,
         live \subseteq live', live' \subseteq live \union {v}, live' \subseteq Counted, v \notin Range(dying),
         slot[s] \in marked => slot[s] = v \/ \E q \in Slot : q # s /\ slot[q] = slot[s]
  PROVE /\ dying' \in Seq(Counted) /\ Distinct(dying') /\ Range(dying) \subseteq Range(dying')
        /\ Range(dying') \subseteq live' \ marked
        /\ \A x \in live' : uiRef'[x] = 0 <=> x \in Range(dying')
<1> DEFINE old == slot[s]
<1>0. Exact BY DEF Counts, Exact
<1>1. /\ Exact' /\ slot'[s] = v /\ (\A q \in Slot : q # s => slot'[q] = slot[q])
      /\ \A x \in Counted : x # v /\ x # old => uiRef'[x] = uiRef[x]
  BY <1>0, PutExact
<1>2. dying' = IF old # NULL /\ old \notin marked /\ uiRef'[old] = 0 THEN Append(dying, old) ELSE dying BY DEF Put
<1>3. ASSUME NEW x \in Counted PROVE uiRef'[x] = 0 <=> x # t /\ \A q \in Slot : slot'[q] # x
  <2>1. uiRef'[x] = 0 <=> Refs(x)' = {} /\ x # t'
    <3>1. Exact' => ZeroIsNone' BY ZeroCount, PTL
    <3>2. QED BY <1>1, <3>1 DEF Counted, ZeroIsNone
  <2>2. Refs(x)' = {q \in Slot : slot'[q] = x} BY DEF Refs, Slot
  <2>3. QED BY <2>1, <2>2
<1>4. dying \in Seq(Counted) /\ Distinct(dying) /\ Range(dying) \subseteq live \ marked /\ live \subseteq Counted
  BY DEF Types, Chains
<1>5. \A x \in live : uiRef[x] = 0 <=> x \in Range(dying) BY DEF Counts
<1>6. old \in live \union {NULL} BY DEF Pointers
<1>7. v # NULL => uiRef'[v] # 0 BY <1>1, <1>3
<1>8. old # NULL => old \notin Range(dying)
  <2>1. old # NULL => old \in Counted /\ s \in Refs(old) BY <1>4, <1>6 DEF Refs
  <2>2. QED BY <1>0, <1>5, <1>6, <2>1, CountIsNat
<1> HIDE DEF old
<1>9. ASSUME NEW x \in live', x # old PROVE uiRef'[x] = 0 <=> x \in Range(dying)
  <2>1. CASE x = v
    <3>1. v # NULL BY <2>1, NullFacts
    <3>2. QED BY <2>1, <3>1, <1>7
  <2>2. CASE x # v
    <3>1. x \in live /\ x \in Counted BY <1>4, <2>2
    <3>2. QED BY <1>1, <1>5, <1>9, <2>2, <3>1
  <2>3. QED BY <2>1, <2>2
<1>10. CASE old # NULL /\ old \notin marked /\ uiRef'[old] = 0
  <2>1. dying' = Append(dying, old) /\ old \in Counted /\ old \notin Range(dying) /\ old \in live
    BY <1>2, <1>4, <1>6, <1>8, <1>10
  <2>2. dying' \in Seq(Counted) /\ Range(dying') = Range(dying) \union {old} /\ Distinct(dying')
    <3>0. dying \in Seq(Counted) /\ Distinct(dying) /\ old \in Counted /\ old \notin Range(dying) BY <1>4, <2>1
    <3>1. /\ Append(dying, old) \in Seq(Counted) /\ Range(Append(dying, old)) = Range(dying) \union {old}
          /\ Distinct(Append(dying, old))
      BY <3>0, AddedLast
    <3>2. QED BY <2>1, <3>1
  <2>3. \A x \in live' : uiRef'[x] = 0 <=> x \in Range(dying') BY <1>9, <1>10, <2>2
  <2>4. QED BY <1>4, <1>10, <2>1, <2>2, <2>3
<1>11. CASE ~(old # NULL /\ old \notin marked /\ uiRef'[old] = 0)
  <2>1. dying' = dying BY <1>2, <1>11
  <2>2. old # NULL => uiRef'[old] # 0
    <3>1. old \in marked => uiRef'[old] # 0
      <4>1. old \in marked => old \in Counted BY DEF Types, Counted
      <4>2. old \in marked => \E q \in Slot : slot'[q] = old BY <1>1 DEF old
      <4>3. QED BY <1>3, <4>1, <4>2
    <3>2. QED BY <1>11, <3>1
  <2>3. \A x \in live' : x # NULL BY NullFacts
  <2>4. \A x \in live' : uiRef'[x] = 0 <=> x \in Range(dying') BY <1>8, <1>9, <2>1, <2>2, <2>3
  <2>5. QED BY <1>4, <2>1, <2>4
<1>12. QED BY <1>10, <1>11

(* What a stored or dropped reference does to counts and pointers. *)
LEMMA PutInv ==
  ASSUME Types, Counts, Pointers, Chains, NEW s \in Slot, NEW v \in Counted \union {NULL}, Put(s, v), t' = t,
         live \subseteq live', live' \subseteq live \union {v}, live' \subseteq Counted, v \notin Range(dying),
         slot[s] \in marked => slot[s] = v \/ \E q \in Slot : q # s /\ slot[q] = slot[s],
         v \in live' \union {NULL}, s \in FieldSlot /\ v # NULL => s[1] \in live', Fits(s, v)
  PROVE /\ slot' \in [Slot -> Counted \union {NULL}] /\ uiRef' \in [Counted -> Nat]
        /\ slot'[s] = v /\ \A q \in Slot : q # s => slot'[q] = slot[q]
        /\ dying' \in Seq(Counted) /\ Distinct(dying') /\ Range(dying) \subseteq Range(dying')
        /\ Range(dying') \subseteq live' \ marked
        /\ Counts' /\ Pointers'
<1>1. Exact BY DEF Counts, Exact
<1>2. /\ slot' \in [Slot -> Counted \union {NULL}] /\ uiRef' \in [Counted -> Nat] /\ Exact'
      /\ slot'[s] = v /\ \A q \in Slot : q # s => slot'[q] = slot[q]
  BY <1>1, PutExact
<1>3. /\ dying' \in Seq(Counted) /\ Distinct(dying') /\ Range(dying) \subseteq Range(dying')
      /\ Range(dying') \subseteq live' \ marked
      /\ \A x \in live' : uiRef'[x] = 0 <=> x \in Range(dying')
  BY PutDying
<1>4. Counts' BY <1>2, <1>3 DEF Counts, Exact
<1>5. Pointers'
  <2>1. \A q \in Slot : slot'[q] \in live' \union {NULL} BY <1>2 DEF Pointers
  <2>2. t' \in live' \union {NULL} BY DEF Pointers
  <2>3. \A q \in FieldSlot : slot'[q] # NULL => q[1] \in live'
    <3>1. \A q \in FieldSlot : q \in Slot BY DEF FieldSlot, Slot
    <3>2. QED BY <1>2, <3>1 DEF Pointers
  <2>4. KeptLower'
    <3>1. \A q \in Kept : q \in Slot BY KeptAssumption DEF Slot
    <3>2. \A q \in Kept : IsObj(slot[q]) => Level[q[1]] < Level[slot[q]] BY DEF Pointers, KeptLower
    <3>3. s \in Kept /\ IsObj(v) => Level[s[1]] < Level[v] BY DEF Fits
    <3>4. QED BY <1>2, <3>1, <3>2, <3>3 DEF KeptLower, IsObj
  <2>5. QED BY <2>1, <2>2, <2>3, <2>4 DEF Pointers, Slot, FieldSlot
<1>6. QED BY <1>2, <1>3, <1>4, <1>5

LEMMA SlotFacts ==
  /\ \A q \in Slot : q \in Root \/ q \in FieldSlot
  /\ Root \subseteq Slot /\ FieldSlot \subseteq Slot /\ Root \cap FieldSlot = {}
  /\ \A q \in FieldSlot : q[1] \in Obj /\ q[2] \in Field /\ q = <<q[1], q[2]>>
BY DisjointAssumption DEF Slot, FieldSlot

LEMMA FieldFacts ==
  ASSUME NEW o \in Obj, NEW q \in Fields(o)
  PROVE q \in Slot /\ q \in FieldSlot /\ q \notin Root /\ q[1] = o /\ slot[q] # NULL
BY SlotFacts DEF Fields, FieldSlot

LEMMA NearFacts ==
  ASSUME Pointers, NEW q \in Near
  PROVE q \in Slot /\ (q \in FieldSlot => q[1] \in live)
<1>1. CASE q \in Root BY <1>1, SlotFacts
<1>2. CASE q \notin Root
  <2>1. PICK r \in Root : q \in FieldSlot /\ slot[r] = q[1] BY <1>2 DEF Near, FieldSlot
  <2>2. q[1] \in Obj /\ r \in Slot BY <2>1, SlotFacts
  <2>3. q[1] \in live BY <2>1, <2>2, NullFacts DEF Pointers
  <2>4. QED BY <2>1, <2>3, SlotFacts
<1>3. QED BY <1>1, <1>2

LEMMA IdleFacts ==
  ASSUME CollectorInv, pc \in {"idle", "close", "delete", "closed"}
  PROVE marked = {} /\ (pc \in {"idle", "close"} => t = NULL)
BY DEF CollectorInv, Phases

LEMMA AssignInv ==
  ASSUME CollectorInv, Assign
  PROVE CollectorInv'
<1>1. PICK s \in Near, v \in {NULL} \union {slot[x] : x \in Near \ Unmarked} : Fits(s, v) /\ Put(s, v) BY DEF Assign
<1>2. /\ UNCHANGED <<live, marked, gcChain, tchain, stray, strayed, weakref, target, pc, t>> /\ pc = "idle" /\ dying = <<>>
      /\ marked = {} /\ t = NULL
  BY IdleFacts DEF Assign, Idle, chainVars, weakVars
<1>3. Types /\ Counts /\ Pointers /\ WeakPointers /\ Chains /\ Phases BY DEF CollectorInv
<1>4. s \in Slot /\ (s \in FieldSlot => s[1] \in live) BY <1>3, NearFacts
<1>5. v \in live \union {NULL}
  <2>1. CASE v = NULL BY <2>1
  <2>2. CASE v # NULL
    <3>1. PICK x \in Near : v = slot[x] BY <2>2
    <3>2. x \in Slot BY <1>3, NearFacts
    <3>3. QED BY <1>3, <3>1, <3>2 DEF Pointers
  <2>3. QED BY <2>1, <2>2
<1>6. v \in Counted \union {NULL} /\ v \notin Range(dying)
  <2>1. live \subseteq Counted BY <1>3 DEF Types
  <2>2. Range(<<>>) = {} BY DEF Range
  <2>3. QED BY <1>2, <1>5, <2>1, <2>2
<1>7. /\ slot' \in [Slot -> Counted \union {NULL}] /\ uiRef' \in [Counted -> Nat]
      /\ dying' \in Seq(Counted) /\ Distinct(dying') /\ Range(dying) \subseteq Range(dying')
      /\ Range(dying') \subseteq live' \ marked
      /\ Counts' /\ Pointers'
  <2>1. live' \subseteq Counted BY <1>2, <1>3 DEF Types
  <2>2. QED BY <1>1, <1>2, <1>3, <1>4, <1>5, <1>6, <2>1, PutInv
<1>8. Types' BY <1>2, <1>3, <1>7 DEF Types, Slot, Counted
<1>9. WeakPointers' BY <1>2, <1>3 DEF WeakPointers
<1>10. Chains'
  <2>1. /\ Held \subseteq live' /\ marked \subseteq live'
        /\ (live' \cap Obj) \ Range(dying') \subseteq Held \union marked
    BY <1>2, <1>3, <1>7 DEF Chains
  <2>2. QED BY <1>2, <1>3, <1>7, <2>1, ChainsStay
<1>11. Phases' BY <1>2 DEF Phases
<1>12. QED BY <1>7, <1>8, <1>9, <1>10, <1>11 DEF CollectorInv

LEMMA CreateInv ==
  ASSUME CollectorInv, Create
  PROVE CollectorInv'
<1>1. PICK o \in Obj \ live, r \in Root : live' = live \union {o} /\ gcChain' = <<o>> \o gcChain /\ Put(r, o)
  BY DEF Create
<1>2. /\ UNCHANGED <<marked, tchain, stray, strayed, weakref, target, pc, t>>
      /\ pc = "idle" /\ dying = <<>> /\ marked = {} /\ t = NULL
  BY IdleFacts DEF Create, Idle, weakVars
<1>3. Types /\ Counts /\ Pointers /\ WeakPointers /\ Chains /\ Phases BY DEF CollectorInv
<1>4. r \in Slot /\ r \notin FieldSlot /\ Fits(r, o) BY SlotFacts, KeptAssumption DEF Fits, FieldSlot
<1>a. gcChain \in Seq(Obj) /\ stray \subseteq Seq(Obj) /\ ListsOK BY <1>3 DEF Types, Chains
<1>5. o \in Counted /\ o \notin Range(dying) /\ o \notin Range(gcChain) /\ o \notin Held
  BY <1>2, <1>3, <1>a, ListFacts DEF Counted, Chains
<1>6. live' \subseteq Counted BY <1>1, <1>3, <1>5 DEF Types
<1>7. /\ slot' \in [Slot -> Counted \union {NULL}] /\ uiRef' \in [Counted -> Nat]
      /\ dying' \in Seq(Counted) /\ Distinct(dying') /\ Range(dying) \subseteq Range(dying')
      /\ Range(dying') \subseteq live' \ marked
      /\ Counts' /\ Pointers'
  BY <1>1, <1>2, <1>3, <1>4, <1>5, <1>6, PutInv
<1>8. \A x \in live' : uiRef'[x] = 0 <=> x \in Range(dying') BY <1>7 DEF Counts
<1>9. gcChain' \in Seq(Obj) /\ Range(gcChain') = {o} \union Range(gcChain) /\ Distinct(gcChain')
  <2>1. gcChain \in Seq(Obj) /\ Distinct(gcChain) BY <1>a, ListFacts DEF ListsOK
  <2>2. QED BY <1>1, <1>5, <2>1, AddedFirst
<1>b. ListsOK' /\ Held' = Held \union {o} BY <1>2, <1>5, <1>9, <1>a, ListGrows
<1>10. Types' BY <1>2, <1>3, <1>6, <1>7, <1>9 DEF Types, Slot, Counted
<1>11. WeakPointers' BY <1>1, <1>2, <1>3 DEF WeakPointers
<1>12. Chains'
  <2>1. tchain' = tchain /\ marked' = {} /\ Range(tchain) = {} BY <1>2, <1>3 DEF Chains
  <2>2. Held' \subseteq live' BY <1>1, <1>3, <1>b DEF Chains
  <2>3. (live' \cap Obj) \ Range(dying') \subseteq Held' BY <1>1, <1>2, <1>3, <1>7, <1>b DEF Chains
  <2>4. Distinct(tchain)' /\ Distinct(dying)' BY <1>2, <1>3, <1>7 DEF Chains, Distinct
  <2>5. QED BY <1>2, <1>3, <1>7, <1>b, <2>1, <2>2, <2>3, <2>4 DEF Chains
<1>13. Phases' BY <1>2 DEF Phases
<1>14. QED BY <1>7, <1>10, <1>11, <1>12, <1>13 DEF CollectorInv

LEMMA GetWeakRefInv ==
  ASSUME CollectorInv, GetWeakRef
  PROVE CollectorInv'
<1>1. PICK r \in Root, s \in Near, w \in Weak :
        /\ IsObj(slot[r])
        /\ weakref[slot[r]] = w \/ (weakref[slot[r]] = NULL /\ w \notin live)
        /\ live' = live \union {w}
        /\ weakref' = [weakref EXCEPT ![slot[r]] = w]
        /\ target' = [target EXCEPT ![w] = slot[r]]
        /\ Put(s, w)
  BY DEF GetWeakRef
<1>2. UNCHANGED <<marked, gcChain, tchain, stray, strayed, pc, t>> /\ pc = "idle" /\ dying = <<>> /\ marked = {} /\ t = NULL
  BY IdleFacts DEF GetWeakRef, Idle, chainVars
<1>3. Types /\ Counts /\ Pointers /\ WeakPointers /\ Chains /\ Phases BY DEF CollectorInv
<1>4. s \in Slot /\ (s \in FieldSlot => s[1] \in live) /\ r \in Slot BY <1>3, NearFacts, SlotFacts
<1> DEFINE o == slot[r]
<1>5. o \in Obj /\ o \in live /\ (weakref[o] = w \/ (weakref[o] = NULL /\ w \notin live))
  BY <1>1, <1>3, <1>4, NullFacts DEF IsObj, Pointers
<1>6. weakref' = [weakref EXCEPT ![o] = w] /\ target' = [target EXCEPT ![w] = o] BY <1>1
<1> HIDE DEF o
<1>7. w \in Counted /\ w \notin Range(dying) /\ w \notin Obj /\ Fits(s, w)
  BY <1>2, NullFacts DEF Counted, Range, Fits, IsObj
<1>8. live' \subseteq Counted BY <1>1, <1>3, <1>7 DEF Types
<1>9. /\ slot' \in [Slot -> Counted \union {NULL}] /\ uiRef' \in [Counted -> Nat]
      /\ dying' \in Seq(Counted) /\ Distinct(dying') /\ Range(dying) \subseteq Range(dying')
      /\ Range(dying') \subseteq live' \ marked
      /\ Counts' /\ Pointers'
  BY <1>1, <1>2, <1>3, <1>4, <1>7, <1>8, PutInv
<1>10. Types' BY <1>2, <1>3, <1>5, <1>6, <1>8, <1>9 DEF Types, Slot, Counted
<1>11. WeakPointers'
  <2>1. weakref \in [Obj -> Weak \union {NULL}] /\ target \in [Weak -> Obj \union {NULL}] BY <1>3 DEF Types
  <2>2. /\ weakref'[o] = w /\ \A p \in Obj : p # o => weakref'[p] = weakref[p]
        /\ target'[w] = o /\ \A x \in Weak : x # w => target'[x] = target[x]
    BY <1>5, <1>6, <2>1
  <2>3. \A x \in Weak : x # w => target[x] # o BY <1>3, <1>5, <2>1, NullFacts DEF WeakPointers
  <2>4. \A p \in Obj : p # o => weakref[p] # w BY <1>3, <1>5, <2>1, NullFacts DEF WeakPointers
  <2>5. ASSUME NEW x \in Weak, target'[x] # NULL
        PROVE x \in live' /\ target'[x] \in live' /\ weakref'[target'[x]] = x
    <3>1. CASE x = w BY <1>1, <1>5, <2>2, <3>1
    <3>2. CASE x # w
      <4>1. target'[x] = target[x] /\ target[x] # o /\ target[x] \in Obj BY <2>1, <2>2, <2>3, <2>5, <3>2
      <4>2. QED BY <1>1, <1>3, <2>2, <2>5, <4>1 DEF WeakPointers
    <3>3. QED BY <3>1, <3>2
  <2>6. ASSUME NEW p \in Obj, weakref'[p] # NULL
        PROVE p \in live' /\ weakref'[p] \in live' /\ target'[weakref'[p]] = p
    <3>1. CASE p = o BY <1>1, <1>5, <2>2, <3>1
    <3>2. CASE p # o
      <4>1. weakref'[p] = weakref[p] /\ weakref[p] # w /\ weakref[p] \in Weak BY <2>1, <2>2, <2>4, <2>6, <3>2
      <4>2. QED BY <1>1, <1>3, <2>2, <2>6, <4>1 DEF WeakPointers
    <3>3. QED BY <3>1, <3>2
  <2>7. QED BY <2>5, <2>6 DEF WeakPointers
<1>12. Chains'
  <2>1. live' \cap Obj = live \cap Obj BY <1>1, <1>7
  <2>2. /\ Held \subseteq live' /\ marked \subseteq live'
        /\ (live' \cap Obj) \ Range(dying') \subseteq Held \union marked
    BY <1>1, <1>2, <1>3, <1>9, <2>1 DEF Chains
  <2>3. QED BY <1>2, <1>3, <1>9, <2>2, ChainsStay
<1>13. Phases' BY <1>2 DEF Phases
<1>14. QED BY <1>9, <1>10, <1>11, <1>12, <1>13 DEF CollectorInv

LEMMA RealvalInv ==
  ASSUME CollectorInv, Realval
  PROVE CollectorInv'
<1>1. PICK r \in Root, s \in Near : slot[r] \in Weak /\ Fits(s, target[slot[r]]) /\ Put(s, target[slot[r]])
  BY DEF Realval
<1>2. /\ UNCHANGED <<live, marked, gcChain, tchain, stray, strayed, weakref, target, pc, t>> /\ pc = "idle" /\ dying = <<>>
      /\ marked = {} /\ t = NULL
  BY IdleFacts DEF Realval, Idle, chainVars, weakVars
<1>3. Types /\ Counts /\ Pointers /\ WeakPointers /\ Chains /\ Phases BY DEF CollectorInv
<1>4. s \in Slot /\ (s \in FieldSlot => s[1] \in live) BY <1>3, NearFacts
<1> DEFINE v == target[slot[r]]
<1>5. v \in live \union {NULL} BY <1>1, <1>3 DEF WeakPointers
<1>6. Put(s, v) /\ Fits(s, v) BY <1>1
<1> HIDE DEF v
<1>7. v \in Counted \union {NULL} /\ v \notin Range(dying) /\ live' \subseteq Counted
  <2>1. live \subseteq Counted BY <1>3 DEF Types
  <2>2. Range(<<>>) = {} BY DEF Range
  <2>3. QED BY <1>2, <1>5, <2>1, <2>2
<1>8. /\ slot' \in [Slot -> Counted \union {NULL}] /\ uiRef' \in [Counted -> Nat]
      /\ dying' \in Seq(Counted) /\ Distinct(dying') /\ Range(dying) \subseteq Range(dying')
      /\ Range(dying') \subseteq live' \ marked
      /\ Counts' /\ Pointers'
  BY <1>2, <1>3, <1>4, <1>5, <1>6, <1>7, PutInv
<1>9. Types' BY <1>2, <1>3, <1>8 DEF Types, Slot, Counted
<1>10. WeakPointers' BY <1>2, <1>3 DEF WeakPointers
<1>11. Chains'
  <2>1. /\ Held \subseteq live' /\ marked \subseteq live'
        /\ (live' \cap Obj) \ Range(dying') \subseteq Held \union marked
    BY <1>2, <1>3, <1>8 DEF Chains
  <2>2. QED BY <1>2, <1>3, <1>8, <2>1, ChainsStay
<1>12. Phases' BY <1>2 DEF Phases
<1>13. QED BY <1>8, <1>9, <1>10, <1>11, <1>12 DEF CollectorInv
-----------------------------------------------------------------------------
(* References are dropped by a Release, by the sweep or by the closing.    *)
LEMMA ReachableIn ==
  ASSUME NEW o \in Reachable, NEW S \in SUBSET Obj,
         \A s \in Followed(S) : IsObj(slot[s]) => slot[s] \in S
  PROVE o \in S
BY DEF Reachable

(* A marked object is referred to by a root or by a marked object. *)
LEMMA MarkedReferred ==
  ASSUME MarkClosed, marked \subseteq Reachable, marked \subseteq Obj, NEW s \in Slot,
         s \notin Root, s[1] \notin marked, slot[s] \in marked
  PROVE \E q \in Slot : q # s /\ slot[q] = slot[s]
<1> SUFFICES ASSUME ~\E q \in Slot : q # s /\ slot[q] = slot[s] PROVE FALSE OBVIOUS
<1> DEFINE S == marked \ {slot[s]}
<1>1. \A q \in Followed(S) : IsObj(slot[q]) => slot[q] \in S BY DEF MarkClosed, Followed
<1>2. slot[s] \in Reachable /\ S \in SUBSET Obj OBVIOUS
<1> HIDE DEF S
<1>3. slot[s] \in S BY <1>1, <1>2, ReachableIn
<1>4. QED BY <1>3 DEF S

(* What is marked stays reachable when other objects drop references. *)
LEMMA MarkedStay ==
  ASSUME MarkClosed, marked \subseteq Reachable, marked \subseteq Obj,
         \A q \in Slot : q \in Root \/ q[1] \in marked => slot'[q] = slot[q]
  PROVE marked \subseteq Reachable'
<1>1. SUFFICES ASSUME NEW o \in marked, NEW S \in SUBSET Obj,
                      \A s \in Followed(S) : IsObj(slot'[s]) => slot'[s] \in S
               PROVE o \in S
  BY DEF Reachable, Slot, IsObj, Followed
<1>2. \A s \in Followed(S \cap marked) : IsObj(slot[s]) => slot[s] \in S \cap marked
  BY <1>1 DEF MarkClosed, Followed
<1>3. S \cap marked \in SUBSET Obj OBVIOUS
<1>4. o \in S \cap marked BY <1>2, <1>3, ReachableIn
<1>5. QED BY <1>4

LEMMA DropInv ==
  ASSUME CollectorInv, NEW s \in Slot, Put(s, NULL), UNCHANGED <<live, chainVars, weakVars, pc, t>>,
         pc \in {"idle", "sweep", "close", "delete"}, pc = "sweep" => s \notin Root /\ s[1] \notin marked
  PROVE CollectorInv'
<1>1. UNCHANGED <<live, marked, gcChain, tchain, stray, strayed, weakref, target, pc, t>> BY DEF chainVars, weakVars
<1>2. Types /\ Counts /\ Pointers /\ WeakPointers /\ Chains /\ Phases BY DEF CollectorInv
<1>3. live \subseteq Counted /\ marked \subseteq Obj /\ NULL \notin Range(dying)
  BY <1>2, NullFacts DEF Types, Chains
<1>4. pc # "sweep" => marked = {} BY <1>2 DEF Phases
<1>5. pc = "sweep" => MarkClosed BY <1>2 DEF Phases
<1>6. marked \subseteq Reachable BY <1>2 DEF Phases
<1>7. slot[s] \in marked => \E q \in Slot : q # s /\ slot[q] = slot[s] BY <1>3, <1>4, <1>5, <1>6, MarkedReferred
<1>a. Fits(s, NULL) BY NullFacts DEF Fits, IsObj
<1>8. /\ slot' \in [Slot -> Counted \union {NULL}] /\ uiRef' \in [Counted -> Nat]
      /\ slot'[s] = NULL /\ \A q \in Slot : q # s => slot'[q] = slot[q]
      /\ dying' \in Seq(Counted) /\ Distinct(dying') /\ Range(dying) \subseteq Range(dying')
      /\ Range(dying') \subseteq live' \ marked
      /\ Counts' /\ Pointers'
  BY <1>1, <1>2, <1>3, <1>7, <1>a, PutInv
<1>9. Types' BY <1>1, <1>2, <1>8 DEF Types, Slot, Counted
<1>10. WeakPointers' BY <1>1, <1>2 DEF WeakPointers
<1>11. Chains'
  <2>1. /\ Held \subseteq live' /\ marked \subseteq live'
        /\ (live' \cap Obj) \ Range(dying') \subseteq Held \union marked
    BY <1>1, <1>2, <1>8 DEF Chains
  <2>2. QED BY <1>1, <1>2, <1>8, <2>1, ChainsStay
<1>12. Phases'
  <2>1. dying' # <<>> => pc' \in {"idle", "sweep", "close", "delete"} BY <1>1
  <2>2. t' # NULL => pc' \in {"sweep", "delete"} /\ t' \notin marked' BY <1>1, <1>2 DEF Phases
  <2>3. pc' \notin {"mark", "markall", "sweep"} => marked' = {} BY <1>1, <1>4
  <2>4. marked' \subseteq Reachable'
    <3>1. CASE pc = "sweep"
      <4>1. \A q \in Slot : q \in Root \/ q[1] \in marked => slot'[q] = slot[q] BY <1>8, <3>1
      <4>2. QED BY <1>1, <1>3, <1>5, <1>6, <3>1, <4>1, MarkedStay
    <3>2. CASE pc # "sweep" BY <1>1, <1>4, <3>2
    <3>3. QED BY <3>1, <3>2
  <2>5. pc' \in {"sweep", "delete"} => MarkClosed'
    <3>1. pc \in {"sweep", "delete"} => MarkClosed BY <1>2 DEF Phases
    <3>2. ~IsObj(NULL) BY NullFacts DEF IsObj
    <3>3. QED BY <1>1, <1>8, <3>1, <3>2 DEF MarkClosed, Followed, Slot, IsObj
  <2>6. pc' \in {"sweep", "delete"} => SweptClear'
    <3>1. pc \in {"sweep", "delete"} => SweptClear BY <1>2 DEF Phases
    <3>2. \A o : Swept(o)' <=> Swept(o) BY <1>1 DEF Swept, Before
    <3>3. Range(gcChain') = Range(gcChain) BY <1>1
    <3>4. \A o \in Obj : ToClear(o) = {} => ToClear(o)' = {}
      <4>1. \A o \in Obj : \A q \in {o} \X Field : q \in Slot BY DEF Slot
      <4>2. QED BY <1>8, <4>1 DEF ToClear, Fields
    <3>5. Range(gcChain) \subseteq Obj
      <4>1. gcChain \in Seq(Obj) BY <1>2 DEF Types
      <4>2. QED BY <4>1, InRange
    <3>6. QED BY <1>1, <3>1, <3>2, <3>3, <3>4, <3>5 DEF SweptClear
  <2>7. pc' \in {"delete", "closed"} => \A r \in Root : slot'[r] = NULL
    <3>1. pc \in {"delete", "closed"} => \A r \in Root : slot[r] = NULL BY <1>2 DEF Phases
    <3>2. QED BY <1>1, <1>8, <3>1, SlotFacts
  <2>8. pc' # "closed" BY <1>1
  <2>9. QED BY <2>1, <2>2, <2>3, <2>4, <2>5, <2>6, <2>7, <2>8 DEF Phases
<1>13. QED BY <1>8, <1>9, <1>10, <1>11, <1>12 DEF CollectorInv

LEMMA DropsInv ==
  ASSUME CollectorInv, DropField \/ Finalize \/ DropRoot
  PROVE CollectorInv'
<1>1. Types /\ Chains /\ Phases BY DEF CollectorInv
<1>2. CASE DropField
  <2>1. PICK s \in Fields(Dying) : Put(s, NULL) BY <1>2 DEF DropField
  <2>2. dying # <<>> /\ Dying \in Obj /\ UNCHANGED <<live, chainVars, weakVars, pc, t>> BY <1>2 DEF DropField, IsObj
  <2>3. s \in Slot /\ s \notin Root /\ s[1] = Dying BY <2>2, FieldFacts
  <2>4. Dying \notin marked BY <1>1, <2>2, Dropped DEF Types, Chains, Dying
  <2>5. pc \in {"idle", "sweep", "close", "delete"} BY <1>1, <2>2 DEF Phases
  <2>6. QED BY <2>1, <2>2, <2>3, <2>4, <2>5, DropInv
<1>3. CASE Finalize
  <2>1. PICK s \in Fields(t) : Put(s, NULL) BY <1>3 DEF Finalize, ToClear
  <2>2. t # NULL /\ t \in Obj /\ pc \in {"sweep", "delete"} /\ t \notin marked /\ UNCHANGED <<live, chainVars, weakVars, pc, t>>
    BY <1>1, <1>3 DEF Finalize, Sweeping, Types, Phases
  <2>3. s \in Slot /\ s \notin Root /\ s[1] = t BY <2>2, FieldFacts
  <2>4. QED BY <2>1, <2>2, <2>3, DropInv
<1>4. CASE DropRoot BY <1>4, DropInv, SlotFacts DEF DropRoot
<1>5. QED BY <1>2, <1>3, <1>4
-----------------------------------------------------------------------------
(* The end of a Release. *)
LEMMA UnlinkInv ==
  ASSUME CollectorInv, Unlink
  PROVE CollectorInv'
<1>1. RemoveFromChain(Dying) /\ UNCHANGED <<live, slot, uiRef, marked, tchain, strayed, weakVars, dying, pc, t>>
  BY DEF Unlink
<1>2. Types /\ Counts /\ Pointers /\ WeakPointers /\ Chains /\ Phases BY DEF CollectorInv
<1>3. /\ gcChain \in Seq(Obj) /\ stray \subseteq Seq(Obj) /\ ListsOK
      /\ dying \in Seq(Counted) /\ dying # <<>> /\ Distinct(dying)
  BY <1>2 DEF Types, Chains, Unlink
<1>4. Dying \in Range(dying) BY <1>3, Dropped DEF Dying
<1>5. /\ gcChain' \in Seq(Obj) /\ stray' \subseteq Seq(Obj) /\ ListsOK'
      /\ Held' = Held \ {Dying}
      /\ stray = {} => stray' = {} /\ \A a, b : Before(gcChain', a, b) => Before(gcChain, a, b)
  <2>1. RemoveFromChain(Dying) BY <1>1
  <2>2. QED BY <1>3, <2>1, LinkedOut
<1>6. Types' BY <1>1, <1>2, <1>5 DEF Types, Slot, Counted, weakVars
<1>7. Counts' BY <1>1, <1>2 DEF Counts, Refs, Slot, Counted
<1>8. Pointers' BY <1>1, <1>2 DEF Pointers, KeptLower, IsObj, Slot, FieldSlot
<1>9. WeakPointers' BY <1>1, <1>2 DEF WeakPointers, weakVars
<1>10. Chains'
  <2>1. (live' \cap Obj) \ Range(dying') \subseteq Held' \union marked' BY <1>1, <1>2, <1>4, <1>5 DEF Chains
  <2>2. Held' \subseteq Held BY <1>5
  <2>3. /\ tchain' = tchain /\ dying' = dying /\ live' = live /\ marked' = marked /\ strayed' = strayed
        /\ Range(tchain') = Range(tchain) /\ Range(dying') = Range(dying)
        /\ (Distinct(tchain)' <=> Distinct(tchain)) /\ (Distinct(dying)' <=> Distinct(dying))
    BY <1>1 DEF Distinct
  <2>4. ~strayed' => stray' = {} BY <1>2, <1>5, <2>3 DEF Chains
  <2>5. QED BY <1>2, <1>5, <2>1, <2>2, <2>3, <2>4 DEF Chains
<1>11. Phases'
  <2>1. ASSUME ~strayed PROVE (\A o : Swept(o)' => Swept(o)) /\ Range(gcChain') \subseteq Range(gcChain)
    <3>1. stray = {} BY <1>2, <2>1 DEF Chains
    <3>2. Held = Range(gcChain) /\ Held' = Range(gcChain')
      <4>1. Held = Range(gcChain) BY <1>3, <3>1, ListFacts
      <4>2. stray' = {} BY <1>5, <3>1
      <4>3. Held' = Range(gcChain') BY <4>2 DEF Held, Lists, Range
      <4>4. QED BY <4>1, <4>3
    <3>3. QED BY <1>1, <1>5, <3>1, <3>2 DEF Swept, Before
  <2>2. /\ dying' = dying /\ pc' = pc /\ t' = t /\ marked' = marked /\ live' = live /\ strayed' = strayed
        /\ Reachable' = Reachable /\ (MarkClosed' <=> MarkClosed) /\ slot' = slot
        /\ \A o : ToClear(o)' = ToClear(o)
    BY <1>1 DEF Reachable, MarkClosed, Followed, Slot, IsObj, Fields, ToClear
  <2>3. SweptClear => SweptClear' BY <2>1, <2>2 DEF SweptClear
  <2>4. QED BY <1>2, <2>2, <2>3 DEF Phases
<1>12. QED BY <1>6, <1>7, <1>8, <1>9, <1>10, <1>11 DEF CollectorInv

(* What is freed has no references left. *)
LEMMA FreedUnreferred ==
  ASSUME CollectorInv, dying # <<>>
  PROVE /\ Dying \in Counted /\ Dying \in live /\ Dying \notin marked /\ Dying # t
        /\ \A q \in Slot : slot[q] # Dying
        /\ Front(dying) \in Seq(Counted) /\ Range(Front(dying)) = Range(dying) \ {Dying} /\ Distinct(Front(dying))
<1>1. Types /\ Counts /\ Chains BY DEF CollectorInv
<1>2. /\ Dying \in Range(dying) /\ Dying \in Counted
      /\ Front(dying) \in Seq(Counted) /\ Range(Front(dying)) = Range(dying) \ {Dying} /\ Distinct(Front(dying))
  BY <1>1, Dropped DEF Types, Chains, Dying
<1>3. Dying \in live /\ Dying \notin marked BY <1>1, <1>2 DEF Chains
<1>4. Refs(Dying) = {} /\ Dying # t
  <2>1. Exact BY <1>1 DEF Counts, Exact
  <2>2. uiRef[Dying] = 0 BY <1>1, <1>2, <1>3 DEF Counts
  <2>3. QED BY <1>2, <2>1, <2>2, CountIsNat
<1>5. QED BY <1>2, <1>3, <1>4 DEF Refs

LEMMA FreeInv ==
  ASSUME CollectorInv, dying # <<>>, NEW o, o = Dying,
         live' = live \ {o}, dying' = Front(dying), UNCHANGED <<slot, uiRef, chainVars, pc, t>>,
         IsObj(o) => Fields(o) = {} /\ ~OnList(o),
         weakref' \in [Obj -> Weak \union {NULL}], target' \in [Weak -> Obj \union {NULL}], WeakPointers'
  PROVE CollectorInv'
<1>1. UNCHANGED <<slot, uiRef, marked, gcChain, tchain, stray, strayed, pc, t>> BY DEF chainVars
<1>2. Types /\ Counts /\ Pointers /\ Chains /\ Phases BY DEF CollectorInv
<1>3. /\ o \in Counted /\ o \in live /\ o \notin marked /\ o # t
      /\ \A q \in Slot : slot[q] # o
      /\ dying' \in Seq(Counted) /\ Range(dying') = Range(dying) \ {o} /\ Distinct(dying')
  BY FreedUnreferred
<1>4. o \notin Held
  <2>1. gcChain \in Seq(Obj) /\ stray \subseteq Seq(Obj) BY <1>2 DEF Types
  <2>2. o \in Held => o \in Obj /\ OnList(o) BY <2>1, ListFacts
  <2>3. QED BY <2>2 DEF IsObj
<1>5. Types'
  <2>1. live' \subseteq Counted BY <1>2 DEF Types
  <2>2. QED BY <1>1, <1>2, <1>3, <2>1 DEF Types, Slot, Counted
<1>6. Counts'
  <2>1. \A x \in live' : uiRef'[x] = 0 <=> x \in Range(dying') BY <1>1, <1>2, <1>3 DEF Counts
  <2>2. \A x : Refs(x)' = Refs(x) /\ B(x = t)' = B(x = t) BY <1>1 DEF Refs, Slot, B
  <2>3. \A x \in Counted : IsFiniteSet(Refs(x)') /\ uiRef'[x] = Cardinality(Refs(x)') + B(x = t)'
    BY <1>1, <1>2, <2>2 DEF Counts
  <2>4. QED BY <2>1, <2>3 DEF Counts, Counted, B
<1>7. Pointers'
  <2>1. \A q \in Slot : slot'[q] \in live' \union {NULL} BY <1>1, <1>2, <1>3 DEF Pointers
  <2>2. t' \in live' \union {NULL} BY <1>1, <1>2, <1>3 DEF Pointers
  <2>3. \A q \in FieldSlot : slot'[q] # NULL => q[1] \in live'
    <3>1. ASSUME NEW q \in FieldSlot, slot[q] # NULL PROVE q[1] # o
      <4>1. q[1] \in Obj /\ q \in {q[1]} \X Field BY SlotFacts DEF FieldSlot
      <4>2. q[1] = o => q \in Fields(o) BY <3>1, <4>1 DEF Fields
      <4>3. QED BY <4>1, <4>2 DEF IsObj
    <3>2. QED BY <1>1, <1>2, <3>1 DEF Pointers
  <2>4. KeptLower' BY <1>1, <1>2 DEF Pointers, KeptLower, IsObj
  <2>5. QED BY <2>1, <2>2, <2>3, <2>4 DEF Pointers, Slot, FieldSlot
<1>8. Chains'
  <2>1. Held \subseteq live' /\ marked \subseteq live' BY <1>1, <1>2, <1>3, <1>4 DEF Chains
  <2>2. (live' \cap Obj) \ Range(dying') \subseteq Held \union marked BY <1>1, <1>2, <1>3 DEF Chains
  <2>3. Range(dying') \subseteq live' \ marked BY <1>1, <1>2, <1>3 DEF Chains
  <2>4. QED BY <1>1, <1>2, <1>3, <2>1, <2>2, <2>3, ChainsStay
<1>9. Phases'
  <2>1. \A x : (Swept(x)' <=> Swept(x)) /\ ToClear(x)' = ToClear(x) BY <1>1 DEF Swept, Before, ToClear, Fields
  <2>2. /\ pc' = pc /\ t' = t /\ marked' = marked /\ gcChain' = gcChain /\ strayed' = strayed
        /\ Reachable' = Reachable /\ (MarkClosed' <=> MarkClosed) /\ slot' = slot
    BY <1>1 DEF Reachable, MarkClosed, Followed, Slot, IsObj
  <2>3. pc \in {"idle", "sweep", "close", "delete"} BY <1>2 DEF Phases
  <2>4. Range(gcChain') = Range(gcChain) BY <2>2
  <2>5. SweptClear => SweptClear' BY <2>1, <2>2, <2>4 DEF SweptClear
  <2>6. QED BY <1>2, <2>2, <2>3, <2>5 DEF Phases
<1>10. QED BY <1>5, <1>6, <1>7, <1>8, <1>9 DEF CollectorInv

LEMMA FreesInv ==
  ASSUME CollectorInv, Free \/ FreeWeak
  PROVE CollectorInv'
<1>1. dying # <<>> BY DEF Free, FreeWeak
<1>2. Types /\ WeakPointers BY DEF CollectorInv
<1>3. weakref \in [Obj -> Weak \union {NULL}] /\ target \in [Weak -> Obj \union {NULL}] BY <1>2 DEF Types
<1> DEFINE o == Dying
<1> HIDE DEF o
<1>4. CASE Free
  <2>1. /\ live' = live \ {o} /\ o \in Obj /\ dying' = Front(dying) /\ UNCHANGED <<slot, uiRef, chainVars, pc, t>>
        /\ target' = [w \in Weak |-> IF w = weakref[o] THEN NULL ELSE target[w]]
        /\ weakref' = [weakref EXCEPT ![o] = NULL]
        /\ Fields(o) = {} /\ ~OnList(o)
    BY <1>4 DEF Free, Destroyed, IsObj, o
  <2>2. weakref' \in [Obj -> Weak \union {NULL}] /\ target' \in [Weak -> Obj \union {NULL}] BY <1>3, <2>1
  <2>3. WeakPointers'
    <3>1. ASSUME NEW w \in Weak, target'[w] # NULL
          PROVE w \in live' /\ target'[w] \in live' /\ weakref'[target'[w]] = w
      <4>1. target'[w] = target[w] /\ w # weakref[o] /\ target[w] # NULL BY <2>1, <3>1
      <4>2. target[w] # o /\ w # o BY <1>2, <2>1, <4>1, NullFacts DEF WeakPointers
      <4>3. QED BY <1>2, <1>3, <2>1, <4>1, <4>2 DEF WeakPointers
    <3>2. ASSUME NEW p \in Obj, weakref'[p] # NULL
          PROVE p \in live' /\ weakref'[p] \in live' /\ target'[weakref'[p]] = p
      <4>1. p # o /\ weakref'[p] = weakref[p] /\ weakref[p] \in Weak BY <1>3, <2>1, <3>2
      <4>2. weakref[p] # weakref[o] BY <1>2, <2>1, <3>2, <4>1, NullFacts DEF WeakPointers
      <4>3. weakref[p] # o BY <2>1, <4>1, NullFacts
      <4>4. QED BY <1>2, <2>1, <3>2, <4>1, <4>2, <4>3 DEF WeakPointers
    <3>3. QED BY <3>1, <3>2 DEF WeakPointers
  <2>4. QED BY <1>1, <2>1, <2>2, <2>3, FreeInv DEF o
<1>5. CASE FreeWeak
  <2>1. /\ live' = live \ {o} /\ o \in Weak /\ dying' = Front(dying) /\ UNCHANGED <<slot, uiRef, chainVars, pc, t>>
        /\ weakref' = [p \in Obj |-> IF p = target[o] THEN NULL ELSE weakref[p]]
        /\ target' = [target EXCEPT ![o] = NULL]
    BY <1>5 DEF FreeWeak, o
  <2>2. weakref' \in [Obj -> Weak \union {NULL}] /\ target' \in [Weak -> Obj \union {NULL}] BY <1>3, <2>1
  <2>3. WeakPointers'
    <3>1. ASSUME NEW w \in Weak, target'[w] # NULL
          PROVE w \in live' /\ target'[w] \in live' /\ weakref'[target'[w]] = w
      <4>1. w # o /\ target'[w] = target[w] /\ target[w] \in Obj BY <1>3, <2>1, <3>1
      <4>2. target[w] # target[o] BY <1>2, <2>1, <3>1, <4>1, NullFacts DEF WeakPointers
      <4>3. target[w] # o BY <2>1, <4>1, NullFacts
      <4>4. QED BY <1>2, <2>1, <3>1, <4>1, <4>2, <4>3 DEF WeakPointers
    <3>2. ASSUME NEW p \in Obj, weakref'[p] # NULL
          PROVE p \in live' /\ weakref'[p] \in live' /\ target'[weakref'[p]] = p
      <4>1. weakref'[p] = weakref[p] /\ p # target[o] /\ weakref[p] # NULL BY <2>1, <3>2
      <4>2. weakref[p] # o /\ p # o BY <1>2, <2>1, <4>1, NullFacts DEF WeakPointers
      <4>3. QED BY <1>2, <1>3, <2>1, <4>1, <4>2 DEF WeakPointers
    <3>3. QED BY <3>1, <3>2 DEF WeakPointers
  <2>4. ~IsObj(o) BY <2>1, NullFacts DEF IsObj
  <2>5. QED BY <1>1, <2>1, <2>2, <2>3, <2>4, FreeInv DEF o
<1>6. QED BY <1>4, <1>5
-----------------------------------------------------------------------------
(* The phases of a collection and of the closing. *)
CountVars == <<live, slot, uiRef, weakVars, dying, t>>

LEMMA CountsStay ==
  ASSUME CollectorInv, UNCHANGED CountVars
  PROVE Counts' /\ Pointers' /\ WeakPointers'
<1>1. UNCHANGED <<live, slot, uiRef, weakref, target, dying, t>> BY DEF CountVars, weakVars
<1>2. Counts /\ Pointers /\ WeakPointers BY DEF CollectorInv
<1>3. \A x : Refs(x)' = Refs(x) BY <1>1 DEF Refs, Slot
<1>4. Counts' BY <1>1, <1>2, <1>3 DEF Counts, Counted, B
<1>5. Pointers' /\ WeakPointers' BY <1>1, <1>2 DEF Pointers, KeptLower, IsObj, WeakPointers, Slot, FieldSlot
<1>6. QED BY <1>4, <1>5

LEMMA BeginsInv ==
  ASSUME CollectorInv, RunMark \/ Close \/ Closed
  PROVE CollectorInv'
<1>1. /\ UNCHANGED CountVars
      /\ UNCHANGED <<live, slot, uiRef, marked, gcChain, tchain, stray, strayed, weakref, target, dying, t>>
  BY DEF RunMark, Close, Closed, CountVars, chainVars, weakVars, vars
<1>2. Types /\ Chains /\ Phases BY DEF CollectorInv
<1>3. Counts' /\ Pointers' /\ WeakPointers' BY <1>1, CountsStay
<1>4. pc' \in {"mark", "markall", "close", "closed"}
      /\ (pc' \in {"mark", "markall", "close"} => pc = "idle" /\ dying = <<>>) /\ (pc' = "closed" => pc = "closed")
  BY DEF RunMark, Close, Closed, Idle, vars
<1>5. Types' BY <1>1, <1>2, <1>4 DEF Types, Slot, Counted
<1>6. Chains'
  <2>1. /\ Distinct(dying') /\ Range(dying') \subseteq live' \ marked /\ Held \subseteq live' /\ marked \subseteq live'
        /\ (live' \cap Obj) \ Range(dying') \subseteq Held \union marked
    BY <1>1, <1>2 DEF Chains
  <2>2. QED BY <1>1, <1>2, <2>1, ChainsStay
<1>7. Phases'
  <2>1. marked = {} BY <1>2, <1>4 DEF Phases
  <2>2. t = NULL BY <1>2, <1>4 DEF Phases
  <2>3. dying = <<>> BY <1>2, <1>4 DEF Phases
  <2>4. pc' = "closed" => (~strayed => live = {}) /\ \A r \in Root : slot[r] = NULL BY <1>2, <1>4 DEF Phases
  <2>5. QED BY <1>1, <1>4, <2>1, <2>2, <2>3, <2>4 DEF Phases
<1>8. QED BY <1>3, <1>5, <1>6, <1>7 DEF CollectorInv

LEMMA MarkInv ==
  ASSUME CollectorInv, Mark
  PROVE CollectorInv'
<1>1. PICK o \in Unvisited :
        /\ marked' = marked \union {o}
        /\ RemoveFromChain(o)
        /\ tchain' = <<o>> \o tchain
  BY DEF Mark
<1>2. UNCHANGED CountVars /\ UNCHANGED <<live, slot, uiRef, strayed, weakref, target, dying, pc, t>> /\ pc \in {"mark", "markall"}
  BY DEF Mark, Marking, CountVars, weakVars
<1>3. Types /\ Pointers /\ Chains /\ Phases BY DEF CollectorInv
<1>4. dying = <<>> /\ t = NULL BY <1>2, <1>3 DEF Phases
<1>5. PICK s \in Slot \ Unmarked : slot[s] = o /\ (s \in Root \/ s[1] \in marked) BY DEF Unvisited, Followed
<1>6. o \in Obj /\ o \notin marked /\ o \in live BY <1>3, <1>5, NullFacts DEF Unvisited, Pointers
<1>7. gcChain \in Seq(Obj) /\ stray \subseteq Seq(Obj) /\ ListsOK BY <1>3 DEF Types, Chains
<1>8. /\ gcChain' \in Seq(Obj) /\ stray' \subseteq Seq(Obj) /\ ListsOK' /\ Held' = Held \ {o}
      /\ stray = {} => stray' = {}
  <2>1. RemoveFromChain(o) BY <1>1
  <2>2. QED BY <1>7, <2>1, LinkedOut
<1>9. tchain' \in Seq(Obj) /\ Range(tchain') = {o} \union Range(tchain) /\ Distinct(tchain')
  <2>1. tchain \in Seq(Obj) /\ Distinct(tchain) /\ o \notin Range(tchain) BY <1>3, <1>6 DEF Types, Chains
  <2>2. QED BY <1>1, <1>6, <2>1, AddedFirst
<1>10. Counts' /\ Pointers' /\ WeakPointers' BY <1>2, CountsStay
<1>11. Types' BY <1>1, <1>2, <1>3, <1>6, <1>8, <1>9 DEF Types, Slot, Counted
<1>12. Chains'
  <2>1. Range(tchain') = marked' /\ Held' \cap marked' = {} BY <1>1, <1>3, <1>8, <1>9 DEF Chains
  <2>2. Held' \subseteq live' /\ marked' \subseteq live' BY <1>1, <1>2, <1>3, <1>6, <1>8 DEF Chains
  <2>3. (live' \cap Obj) \ Range(dying') \subseteq Held' \union marked' BY <1>1, <1>2, <1>3, <1>8 DEF Chains
  <2>4. Range(dying') \subseteq live' \ marked' /\ Distinct(dying)'
    <3>1. Range(<<>>) = {} BY DEF Range
    <3>2. QED BY <1>2, <1>3, <1>4, <3>1 DEF Chains, Distinct
  <2>5. Distinct(tchain)' BY <1>9 DEF Distinct
  <2>6. ~strayed' => stray' = {} BY <1>2, <1>3, <1>8 DEF Chains
  <2>7. QED BY <1>8, <2>1, <2>2, <2>3, <2>4, <2>5, <2>6 DEF Chains
<1>13. Phases'
  <2>1. marked' \subseteq Reachable'
    <3>1. Reachable' = Reachable BY <1>2 DEF Reachable, Followed, Slot, IsObj
    <3>2. o \in Reachable
      <4>1. SUFFICES ASSUME NEW S \in SUBSET Obj,
                            \A q \in Followed(S) : IsObj(slot[q]) => slot[q] \in S
                     PROVE o \in S
        BY <1>6 DEF Reachable
      <4>2. s[1] \in marked => s[1] \in S
        <5>1. marked \subseteq Reachable BY <1>3 DEF Phases
        <5>2. QED BY <4>1, <5>1, ReachableIn
      <4>3. s \in Followed(S) BY <1>5, <4>2 DEF Followed
      <4>4. QED BY <1>5, <1>6, <4>1, <4>3 DEF IsObj
    <3>3. QED BY <1>1, <1>3, <3>1, <3>2 DEF Phases
  <2>2. QED BY <1>2, <1>4, <2>1 DEF Phases
<1>14. QED BY <1>10, <1>11, <1>12, <1>13 DEF CollectorInv

LEMMA SweepsInv ==
  ASSUME CollectorInv, Sweep \/ Delete
  PROVE CollectorInv'
<1> DEFINE f == First(gcChain)
<1>1. Types /\ Counts /\ Pointers /\ WeakPointers /\ Chains /\ Phases BY DEF CollectorInv
<1>2. /\ t' = f /\ uiRef' = [x \in Counted |-> uiRef[x] + B(x = f)]
      /\ UNCHANGED <<live, slot, marked, gcChain, tchain, stray, strayed, weakref, target, dying>>
      /\ \/ pc = "mark" /\ Unvisited = {} /\ pc' = "sweep"
         \/ pc = "close" /\ pc' = "delete" /\ dying = <<>> /\ \A r \in Root : slot[r] = NULL
  BY DEF Sweep, Delete, StartSweep, chainVars, weakVars
<1>3. t = NULL /\ dying = <<>> BY <1>1, <1>2 DEF Phases
<1>4. gcChain \in Seq(Obj) /\ Distinct(gcChain) /\ Range(gcChain) \subseteq live /\ Range(gcChain) \cap marked = {}
  <2>1. gcChain \in Seq(Obj) /\ stray \subseteq Seq(Obj) /\ ListsOK BY <1>1 DEF Types, Chains
  <2>2. gcChain \in Lists /\ Range(gcChain) \subseteq Held BY <2>1, ListFacts
  <2>3. QED BY <1>1, <2>1, <2>2 DEF Chains, ListsOK
<1>5. /\ gcChain = <<>> => f = NULL /\ Range(gcChain) = {}
      /\ gcChain # <<>> => f \in Range(gcChain) /\ \A a : ~Before(gcChain, a, f)
  BY <1>4, AtHead
<1>6. f \in live \union {NULL} /\ f \in Obj \union {NULL} /\ f \notin marked
  <2>1. Range(gcChain) \subseteq Obj BY <1>4, InRange
  <2>2. marked \subseteq Obj BY <1>1 DEF Types
  <2>3. QED BY <1>4, <1>5, <2>1, <2>2, NullFacts
<1> HIDE DEF f
<1>7. \A x \in Counted : uiRef[x] \in Nat BY <1>1 DEF Types
<1>8. \A x \in Counted : B(x = f) \in Nat BY DEF B
<1>9. uiRef' \in [Counted -> Nat] BY <1>2, <1>7, <1>8
<1>10. Types' BY <1>1, <1>2, <1>6, <1>9 DEF Types, Slot, Counted
<1>11. Counts'
  <2>1. \A x : Refs(x)' = Refs(x) BY <1>2 DEF Refs, Slot
  <2>2. ASSUME NEW x \in Counted PROVE IsFiniteSet(Refs(x)') /\ uiRef'[x] = Cardinality(Refs(x)') + B(x = t')
    <3>1. B(x = t) = 0 BY <1>3, NullFacts DEF B
    <3>2. IsFiniteSet(Refs(x)) /\ uiRef[x] = Cardinality(Refs(x)) + 0 BY <1>1, <3>1 DEF Counts
    <3>3. uiRef'[x] = uiRef[x] + B(x = f) /\ t' = f BY <1>2
    <3>4. Cardinality(Refs(x)) \in Nat BY <3>2, FS_CardinalityType
    <3>5. QED BY <1>8, <2>1, <3>2, <3>3, <3>4
  <2>3. ASSUME NEW x \in live' PROVE uiRef'[x] = 0 <=> x \in Range(dying')
    <3>1. x \in Counted /\ x \in live BY <1>1, <1>2 DEF Types
    <3>2. Range(dying') = {} /\ Range(dying) = {} BY <1>2, <1>3 DEF Range
    <3>3. uiRef[x] # 0 BY <1>1, <3>1, <3>2 DEF Counts
    <3>4. uiRef'[x] = uiRef[x] + B(x = f) BY <1>2, <3>1
    <3>5. uiRef'[x] # 0 BY <1>7, <1>8, <3>1, <3>3, <3>4
    <3>6. QED BY <3>2, <3>5
  <2>4. QED BY <2>2, <2>3 DEF Counts, Counted, B
<1>12. Pointers' BY <1>1, <1>2, <1>6 DEF Pointers, KeptLower, IsObj, Slot, FieldSlot
<1>13. WeakPointers' BY <1>1, <1>2 DEF WeakPointers
<1>14. Chains'
  <2>1. /\ Distinct(dying') /\ Range(dying') \subseteq live' \ marked /\ Held \subseteq live' /\ marked \subseteq live'
        /\ (live' \cap Obj) \ Range(dying') \subseteq Held \union marked
    BY <1>1, <1>2 DEF Chains
  <2>2. QED BY <1>1, <1>2, <2>1, ChainsStay
<1>15. Phases'
  <2>1. \A o : Swept(o) <=> TRUE BY <1>3 DEF Swept
  <2>2. ASSUME NEW o \in Range(gcChain) PROVE ~Swept(o)'
    <3>1. gcChain # <<>> BY <1>5
    <3>2. f # NULL BY <1>4, <1>5, <3>1, InRange, NullFacts
    <3>3. QED BY <1>2, <1>5, <3>1, <3>2 DEF Swept, Before
  <2>3. MarkClosed
    <3>1. CASE pc = "mark" /\ Unvisited = {}
      <4>1. SUFFICES ASSUME NEW s \in Followed(marked), IsObj(slot[s]), slot[s] \notin marked PROVE FALSE
        BY DEF MarkClosed
      <4>2. slot[s] \in Unvisited BY <4>1 DEF Unvisited, IsObj
      <4>3. QED BY <3>1, <4>2
    <3>2. CASE pc = "close" /\ \A r \in Root : slot[r] = NULL
      <4>1. marked = {} BY <1>1, <3>2 DEF Phases
      <4>2. QED BY <3>2, <4>1, NullFacts DEF MarkClosed, Followed, IsObj
    <3>3. QED BY <1>2, <3>1, <3>2
  <2>4. MarkClosed' /\ Reachable' = Reachable BY <1>2, <2>3 DEF MarkClosed, Followed, Reachable, Slot, IsObj
  <2>5. pc = "close" => marked = {} BY <1>1 DEF Phases
  <2>6. marked \subseteq Reachable BY <1>1 DEF Phases
  <2>7. Range(gcChain') = Range(gcChain) BY <1>2
  <2>8. SweptClear' BY <2>2, <2>7 DEF SweptClear
  <2>9. QED BY <1>2, <1>3, <1>6, <2>4, <2>5, <2>6, <2>8 DEF Phases
<1>16. QED BY <1>10, <1>11, <1>12, <1>13, <1>14, <1>15 DEF CollectorInv

LEMMA AdvanceInv ==
  ASSUME CollectorInv, Advance
  PROVE CollectorInv'
<1> DEFINE nx == Following(t)
<1>1. Types /\ Counts /\ Pointers /\ WeakPointers /\ Chains /\ Phases BY DEF CollectorInv
<1>2. /\ t # NULL /\ ToClear(t) = {} /\ dying = <<>> /\ pc \in {"sweep", "delete"}
      /\ uiRef' = [x \in Counted |-> uiRef[x] + B(x = nx) - B(x = t)] /\ t' = nx
      /\ dying' = (IF uiRef'[t] = 0 THEN <<t>> ELSE <<>>)
      /\ UNCHANGED <<live, slot, marked, gcChain, tchain, stray, strayed, weakref, target, pc>>
  BY DEF Advance, Sweeping, chainVars, weakVars
<1>3. t \in Obj /\ t \in live /\ t \notin marked /\ t \in Counted BY <1>1, <1>2 DEF Types, Pointers, Phases, Counted
<1>4. gcChain \in Seq(Obj) /\ stray \subseteq Seq(Obj) /\ ListsOK /\ Held \subseteq live /\ Held \cap marked = {}
  BY <1>1 DEF Types, Chains
<1>5. Range(dying) = {} BY <1>2 DEF Range
<1>6. t \in Held BY <1>1, <1>3, <1>5 DEF Chains
<1>7. PICK c \in Lists :
        /\ t \in Range(c) /\ c \in Seq(Obj) /\ Range(c) \subseteq Held
        /\ \/ nx = NULL /\ \A a \in Range(c) : a = t \/ Before(c, a, t)
           \/ nx \in Range(c) /\ nx # t /\ \A a : Before(c, a, nx) => a = t \/ Before(c, a, t)
  <2> DEFINE c == CHOOSE l \in Lists : Contains(l, t)
  <2>1. \E l \in Lists : Contains(l, t) BY <1>4, <1>6, ListFacts
  <2>2. c \in Lists /\ Contains(c, t) BY <2>1
  <2>3. nx = First(SubSeq(c, Index(c, t) + 1, Len(c))) BY DEF Following
  <2> HIDE DEF c, nx
  <2>4. c \in Seq(Obj) /\ t \in Range(c) /\ Distinct(c) /\ Range(c) \subseteq Held BY <1>4, <2>2, ListFacts DEF ListsOK
  <2>5. \/ nx = NULL /\ \A a \in Range(c) : a = t \/ Before(c, a, t)
        \/ nx \in Range(c) /\ nx # t /\ \A a : Before(c, a, nx) => a = t \/ Before(c, a, t)
    BY <2>3, <2>4, AfterIt, NullFacts
  <2>6. QED BY <2>2, <2>4, <2>5
<1> HIDE DEF nx
<1>8. nx \in Obj \union {NULL} /\ nx \in live \union {NULL} /\ nx \notin marked /\ nx # t
  <2>1. Range(c) \subseteq Obj BY <1>7, InRange
  <2>2. marked \subseteq Obj BY <1>1 DEF Types
  <2>3. QED BY <1>2, <1>4, <1>7, <2>1, <2>2, NullFacts
<1>9. ASSUME NEW x \in Counted
      PROVE /\ IsFiniteSet(Refs(x)') /\ uiRef'[x] = Cardinality(Refs(x)') + B(x = t') /\ uiRef'[x] \in Nat
            /\ x # t /\ x \in live => uiRef'[x] # 0
  <2>1. Refs(x)' = Refs(x) BY <1>2 DEF Refs, Slot
  <2>2. IsFiniteSet(Refs(x)) /\ uiRef[x] = Cardinality(Refs(x)) + B(x = t) BY <1>1 DEF Counts
  <2>3. Cardinality(Refs(x)) \in Nat BY <2>2, FS_CardinalityType
  <2>4. uiRef'[x] = uiRef[x] + B(x = nx) - B(x = t) BY <1>2
  <2>5. B(x = nx) \in {0, 1} /\ B(x = t) \in {0, 1} /\ (x # t => B(x = t) = 0) BY DEF B
  <2>6. x \in live => uiRef[x] # 0 BY <1>1, <1>5 DEF Counts
  <2>7. uiRef'[x] = Cardinality(Refs(x)) + B(x = nx) BY <2>2, <2>3, <2>4, <2>5
  <2>8. x # t /\ x \in live => uiRef'[x] # 0 BY <2>2, <2>3, <2>4, <2>5, <2>6
  <2>9. QED BY <1>2, <2>1, <2>2, <2>3, <2>5, <2>7, <2>8
<1>10. dying' \in Seq(Counted) /\ Distinct(dying') /\ Range(dying') = IF uiRef'[t] = 0 THEN {t} ELSE {}
  <2>1. CASE uiRef'[t] = 0 BY <1>2, <1>3, <2>1, Single
  <2>2. CASE uiRef'[t] # 0
    <3>1. dying' = <<>> BY <1>2, <2>2
    <3>2. QED BY <2>2, <3>1 DEF Distinct, Range
  <2>3. QED BY <2>1, <2>2
<1>11. uiRef' \in [Counted -> Nat] BY <1>2, <1>9
<1>12. Types' BY <1>1, <1>2, <1>8, <1>10, <1>11 DEF Types, Slot, Counted
<1>13. Counts'
  <2>1. ASSUME NEW x \in live' PROVE uiRef'[x] = 0 <=> x \in Range(dying')
    <3>1. x \in live /\ x \in Counted BY <1>1, <1>2 DEF Types
    <3>2. CASE x = t BY <1>10, <3>2
    <3>3. CASE x # t BY <1>9, <1>10, <3>1, <3>3
    <3>4. QED BY <3>2, <3>3
  <2>2. QED BY <1>9, <2>1 DEF Counts, Counted, B
<1>14. Pointers' BY <1>1, <1>2, <1>8 DEF Pointers, KeptLower, IsObj, Slot, FieldSlot
<1>15. WeakPointers' BY <1>1, <1>2 DEF WeakPointers
<1>16. Chains'
  <2>1. Held \subseteq live' /\ marked \subseteq live' BY <1>1, <1>2 DEF Chains
  <2>2. Range(dying') \subseteq live' \ marked BY <1>2, <1>3, <1>10
  <2>3. (live' \cap Obj) \ Range(dying') \subseteq Held \union marked BY <1>1, <1>2, <1>5 DEF Chains
  <2>4. QED BY <1>1, <1>2, <1>10, <2>1, <2>2, <2>3, ChainsStay
<1>17. Phases'
  <2>1. ASSUME ~strayed, NEW o \in Range(gcChain'), Swept(o)' PROVE ToClear(o)' = {}
    <3>0. c = gcChain
      <4>1. stray = {} BY <1>1, <2>1 DEF Chains
      <4>2. QED BY <1>4, <1>7, <4>1, ListFacts
    <3>1. o \in Range(gcChain) /\ ToClear(o)' = ToClear(o) BY <1>2, <2>1 DEF ToClear, Fields
    <3>2. o = t \/ Before(gcChain, o, t)
      <4>1. nx = NULL \/ Before(gcChain, o, nx) BY <1>2, <2>1 DEF Swept, Before
      <4>2. nx # NULL => nx \in Range(gcChain) BY <1>7, <3>0
      <4>3. CASE nx = NULL
        <5>1. NULL \notin Range(gcChain) BY <1>4, InRange, NullFacts
        <5>2. QED BY <1>7, <3>0, <3>1, <4>3, <5>1
      <4>4. CASE nx # NULL BY <1>7, <3>0, <4>1, <4>4
      <4>5. QED BY <4>3, <4>4
    <3>3. CASE o = t BY <1>2, <3>1, <3>3
    <3>4. CASE Before(gcChain, o, t) BY <1>1, <1>2, <2>1, <3>1, <3>4 DEF Phases, SweptClear, Swept
    <3>5. QED BY <3>2, <3>3, <3>4
  <2>2. /\ Reachable' = Reachable /\ (MarkClosed' <=> MarkClosed) /\ pc' = pc /\ marked' = marked /\ slot' = slot
        /\ strayed' = strayed
    BY <1>2 DEF Reachable, MarkClosed, Followed, Slot, IsObj
  <2>3. SweptClear' BY <2>1, <2>2 DEF SweptClear
  <2>4. QED BY <1>1, <1>2, <1>8, <2>2, <2>3 DEF Phases
<1>18. QED BY <1>12, <1>13, <1>14, <1>15, <1>16, <1>17 DEF CollectorInv

(* A set of natural numbers has a least element. *)
LEMMA NatLess ==
  \E R : IsWellFoundedOn(R, Nat) /\ \A x, y \in Nat : y < x => <<y, x>> \in R
<1>1. \A x, y \in Nat : y < x => <<y, x>> \in OpToRel(<, Nat) BY Zenon DEF OpToRel
<1>2. QED BY <1>1, NatLessThanWellFounded, Zenon

LEMMA NatMin ==
  ASSUME NEW T \in SUBSET Nat, T # {}
  PROVE \E x \in T : \A y \in T : x <= y
<1>1. PICK R : IsWellFoundedOn(R, Nat) /\ \A x, y \in Nat : y < x => <<y, x>> \in R
  BY NatLess
<1>2. \E x \in T : \A y \in T : ~(<<y, x>> \in R) BY <1>1, WFMin, Zenon
<1>3. \E x \in T : \A y \in T : ~(y < x) BY <1>1, <1>2, Zenon
<1>4. QED BY <1>3

(* Of some objects one is lowest. *)
LEMMA Lowest ==
  ASSUME NEW T \in SUBSET Obj, T # {}
  PROVE \E x \in T : \A y \in T : ~(Level[y] < Level[x])
<1>1. \A x \in T : Level[x] \in Nat BY KeptAssumption
<1> DEFINE L == {Level[x] : x \in T}
<1>2. L \in SUBSET Nat /\ L # {} BY <1>1
<1> HIDE DEF L
<1>3. PICK l \in L : \A m \in L : l <= m BY <1>2, NatMin
<1>4. PICK x \in T : l = Level[x] BY <1>3 DEF L
<1>5. \A y \in T : Level[y] \in L BY DEF L
<1>6. \A y \in T : Level[x] <= Level[y] BY <1>3, <1>4, <1>5
<1>7. \A y \in T : ~(Level[y] < Level[x]) BY <1>1, <1>6
<1>8. QED BY <1>4, <1>7

(* When the sweep is over nothing is left but the marked objects and what  *)
(* Mark has skipped and Finalize has left: the lowest object that is left  *)
(* and none of these would be referred to by nothing.                      *)
LEMMA SweptAll ==
  ASSUME CollectorInv, pc \in {"sweep", "delete"}, t = NULL, dying = <<>>, ~strayed
  PROVE (live \cap Obj) \ marked \subseteq LeftBehind
<1>1. Types /\ Counts /\ Pointers /\ Chains /\ Phases BY DEF CollectorInv
<1>2. Range(dying) = {} BY DEF Range
<1>3. live \cap Obj \subseteq Range(gcChain) \union marked
  <2>1. stray = {} /\ gcChain \in Seq(Obj) /\ stray \subseteq Seq(Obj) BY <1>1 DEF Types, Chains
  <2>2. Held = Range(gcChain) BY <2>1, ListFacts
  <2>3. QED BY <1>1, <1>2, <2>2 DEF Chains
<1>4. MarkClosed /\ SweptClear BY <1>1 DEF Phases
<1>5. SUFFICES ASSUME NEW S \in SUBSET Obj,
                      \A s \in Obj \X Field :
                        IsObj(slot[s]) /\ ((s \in Unmarked /\ s[1] \in marked) \/ (s \in Kept /\ s[1] \in S))
                          => slot[s] \in S,
                      NEW p \in (live \cap Obj) \ marked, p \notin S
               PROVE FALSE
  BY DEF LeftBehind
<1> DEFINE T == ((live \cap Obj) \ marked) \ S
<1>6. T \in SUBSET Obj /\ T # {} BY <1>5
<1>7. PICK o \in T : \A q \in T : ~(Level[q] < Level[o])
  <2> HIDE DEF T
  <2>1. QED BY <1>6, Lowest
<1>8. o \in live /\ o \in Obj /\ o \notin marked /\ o \notin S /\ o \in Counted /\ o # NULL
  BY <1>7, NullFacts DEF Counted
<1>9. uiRef[o] # 0 BY <1>1, <1>2, <1>8 DEF Counts
<1>10. Refs(o) # {}
  <2>1. Exact BY <1>1 DEF Counts, Exact
  <2>2. QED BY <1>8, <1>9, <2>1, CountIsNat
<1>11. PICK s \in Slot : slot[s] = o BY <1>10 DEF Refs
<1>12. IsObj(slot[s]) /\ s \notin Followed(marked) BY <1>4, <1>8, <1>11 DEF MarkClosed, IsObj
<1>13. Root \cap Unmarked = {} BY DisjointAssumption, KeptAssumption
<1>14. s \notin Root /\ s \in FieldSlot /\ s \in Obj \X Field /\ s[1] \in Obj /\ s[1] \in live
  <2>1. s \notin Root BY <1>12, <1>13 DEF Followed
  <2>2. s \in FieldSlot /\ s[1] \in Obj BY <2>1, SlotFacts
  <2>3. QED BY <1>1, <1>8, <1>11, <2>1, <2>2 DEF Pointers, FieldSlot
<1>15. s[1] \notin marked
  <2>1. s[1] \in marked => s \in Unmarked BY <1>12 DEF Followed
  <2>2. QED BY <1>5, <1>8, <1>11, <1>12, <1>14, <2>1
<1>16. s[1] \in Range(gcChain) BY <1>3, <1>14, <1>15
<1>17. ToClear(s[1]) = {} BY <1>4, <1>16 DEF SweptClear, Swept
<1>18. s \in Kept
  <2>1. s \in {s[1]} \X Field BY <1>14, SlotFacts
  <2>2. s \in Fields(s[1]) BY <1>8, <1>11, <2>1 DEF Fields
  <2>3. QED BY <1>17, <2>2 DEF ToClear
<1>19. s[1] \notin S BY <1>5, <1>8, <1>11, <1>12, <1>14, <1>18
<1>20. s[1] \in T BY <1>14, <1>15, <1>19
<1>21. Level[s[1]] < Level[o] BY <1>1, <1>11, <1>12, <1>18 DEF Pointers, KeptLower
<1>22. QED BY <1>7, <1>20, <1>21

(* The lists of what is not marked become lists that _gc_chain, which is   *)
(* what was marked, does not lead to.                                      *)
LEMMA EndsInv ==
  ASSUME CollectorInv, EndSweep \/ ResurrectNothing
  PROVE CollectorInv'
<1>1. Types /\ Chains /\ Phases BY DEF CollectorInv
<1>2. /\ pc' = "idle" /\ marked' = {} /\ gcChain' = tchain /\ tchain' = <<>>
      /\ UNCHANGED CountVars /\ UNCHANGED <<live, slot, uiRef, weakref, target, dying, t>>
  BY DEF EndSweep, ResurrectNothing, CountVars, weakVars
<1>3. dying = <<>> /\ t = NULL BY <1>1 DEF EndSweep, Sweeping, ResurrectNothing, Phases
<1>4. Range(dying) = {} /\ Range(<<>>) = {} BY <1>3 DEF Range
<1>5. stray' = stray \union ({gcChain} \ {<<>>}) /\ strayed' \in BOOLEAN /\ (~strayed' => ~strayed /\ gcChain = <<>>)
  <2>1. strayed \in BOOLEAN BY <1>1 DEF Types
  <2>2. CASE EndSweep BY <2>1, <2>2 DEF EndSweep
  <2>3. CASE ResurrectNothing BY <2>1, <2>3 DEF ResurrectNothing
  <2>4. QED BY <2>2, <2>3
<1>6. gcChain \in Seq(Obj) /\ tchain \in Seq(Obj) /\ stray \subseteq Seq(Obj) /\ ListsOK /\ Distinct(tchain)
      /\ Range(tchain) = marked /\ Held \cap marked = {}
  BY <1>1 DEF Types, Chains
<1>7. /\ \A c \in Lists : Distinct(c) /\ Range(c) \subseteq Held
      /\ \A c, d \in Lists : c # d => Range(c) \cap Range(d) = {}
      /\ <<>> \notin stray /\ \A x : x \in Held <=> \E c \in Lists : x \in Range(c)
  BY <1>6, ListFacts DEF ListsOK
<1>8. /\ Lists = {gcChain} \union stray /\ Lists' = {tchain} \union stray'
      /\ \A c \in Lists' : c = tchain \/ c \in Lists
      /\ \A c \in Lists : c \in Lists' \/ c = <<>>
  BY <1>2, <1>5 DEF Lists
<1>9. tchain \notin stray'
  <2>1. tchain # <<>> => First(tchain) \in Range(tchain) BY <1>6, AtHead
  <2>2. tchain \in Lists => Range(tchain) \subseteq Held BY <1>7
  <2>3. <<>> \notin stray' BY <1>5, <1>7
  <2>4. stray' \subseteq Lists BY <1>5, <1>8
  <2>5. QED BY <1>6, <2>1, <2>2, <2>3, <2>4
<1>10. ListsOK'
  <2>1. \A c \in Lists' : Distinct(c) BY <1>6, <1>7, <1>8
  <2>2. \A c \in Lists : Range(c) \cap Range(tchain) = {} BY <1>6, <1>7
  <2>3. \A c, d \in Lists' : c # d => Range(c) \cap Range(d) = {} BY <1>7, <1>8, <2>2
  <2>4. <<>> \notin stray' /\ gcChain' \notin stray' BY <1>2, <1>5, <1>7, <1>9
  <2>5. QED BY <2>1, <2>3, <2>4 DEF ListsOK, Distinct, Range
<1>11. Held' = Held \union marked
  <2>1. ASSUME NEW x PROVE x \in Held' <=> x \in Held \/ x \in marked
    <3>1. x \in Held' <=> \E c \in Lists' : x \in Range(c) BY DEF Held, Range
    <3>2. x \in Held' => x \in Held \/ x \in marked BY <1>6, <1>7, <1>8, <3>1
    <3>3. x \in marked => x \in Held' BY <1>6, <1>8, <3>1
    <3>4. ASSUME x \in Held PROVE x \in Held'
      <4>1. PICK c \in Lists : x \in Range(c) BY <1>7, <3>4
      <4>2. c # <<>> BY <1>4, <4>1
      <4>3. QED BY <1>8, <3>1, <4>1, <4>2
    <3>5. QED BY <3>2, <3>3, <3>4
  <2>2. QED BY <2>1
<1>12. Counts' /\ Pointers' /\ WeakPointers' BY <1>2, CountsStay
<1>13. Types'
  <2>1. <<>> \in Seq(Obj) /\ stray' \subseteq Seq(Obj) BY <1>5, <1>6
  <2>2. QED BY <1>1, <1>2, <1>5, <2>1 DEF Types, Slot, Counted
<1>14. Chains'
  <2>1. Range(tchain') = {} /\ Range(dying') = {} BY <1>2, <1>4
  <2>2. Distinct(tchain)' /\ Distinct(dying)' BY <1>1, <1>2 DEF Chains, Distinct
  <2>3. Held' \subseteq live' /\ live' \cap Obj \subseteq Held' BY <1>1, <1>2, <1>4, <1>11 DEF Chains
  <2>4. ~strayed' => stray' = {} BY <1>1, <1>5 DEF Chains
  <2>5. QED BY <1>2, <1>10, <2>1, <2>2, <2>3, <2>4 DEF Chains
<1>15. Phases' BY <1>2, <1>3 DEF Phases
<1>16. QED BY <1>12, <1>13, <1>14, <1>15 DEF CollectorInv

(* The array of what is unreachable refers to each object once. *)
LEMMA ResurrectInv ==
  ASSUME CollectorInv, Resurrect
  PROVE CollectorInv'
<1>1. Types /\ Counts /\ Pointers /\ WeakPointers /\ Chains /\ Phases BY DEF CollectorInv
<1>2. PICK r \in Root, a \in Obj \ live, f \in [1 .. Len(gcChain) -> Field] :
        /\ IsInjective(f) /\ Range(f) \subseteq Elements(a) /\ slot[r] = NULL
        /\ live' = live \union {a}
        /\ slot' = [s \in Slot |->
             IF s = r THEN a
             ELSE IF \E i \in DOMAIN f : s = <<a, f[i]>>
                  THEN gcChain[CHOOSE i \in DOMAIN f : s = <<a, f[i]>>]
                  ELSE slot[s]]
        /\ uiRef' = [x \in Counted |-> uiRef[x] + B(x = a) + B(x \in Range(gcChain))]
        /\ gcChain' = gcChain \o <<a>> \o tchain
  BY DEF Resurrect
<1>3. /\ pc = "markall" /\ pc' = "idle" /\ marked' = {} /\ tchain' = <<>>
      /\ UNCHANGED <<stray, strayed, weakref, target, dying, t>>
  BY DEF Resurrect, weakVars
<1>4. dying = <<>> /\ t = NULL BY <1>1, <1>3 DEF Phases
<1>5. Range(dying) = {} BY <1>4 DEF Range
<1>a. /\ gcChain \in Seq(Obj) /\ stray \subseteq Seq(Obj) /\ tchain \in Seq(Obj) /\ ListsOK
      /\ Distinct(tchain) /\ Range(tchain) = marked /\ Held \cap marked = {} /\ Held \subseteq live /\ marked \subseteq live
  BY <1>1 DEF Types, Chains
<1>b. /\ gcChain \in Lists /\ Range(gcChain) \subseteq Held /\ Distinct(gcChain)
      /\ \A c \in Lists : Range(c) \subseteq Held
  BY <1>a, ListFacts DEF ListsOK
<1> DEFINE n == Len(gcChain)
<1>6. /\ gcChain \in Seq(Obj) /\ n \in Nat /\ DOMAIN gcChain = 1 .. n /\ DOMAIN f = 1 .. n /\ Distinct(gcChain)
      /\ \A x : x \in Range(gcChain) <=> \E i \in 1 .. n : gcChain[i] = x
  <2>1. gcChain \in Seq(Obj) /\ Distinct(gcChain) BY <1>a, ListFacts DEF ListsOK
  <2>2. QED BY <2>1, InRange
<1> HIDE DEF n
<1>7. a \in Obj /\ a \notin live /\ a \in Counted /\ a # NULL BY NullFacts DEF Counted
<1>8. a \notin Range(gcChain) /\ a \notin Range(tchain) /\ Range(gcChain) \subseteq live BY <1>7, <1>a, <1>b
<1>9. r \in Slot /\ r \notin FieldSlot /\ \A i \in 1 .. n : <<a, f[i]>> \in FieldSlot /\ <<a, f[i]>> \in Slot /\ <<a, f[i]>> # r
  BY <1>6, <1>7, SlotFacts DEF FieldSlot, Slot
<1>10. \A i, j \in 1 .. n : <<a, f[i]>> = <<a, f[j]>> => i = j
  <2>1. \A i, j \in 1 .. n : f[i] = f[j] => i = j BY <1>2, <1>6 DEF IsInjective
  <2>2. QED BY <2>1
<1> DEFINE place(i) == <<a, f[i]>>
<1>11. /\ \A i \in 1 .. n : place(i) \in FieldSlot /\ place(i) \in Slot /\ place(i) # r /\ place(i)[1] = a
       /\ \A i, j \in 1 .. n : place(i) = place(j) => i = j
  BY <1>9, <1>10
<1>12. slot' = [s \in Slot |->
             IF s = r THEN a
             ELSE IF \E i \in 1 .. n : s = place(i)
                  THEN gcChain[CHOOSE i \in 1 .. n : s = place(i)]
                  ELSE slot[s]]
  BY <1>2, <1>6
<1> HIDE DEF place
<1>13. /\ slot'[r] = a
       /\ \A i \in 1 .. n : slot'[place(i)] = gcChain[i]
       /\ \A s \in Slot : s # r /\ (\A i \in 1 .. n : s # place(i)) => slot'[s] = slot[s]
  <2>1. slot'[r] = a BY <1>9, <1>12
  <2>2. ASSUME NEW i \in 1 .. n PROVE slot'[place(i)] = gcChain[i]
    <3>1. slot'[place(i)] = gcChain[CHOOSE j \in 1 .. n : place(i) = place(j)] BY <1>11, <1>12
    <3>2. (CHOOSE j \in 1 .. n : place(i) = place(j)) = i BY <1>11
    <3>3. QED BY <3>1, <3>2
  <2>3. ASSUME NEW s \in Slot, s # r, \A i \in 1 .. n : s # place(i) PROVE slot'[s] = slot[s] BY <1>12, <2>3
  <2>4. QED BY <2>1, <2>2, <2>3
<1>14. slot[r] = NULL /\ \A i \in 1 .. n : slot[place(i)] = NULL
  BY <1>1, <1>2, <1>7, <1>11 DEF Pointers
<1>15. slot' \in [Slot -> Counted \union {NULL}]
  <2>1. \A i \in 1 .. n : gcChain[i] \in Counted BY <1>6 DEF Counted
  <2>2. \A s \in Slot : slot[s] \in Counted \union {NULL} BY <1>1 DEF Types
  <2>3. \A s \in Slot : slot'[s] \in Counted \union {NULL} BY <1>7, <1>13, <2>1, <2>2
  <2>4. DOMAIN slot' = Slot /\ slot' = [s \in Slot |-> slot'[s]] BY <1>12
  <2>5. QED BY <2>3, <2>4
<1>16. ASSUME NEW x \in Counted
       PROVE IsFiniteSet(Refs(x)') /\ uiRef'[x] = Cardinality(Refs(x)') + B(x = t') /\ uiRef'[x] \in Nat
             /\ (x \in live' => uiRef'[x] # 0)
  <2>1. x # NULL /\ B(x = t) = 0 /\ t' = t BY <1>3, <1>4, NullFacts DEF B
  <2>2. IsFiniteSet(Refs(x)) /\ uiRef[x] = Cardinality(Refs(x)) + B(x = t) BY <1>1 DEF Counts
  <2>3. Cardinality(Refs(x)) \in Nat BY <2>2, FS_CardinalityType
  <2>4. uiRef'[x] = uiRef[x] + B(x = a) + B(x \in Range(gcChain)) BY <1>2
  <2>5. Refs(x)' = {s \in Slot : slot'[s] = x} BY DEF Refs, Slot
  <2>6. x \in live => uiRef[x] # 0 BY <1>1, <1>5 DEF Counts
  <2>7. CASE x = a
    <3>1. B(x = a) = 1 /\ B(x \in Range(gcChain)) = 0 BY <1>8, <2>7 DEF B
    <3>2. Refs(x) = {} BY <1>1, <1>7, <2>7 DEF Refs, Pointers
    <3>3. \A i \in 1 .. n : gcChain[i] # a BY <1>6, <1>8
    <3>4. Refs(x)' = Refs(x) \union {r}
      <4>1. \A s \in Slot : slot'[s] = x <=> s = r BY <1>9, <1>13, <2>7, <3>2, <3>3 DEF Refs
      <4>2. QED BY <1>9, <2>5, <3>2, <4>1
    <3>5. IsFiniteSet(Refs(x)') /\ Cardinality(Refs(x)') = Cardinality(Refs(x)) + 1
      <4>1. r \notin Refs(x) BY <3>2
      <4>2. QED BY <2>2, <3>4, <4>1, FS_AddElement
    <3>6. QED BY <2>1, <2>2, <2>3, <2>4, <3>1, <3>5
  <2>8. CASE x \in Range(gcChain)
    <3>1. x # a /\ B(x = a) = 0 /\ B(x \in Range(gcChain)) = 1 BY <1>8, <2>8 DEF B
    <3>2. PICK k \in 1 .. n : gcChain[k] = x BY <1>6, <2>8
    <3>3. \A i \in 1 .. n : gcChain[i] = x => i = k BY <1>6, <3>2 DEF Distinct
    <3>4. place(k) \notin Refs(x) BY <1>14, <2>1 DEF Refs
    <3>5. Refs(x)' = Refs(x) \union {place(k)}
      <4>1. \A s \in Slot : slot'[s] = x <=> slot[s] = x \/ s = place(k)
        <5>1. ASSUME NEW s \in Slot PROVE slot'[s] = x <=> slot[s] = x \/ s = place(k)
          <6>1. CASE s = r BY <1>11, <1>13, <1>14, <2>1, <3>1, <6>1
          <6>2. CASE \E i \in 1 .. n : s = place(i)
            <7>1. PICK i \in 1 .. n : s = place(i) BY <6>2
            <7>2. slot'[s] = gcChain[i] /\ slot[s] = NULL BY <1>13, <1>14, <7>1
            <7>3. s = place(k) <=> i = k BY <1>11, <7>1
            <7>4. QED BY <2>1, <3>2, <3>3, <7>2, <7>3
          <6>3. CASE s # r /\ \A i \in 1 .. n : s # place(i) BY <1>13, <6>3
          <6>4. QED BY <6>1, <6>2, <6>3
        <5>2. QED BY <5>1
      <4>2. QED BY <1>11, <2>5, <4>1 DEF Refs
    <3>6. IsFiniteSet(Refs(x)') /\ Cardinality(Refs(x)') = Cardinality(Refs(x)) + 1
      BY <2>2, <3>4, <3>5, FS_AddElement
    <3>7. QED BY <2>1, <2>2, <2>3, <2>4, <3>1, <3>6
  <2>9. CASE x # a /\ x \notin Range(gcChain)
    <3>1. B(x = a) = 0 /\ B(x \in Range(gcChain)) = 0 BY <2>9 DEF B
    <3>2. \A i \in 1 .. n : gcChain[i] # x BY <1>6, <2>9
    <3>3. \A s \in Slot : slot'[s] = x <=> slot[s] = x
      <4>1. ASSUME NEW s \in Slot PROVE slot'[s] = x <=> slot[s] = x
        <5>1. CASE s = r BY <1>13, <1>14, <2>1, <2>9, <5>1
        <5>2. CASE \E i \in 1 .. n : s = place(i) BY <1>13, <1>14, <2>1, <3>2, <5>2
        <5>3. CASE s # r /\ \A i \in 1 .. n : s # place(i) BY <1>13, <5>3
        <5>4. QED BY <5>1, <5>2, <5>3
      <4>2. QED BY <4>1
    <3>4. Refs(x)' = Refs(x) BY <2>5, <3>3 DEF Refs
    <3>5. x \in live' => x \in live BY <1>2, <2>9
    <3>6. QED BY <2>1, <2>2, <2>3, <2>4, <2>6, <3>1, <3>4, <3>5
  <2>10. QED BY <2>7, <2>8, <2>9
<1>17. uiRef' \in [Counted -> Nat] BY <1>2, <1>16
<1>18. live' \subseteq Counted BY <1>1, <1>2, <1>7 DEF Types
<1>19. /\ gcChain' \in Seq(Obj) /\ Distinct(gcChain')
       /\ Range(gcChain') = Range(gcChain) \union {a} \union Range(tchain)
  <2>1. gcChain \in Seq(Obj) /\ tchain \in Seq(Obj) /\ Distinct(gcChain) /\ Distinct(tchain) /\ Range(tchain) = marked
        /\ Range(gcChain) \cap marked = {}
    BY <1>a, <1>b
  <2> DEFINE e == <<a>>
             d == gcChain \o e
  <2>2. e \in Seq(Obj) /\ Range(e) = {a} /\ Distinct(e) BY <1>7, Single
  <2> HIDE DEF e
  <2>3. d \in Seq(Obj) /\ Range(d) = Range(gcChain) \union {a} /\ Distinct(d)
    <3>1. Range(gcChain) \cap Range(e) = {} BY <1>8, <2>2
    <3>2. d \in Seq(Obj) /\ Range(d) = Range(gcChain) \union Range(e) /\ Distinct(d) BY <2>1, <2>2, <3>1, Joined
    <3> HIDE DEF d
    <3>3. QED BY <2>2, <3>2
  <2>4. gcChain' = d \o tchain BY <1>2 DEF e
  <2> HIDE DEF d
  <2>5. Range(d) \cap Range(tchain) = {} BY <1>8, <2>1, <2>3
  <2>6. d \o tchain \in Seq(Obj) /\ Range(d \o tchain) = Range(d) \union Range(tchain) /\ Distinct(d \o tchain)
    BY <2>1, <2>3, <2>5, Joined
  <2>7. QED BY <2>3, <2>4, <2>6
<1>20. Types'
  <2>1. <<>> \in Seq(Obj) OBVIOUS
  <2>2. QED BY <1>1, <1>3, <1>15, <1>17, <1>18, <1>19, <2>1 DEF Types, Slot, Counted
<1>21. Counts'
  <2>1. \A x \in live' : uiRef'[x] = 0 <=> x \in Range(dying') BY <1>3, <1>5, <1>16, <1>18
  <2>2. QED BY <1>16, <2>1 DEF Counts, Counted, B
<1>22. Pointers'
  <2>1. \A s \in Slot : slot'[s] \in live' \union {NULL}
    <3>1. \A i \in 1 .. n : gcChain[i] \in live BY <1>6, <1>8
    <3>2. ASSUME NEW s \in Slot PROVE slot'[s] \in live' \union {NULL}
      <4>1. CASE s = r BY <1>2, <1>13, <4>1
      <4>2. CASE \E i \in 1 .. n : s = place(i)
        <5>1. PICK i \in 1 .. n : s = place(i) BY <4>2
        <5>2. slot'[s] = gcChain[i] BY <1>13, <5>1
        <5>3. live \subseteq live' BY <1>2
        <5>4. QED BY <3>1, <5>2, <5>3
      <4>3. CASE s # r /\ \A i \in 1 .. n : s # place(i)
        <5>1. slot'[s] = slot[s] BY <1>13, <4>3
        <5>2. QED BY <1>1, <1>2, <5>1 DEF Pointers
      <4>4. QED BY <4>1, <4>2, <4>3
    <3>3. QED BY <3>2
  <2>2. \A s \in FieldSlot : slot'[s] # NULL => s[1] \in live'
    <3>1. ASSUME NEW s \in FieldSlot, slot'[s] # NULL PROVE s[1] \in live'
      <4>1. CASE \E i \in 1 .. n : s = place(i) BY <1>2, <1>11, <4>1
      <4>2. CASE \A i \in 1 .. n : s # place(i)
        <5>1. slot'[s] = slot[s] BY <1>9, <1>13, <4>2, SlotFacts
        <5>2. QED BY <1>1, <1>2, <3>1, <5>1 DEF Pointers
      <4>3. QED BY <4>1, <4>2
    <3>2. QED BY <3>1
  <2>3. KeptLower'
    <3>1. ASSUME NEW s \in Kept, IsObj(slot'[s]) PROVE Level[s[1]] < Level[slot'[s]]
      <4>1. s \in Slot /\ s # r BY <1>9, KeptAssumption DEF FieldSlot, Slot
      <4>2. \A i \in 1 .. n : s # place(i)
        <5>1. ASSUME NEW i \in 1 .. n PROVE place(i) \notin Kept
          <6>1. f[i] \in Range(f) BY <1>6 DEF Range
          <6>2. f[i] \in Elements(a) BY <1>2, <6>1
          <6>3. QED BY <6>2 DEF Elements, place
        <5>2. QED BY <5>1
      <4>3. slot'[s] = slot[s] BY <1>13, <4>1, <4>2
      <4>4. QED BY <1>1, <3>1, <4>3 DEF Pointers, KeptLower
    <3>2. QED BY <3>1 DEF KeptLower, IsObj
  <2>4. QED BY <1>3, <1>4, <2>1, <2>2, <2>3 DEF Pointers, Slot, FieldSlot
<1>23. WeakPointers' BY <1>1, <1>2, <1>3 DEF WeakPointers
<1>24. Chains'
  <2>1. Range(tchain') = {} /\ Distinct(tchain)' BY <1>3 DEF Range, Distinct
  <2>2. Range(dying') = {} /\ Distinct(dying)' BY <1>1, <1>3, <1>5 DEF Chains, Distinct
  <2>3. Lists = {gcChain} \union stray /\ Lists' = {gcChain'} \union stray BY <1>3 DEF Lists
  <2>4. /\ \A c \in Lists : Distinct(c)
        /\ \A c, d \in Lists : c # d => Range(c) \cap Range(d) = {}
        /\ <<>> \notin stray /\ gcChain \notin stray
    BY <1>a DEF ListsOK
  <2>5. \A c \in stray : Range(c) \cap Range(gcChain') = {}
    <3>1. \A c \in stray : Range(c) \subseteq Held /\ c # gcChain /\ c \in Lists BY <1>b, <2>3, <2>4
    <3>2. \A c \in stray : Range(c) \cap Range(gcChain) = {} BY <1>b, <2>4, <3>1
    <3>3. a \notin Held BY <1>7, <1>a
    <3>4. QED BY <1>19, <1>a, <3>1, <3>2, <3>3
  <2>6. gcChain' \notin stray
    <3>1. a \in Range(gcChain') BY <1>19
    <3>2. \A c \in stray : a \notin Range(c) BY <2>5, <3>1
    <3>3. QED BY <3>1, <3>2
  <2>7. ListsOK'
    <3>1. \A c \in Lists' : Distinct(c) BY <1>19, <2>3, <2>4
    <3>2. \A c, d \in Lists' : c # d => Range(c) \cap Range(d) = {} BY <2>3, <2>4, <2>5
    <3>3. QED BY <1>3, <2>4, <2>6, <3>1, <3>2 DEF ListsOK, Distinct, Range
  <2>8. Held' = Held \union marked \union {a}
    <3>1. ASSUME NEW x PROVE x \in Held' <=> x \in Held \/ x \in marked \/ x = a
      <4>1. x \in Held' <=> \E c \in Lists' : x \in Range(c) BY DEF Held, Range
      <4>2. x \in Held <=> \E c \in Lists : x \in Range(c) BY DEF Held
      <4>3. x \in Range(gcChain') <=> x \in Range(gcChain) \/ x = a \/ x \in marked BY <1>19, <1>a
      <4>4. QED BY <2>3, <4>1, <4>2, <4>3
    <3>2. QED BY <3>1
  <2>9. Held' \subseteq live' BY <1>2, <1>a, <2>8
  <2>10. live' \cap Obj \subseteq Held' BY <1>1, <1>2, <1>5, <2>8 DEF Chains
  <2>11. ~strayed' => stray' = {} BY <1>1, <1>3 DEF Chains
  <2>12. QED BY <1>3, <2>1, <2>2, <2>7, <2>9, <2>10, <2>11 DEF Chains
<1>25. Phases' BY <1>3, <1>4 DEF Phases
<1>26. QED BY <1>20, <1>21, <1>22, <1>23, <1>24, <1>25 DEF CollectorInv

(* When the whole chain has been swept weak references have gone as well. *)
LEMMA EndDeleteInv ==
  ASSUME CollectorInv, EndDelete
  PROVE CollectorInv'
<1>1. Types /\ Counts /\ Pointers /\ Chains /\ Phases BY DEF CollectorInv
<1>2. /\ pc = "delete" /\ pc' = "closed" /\ t = NULL /\ dying = <<>>
      /\ UNCHANGED CountVars
      /\ UNCHANGED <<live, slot, uiRef, marked, gcChain, tchain, stray, strayed, weakref, target, dying, t>>
  BY DEF EndDelete, Sweeping, CountVars, chainVars, weakVars
<1>3. ~strayed => live \cap Obj = {}
  <2>1. marked = {} BY <1>1, <1>2 DEF Phases
  <2>2. {} \in SUBSET Obj OBVIOUS
  <2>3. LeftBehind = {} BY <2>1, <2>2 DEF LeftBehind
  <2>4. ~strayed => (live \cap Obj) \ marked \subseteq LeftBehind BY <1>2, SweptAll
  <2>5. QED BY <2>1, <2>3, <2>4
<1>4. ~strayed => live = {}
  <2> SUFFICES ASSUME ~strayed, NEW x \in live PROVE FALSE OBVIOUS
  <2>1. x \in Counted /\ x # NULL BY <1>1, NullFacts DEF Types
  <2>2. uiRef[x] # 0 BY <1>1, <1>2 DEF Counts, Range
  <2>3. Refs(x) # {}
    <3>1. Exact BY <1>1 DEF Counts, Exact
    <3>2. QED BY <1>2, <2>1, <2>2, <3>1, CountIsNat
  <2>4. PICK s \in Slot : slot[s] = x BY <2>3 DEF Refs
  <2>5. s \notin Root BY <1>1, <1>2, <2>1, <2>4 DEF Phases
  <2>6. s[1] \in live /\ s[1] \in Obj BY <1>1, <2>1, <2>4, <2>5, SlotFacts DEF Pointers
  <2>7. QED BY <1>3, <2>6
<1>5. Counts' /\ Pointers' /\ WeakPointers' BY <1>2, CountsStay
<1>6. Types' BY <1>1, <1>2 DEF Types, Slot, Counted
<1>7. Chains'
  <2>1. /\ Distinct(dying') /\ Range(dying') \subseteq live' \ marked /\ Held \subseteq live' /\ marked \subseteq live'
        /\ (live' \cap Obj) \ Range(dying') \subseteq Held \union marked
    BY <1>1, <1>2 DEF Chains
  <2>2. QED BY <1>1, <1>2, <2>1, ChainsStay
<1>8. Phases'
  <2>1. marked = {} /\ \A r \in Root : slot[r] = NULL BY <1>1, <1>2 DEF Phases
  <2>2. QED BY <1>2, <1>4, <2>1 DEF Phases
<1>9. QED BY <1>5, <1>6, <1>7, <1>8 DEF CollectorInv
-----------------------------------------------------------------------------
LEMMA CollectorInvInit == Init => CollectorInv
<1> SUFFICES ASSUME Init PROVE CollectorInv OBVIOUS
<1>1. /\ live = {} /\ slot = [s \in Slot |-> NULL] /\ uiRef = [x \in Counted |-> 0] /\ marked = {}
      /\ weakref = [o \in Obj |-> NULL] /\ target = [w \in Weak |-> NULL]
      /\ gcChain = <<>> /\ tchain = <<>> /\ stray = {} /\ strayed = FALSE
      /\ dying = <<>> /\ pc = "idle" /\ t = NULL
  BY DEF Init
<1>2. Types
  <2>1. <<>> \in Seq(Obj) /\ <<>> \in Seq(Counted) OBVIOUS
  <2>2. QED BY <1>1, <2>1 DEF Types
<1>3. Counts
  <2>1. ASSUME NEW x \in Counted PROVE IsFiniteSet(Refs(x)) /\ uiRef[x] = Cardinality(Refs(x)) + B(x = t)
    <3>1. x # NULL /\ B(x = t) = 0 BY <1>1, NullFacts DEF B
    <3>2. Refs(x) = {} BY <1>1, <3>1 DEF Refs
    <3>3. IsFiniteSet(Refs(x)) /\ Cardinality(Refs(x)) = 0 BY <3>2, FS_EmptySet
    <3>4. QED BY <1>1, <3>1, <3>3
  <2>2. QED BY <1>1, <2>1 DEF Counts
<1>4. Pointers
  <2>1. \A s \in Kept : s \in Slot BY KeptAssumption DEF Slot
  <2>2. KeptLower BY <1>1, <2>1, NullFacts DEF KeptLower, IsObj
  <2>3. QED BY <1>1, <2>2, SlotFacts DEF Pointers
<1>5. WeakPointers BY <1>1 DEF WeakPointers
<1>6. Chains
  <2>1. Distinct(<<>>) /\ Range(<<>>) = {} BY DEF Distinct, Range
  <2>2. Lists = {<<>>} BY <1>1 DEF Lists
  <2>3. ListsOK /\ Held = {} BY <1>1, <2>1, <2>2 DEF ListsOK, Held
  <2>4. QED BY <1>1, <2>1, <2>3 DEF Chains
<1>7. Phases BY <1>1 DEF Phases
<1>8. QED BY <1>2, <1>3, <1>4, <1>5, <1>6, <1>7 DEF CollectorInv

LEMMA CollectorInvNext == CollectorInv /\ [Next]_vars => CollectorInv'
<1>1. CollectorInv /\ UNCHANGED vars => CollectorInv'
  <2> SUFFICES ASSUME CollectorInv, UNCHANGED vars PROVE CollectorInv' OBVIOUS
  <2>1. /\ UNCHANGED CountVars
        /\ UNCHANGED <<live, slot, uiRef, marked, gcChain, tchain, stray, strayed, weakref, target, dying, t, pc>>
    BY DEF vars, CountVars, weakVars
  <2>2. Types /\ Chains /\ Phases BY DEF CollectorInv
  <2>3. Counts' /\ Pointers' /\ WeakPointers' BY <2>1, CountsStay
  <2>4. Types' BY <2>1, <2>2 DEF Types, Slot, Counted
  <2>5. Chains'
    <3>1. /\ Distinct(dying') /\ Range(dying') \subseteq live' \ marked /\ Held \subseteq live' /\ marked \subseteq live'
          /\ (live' \cap Obj) \ Range(dying') \subseteq Held \union marked
      BY <2>1, <2>2 DEF Chains
    <3>2. QED BY <2>1, <2>2, <3>1, ChainsStay
  <2>6. Phases'
    <3>1. /\ Reachable' = Reachable /\ (MarkClosed' <=> MarkClosed) /\ (\A o : Swept(o)' <=> Swept(o))
          /\ (\A o : ToClear(o)' = ToClear(o)) /\ Range(gcChain') = Range(gcChain)
      BY <2>1 DEF Reachable, MarkClosed, Followed, Swept, Before, ToClear, Fields, Slot, IsObj
    <3>2. SweptClear => SweptClear' BY <2>1, <3>1 DEF SweptClear
    <3>3. QED BY <2>1, <2>2, <3>1, <3>2 DEF Phases
  <2>7. QED BY <2>3, <2>4, <2>5, <2>6 DEF CollectorInv
<1>2. CollectorInv /\ Next => CollectorInv'
  BY AssignInv, CreateInv, GetWeakRefInv, RealvalInv, DropsInv, UnlinkInv, FreesInv, BeginsInv, MarkInv, SweepsInv,
     AdvanceInv, EndsInv, ResurrectInv, EndDeleteInv DEF Next, Work
<1>3. QED BY <1>1, <1>2

LEMMA CollectorInvAlways == Spec => []CollectorInv
BY CollectorInvInit, CollectorInvNext, PTL DEF Spec

(* Every SQObjectPtr is counted: _uiRef of what is allocated is the number *)
(* of references to it, through nested Releases, Finalize, the marking and *)
(* the sweep, and zero means that Release is running.                      *)
THEOREM CountAlwaysExact == Spec => []CountExact
<1>1. CollectorInv => CountExact
  <2> SUFFICES ASSUME CollectorInv, NEW x \in live
               PROVE uiRef[x] = Cardinality({s \in Slot : slot[s] = x}) + B(x = t) /\ (uiRef[x] = 0 <=> x \in Range(dying))
    BY DEF CountExact
  <2>1. x \in Counted /\ Counts BY DEF CollectorInv, Types
  <2>2. QED BY <2>1 DEF Counts, Refs
<1>2. QED BY <1>1, CollectorInvAlways, PTL

(* Nothing refers to freed memory: no SQObjectPtr, no sweep, no Release    *)
(* that is still running; and a weak reference and its object, which are   *)
(* released in any order, refer to each other or to nothing.               *)
THEOREM NeverDangling == Spec => []NoDangling
<1>1. CollectorInv => NoDangling
  <2> SUFFICES ASSUME CollectorInv PROVE NoDangling OBVIOUS
  <2>1. Types /\ Pointers /\ WeakPointers /\ Chains BY DEF CollectorInv
  <2>2. \A i, j \in DOMAIN dying : dying[i] \in live /\ (dying[i] = dying[j] => i = j)
    <3>1. \A i \in DOMAIN dying : dying[i] \in Range(dying) BY DEF Range
    <3>2. QED BY <2>1, <3>1 DEF Chains, Distinct
  <2>3. QED BY <2>1, <2>2 DEF NoDangling, Pointers, WeakPointers
<1>2. QED BY <1>1, CollectorInvAlways, PTL

(* Every object that is not being destroyed is in one list, once, through  *)
(* AddToChain, RemoveFromChain, the marking, the sweep and                 *)
(* ResurrectUnreachable; and as long as no sweep has left objects behind   *)
(* that list is _gc_chain or that of the marked objects.                   *)
THEOREM ChainAlwaysExact == Spec => []ChainExact
<1>1. CollectorInv => ChainExact
  <2> SUFFICES ASSUME CollectorInv PROVE ChainExact OBVIOUS
  <2>1. Types /\ Chains /\ Phases BY DEF CollectorInv
  <2> DEFINE lists == {gcChain, tchain} \union stray
  <2>2. /\ gcChain \in Seq(Obj) /\ tchain \in Seq(Obj) /\ stray \subseteq Seq(Obj) /\ ListsOK
        /\ Distinct(tchain) /\ Range(tchain) = marked /\ Held \cap marked = {}
    BY <2>1 DEF Types, Chains
  <2>3. \A c \in lists : c = tchain \/ c \in Lists BY DEF Lists
  <2>4. \A c \in Lists : c \in lists BY DEF Lists
  <2> HIDE DEF lists
  <2>5. \A x : x \in Held \union marked => \E c \in lists : x \in Range(c)
    <3>1. tchain \in lists BY DEF lists
    <3>2. QED BY <2>2, <2>4, <3>1 DEF Held
  <2>6. \A c \in Lists : Range(c) \subseteq Held /\ Distinct(c) BY <2>2, ListFacts DEF ListsOK
  <2>7. \A c \in lists : Range(c) \subseteq live BY <2>1, <2>2, <2>3, <2>6 DEF Chains
  <2>8. \A c \in lists : IsInjective(c)
    <3>1. \A c : Distinct(c) => IsInjective(c) BY DEF Distinct, IsInjective
    <3>2. QED BY <2>2, <2>3, <2>6, <3>1
  <2>9. \A c, d \in lists : c # d => Range(c) \cap Range(d) = {}
    <3>1. \A c, d \in Lists : c # d => Range(c) \cap Range(d) = {} BY <2>2 DEF ListsOK
    <3>2. QED BY <2>2, <2>3, <2>6, <3>1
  <2>10. \A o \in live \cap Obj : o \notin Range(dying) => \E c \in lists : o \in Range(c) BY <2>1, <2>5 DEF Chains
  <2>11. pc = "idle" => tchain = <<>>
    <3>1. pc = "idle" => Range(tchain) = {} BY <2>1 DEF Chains, Phases
    <3>2. tchain # <<>> => First(tchain) \in Range(tchain) BY <2>2, AtHead
    <3>3. QED BY <3>1, <3>2
  <2>12. Range(tchain) = marked /\ (~strayed => stray = {}) BY <2>1 DEF Chains
  <2>13. QED BY <2>7, <2>8, <2>9, <2>10, <2>11, <2>12 DEF ChainExact, lists
<1>2. QED BY <1>1, CollectorInvAlways, PTL

(* CollectGarbage marks what the program can reach and frees nothing of    *)
(* it; as long as no sweep has left objects behind, it frees the rest but  *)
(* what Mark skips and Finalize leaves.                                    *)
THEOREM AlwaysCollectsGarbage == Spec => []CollectsGarbage
<1>1. CollectorInv => CollectsGarbage
  <2> SUFFICES ASSUME CollectorInv PROVE CollectsGarbage OBVIOUS
  <2>1. Types /\ Chains /\ Phases BY DEF CollectorInv
  <2>2. pc = "sweep" => marked = Reachable /\ marked \subseteq live
    <3> SUFFICES ASSUME pc = "sweep" PROVE marked = Reachable /\ marked \subseteq live OBVIOUS
    <3>1. MarkClosed /\ marked \subseteq Reachable /\ marked \in SUBSET Obj BY <2>1 DEF Phases, Types
    <3>2. \A s \in Followed(marked) : IsObj(slot[s]) => slot[s] \in marked BY <3>1 DEF MarkClosed
    <3>3. \A o \in Reachable : o \in marked BY <3>1, <3>2, ReachableIn
    <3>4. QED BY <2>1, <3>1, <3>3 DEF Chains
  <2>3. pc = "sweep" /\ t = NULL /\ dying = <<>> /\ ~strayed => (live \cap Obj) \ marked \subseteq LeftBehind BY SweptAll
  <2>4. QED BY <2>2, <2>3 DEF CollectsGarbage
<1>2. QED BY <1>1, CollectorInvAlways, PTL

(* sq_close frees everything, cycles, weak references and what Finalize    *)
(* leaves included, and the assertion of ~SQSharedState that its chain is  *)
(* empty holds, unless a collection has left objects behind before.        *)
THEOREM ClosedAlwaysEmpty == Spec => []ClosedEmpty
<1>1. CollectorInv => ClosedEmpty
  <2> SUFFICES ASSUME CollectorInv, pc = "closed", ~strayed PROVE gcChain = <<>> /\ live = {} BY DEF ClosedEmpty
  <2>1. Types /\ Chains /\ Phases BY DEF CollectorInv
  <2>2. gcChain \in Seq(Obj) /\ stray \subseteq Seq(Obj) /\ ListsOK BY <2>1 DEF Types, Chains
  <2>3. gcChain \in Lists /\ Range(gcChain) \subseteq Held BY <2>2, ListFacts
  <2>4. live = {} /\ Range(gcChain) = {} BY <2>1, <2>3 DEF Phases, Chains
  <2>5. gcChain # <<>> => First(gcChain) \in Range(gcChain) BY <2>2, <2>3, AtHead DEF ListsOK
  <2>6. QED BY <2>4, <2>5
<1>2. QED BY <1>1, CollectorInvAlways, PTL
=============================================================================

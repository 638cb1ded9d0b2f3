--------------------------- MODULE SQTableProofs ---------------------------
(***************************************************************************)
(* Proofs about SQTable for every set of keys, every hash function and     *)
(* every sequence of calls: the type invariant, the shape of the array     *)
(* (ChainInv) from which it follows that a lookup finds every key, and     *)
(* that the table implements SQMap.                                        *)
(***************************************************************************)
EXTENDS SQTable, FiniteSetTheorems, TLAPS

(* The sizes the array can have, 4, 8, 16, ...: the least set that holds   *)
(* MINPOWER2 and is closed under doubling.                                 *)
Doubles(S) == MINPOWER2 \in S /\ \A m \in S : 2 * m \in S
Sizes == {n \in Nat : \A S \in SUBSET Nat : Doubles(S) => n \in S}

(* _numofnodes starts at MINPOWER2 and is only doubled and halved. *)
SizeOK == numofnodes \in Sizes

(* What ChainInv says of the array itself, whatever loop is running. *)
TableInv ==
  /\ FirstFreeIsFree /\ LinksAboveFree /\ LinksInjective
  /\ UniqueKeys /\ StraysOwnNothing /\ KeysReachable

(* What ChainInv says of the loop that is running. *)
LoopInv == WalkCovers /\ PreviousCovers /\ NewSlotHasKey

Inv == TypeOK /\ SizeOK /\ TableInv /\ LoopInv
-----------------------------------------------------------------------------
(* The remainder that HashObj(key) & (_numofnodes - 1) stands for is the   *)
(* index of a node.                                                        *)
LEMMA ModRange ==
  ASSUME NEW a \in Nat, NEW b \in Nat, b > 0
  PROVE a % b \in 0 .. b - 1
OBVIOUS

(* 4 is a size: the constructor starts from MINPOWER2. *)
LEMMA MinSize == MINPOWER2 \in Sizes
BY DEF Sizes, Doubles, MINPOWER2

(* Doubling a size, as the constructor and Rehash do, gives a size. *)
LEMMA DoubleSize ==
  ASSUME NEW n \in Sizes
  PROVE n * 2 \in Sizes
<1>1. n * 2 \in Nat
  BY DEF Sizes
<1>2. ASSUME NEW S \in SUBSET Nat, Doubles(S)
      PROVE n * 2 \in S
  <2>1. n \in S
    BY <1>2 DEF Sizes
  <2>2. 2 * n \in S
    BY <1>2, <2>1 DEF Doubles
  <2> QED
    BY <2>2, n \in Nat DEF Sizes
<1> QED
  BY <1>1, <1>2 DEF Sizes

(* No size is below MINPOWER2. *)
LEMMA SizeAtLeast ==
  ASSUME NEW n \in Sizes
  PROVE n \in Nat /\ n >= MINPOWER2
<1> DEFINE S == {m \in Nat : m >= MINPOWER2}
<1>1. S \in SUBSET Nat /\ Doubles(S)
  BY DEF Doubles, MINPOWER2
<1>2. n \in S
  BY <1>1 DEF Sizes
<1> QED
  BY <1>2 DEF Sizes

(* A size above MINPOWER2 is twice a size, so that the division of Rehash  *)
(* by two gives a size.                                                    *)
LEMMA HalfSize ==
  ASSUME NEW n \in Sizes, n > MINPOWER2
  PROVE n \div 2 \in Sizes
<1> DEFINE S == {MINPOWER2} \cup {2 * m : m \in Sizes}
<1>1. S \in SUBSET Nat
  BY DEF MINPOWER2, Sizes
<1>2. MINPOWER2 \in S
  OBVIOUS
<1>3. ASSUME NEW m \in S
      PROVE 2 * m \in S
  <2>1. m \in Sizes
    <3>1. CASE m = MINPOWER2
      BY <3>1, MinSize
    <3>2. CASE \E x \in Sizes : m = 2 * x
      <4>1. PICK x \in Sizes : m = 2 * x
        BY <3>2
      <4>2. x * 2 \in Sizes /\ x \in Nat
        BY DoubleSize, SizeAtLeast
      <4> QED
        BY <4>1, <4>2
    <3> QED
      BY <3>1, <3>2
  <2> QED
    BY <2>1
<1>4. n \in S
  BY <1>1, <1>2, <1>3 DEF Sizes, Doubles
<1>5. PICK m \in Sizes : n = 2 * m
  <2>1. n # MINPOWER2
    BY SizeAtLeast DEF MINPOWER2
  <2> QED
    BY <1>4, <2>1
<1>6. m \in Nat
  BY DEF Sizes
<1>7. n \div 2 = m
  BY <1>5, <1>6
<1> QED
  BY <1>7
-----------------------------------------------------------------------------
(* The main position of a key, and of null, is a node. *)
LEMMA MainPosType ==
  ASSUME TypeOK, NEW k \in Key \cup {NULL}
  PROVE MainPos(k) \in Node
<1>1. HashObj(k) \in Nat
  BY HashAssumption DEF HashObj
<1>2. numofnodes \in Nat /\ numofnodes > 0
  BY DEF TypeOK, MINPOWER2
<1>3. HashObj(k) % numofnodes \in 0 .. numofnodes - 1
  BY <1>1, <1>2, ModRange
<1> QED
  BY <1>3 DEF MainPos, Node

(* Rehash allocates a size. *)
LEMMA RehashSizeOK ==
  ASSUME TypeOK, SizeOK, NEW e \in Int
  PROVE RehashSize(e) \in Sizes
<1>1. Oldsize = numofnodes
  BY DEF Oldsize, TypeOK, MINPOWER2
<1>2. numofnodes * 2 \in Sizes
  BY DoubleSize DEF SizeOK
<1>3. numofnodes > MINPOWER2 => numofnodes \div 2 \in Sizes
  BY HalfSize DEF SizeOK
<1> QED
  BY <1>1, <1>2, <1>3 DEF RehashSize, SizeOK

(* A fresh array has the types of its fields and a good shape. *)
LEMMA FreshTable ==
  ASSUME NEW size \in Sizes, AllocNodes(size)
  PROVE /\ numofnodes' \in Nat /\ numofnodes' >= MINPOWER2
        /\ numofnodes' \in Sizes
        /\ (key \in [Node -> Key \cup {NULL}])'
        /\ (val \in [Node -> Value \cup {NULL}])'
        /\ (next \in [Node -> Node \cup {NIL}])'
        /\ (firstfree \in Node)'
        /\ TableInv'
<1>1. size \in Nat /\ size >= MINPOWER2
  BY SizeAtLeast
<1>2. /\ numofnodes' = size
      /\ key' = [n \in 0 .. size - 1 |-> NULL]
      /\ val' = [n \in 0 .. size - 1 |-> NULL]
      /\ next' = [n \in 0 .. size - 1 |-> NIL]
      /\ firstfree' = size - 1
  BY DEF AllocNodes
<1>3. Node' = 0 .. size - 1
  BY <1>2 DEF Node
<1>4. firstfree' \in 0 .. size - 1
  BY <1>1, <1>2 DEF MINPOWER2
<1>5. \A i \in Node' : key'[i] = NULL /\ next'[i] = NIL
  BY <1>2, <1>3
<1>6. TableInv'
  BY <1>3, <1>4, <1>5 DEF TableInv, FirstFreeIsFree, LinksAboveFree, LinksInjective,
     UniqueKeys, StraysOwnNothing, KeysReachable
<1> QED
  BY <1>1, <1>2, <1>3, <1>4, <1>6

(* Only the fields of the table bear on its shape. *)
LEMMA TableUnchanged ==
  ASSUME TableInv, UNCHANGED tableVars
  PROVE TableInv'
BY DEF TableInv, tableVars, FirstFreeIsFree, LinksAboveFree, LinksInjective,
   UniqueKeys, StraysOwnNothing, KeysReachable, InChain, Closed, Node, MainPos, HashObj
-----------------------------------------------------------------------------
(* Where a call that is entered by Begin leaves the registers. *)
LEMMA BeginType ==
  ASSUME TypeOK, NEW o \in {"Get", "Set", "NewSlot", "Remove"},
         NEW k \in Key \cup {NULL}, NEW v \in Value \cup {NULL}, Begin(o, k, v)
  PROVE /\ pc' = "walk" /\ op' = o /\ ck' = k /\ cv' = v
        /\ cur' \in Node /\ cur' \in Nat
<1>1. MainPos(k) \in Node
  BY MainPosType
<1> QED
  BY <1>1 DEF Begin, Node, TypeOK

(* A call that starts in an idle table keeps the types. *)
LEMMA CallType ==
  ASSUME TypeOK, NEW o \in {"Get", "Set", "NewSlot", "Remove"},
         NEW k \in Key \cup {NULL}, NEW v \in Value \cup {NULL}, Begin(o, k, v),
         UNCHANGED <<tableVars, rehashVars, ret>>
  PROVE TypeOK'
<1>1. /\ pc' = "walk" /\ op' = o /\ ck' = k /\ cv' = v
      /\ cur' \in Node /\ cur' \in Nat
  BY BeginType
<1> QED
  BY <1>1 DEF TypeOK, tableVars, rehashVars, Node

(* Starting a Rehash keeps the types. *)
LEMMA StartRehashType ==
  ASSUME TypeOK, SizeOK, NEW e \in Int,
         NEW keys \in [Node -> Key \cup {NULL}], NEW vals \in [Node -> Value \cup {NULL}],
         StartRehash(keys, vals, e), UNCHANGED callVars,
         pk' \in Key \cup {NULL}, pv' \in Value \cup {NULL},
         ret' \in Value \cup {NULL} \cup BOOLEAN
  PROVE TypeOK' /\ SizeOK' /\ TableInv' /\ pc' = "rehash"
<1>1. RehashSize(e) \in Sizes /\ AllocNodes(RehashSize(e))
  BY RehashSizeOK DEF StartRehash
<1>2. /\ numofnodes' \in Nat /\ numofnodes' >= MINPOWER2
      /\ numofnodes' \in Sizes
      /\ (key \in [Node -> Key \cup {NULL}])'
      /\ (val \in [Node -> Value \cup {NULL}])'
      /\ (next \in [Node -> Node \cup {NIL}])'
      /\ (firstfree \in Node)'
      /\ TableInv'
  BY <1>1, FreshTable
<1>3. Oldsize = numofnodes
  BY DEF Oldsize, TypeOK, MINPOWER2
<1>4. /\ osize' = numofnodes /\ ri' = 0 /\ okey' = keys /\ oval' = vals
      /\ usednodes' = 0 /\ pc' = "rehash"
      /\ UNCHANGED <<op, ck, cv, cur>>
  BY <1>3 DEF StartRehash, callVars
<1>5. TypeOK'
  <2>1. /\ osize' \in Nat /\ ri' \in 0 .. osize'
        /\ okey' \in [0 .. osize' - 1 -> Key \cup {NULL}]
        /\ oval' \in [0 .. osize' - 1 -> Value \cup {NULL}]
    BY <1>4 DEF TypeOK, Node
  <2>2. op' \in {"none", "Get", "Set", "NewSlot", "Remove"} /\ ck' \in Key \cup {NULL}
        /\ cv' \in Value \cup {NULL} /\ cur' \in Nat
    BY <1>4 DEF TypeOK
  <2>3. usednodes' \in Int
    BY <1>4
  <2> QED
    BY <1>2, <1>4, <2>1, <2>2, <2>3 DEF TypeOK
<1> QED
  BY <1>2, <1>4, <1>5 DEF SizeOK

(* Returning from a call keeps the types of the registers. *)
LEMMA ReturnType ==
  ASSUME TypeOK, NEW r \in Value \cup {NULL} \cup BOOLEAN, Return(r)
  PROVE /\ pc' \in {"idle", "rehash"}
        /\ UNCHANGED <<okey, oval, osize, ri>>
        /\ pk' \in Key \cup {NULL} /\ pv' \in Value \cup {NULL}
        /\ ret' \in Value \cup {NULL} \cup BOOLEAN
BY DEF Return, TypeOK, rehashVars

(* The last part of NewSlot keeps the types. *)
LEMMA SettleType ==
  ASSUME TypeOK, SizeOK, NEW p \in Node, NEW keys \in [Node -> Key \cup {NULL}],
         NEW vals \in [Node -> Value \cup {NULL}],
         NEW links \in [Node -> Node \cup {NIL}], Settle(p, keys, vals, links)
  PROVE TypeOK' /\ SizeOK'
<1> DEFINE free == {j \in 0 .. firstfree : keys[j] = NULL /\ links[j] = NIL}
<1>1. CASE /\ free = {}
           /\ StartRehash(keys, vals, usednodes)
           /\ pk' = ck /\ pv' = cv
           /\ UNCHANGED <<callVars, ret>>
  <2>1. usednodes \in Int /\ pk' \in Key \cup {NULL} /\ pv' \in Value \cup {NULL}
        /\ ret' \in Value \cup {NULL} \cup BOOLEAN /\ UNCHANGED callVars
    BY <1>1 DEF TypeOK
  <2> QED
    BY <1>1, <2>1, StartRehashType
<1>2. CASE \E f \in free :
             /\ \A g \in free : g <= f
             /\ firstfree' = f
             /\ key' = keys /\ next' = links
             /\ val' = [vals EXCEPT ![p] = cv]
             /\ usednodes' = usednodes + 1
             /\ Return(TRUE)
             /\ UNCHANGED <<numofnodes, callVars>>
  <2>1. firstfree' \in free /\ key' = keys /\ next' = links
        /\ val' = [vals EXCEPT ![p] = cv] /\ usednodes' = usednodes + 1
        /\ Return(TRUE) /\ UNCHANGED <<numofnodes, op, ck, cv, cur>>
    BY <1>2 DEF callVars
  <2>2. firstfree' \in Node
    BY <2>1 DEF TypeOK, Node
  <2>3. /\ pc' \in {"idle", "rehash"}
        /\ UNCHANGED <<okey, oval, osize, ri>>
        /\ pk' \in Key \cup {NULL} /\ pv' \in Value \cup {NULL}
        /\ ret' \in Value \cup {NULL} \cup BOOLEAN
    BY <2>1, ReturnType
  <2> QED
    BY <2>1, <2>2, <2>3 DEF TypeOK, SizeOK, Node
<1> QED
  BY <1>1, <1>2 DEF Settle

(* Every step keeps the types. *)
LEMMA TypeStep ==
  ASSUME TypeOK, SizeOK, [Next]_vars
  PROVE TypeOK' /\ SizeOK'
<1>1. CASE UNCHANGED vars
  BY <1>1 DEF TypeOK, SizeOK, vars, tableVars, callVars, rehashVars, Node
<1>2. CASE \E k \in Key : Get(k) \/ Remove(k)
  <2>1. PICK k \in Key : Get(k) \/ Remove(k)
    BY <1>2
  <2>2. TypeOK'
    BY <2>1, CallType DEF Get, Remove
  <2> QED
    BY <2>1, <2>2 DEF Get, Remove, SizeOK, tableVars
<1>3. CASE \E k \in Key \cup {NULL}, v \in Value \cup {NULL} : Set(k, v)
  <2>1. PICK k \in Key \cup {NULL}, v \in Value \cup {NULL} : Set(k, v)
    BY <1>3
  <2>2. TypeOK'
    BY <2>1, CallType DEF Set
  <2> QED
    BY <2>1, <2>2 DEF Set, SizeOK, tableVars
<1>4. CASE \E k \in Key, v \in Value \cup {NULL} : NewSlot(k, v)
  <2>1. PICK k \in Key, v \in Value \cup {NULL} : NewSlot(k, v)
    BY <1>4
  <2>2. TypeOK'
    BY <2>1, CallType DEF NewSlot
  <2> QED
    BY <2>1, <2>2 DEF NewSlot, SizeOK, tableVars
<1>5. CASE Clear
  <2>1. RehashSize(0) \in Sizes
    BY RehashSizeOK
  <2> QED
    BY <1>5, <2>1, FreshTable DEF Clear, TypeOK, SizeOK, callVars, rehashVars
<1>6. CASE Clone
  <2>1. AllocNodes(numofnodes) /\ numofnodes \in Sizes
    BY <1>6 DEF Clone, SizeOK
  <2>2. /\ osize' = numofnodes /\ ri' = 0 /\ okey' = key /\ oval' = val
        /\ usednodes' = 0 /\ pc' = "rehash"
        /\ UNCHANGED <<op, ck, cv, cur, pk, pv, ret>>
    BY <1>6 DEF Clone, callVars
  <2>3. /\ osize' \in Nat /\ ri' \in 0 .. osize'
        /\ okey' \in [0 .. osize' - 1 -> Key \cup {NULL}]
        /\ oval' \in [0 .. osize' - 1 -> Value \cup {NULL}]
    BY <2>2 DEF TypeOK, Node
  <2> QED
    BY <2>1, <2>2, <2>3, FreshTable DEF TypeOK, SizeOK
<1>7. CASE WalkNext
  BY <1>7 DEF WalkNext, TypeOK, SizeOK, tableVars, rehashVars, Node
<1>8. CASE GetHit \/ MissAbsent
  <2>1. UNCHANGED <<numofnodes, key, val, next, firstfree, usednodes, op, ck, cv, cur>>
    BY <1>8 DEF GetHit, MissAbsent, tableVars, callVars
  <2>2. \E r \in Value \cup {NULL} \cup BOOLEAN : Return(r)
    BY <1>8 DEF GetHit, MissAbsent, Hit, TypeOK
  <2> QED
    BY <2>1, <2>2, ReturnType DEF TypeOK, SizeOK, Node
<1>9. CASE SetHit
  <2>1. /\ UNCHANGED <<numofnodes, key, next, firstfree, usednodes, op, ck, cv, cur>>
        /\ val' = [val EXCEPT ![cur] = cv]
    BY <1>9 DEF SetHit, callVars
  <2>2. \E r \in Value \cup {NULL} \cup BOOLEAN : Return(r)
    BY <1>9 DEF SetHit
  <2> QED
    BY <2>1, <2>2, ReturnType DEF TypeOK, SizeOK, Node
<1>10. CASE RemoveHit
  <2> DEFINE keys == [key EXCEPT ![cur] = NULL]
             vals == [val EXCEPT ![cur] = NULL]
  <2>1. keys \in [Node -> Key \cup {NULL}] /\ vals \in [Node -> Value \cup {NULL}]
    BY DEF TypeOK
  <2>2. usednodes - 1 \in Int
    BY DEF TypeOK
  <2>3. CASE StartRehash(keys, vals, usednodes - 1) /\ ret' = NULL /\ UNCHANGED <<pk, pv>>
    <3>1. pk' \in Key \cup {NULL} /\ pv' \in Value \cup {NULL}
          /\ ret' \in Value \cup {NULL} \cup BOOLEAN /\ UNCHANGED callVars
      BY <1>10, <2>3 DEF TypeOK, RemoveHit
    <3> QED
      BY <2>1, <2>2, <2>3, <3>1, StartRehashType
  <2>4. CASE /\ key' = keys /\ val' = vals
             /\ usednodes' = usednodes - 1
             /\ Return(NULL)
             /\ UNCHANGED <<numofnodes, next, firstfree>>
    <3>1. UNCHANGED <<op, ck, cv, cur>>
      BY <1>10 DEF RemoveHit, callVars
    <3> QED
      BY <2>1, <2>2, <2>4, <3>1, ReturnType DEF TypeOK, SizeOK, Node
  <2> QED
    BY <1>10, <2>3, <2>4 DEF RemoveHit
<1>11. CASE InsertAtMain
  <2>1. MainPos(ck) \in Node
    BY MainPosType DEF TypeOK
  <2>2. [key EXCEPT ![MainPos(ck)] = ck] \in [Node -> Key \cup {NULL}]
    BY DEF TypeOK
  <2> QED
    BY <1>11, <2>1, <2>2, SettleType DEF InsertAtMain, TypeOK
<1>12. CASE FindPrevious
  <2>1. MainPos(ck) \in Node
    BY MainPosType DEF TypeOK
  <2>2. MainPos(key[MainPos(ck)]) \in Node
    BY <2>1, MainPosType DEF TypeOK
  <2> QED
    BY <1>12, <2>2 DEF FindPrevious, TypeOK, SizeOK, tableVars, rehashVars, Node
<1>13. CASE PreviousNext
  BY <1>13 DEF PreviousNext, TypeOK, SizeOK, tableVars, rehashVars, Node
<1>14. CASE MoveColliding
  <2> DEFINE mp == MainPos(ck)
             n == firstfree
  <2>1. mp \in Node /\ n \in Node /\ cur \in Node /\ ck \in Key \cup {NULL}
    BY <1>14, MainPosType DEF TypeOK, MoveColliding
  <2>2. [key EXCEPT ![n] = key[mp], ![mp] = ck] \in [Node -> Key \cup {NULL}]
    BY <2>1 DEF TypeOK
  <2>3. [val EXCEPT ![n] = val[mp], ![mp] = NULL] \in [Node -> Value \cup {NULL}]
    BY <2>1 DEF TypeOK
  <2>4. [next EXCEPT ![cur] = n, ![n] = next[mp], ![mp] = NIL] \in [Node -> Node \cup {NIL}]
    BY <2>1 DEF TypeOK
  <2> QED
    BY <1>14, <2>1, <2>2, <2>3, <2>4, SettleType DEF MoveColliding
<1>15. CASE InsertChained
  <2> DEFINE mp == MainPos(ck)
             n == firstfree
  <2>1. mp \in Node /\ n \in Node /\ ck \in Key \cup {NULL}
    BY MainPosType DEF TypeOK
  <2>2. [key EXCEPT ![n] = ck] \in [Node -> Key \cup {NULL}]
    BY <2>1 DEF TypeOK
  <2>3. [next EXCEPT ![n] = next[mp], ![mp] = n] \in [Node -> Node \cup {NIL}]
    BY <2>1 DEF TypeOK
  <2>4. val \in [Node -> Value \cup {NULL}]
    BY DEF TypeOK
  <2> QED
    BY <1>15, <2>1, <2>2, <2>3, <2>4, SettleType DEF InsertChained
<1>16. CASE RehashSkip
  BY <1>16 DEF RehashSkip, TypeOK, SizeOK, tableVars, callVars, Node
<1>17. CASE RehashInsert
  <2>1. okey[ri] \in Key \cup {NULL} /\ oval[ri] \in Value \cup {NULL}
        /\ ri + 1 \in 0 .. osize
    BY <1>17 DEF RehashInsert, TypeOK
  <2>2. /\ pc' = "walk" /\ op' = "NewSlot" /\ ck' = okey[ri] /\ cv' = oval[ri]
        /\ cur' \in Node /\ cur' \in Nat
    BY <1>17, <2>1, BeginType DEF RehashInsert
  <2> QED
    BY <1>17, <2>1, <2>2 DEF RehashInsert, TypeOK, SizeOK, tableVars, Node
<1>18. CASE RehashEnd
  <2>1. /\ okey' \in [0 .. 0 - 1 -> Key \cup {NULL}]
        /\ oval' \in [0 .. 0 - 1 -> Value \cup {NULL}]
        /\ osize' = 0 /\ ri' = 0
        /\ UNCHANGED <<numofnodes, key, val, next, firstfree, usednodes, pk, pv, ret>>
    BY <1>18 DEF RehashEnd, NoNodes, tableVars
  <2>2. CASE pk = NULL
    BY <1>18, <2>1, <2>2 DEF RehashEnd, TypeOK, SizeOK, callVars, Node
  <2>3. CASE pk # NULL
    <3>1. /\ pc' = "walk" /\ op' = "NewSlot" /\ ck' = pk /\ cv' = pv
          /\ cur' \in Node /\ cur' \in Nat
      BY <1>18, <2>3, BeginType DEF RehashEnd, TypeOK
    <3> QED
      BY <2>1, <3>1 DEF TypeOK, SizeOK, Node
  <2> QED
    BY <2>2, <2>3
<1>19. CASE CreateGrow
  <2>1. numofnodes * 2 \in Sizes
    BY DoubleSize DEF SizeOK
  <2> QED
    BY <1>19, <2>1, FreshTable DEF CreateGrow, TypeOK, SizeOK, callVars, rehashVars
<1>20. CASE CreateDone
  BY <1>20 DEF CreateDone, TypeOK, SizeOK, tableVars, callVars, rehashVars, Node
<1> QED
  BY <1>1, <1>2, <1>3, <1>4, <1>5, <1>6, <1>7, <1>8, <1>9, <1>10, <1>11, <1>12,
     <1>13, <1>14, <1>15, <1>16, <1>17, <1>18, <1>19, <1>20 DEF Next, Call, Step

(* The constructor's table, before it grows, satisfies the invariant. *)
LEMMA InitInv ==
  ASSUME Init
  PROVE Inv
<1>1. TypeOK
  BY SizeAssumption, KeyAssumption DEF Init, TypeOK, NoNodes, Node, MINPOWER2
<1>2. SizeOK
  BY MinSize DEF Init, SizeOK
<1>3. \A i \in Node : key[i] = NULL /\ next[i] = NIL
  BY DEF Init, Node
<1>4. TableInv
  BY <1>1, <1>3 DEF TypeOK, TableInv, FirstFreeIsFree, LinksAboveFree, LinksInjective,
     UniqueKeys, StraysOwnNothing, KeysReachable
<1>5. LoopInv
  BY DEF Init, LoopInv, WalkCovers, PreviousCovers, NewSlotHasKey
<1> QED
  BY <1>1, <1>2, <1>4, <1>5 DEF Inv

(* The fields and the registers of a table always have their types, for    *)
(* every set of keys, hash function and sequence of calls on sqtable.cpp.  *)
THEOREM TypeCorrect == Spec => []TypeOK
<1>1. Init => TypeOK /\ SizeOK
  BY InitInv DEF Inv
<1>2. TypeOK /\ SizeOK /\ [Next]_vars => TypeOK' /\ SizeOK'
  BY TypeStep
<1> QED
  BY <1>1, <1>2, PTL DEF Spec
-----------------------------------------------------------------------------
(* A chain goes on to every node in it but the last one. *)
LEMMA ChainStep ==
  ASSUME TypeOK, NEW c \in Node, NEW p \in Node, InChain(c, p), p # c
  PROVE next[c] # NIL /\ next[c] \in Node /\ InChain(next[c], p)
<1>1. next[c] # NIL
  <2>1. SUFFICES ASSUME next[c] = NIL PROVE FALSE
    OBVIOUS
  <2>2. {c} \in SUBSET Node /\ Closed({c})
    BY <2>1 DEF Closed
  <2> QED
    BY <2>2 DEF InChain
<1>2. next[c] \in Node
  BY <1>1 DEF TypeOK
<1>3. ASSUME NEW S \in SUBSET Node, next[c] \in S, Closed(S)
      PROVE p \in S
  <2>1. S \cup {c} \in SUBSET Node /\ Closed(S \cup {c})
    BY <1>3 DEF Closed
  <2>2. p \in S \cup {c}
    BY <2>1 DEF InChain
  <2> QED
    BY <2>2
<1> QED
  BY <1>1, <1>2, <1>3 DEF InChain

(* The loop of _Get that ends without a hit has missed no node: a key it   *)
(* does not find is in no node.                                            *)
LEMMA MissIsAbsent ==
  ASSUME TypeOK, WalkCovers, Miss, ck # NULL, NEW i \in Node
  PROVE key[i] # ck
<1>1. SUFFICES ASSUME key[i] = ck PROVE FALSE
  OBVIOUS
<1>2. InChain(cur, i) /\ cur \in Node /\ i # cur
  BY <1>1 DEF WalkCovers, Miss, TypeOK
<1> QED
  BY <1>2, ChainStep DEF Miss

(* No key has a free node for its main position: the chain that starts     *)
(* there would have to reach it.                                           *)
LEMMA FreeOwnsNothing ==
  ASSUME TypeOK, TableInv, NEW j \in Node, key[j] # NULL
  PROVE MainPos(key[j]) # firstfree
<1>1. SUFFICES ASSUME MainPos(key[j]) = firstfree PROVE FALSE
  OBVIOUS
<1>2. key[firstfree] = NULL /\ next[firstfree] = NIL /\ firstfree \in Node
  BY DEF TableInv, FirstFreeIsFree, TypeOK
<1>3. InChain(firstfree, j) /\ j # firstfree
  BY <1>1, <1>2 DEF TableInv, KeysReachable
<1> QED
  BY <1>2, <1>3, ChainStep

(* The shape of an array that a step gives new keys and links to, in the   *)
(* words of TableInv.                                                      *)
LEMMA NewShape ==
  ASSUME TypeOK, UNCHANGED numofnodes, firstfree' \in Node,
         key'[firstfree'] = NULL, next'[firstfree'] = NIL,
         \A i \in Node : next'[i] # NIL => next'[i] > firstfree',
         \A i, j \in Node : next'[i] = next'[j] /\ next'[i] # NIL => i = j,
         \A i, j \in Node : key'[i] = key'[j] /\ key'[i] # NULL => i = j,
         \A i \in Node : key'[i] # NULL /\ MainPos(key'[i]) # i =>
            /\ i > firstfree'
            /\ \A j \in Node : key'[j] # NULL => MainPos(key'[j]) # i,
         \A i \in Node : key'[i] # NULL =>
            \A S \in SUBSET Node :
               /\ MainPos(key'[i]) \in S
               /\ \A j \in S : next'[j] # NIL => next'[j] \in S
               => i \in S
  PROVE TableInv'
<1>1. Node' = Node
  BY DEF Node
<1>2. FirstFreeIsFree' /\ LinksAboveFree' /\ LinksInjective' /\ UniqueKeys'
  BY <1>1 DEF FirstFreeIsFree, LinksAboveFree, LinksInjective, UniqueKeys
<1>3. StraysOwnNothing'
  BY <1>1 DEF StraysOwnNothing, MainPos, HashObj
<1>4. KeysReachable'
  BY <1>1 DEF KeysReachable, InChain, Closed, MainPos, HashObj
<1> QED
  BY <1>2, <1>3, <1>4 DEF TableInv
-----------------------------------------------------------------------------
(* The two ways NewSlot can end: with a free node found for _firstfree, or *)
(* in a Rehash.                                                            *)
LEMMA SettleCases ==
  ASSUME TypeOK, SizeOK, NEW p \in Node, NEW keys \in [Node -> Key \cup {NULL}],
         NEW vals \in [Node -> Value \cup {NULL}],
         NEW links \in [Node -> Node \cup {NIL}], Settle(p, keys, vals, links)
  PROVE \/ /\ firstfree' \in Node /\ firstfree' <= firstfree
           /\ keys[firstfree'] = NULL /\ links[firstfree'] = NIL
           /\ key' = keys /\ next' = links
           /\ UNCHANGED numofnodes
           /\ pc' \in {"idle", "rehash"} /\ UNCHANGED <<op, ck>>
        \/ TableInv' /\ pc' = "rehash" /\ UNCHANGED <<op, ck>>
<1> DEFINE free == {j \in 0 .. firstfree : keys[j] = NULL /\ links[j] = NIL}
<1>1. CASE /\ free = {}
           /\ StartRehash(keys, vals, usednodes)
           /\ pk' = ck /\ pv' = cv
           /\ UNCHANGED <<callVars, ret>>
  <2>1. usednodes \in Int /\ pk' \in Key \cup {NULL} /\ pv' \in Value \cup {NULL}
        /\ ret' \in Value \cup {NULL} \cup BOOLEAN /\ UNCHANGED callVars
    BY <1>1 DEF TypeOK
  <2>2. TableInv' /\ pc' = "rehash"
    BY <1>1, <2>1, StartRehashType
  <2> QED
    BY <2>1, <2>2 DEF callVars
<1>2. CASE \E f \in free :
             /\ \A g \in free : g <= f
             /\ firstfree' = f
             /\ key' = keys /\ next' = links
             /\ val' = [vals EXCEPT ![p] = cv]
             /\ usednodes' = usednodes + 1
             /\ Return(TRUE)
             /\ UNCHANGED <<numofnodes, callVars>>
  <2>1. /\ firstfree' \in free
        /\ key' = keys /\ next' = links
        /\ Return(TRUE) /\ UNCHANGED <<numofnodes, op, ck>>
    BY <1>2 DEF callVars
  <2>2. firstfree' \in Node /\ firstfree' <= firstfree
    BY <2>1 DEF TypeOK, Node
  <2>3. pc' \in {"idle", "rehash"}
    BY <2>1, ReturnType
  <2> QED
    BY <2>1, <2>2, <2>3
<1> QED
  BY <1>1, <1>2 DEF Settle

(* Putting a key in its empty main position keeps the shape. *)
LEMMA InsertAtMainShape ==
  ASSUME Inv, InsertAtMain
  PROVE TableInv' /\ pc' \in {"idle", "rehash"} /\ UNCHANGED <<op, ck>>
<1> USE DEF Inv
<1> DEFINE mp == MainPos(ck)
           keys == [key EXCEPT ![mp] = ck]
<1>1. mp \in Node /\ ck \in Key \cup {NULL} /\ ck # NULL
  BY MainPosType DEF TypeOK, InsertAtMain, LoopInv, NewSlotHasKey
<1>2. keys \in [Node -> Key \cup {NULL}] /\ Settle(mp, keys, val, next)
      /\ val \in [Node -> Value \cup {NULL}] /\ next \in [Node -> Node \cup {NIL}]
  BY <1>1 DEF TypeOK, InsertAtMain
<1>3. \A i \in Node : key[i] # ck
  BY <1>1, MissIsAbsent DEF InsertAtMain, LoopInv
<1>4. CASE /\ firstfree' \in Node /\ firstfree' <= firstfree
           /\ keys[firstfree'] = NULL /\ next[firstfree'] = NIL
           /\ key' = keys /\ next' = next
           /\ UNCHANGED numofnodes
           /\ pc' \in {"idle", "rehash"} /\ UNCHANGED <<op, ck>>
  <2>1. /\ key'[mp] = ck
        /\ \A i \in Node : i # mp => key'[i] = key[i]
    BY <1>1, <1>4 DEF TypeOK
  <2>2. \A i \in Node : next[i] # NIL => next[i] > firstfree'
    BY <1>4 DEF TableInv, LinksAboveFree, TypeOK, Node, NIL
  <2>3. \A i, j \in Node : next[i] = next[j] /\ next[i] # NIL => i = j
    BY DEF TableInv, LinksInjective
  <2>4. \A i, j \in Node : key'[i] = key'[j] /\ key'[i] # NULL => i = j
    BY <1>1, <1>3, <2>1 DEF TableInv, UniqueKeys
  <2>5. ASSUME NEW i \in Node, key'[i] # NULL, MainPos(key'[i]) # i
        PROVE i > firstfree' /\ \A j \in Node : key'[j] # NULL => MainPos(key'[j]) # i
    <3>1. i # mp /\ key'[i] = key[i]
      BY <2>1, <2>5
    <3>2. i > firstfree /\ \A j \in Node : key[j] # NULL => MainPos(key[j]) # i
      BY <2>5, <3>1 DEF TableInv, StraysOwnNothing
    <3> QED
      BY <1>4, <2>1, <3>1, <3>2 DEF TypeOK, Node
  <2>6. ASSUME NEW i \in Node, key'[i] # NULL, NEW S \in SUBSET Node,
               MainPos(key'[i]) \in S, \A j \in S : next[j] # NIL => next[j] \in S
        PROVE i \in S
    BY <2>1, <2>6 DEF TableInv, KeysReachable, InChain, Closed
  <2>7. TableInv'
    BY <1>4, <2>2, <2>3, <2>4, <2>5, <2>6, NewShape
  <2> QED
    BY <1>4, <2>7
<1> QED
  BY <1>1, <1>2, <1>4, SettleCases

(* Linking a key into the free node, right after its main position, keeps  *)
(* the shape.                                                              *)
LEMMA InsertChainedShape ==
  ASSUME Inv, InsertChained
  PROVE TableInv' /\ pc' \in {"idle", "rehash"} /\ UNCHANGED <<op, ck>>
<1> USE DEF Inv
<1> DEFINE mp == MainPos(ck)
           n == firstfree
           keys == [key EXCEPT ![n] = ck]
           links == [next EXCEPT ![n] = next[mp], ![mp] = n]
<1>1. mp \in Node /\ n \in Node /\ ck \in Key \cup {NULL} /\ ck # NULL
  BY MainPosType DEF TypeOK, InsertChained, LoopInv, NewSlotHasKey
<1>2. keys \in [Node -> Key \cup {NULL}] /\ links \in [Node -> Node \cup {NIL}]
      /\ val \in [Node -> Value \cup {NULL}] /\ Settle(n, keys, val, links)
  BY <1>1 DEF TypeOK, InsertChained
<1>3. \A i \in Node : key[i] # ck
  BY <1>1, MissIsAbsent DEF InsertChained, LoopInv
<1>4. key[n] = NULL /\ next[n] = NIL /\ key[mp] # NULL /\ n # mp
  BY DEF TableInv, FirstFreeIsFree, InsertChained
<1>5. MainPos(key[mp]) = mp
  BY <1>1, <1>4 DEF InsertChained, IsStray, TableInv, StraysOwnNothing
<1>6. CASE /\ firstfree' \in Node /\ firstfree' <= firstfree
           /\ keys[firstfree'] = NULL /\ links[firstfree'] = NIL
           /\ key' = keys /\ next' = links
           /\ UNCHANGED numofnodes
           /\ pc' \in {"idle", "rehash"} /\ UNCHANGED <<op, ck>>
  <2>1. /\ key'[n] = ck
        /\ \A i \in Node : i # n => key'[i] = key[i]
    BY <1>1, <1>6 DEF TypeOK
  <2>2. /\ next'[n] = next[mp] /\ next'[mp] = n
        /\ \A i \in Node : i # n /\ i # mp => next'[i] = next[i]
    BY <1>1, <1>4, <1>6 DEF TypeOK
  <2>3. firstfree' < n
    BY <1>1, <1>6, <2>1 DEF Node, TypeOK
  <2>4. \A i \in Node : next[i] # NIL => next[i] > n /\ next[i] # n
    BY <1>1 DEF TableInv, LinksAboveFree, TypeOK, Node
  <2>5. \A i \in Node : next'[i] # NIL => next'[i] > firstfree'
    <3>1. TAKE i \in Node
    <3>2. HAVE next'[i] # NIL
    <3>3. next'[i] = n \/ (next'[i] > n /\ next'[i] \in Node)
      BY <1>1, <2>2, <2>4, <3>2 DEF TypeOK
    <3> QED
      BY <1>1, <1>6, <2>3, <3>3 DEF Node, TypeOK
  <2>6. \A i, j \in Node : next'[i] = next'[j] /\ next'[i] # NIL => i = j
    BY <1>1, <1>4, <2>2, <2>4 DEF TableInv, LinksInjective, NIL
  <2>7. \A i, j \in Node : key'[i] = key'[j] /\ key'[i] # NULL => i = j
    BY <1>1, <1>3, <2>1 DEF TableInv, UniqueKeys
  <2>8. ASSUME NEW i \in Node, key'[i] # NULL, MainPos(key'[i]) # i
        PROVE i > firstfree' /\ \A j \in Node : key'[j] # NULL => MainPos(key'[j]) # i
    <3>1. CASE i = n
      BY <1>4, <2>1, <2>3, <3>1, FreeOwnsNothing
    <3>2. CASE i # n
      <4>1. key'[i] = key[i] /\ i # mp
        BY <1>5, <2>1, <2>8, <3>2
      <4>2. i > n /\ \A j \in Node : key[j] # NULL => MainPos(key[j]) # i
        BY <2>8, <4>1 DEF TableInv, StraysOwnNothing
      <4> QED
        BY <1>1, <1>6, <2>1, <2>3, <4>1, <4>2 DEF Node, TypeOK
    <3> QED
      BY <3>1, <3>2
  <2>9. ASSUME NEW i \in Node, key'[i] # NULL, NEW S \in SUBSET Node,
               MainPos(key'[i]) \in S, \A j \in S : next'[j] # NIL => next'[j] \in S
        PROVE i \in S
    <3>1. n # NIL
      BY <1>1 DEF Node, NIL, TypeOK
    <3>2. CASE i = n
      BY <1>1, <2>1, <2>2, <2>9, <3>1, <3>2
    <3>3. CASE i # n
      <4>1. Closed(S)
        BY <1>1, <1>4, <2>2, <2>9, <3>1 DEF Closed
      <4> QED
        BY <2>1, <2>9, <3>3, <4>1 DEF TableInv, KeysReachable, InChain
    <3> QED
      BY <3>2, <3>3
  <2>10. TableInv'
    BY <1>6, <2>5, <2>6, <2>7, <2>8, <2>9, NewShape
  <2> QED
    BY <1>6, <2>10
<1> QED
  BY <1>1, <1>2, <1>6, SettleCases

(* Moving a colliding key out of the main position of the new one keeps    *)
(* the shape.                                                              *)
LEMMA MoveCollidingShape ==
  ASSUME Inv, MoveColliding
  PROVE TableInv' /\ pc' \in {"idle", "rehash"} /\ UNCHANGED <<op, ck>>
<1> USE DEF Inv
<1> DEFINE mp == MainPos(ck)
           n == firstfree
           keys == [key EXCEPT ![n] = key[mp], ![mp] = ck]
           vals == [val EXCEPT ![n] = val[mp], ![mp] = NULL]
           links == [next EXCEPT ![cur] = n, ![n] = next[mp], ![mp] = NIL]
<1>1. mp \in Node /\ n \in Node /\ cur \in Node /\ ck \in Key \cup {NULL}
  BY MainPosType DEF TypeOK, MoveColliding
<1>2. keys \in [Node -> Key \cup {NULL}] /\ links \in [Node -> Node \cup {NIL}]
      /\ vals \in [Node -> Value \cup {NULL}] /\ Settle(mp, keys, vals, links)
  BY <1>1 DEF TypeOK, MoveColliding
<1>3. /\ ck # NULL /\ \A i \in Node : key[i] # ck
      /\ key[mp] # NULL /\ MainPos(key[mp]) # mp /\ cur # mp /\ next[cur] = mp
  BY DEF MoveColliding, LoopInv, PreviousCovers, IsStray
<1>4. key[n] = NULL /\ next[n] = NIL /\ n # mp /\ cur # n /\ n # NIL /\ mp # NIL
  BY <1>1, <1>3 DEF TableInv, FirstFreeIsFree, Node, NIL, TypeOK
<1>5. \A j \in Node : key[j] # NULL => MainPos(key[j]) # mp /\ MainPos(key[j]) # n
  BY <1>1, <1>3, FreeOwnsNothing DEF TableInv, StraysOwnNothing
<1>6. \A i \in Node : next[i] # NIL => next[i] > n /\ next[i] # n
  BY <1>1 DEF TableInv, LinksAboveFree, TypeOK, Node
<1>7. \A i \in Node : next[i] = mp => i = cur
  BY <1>1, <1>3, <1>4 DEF TableInv, LinksInjective
<1>8. CASE /\ firstfree' \in Node /\ firstfree' <= firstfree
           /\ keys[firstfree'] = NULL /\ links[firstfree'] = NIL
           /\ key' = keys /\ next' = links
           /\ UNCHANGED numofnodes
           /\ pc' \in {"idle", "rehash"} /\ UNCHANGED <<op, ck>>
  <2>1. /\ key'[n] = key[mp] /\ key'[mp] = ck
        /\ \A i \in Node : i # n /\ i # mp => key'[i] = key[i]
    BY <1>1, <1>4, <1>8 DEF TypeOK
  <2>2. /\ next'[cur] = n /\ next'[n] = next[mp] /\ next'[mp] = NIL
        /\ \A i \in Node : i # n /\ i # mp /\ i # cur => next'[i] = next[i]
    BY <1>1, <1>3, <1>4, <1>8 DEF TypeOK
  <2>3. firstfree' < n
    BY <1>1, <1>3, <1>8, <2>1 DEF Node, TypeOK
  <2>4. \A i \in Node : next'[i] # NIL => next'[i] > firstfree'
    <3>1. TAKE i \in Node
    <3>2. HAVE next'[i] # NIL
    <3>3. next'[i] = n \/ (next'[i] > n /\ next'[i] \in Node)
      BY <1>1, <1>6, <2>2, <3>2 DEF TypeOK
    <3> QED
      BY <1>1, <1>8, <2>3, <3>3 DEF Node, TypeOK
  <2>5. \A i, j \in Node : next'[i] = next'[j] /\ next'[i] # NIL => i = j
    BY <1>1, <1>3, <1>4, <1>6, <1>7, <2>2 DEF TableInv, LinksInjective
  <2>6. \A i, j \in Node : key'[i] = key'[j] /\ key'[i] # NULL => i = j
    BY <1>1, <1>3, <1>4, <2>1 DEF TableInv, UniqueKeys
  <2>7. ASSUME NEW i \in Node, key'[i] # NULL, MainPos(key'[i]) # i
        PROVE i > firstfree' /\ \A j \in Node : key'[j] # NULL => MainPos(key'[j]) # i
    <3>1. i # mp
      BY <2>1, <2>7
    <3>2. CASE i = n
      BY <1>1, <1>3, <1>4, <1>5, <2>1, <2>3, <3>2
    <3>3. CASE i # n
      <4>1. key'[i] = key[i]
        BY <2>1, <3>1, <3>3
      <4>2. i > n /\ \A j \in Node : key[j] # NULL => MainPos(key[j]) # i
        BY <2>7, <4>1 DEF TableInv, StraysOwnNothing
      <4>3. i > firstfree'
        BY <1>1, <1>8, <2>3, <4>2 DEF Node, TypeOK
      <4> QED
        BY <1>1, <1>3, <2>1, <3>1, <4>2, <4>3
    <3> QED
      BY <3>2, <3>3
  <2>8. ASSUME NEW i \in Node, key'[i] # NULL, NEW S \in SUBSET Node,
               MainPos(key'[i]) \in S, \A j \in S : next'[j] # NIL => next'[j] \in S
        PROVE i \in S
    <3> DEFINE T == (S \ {n, mp}) \cup (IF n \in S THEN {mp} ELSE {})
    <3>1. T \in SUBSET Node
      BY <1>1
    <3>2. ASSUME NEW j \in T, next[j] # NIL
          PROVE next[j] \in T
      <4>1. CASE j = mp
        <5>1. n \in S /\ next'[n] = next[mp] /\ next[mp] # NIL
          BY <1>4, <2>2, <3>2, <4>1
        <5>2. next[mp] \in S /\ next[mp] # n /\ next[mp] # mp
          BY <1>1, <1>3, <1>6, <1>7, <2>8, <5>1
        <5> QED
          BY <4>1, <5>2
      <4>2. CASE j # mp
        <5>1. j \in S /\ j # n /\ j \in Node
          BY <3>2, <4>2
        <5>2. CASE j = cur
          BY <1>3, <1>4, <2>2, <2>8, <5>1, <5>2
        <5>3. CASE j # cur
          <6>1. next'[j] = next[j]
            BY <2>2, <4>2, <5>1, <5>3
          <6>2. next[j] \in S /\ next[j] # mp /\ next[j] # n
            BY <1>6, <1>7, <2>8, <3>2, <5>1, <5>3, <6>1
          <6> QED
            BY <6>2
        <5> QED
          BY <5>2, <5>3
      <4> QED
        BY <4>1, <4>2
    <3>3. Closed(T)
      BY <3>2 DEF Closed
    <3>4. CASE i = mp
      BY <2>1, <2>8, <3>4
    <3>5. CASE i = n
      <4>1. MainPos(key[mp]) \in T
        BY <1>1, <1>3, <1>5, <2>1, <2>8, <3>5
      <4>2. mp \in T
        BY <1>1, <1>3, <3>1, <3>3, <4>1 DEF TableInv, KeysReachable, InChain
      <4> QED
        BY <3>5, <4>2
    <3>6. CASE i # mp /\ i # n
      <4>1. key'[i] = key[i]
        BY <2>1, <3>6
      <4>2. MainPos(key[i]) \in T
        BY <1>5, <2>8, <4>1
      <4>3. i \in T
        BY <2>8, <3>1, <3>3, <4>1, <4>2 DEF TableInv, KeysReachable, InChain
      <4> QED
        BY <3>6, <4>3
    <3> QED
      BY <3>4, <3>5, <3>6
  <2>9. TableInv'
    BY <1>8, <2>4, <2>5, <2>6, <2>7, <2>8, NewShape
  <2> QED
    BY <1>8, <2>9
<1> QED
  BY <1>1, <1>2, <1>8, SettleCases

(* Emptying a node, whose link stays, keeps the shape. *)
LEMMA RemoveHitShape ==
  ASSUME Inv, RemoveHit
  PROVE TableInv' /\ pc' \in {"idle", "rehash"} /\ UNCHANGED <<op, ck>>
<1> USE DEF Inv
<1> DEFINE keys == [key EXCEPT ![cur] = NULL]
           vals == [val EXCEPT ![cur] = NULL]
<1>1. /\ keys \in [Node -> Key \cup {NULL}] /\ vals \in [Node -> Value \cup {NULL}]
      /\ usednodes - 1 \in Int /\ cur \in Node /\ UNCHANGED <<op, ck>>
  BY DEF TypeOK, RemoveHit, Hit, callVars
<1>2. CASE StartRehash(keys, vals, usednodes - 1) /\ ret' = NULL /\ UNCHANGED <<pk, pv>>
  <2>1. pk' \in Key \cup {NULL} /\ pv' \in Value \cup {NULL}
        /\ ret' \in Value \cup {NULL} \cup BOOLEAN /\ UNCHANGED callVars
    BY <1>2 DEF TypeOK, RemoveHit
  <2> QED
    BY <1>1, <1>2, <2>1, StartRehashType
<1>3. CASE /\ key' = keys /\ val' = vals
           /\ usednodes' = usednodes - 1
           /\ Return(NULL)
           /\ UNCHANGED <<numofnodes, next, firstfree>>
  <2>1. key'[cur] = NULL /\ \A i \in Node : i # cur => key'[i] = key[i]
    BY <1>1, <1>3 DEF TypeOK
  <2>2. firstfree' \in Node /\ key'[firstfree'] = NULL /\ next'[firstfree'] = NIL
    BY <1>3, <2>1 DEF TableInv, FirstFreeIsFree, TypeOK
  <2>3. /\ \A i \in Node : next'[i] # NIL => next'[i] > firstfree'
        /\ \A i, j \in Node : next'[i] = next'[j] /\ next'[i] # NIL => i = j
    BY <1>3 DEF TableInv, LinksAboveFree, LinksInjective
  <2>4. \A i, j \in Node : key'[i] = key'[j] /\ key'[i] # NULL => i = j
    BY <2>1 DEF TableInv, UniqueKeys
  <2>5. \A i \in Node : key'[i] # NULL /\ MainPos(key'[i]) # i =>
            /\ i > firstfree'
            /\ \A j \in Node : key'[j] # NULL => MainPos(key'[j]) # i
    BY <1>3, <2>1 DEF TableInv, StraysOwnNothing
  <2>6. \A i \in Node : key'[i] # NULL =>
            \A S \in SUBSET Node :
               /\ MainPos(key'[i]) \in S
               /\ \A j \in S : next'[j] # NIL => next'[j] \in S
               => i \in S
    BY <1>3, <2>1 DEF TableInv, KeysReachable, InChain, Closed
  <2>7. TableInv'
    BY <1>3, <2>2, <2>3, <2>4, <2>5, <2>6, NewShape
  <2>8. pc' \in {"idle", "rehash"}
    BY <1>3, ReturnType
  <2> QED
    BY <1>1, <2>7, <2>8
<1> QED
  BY <1>2, <1>3 DEF RemoveHit
-----------------------------------------------------------------------------
(* Outside the two loops there is nothing to say of the cursor. *)
LEMMA NoLoop ==
  ASSUME LoopInv, pc' \in {"create", "idle", "rehash"}, UNCHANGED <<op, ck>>
  PROVE LoopInv'
BY DEF LoopInv, WalkCovers, PreviousCovers, NewSlotHasKey

(* A call enters the loop of _Get at the head of the chain of its key. *)
LEMMA BeginLoop ==
  ASSUME TypeOK, TableInv, UNCHANGED tableVars,
         NEW o \in {"Get", "Set", "NewSlot", "Remove"},
         NEW k \in Key \cup {NULL}, NEW v, o = "NewSlot" => k # NULL, Begin(o, k, v)
  PROVE LoopInv'
<1>1. pc' = "walk" /\ op' = o /\ ck' = k /\ cur' = MainPos(k)
  BY DEF Begin
<1>2. \A p \in Node : key[p] = k /\ k # NULL => InChain(MainPos(k), p)
  BY DEF TableInv, KeysReachable
<1>3. WalkCovers'
  BY <1>1, <1>2 DEF WalkCovers, InChain, Closed, Node, tableVars
<1> QED
  BY <1>1, <1>3 DEF LoopInv, PreviousCovers, NewSlotHasKey

(* Every step keeps the shape of the array and of the loops. *)
LEMMA InvStep ==
  ASSUME Inv, [Next]_vars
  PROVE Inv'
<1>0. TypeOK' /\ SizeOK'
  BY TypeStep DEF Inv
<1> SUFFICES TableInv' /\ LoopInv'
  BY <1>0 DEF Inv
<1> USE DEF Inv
<1>1. CASE UNCHANGED vars
  <2>1. TableInv'
    BY <1>1, TableUnchanged DEF vars
  <2>2. LoopInv'
    BY <1>1 DEF vars, tableVars, callVars, LoopInv, WalkCovers, PreviousCovers,
       NewSlotHasKey, InChain, Closed, Node, MainPos, HashObj, IsStray
  <2> QED
    BY <2>1, <2>2
<1>2. CASE \E k \in Key : Get(k) \/ Remove(k)
  <2>1. PICK k \in Key : Get(k) \/ Remove(k)
    BY <1>2
  <2> QED
    BY <2>1, TableUnchanged, BeginLoop DEF Get, Remove
<1>3. CASE \E k \in Key \cup {NULL}, v \in Value \cup {NULL} : Set(k, v)
  <2>1. PICK k \in Key \cup {NULL}, v \in Value \cup {NULL} : Set(k, v)
    BY <1>3
  <2> QED
    BY <2>1, TableUnchanged, BeginLoop DEF Set
<1>4. CASE \E k \in Key, v \in Value \cup {NULL} : NewSlot(k, v)
  <2>1. PICK k \in Key, v \in Value \cup {NULL} : NewSlot(k, v)
    BY <1>4
  <2> QED
    BY <2>1, KeyAssumption, TableUnchanged, BeginLoop DEF NewSlot
<1>5. CASE Clear
  <2>1. RehashSize(0) \in Sizes
    BY RehashSizeOK
  <2>2. TableInv'
    BY <1>5, <2>1, FreshTable DEF Clear
  <2>3. LoopInv'
    BY <1>5, NoLoop DEF Clear, callVars
  <2> QED
    BY <2>2, <2>3
<1>6. CASE Clone
  <2>1. TableInv'
    BY <1>6, FreshTable DEF Clone, SizeOK
  <2>2. LoopInv'
    BY <1>6, NoLoop DEF Clone, callVars
  <2> QED
    BY <2>1, <2>2
<1>7. CASE WalkNext
  <2>1. TableInv'
    BY <1>7, TableUnchanged DEF WalkNext
  <2>2. \A p \in Node : key[p] = ck /\ ck # NULL => InChain(next[cur], p)
    BY <1>7, ChainStep DEF WalkNext, LoopInv, WalkCovers, TypeOK
  <2>3. WalkCovers'
    BY <1>7, <2>2 DEF WalkNext, WalkCovers, InChain, Closed, Node, tableVars
  <2> QED
    BY <1>7, <2>1, <2>3 DEF WalkNext, LoopInv, PreviousCovers, NewSlotHasKey
<1>8. CASE GetHit \/ MissAbsent \/ SetHit
  <2>1. UNCHANGED <<numofnodes, key, next, firstfree, op, ck>>
    BY <1>8 DEF GetHit, MissAbsent, SetHit, tableVars, callVars
  <2>2. TableInv'
    BY <2>1 DEF TableInv, FirstFreeIsFree, LinksAboveFree, LinksInjective,
       UniqueKeys, StraysOwnNothing, KeysReachable, InChain, Closed, Node, MainPos, HashObj
  <2>3. \E r \in Value \cup {NULL} \cup BOOLEAN : Return(r)
    BY <1>8 DEF GetHit, MissAbsent, SetHit, Hit, TypeOK
  <2>4. LoopInv'
    BY <2>1, <2>3, ReturnType, NoLoop
  <2> QED
    BY <2>2, <2>4
<1>9. CASE RemoveHit
  BY <1>9, RemoveHitShape, NoLoop
<1>10. CASE InsertAtMain
  BY <1>10, InsertAtMainShape, NoLoop
<1>11. CASE FindPrevious
  <2> DEFINE mp == MainPos(ck)
  <2>1. mp \in Node /\ ck # NULL /\ op = "NewSlot" /\ key[mp] # NULL /\ IsStray(mp)
        /\ cur' = MainPos(key[mp]) /\ pc' = "prev" /\ UNCHANGED <<tableVars, op, ck>>
    BY <1>11, MainPosType DEF FindPrevious, TypeOK, LoopInv, NewSlotHasKey
  <2>2. \A i \in Node : key[i] # ck
    BY <1>11, <2>1, MissIsAbsent DEF FindPrevious, LoopInv
  <2>3. MainPos(key[mp]) # mp /\ InChain(MainPos(key[mp]), mp)
    BY <2>1 DEF IsStray, TableInv, KeysReachable
  <2>4. PreviousCovers'
    BY <2>1, <2>2, <2>3 DEF PreviousCovers, tableVars, InChain, Closed, Node, MainPos,
       HashObj, IsStray
  <2>5. TableInv'
    BY <2>1, TableUnchanged
  <2> QED
    BY <2>1, <2>4, <2>5 DEF LoopInv, WalkCovers, NewSlotHasKey
<1>12. CASE PreviousNext
  <2> DEFINE mp == MainPos(ck)
  <2>1. mp \in Node /\ cur \in Node /\ pc = "prev" /\ next[cur] # mp
        /\ cur' = next[cur] /\ pc' = "prev" /\ UNCHANGED <<tableVars, op, ck>>
    BY <1>12, MainPosType DEF PreviousNext, TypeOK
  <2>2. /\ ck # NULL /\ op = "NewSlot" /\ \A i \in Node : key[i] # ck
        /\ key[mp] # NULL /\ IsStray(mp) /\ cur # mp /\ InChain(cur, mp)
    BY <2>1 DEF LoopInv, PreviousCovers
  <2>3. InChain(next[cur], mp)
    BY <2>1, <2>2, ChainStep
  <2>4. PreviousCovers'
    BY <2>1, <2>2, <2>3 DEF PreviousCovers, tableVars, InChain, Closed, Node, MainPos,
       HashObj, IsStray
  <2>5. TableInv'
    BY <2>1, TableUnchanged
  <2> QED
    BY <2>1, <2>2, <2>4, <2>5 DEF LoopInv, WalkCovers, NewSlotHasKey
<1>13. CASE MoveColliding
  BY <1>13, MoveCollidingShape, NoLoop
<1>14. CASE InsertChained
  BY <1>14, InsertChainedShape, NoLoop
<1>15. CASE RehashSkip
  BY <1>15, TableUnchanged, NoLoop DEF RehashSkip, callVars
<1>16. CASE RehashInsert
  <2>1. okey[ri] \in Key \cup {NULL} /\ okey[ri] # NULL
    BY <1>16 DEF RehashInsert, TypeOK
  <2> QED
    BY <1>16, <2>1, TableUnchanged, BeginLoop DEF RehashInsert
<1>17. CASE RehashEnd
  <2>1. TableInv'
    BY <1>17, TableUnchanged DEF RehashEnd
  <2>2. CASE pk = NULL
    BY <1>17, <2>1, <2>2, NoLoop DEF RehashEnd, callVars
  <2>3. CASE pk # NULL
    BY <1>17, <2>1, <2>3, BeginLoop DEF RehashEnd, TypeOK
  <2> QED
    BY <2>2, <2>3
<1>18. CASE CreateGrow
  <2>1. numofnodes * 2 \in Sizes
    BY DoubleSize DEF SizeOK
  <2> QED
    BY <1>18, <2>1, FreshTable, NoLoop DEF CreateGrow, callVars
<1>19. CASE CreateDone
  BY <1>19, TableUnchanged, NoLoop DEF CreateDone, callVars
<1> QED
  BY <1>1, <1>2, <1>3, <1>4, <1>5, <1>6, <1>7, <1>8, <1>9, <1>10, <1>11, <1>12,
     <1>13, <1>14, <1>15, <1>16, <1>17, <1>18, <1>19 DEF Next, Call, Step

(* The free pointer, the links and the keys of a table always fit together *)
(* as ChainInv says, between any two steps of the loops of sqtable.cpp.    *)
THEOREM ShapeCorrect == Spec => []ChainInv
<1>1. Init => Inv
  BY InitInv
<1>2. Inv /\ [Next]_vars => Inv'
  BY InvStep
<1>3. Inv => ChainInv
  BY DEF Inv, TableInv, LoopInv, ChainInv
<1> QED
  BY <1>1, <1>2, <1>3, PTL DEF Spec

(* A lookup that fails is right: the key is in no node of the array,       *)
(* whatever insertions, moves, removals and rebuilds came before.          *)
THEOREM LookupCorrect == Spec => []LookupSound
<1>1. Init => Inv
  BY InitInv
<1>2. Inv /\ [Next]_vars => Inv'
  BY InvStep
<1>3. Inv => LookupSound
  BY MissIsAbsent DEF Inv, LoopInv, LookupSound
<1> QED
  BY <1>1, <1>2, <1>3, PTL DEF Spec

(* The assertion of NewSlot never fails: the search for the node before    *)
(* the colliding one ends before its chain does.                           *)
THEOREM PreviousCorrect == Spec => []PreviousExists
<1>1. Init => Inv
  BY InitInv
<1>2. Inv /\ [Next]_vars => Inv'
  BY InvStep
<1>3. Inv => PreviousExists
  <2>1. SUFFICES ASSUME Inv, pc = "prev" PROVE next[cur] # NIL
    BY DEF PreviousExists
  <2>2. cur \in Node /\ MainPos(ck) \in Node /\ cur # MainPos(ck)
        /\ InChain(cur, MainPos(ck))
    BY <2>1, MainPosType DEF Inv, TypeOK, LoopInv, PreviousCovers
  <2> QED
    BY <2>1, <2>2, ChainStep DEF Inv
<1> QED
  BY <1>1, <1>2, <1>3, PTL DEF Spec
-----------------------------------------------------------------------------
(* SQTable implements SQMap: neither the walks along the chains nor the    *)
(* rebuilding of the array loses, invents or changes a pair.  What this    *)
(* needs beyond the shape of the array (Inv) is that the pairs are divided *)
(* between the old array, the call that moves one of them, and the new     *)
(* array, and that the new array has room for all of them: a Rehash inside *)
(* the loop of a Rehash would lose the rest.                               *)

(* The loop of Rehash has called NewSlot, which has not returned. *)
Moving == InRehash /\ pc \in {"walk", "prev"}

Rest == ri .. osize - 1                   \* the old nodes the loop has not come to
Used(keys) == {i \in DOMAIN keys : keys[i] # NULL}
Left == {i \in Rest : okey[i] # NULL}

Present(keys, S, k) == \E i \in S : keys[i] = k

(* Which registers are in use in which loop. *)
Modes ==
  /\ pc \in {"create", "idle"} => osize = 0 /\ pk = NULL
  /\ pc = "rehash" => osize > 0
  /\ pc = "create" => \A i \in Node : key[i] = NULL
  /\ pc \in {"walk", "prev"} => op # "none" /\ (op # "Set" => ck # NULL)
  /\ Moving => op = "NewSlot"

(* A pair that is still to be moved is in one place only. *)
Divided ==
  /\ \A i, j \in Rest : okey[i] = okey[j] /\ okey[i] # NULL => i = j
  /\ \A i \in Rest : okey[i] # NULL => ~Present(key, Node, okey[i])
  /\ Moving => ~Present(key, Node, ck) /\ ~Present(okey, Rest, ck)

(* The key whose insertion made Rehash run is among those it moves, and in *)
(* the new array when NewSlot is called again.                             *)
Waiting ==
  pk # NULL =>
    IF InRehash THEN Present(okey, Rest, pk) \/ (Moving /\ ck = pk) \/ Present(key, Node, pk)
    ELSE op = "NewSlot" /\ pc = "walk" /\ ck = pk /\ cv = pv /\ Present(key, Node, pk)

(* _usednodes is the number of keys. *)
Counted == usednodes = Cardinality(Used(key))

(* Nothing is removed while Rehash runs: every node without a key is free. *)
Compact == InRehash => \A i \in Node : key[i] = NULL => next[i] = NIL /\ i <= firstfree

(* After all pairs are moved one node is free still. *)
Room ==
  InRehash => Cardinality(Used(key)) + Cardinality(Left) + (IF Moving THEN 1 ELSE 0) < numofnodes

MapInv == Modes /\ Divided /\ Waiting /\ Counted /\ Compact /\ Room
-----------------------------------------------------------------------------
(* The map as a relation: under MapInv no key has two values. *)
Holds(keys, vals, S, k, v) == \E i \in S : keys[i] = k /\ vals[i] = v

Pair(k, v) ==
  /\ k \in Key /\ k # pk
  /\ \/ Holds(key, val, Node, k, v)
     \/ Moving /\ k = ck /\ v = cv
     \/ Holds(okey, oval, Rest, k, v)

(* Functions with the same domain and the same values are equal. *)
LEMMA SameFunction ==
  ASSUME NEW f, NEW g, f = [x \in DOMAIN f |-> f[x]], g = [x \in DOMAIN g |-> g[x]],
         DOMAIN f = DOMAIN g, \A x \in DOMAIN f : f[x] = g[x]
  PROVE f = g
OBVIOUS

MapDomain == {x \in Key \ {pk} : Present(okey, Rest, x) \/ Present(key, Node, x) \/ (Moving /\ x = ck)}
MapValue(k) ==
  IF Present(key, Node, k) THEN val[CHOOSE i \in Node : key[i] = k]
  ELSE IF Moving /\ k = ck THEN cv
  ELSE oval[CHOOSE i \in Rest : okey[i] = k]

(* The refinement mapping of SQTable with its parts named. *)
LEMMA MapShape == MapOf = [k \in MapDomain |-> MapValue(k)]
BY DEF MapOf, MapDomain, MapValue, Present, Moving, Rest

IsMap(f) == f = [k \in DOMAIN f |-> f[k]]
MapsTo(f, k, v) == k \in DOMAIN f /\ f[k] = v

MapIsPairs == IsMap(MapOf) /\ \A k, v : Pair(k, v) <=> MapsTo(MapOf, k, v)

(* MapOf maps a key to a value just when one of its places holds the pair. *)
LEMMA MapPairs == Inv /\ MapInv => MapIsPairs
<1>1. SUFFICES ASSUME Inv, MapInv PROVE MapIsPairs
  OBVIOUS
<1>2. DOMAIN MapOf = MapDomain /\ \A k \in MapDomain : MapOf[k] = MapValue(k)
  BY MapShape
<1>3. IsMap(MapOf)
  BY MapShape DEF IsMap
<1>4. ASSUME NEW k, NEW v
      PROVE Pair(k, v) <=> MapsTo(MapOf, k, v)
  <2>1. MapsTo(MapOf, k, v) <=> k \in MapDomain /\ MapValue(k) = v
    BY <1>2 DEF MapsTo
  <2>2. CASE k \notin Key \/ k = pk
    BY <2>1, <2>2 DEF Pair, MapDomain
  <2>3. CASE k \in Key /\ k # pk
    <3>0. k # NULL
      BY <2>3, KeyAssumption
    <3>1. CASE Present(key, Node, k)
      <4>1. PICK i \in Node : key[i] = k
        BY <3>1 DEF Present
      <4>2. \A j \in Node : key[j] = k => j = i
        BY <3>0, <4>1, <1>1 DEF Inv, TableInv, UniqueKeys
      <4>3. (CHOOSE j \in Node : key[j] = k) = i
        BY <4>1, <4>2
      <4>4. k \in MapDomain /\ MapValue(k) = val[i]
        BY <2>3, <3>1, <4>3 DEF MapDomain, MapValue
      <4>5. Holds(key, val, Node, k, v) <=> v = val[i]
        BY <4>1, <4>2 DEF Holds
      <4>6. ~(Moving /\ k = ck)
        BY <3>1, <1>1 DEF MapInv, Divided
      <4>7. ~Holds(okey, oval, Rest, k, v)
        BY <3>0, <3>1, <1>1 DEF MapInv, Divided, Holds
      <4> QED
        BY <2>1, <2>3, <4>4, <4>5, <4>6, <4>7 DEF Pair
    <3>2. CASE ~Present(key, Node, k) /\ Moving /\ k = ck
      <4>1. k \in MapDomain /\ MapValue(k) = cv
        BY <2>3, <3>2 DEF MapDomain, MapValue
      <4>2. ~Holds(key, val, Node, k, v)
        BY <3>2 DEF Holds, Present
      <4>3. ~Holds(okey, oval, Rest, k, v)
        BY <3>2, <1>1 DEF MapInv, Divided, Holds, Present
      <4> QED
        BY <2>1, <2>3, <3>2, <4>1, <4>2, <4>3 DEF Pair
    <3>3. CASE ~Present(key, Node, k) /\ ~(Moving /\ k = ck) /\ Present(okey, Rest, k)
      <4>1. PICK i \in Rest : okey[i] = k
        BY <3>3 DEF Present
      <4>2. \A j \in Rest : okey[j] = k => j = i
        BY <3>0, <4>1, <1>1 DEF MapInv, Divided
      <4>3. (CHOOSE j \in Rest : okey[j] = k) = i
        BY <4>1, <4>2
      <4>4. k \in MapDomain /\ MapValue(k) = oval[i]
        BY <2>3, <3>3, <4>3 DEF MapDomain, MapValue
      <4>5. Holds(okey, oval, Rest, k, v) <=> v = oval[i]
        BY <4>1, <4>2 DEF Holds
      <4>6. ~Holds(key, val, Node, k, v)
        BY <3>3 DEF Holds, Present
      <4> QED
        BY <2>1, <2>3, <3>3, <4>4, <4>5, <4>6 DEF Pair
    <3>4. CASE ~Present(key, Node, k) /\ ~(Moving /\ k = ck) /\ ~Present(okey, Rest, k)
      <4>1. k \notin MapDomain
        BY <3>4 DEF MapDomain
      <4>2. ~Pair(k, v)
        BY <3>4 DEF Pair, Holds, Present
      <4> QED
        BY <2>1, <4>1, <4>2
    <3> QED
      BY <3>1, <3>2, <3>3, <3>4
  <2> QED
    BY <2>2, <2>3
<1> QED
  BY <1>3, <1>4 DEF MapIsPairs

(* A step that changes no pair does not change the map. *)
LEMMA SameMap ==
  ASSUME Inv, MapInv, Inv', MapInv', \A k, v : Pair(k, v)' <=> Pair(k, v)
  PROVE MapOf' = MapOf
<1>1. IsMap(MapOf) /\ \A k, v : Pair(k, v) <=> MapsTo(MapOf, k, v)
  BY MapPairs DEF MapIsPairs
<1>2. IsMap(MapOf') /\ \A k, v : Pair(k, v)' <=> MapsTo(MapOf', k, v)
  <2>1. MapIsPairs'
    BY MapPairs, PTL
  <2> QED
    BY <2>1 DEF MapIsPairs
<1>3. \A k, v : MapsTo(MapOf', k, v) <=> MapsTo(MapOf, k, v)
  BY <1>1, <1>2
<1>4. DOMAIN MapOf' = DOMAIN MapOf /\ \A k \in DOMAIN MapOf' : MapOf'[k] = MapOf[k]
  BY <1>3 DEF MapsTo
<1> QED
  BY <1>1, <1>2, <1>4, SameFunction DEF IsMap

(* A step that gives one key a value and leaves the others alone. *)
LEMMA MapWith ==
  ASSUME Inv, MapInv, Inv', MapInv', NEW x, NEW y,
         \A k, v : Pair(k, v)' <=> IF k = x THEN v = y ELSE Pair(k, v)
  PROVE MapOf' = Map!With(x, y)
<1>1. IsMap(MapOf) /\ \A k, v : Pair(k, v) <=> MapsTo(MapOf, k, v)
  BY MapPairs DEF MapIsPairs
<1>2. IsMap(MapOf') /\ \A k, v : Pair(k, v)' <=> MapsTo(MapOf', k, v)
  <2>1. MapIsPairs'
    BY MapPairs, PTL
  <2> QED
    BY <2>1 DEF MapIsPairs
<1>3. \A k, v : MapsTo(MapOf', k, v) <=> IF k = x THEN v = y ELSE MapsTo(MapOf, k, v)
  BY <1>1, <1>2
<1> DEFINE g == [j \in DOMAIN MapOf \cup {x} |-> IF j = x THEN y ELSE MapOf[j]]
<1>4. DOMAIN MapOf' = DOMAIN g /\ \A k \in DOMAIN MapOf' : MapOf'[k] = g[k]
  BY <1>3 DEF MapsTo
<1>5. g = [k \in DOMAIN g |-> g[k]]
  OBVIOUS
<1>6. MapOf' = g
  BY <1>2, <1>4, <1>5, SameFunction DEF IsMap
<1> QED
  BY <1>6 DEF Map!With

(* A step that takes one key away and leaves the others alone. *)
LEMMA MapWithout ==
  ASSUME Inv, MapInv, Inv', MapInv', NEW x,
         \A k, v : Pair(k, v)' <=> k # x /\ Pair(k, v)
  PROVE MapOf' = Map!Without(x)
<1>1. IsMap(MapOf) /\ \A k, v : Pair(k, v) <=> MapsTo(MapOf, k, v)
  BY MapPairs DEF MapIsPairs
<1>2. IsMap(MapOf') /\ \A k, v : Pair(k, v)' <=> MapsTo(MapOf', k, v)
  <2>1. MapIsPairs'
    BY MapPairs, PTL
  <2> QED
    BY <2>1 DEF MapIsPairs
<1>3. \A k, v : MapsTo(MapOf', k, v) <=> k # x /\ MapsTo(MapOf, k, v)
  BY <1>1, <1>2
<1> DEFINE g == [j \in DOMAIN MapOf \ {x} |-> MapOf[j]]
<1>4. DOMAIN MapOf' = DOMAIN g /\ \A k \in DOMAIN MapOf' : MapOf'[k] = g[k]
  BY <1>3 DEF MapsTo
<1>5. g = [k \in DOMAIN g |-> g[k]]
  OBVIOUS
<1>6. MapOf' = g
  BY <1>2, <1>4, <1>5, SameFunction DEF IsMap
<1> QED
  BY <1>6 DEF Map!Without

NoPairs == \A k, v : ~Pair(k, v)
EmptyMap == MapOf = [k \in {} |-> NULL]

(* An empty table stands for the empty map. *)
LEMMA MapEmpty == Inv /\ MapInv /\ NoPairs => EmptyMap
<1>1. SUFFICES ASSUME Inv, MapInv, NoPairs PROVE EmptyMap
  OBVIOUS
<1>2. IsMap(MapOf) /\ \A k, v : ~MapsTo(MapOf, k, v)
  BY <1>1, MapPairs DEF MapIsPairs, NoPairs
<1>3. DOMAIN MapOf = {}
  BY <1>2 DEF MapsTo
<1> QED
  BY <1>2, <1>3 DEF IsMap, EmptyMap
-----------------------------------------------------------------------------
(* Counting the keys of an array. *)
LEMMA UsedFinite ==
  ASSUME TypeOK, NEW keys \in [Node -> Key \cup {NULL}]
  PROVE /\ IsFiniteSet(Used(keys)) /\ Cardinality(Used(keys)) \in Nat
        /\ Cardinality(Used(keys)) <= numofnodes
        /\ Cardinality(Used(keys)) < numofnodes <=> \E i \in Node : keys[i] = NULL
<1>1. IsFiniteSet(Node) /\ Cardinality(Node) = numofnodes
  BY FS_Interval DEF Node, TypeOK, MINPOWER2
<1>2. Used(keys) \in SUBSET Node /\ (Used(keys) = Node <=> ~\E i \in Node : keys[i] = NULL)
  BY DEF Used
<1>3. /\ IsFiniteSet(Used(keys))
      /\ Cardinality(Used(keys)) <= Cardinality(Node)
      /\ Cardinality(Node) = Cardinality(Used(keys)) => Node = Used(keys)
  BY <1>1, <1>2, FS_Subset
<1>4. Cardinality(Used(keys)) \in Nat /\ numofnodes \in Nat
  BY <1>3, FS_CardinalityType DEF TypeOK
<1>5. Cardinality(Used(keys)) < numofnodes <=> Used(keys) # Node
  BY <1>1, <1>3, <1>4
<1> QED
  BY <1>1, <1>2, <1>3, <1>4, <1>5

(* Counting the pairs that Rehash has still to move. *)
LEMMA LeftFinite ==
  ASSUME TypeOK
  PROVE IsFiniteSet(Left) /\ Cardinality(Left) \in Nat
<1>1. IsFiniteSet(Rest)
  BY FS_Interval DEF Rest, TypeOK
<1>2. Left \in SUBSET Rest
  BY DEF Left
<1>3. IsFiniteSet(Left)
  BY <1>1, <1>2, FS_Subset
<1> QED
  BY <1>3, FS_CardinalityType

(* Rehash allocates more nodes than there are keys, the key whose insertion *)
(* made it run, and which _usednodes does not count, included.             *)
LEMMA RehashHasRoom ==
  ASSUME TypeOK, SizeOK, NEW e \in Nat, NEW n \in Nat, n <= numofnodes, n <= e + 1
  PROVE n < RehashSize(e)
<1>1. numofnodes \in Nat /\ numofnodes >= 4 /\ Oldsize = numofnodes
  BY DEF Oldsize, TypeOK, MINPOWER2
<1>2. numofnodes > 4 => numofnodes \div 2 >= 4
  <2>1. numofnodes > 4 => numofnodes \div 2 \in Sizes
    BY HalfSize DEF SizeOK, MINPOWER2
  <2> QED
    BY <2>1, SizeAtLeast DEF MINPOWER2
<1>3. CASE e >= numofnodes - (numofnodes \div 4)
  BY <1>1, <1>3 DEF RehashSize
<1>4. CASE e < numofnodes - (numofnodes \div 4) /\ e <= numofnodes \div 4 /\ numofnodes > 4
  <2>1. RehashSize(e) = numofnodes \div 2
    BY <1>1, <1>4 DEF RehashSize, MINPOWER2
  <2>2. (numofnodes \div 4) + 1 < numofnodes \div 2
    BY <1>1, <1>2, <1>4
  <2> QED
    BY <1>1, <1>4, <2>1, <2>2
<1>5. CASE e < numofnodes - (numofnodes \div 4) /\ ~(e <= numofnodes \div 4 /\ numofnodes > 4)
  <2>1. RehashSize(e) = numofnodes
    BY <1>1, <1>5 DEF RehashSize, MINPOWER2
  <2>2. numofnodes - (numofnodes \div 4) < numofnodes
    BY <1>1
  <2> QED
    BY <1>1, <1>5, <2>1, <2>2
<1> QED
  BY <1>1, <1>3, <1>4, <1>5

Distinct(keys) == \A i, j \in Node : keys[i] = keys[j] /\ keys[i] # NULL => i = j

(* Rehash and Clone begin: all pairs are in the old array, and the new one *)
(* has room for them.                                                      *)
LEMMA RebuildStarts ==
  ASSUME TypeOK, NEW keys \in [Node -> Key \cup {NULL}], NEW vals \in [Node -> Value \cup {NULL}],
         Distinct(keys), NEW size \in Nat, AllocNodes(size), Cardinality(Used(keys)) < size,
         usednodes' = 0, okey' = keys, oval' = vals, osize' = numofnodes, ri' = 0, pc' = "rehash",
         pk' # NULL => Present(keys, Node, pk')
  PROVE /\ MapInv'
        /\ \A k, v : Pair(k, v)' <=> k \in Key /\ k # pk' /\ Holds(keys, vals, Node, k, v)
<1>1. numofnodes \in Nat /\ numofnodes > 0
  BY DEF TypeOK, MINPOWER2
<1>2. Rest' = Node /\ InRehash' /\ ~Moving'
  BY <1>1 DEF Rest, Node, InRehash, Moving
<1>3. numofnodes' = size /\ Node' = 0 .. size - 1 /\ DOMAIN key' = Node'
      /\ \A i \in Node' : key'[i] = NULL /\ next'[i] = NIL /\ i <= firstfree'
  BY DEF AllocNodes, Node
<1>4. \A k : k # NULL => ~Present(key', Node', k)
  BY <1>3 DEF Present
<1>5. \A k, v : k # NULL => ~Holds(key', val', Node', k, v)
  BY <1>3 DEF Holds
<1>6. Used(key') = {}
  BY <1>3 DEF Used
<1>7. Left' = Used(keys)
  <2>1. DOMAIN keys = Node
    OBVIOUS
  <2> QED
    BY <1>2, <2>1 DEF Left, Used
<1>8. Modes'
  BY <1>1, <1>2 DEF Modes
<1>9. Divided'
  BY <1>2, <1>4 DEF Divided, Distinct
<1>10. Waiting'
  BY <1>2 DEF Waiting
<1>11. Counted'
  BY <1>6, FS_EmptySet DEF Counted
<1>12. Compact'
  BY <1>3 DEF Compact
<1>13. Room'
  <2>1. Cardinality(Used(key')) = 0 /\ Cardinality(Left') = Cardinality(Used(keys))
    BY <1>6, <1>7, FS_EmptySet
  <2>2. Cardinality(Used(keys)) \in Nat
    BY UsedFinite
  <2> QED
    BY <1>2, <1>3, <2>1, <2>2 DEF Room
<1>14. ASSUME NEW k, NEW v
       PROVE Pair(k, v)' <=> k \in Key /\ k # pk' /\ Holds(keys, vals, Node, k, v)
  <2>1. k \in Key => k # NULL
    BY KeyAssumption
  <2> QED
    BY <1>2, <1>5, <2>1 DEF Pair
<1> QED
  BY <1>8, <1>9, <1>10, <1>11, <1>12, <1>13, <1>14 DEF MapInv
-----------------------------------------------------------------------------
(* What the three ways to insert a key have in common: the new key is in   *)
(* node p, every other pair is kept, and one more node is used.            *)
Placed(p, keys, vals, links) ==
  /\ p \in Node
  /\ keys \in [Node -> Key \cup {NULL}] /\ vals \in [Node -> Value \cup {NULL}]
  /\ links \in [Node -> Node \cup {NIL}]
  /\ keys[p] = ck /\ Distinct(keys)
  /\ \A k, v : k \notin {NULL, ck} => (Holds(keys, vals, Node, k, v) <=> Holds(key, val, Node, k, v))
  /\ \E n \in Node : key[n] = NULL /\ Used(keys) = Used(key) \cup {n}
  /\ InRehash => \A i \in Node : keys[i] = NULL => links[i] = NIL /\ i <= firstfree

Insert == InsertAtMain \/ InsertChained \/ MoveColliding
Placing == op = "NewSlot" /\ ck \in Key /\ pc \in {"walk", "prev"} /\ ~Present(key, Node, ck)

(* A NewSlot that inserts has looked for its key. *)
LEMMA InsertIsPlacing ==
  ASSUME Inv, Insert
  PROVE Placing
<1> USE DEF Inv
<1>1. CASE pc = "prev"
  BY <1>1 DEF Placing, Present, TypeOK, LoopInv, PreviousCovers
<1>2. CASE pc # "prev"
  <2>1. Miss /\ op = "NewSlot"
    BY <1>2 DEF Insert, InsertAtMain, InsertChained, MoveColliding
  <2>2. ck \in Key /\ ck # NULL
    BY <2>1 DEF TypeOK, LoopInv, NewSlotHasKey
  <2> QED
    BY <2>1, <2>2, MissIsAbsent DEF LoopInv, Placing, Present, Miss
<1> QED
  BY <1>1, <1>2

(* The key goes to its empty main position. *)
LEMMA AtMainPlaces ==
  ASSUME Inv, MapInv, InsertAtMain, Placing
  PROVE \E p, keys, vals, links : Placed(p, keys, vals, links) /\ Settle(p, keys, vals, links)
<1> DEFINE mp == MainPos(ck)
           keys == [key EXCEPT ![mp] = ck]
<1>1. /\ mp \in Node /\ key \in [Node -> Key \cup {NULL}] /\ keys \in [Node -> Key \cup {NULL}]
      /\ val \in [Node -> Value \cup {NULL}] /\ next \in [Node -> Node \cup {NIL}]
  BY MainPosType DEF Inv, TypeOK, Placing
<1>2. key[mp] = NULL /\ Settle(mp, keys, val, next)
  BY DEF InsertAtMain
<1>3. keys[mp] = ck /\ \A i \in Node : i # mp => keys[i] = key[i]
  BY <1>1
<1>4. ck # NULL /\ \A i \in Node : key[i] # ck
  BY KeyAssumption DEF Placing, Present
<1> HIDE DEF mp, keys
<1>5. Distinct(keys)
  BY <1>1, <1>3, <1>4 DEF Distinct, Inv, TableInv, UniqueKeys
<1>6. \A k, v : k \notin {NULL, ck} => (Holds(keys, val, Node, k, v) <=> Holds(key, val, Node, k, v))
  BY <1>1, <1>2, <1>3 DEF Holds
<1>7. Used(keys) = Used(key) \cup {mp}
  BY <1>1, <1>3, <1>4 DEF Used
<1>8. InRehash => \A i \in Node : keys[i] = NULL => next[i] = NIL /\ i <= firstfree
  BY <1>3, <1>4 DEF MapInv, Compact
<1>9. Placed(mp, keys, val, next)
  BY <1>1, <1>2, <1>3, <1>5, <1>6, <1>7, <1>8 DEF Placed
<1> QED
  BY <1>2, <1>9

(* The key goes to the free node. *)
LEMMA ChainedPlaces ==
  ASSUME Inv, MapInv, InsertChained, Placing
  PROVE \E p, keys, vals, links : Placed(p, keys, vals, links) /\ Settle(p, keys, vals, links)
<1> DEFINE mp == MainPos(ck)
           n == firstfree
           keys == [key EXCEPT ![n] = ck]
           links == [next EXCEPT ![n] = next[mp], ![mp] = n]
<1>1. /\ mp \in Node /\ n \in Node
      /\ key \in [Node -> Key \cup {NULL}] /\ keys \in [Node -> Key \cup {NULL}]
      /\ val \in [Node -> Value \cup {NULL}] /\ next \in [Node -> Node \cup {NIL}]
      /\ links \in [Node -> Node \cup {NIL}]
  BY MainPosType DEF Inv, TypeOK, Placing
<1>2. key[n] = NULL /\ key[mp] # NULL /\ Settle(n, keys, val, links)
  BY DEF InsertChained, Inv, TableInv, FirstFreeIsFree
<1>3. keys[n] = ck /\ \A i \in Node : i # n => keys[i] = key[i]
  BY <1>1
<1>4. \A i \in Node : i # n /\ i # mp => links[i] = next[i]
  BY <1>1
<1>5. ck # NULL /\ \A i \in Node : key[i] # ck
  BY KeyAssumption DEF Placing, Present
<1> HIDE DEF mp, n, keys, links
<1>6. Distinct(keys)
  BY <1>1, <1>3, <1>5 DEF Distinct, Inv, TableInv, UniqueKeys
<1>7. \A k, v : k \notin {NULL, ck} => (Holds(keys, val, Node, k, v) <=> Holds(key, val, Node, k, v))
  BY <1>1, <1>2, <1>3 DEF Holds
<1>8. Used(keys) = Used(key) \cup {n}
  BY <1>1, <1>3, <1>5 DEF Used
<1>9. InRehash => \A i \in Node : keys[i] = NULL => links[i] = NIL /\ i <= firstfree
  BY <1>2, <1>3, <1>4, <1>5 DEF MapInv, Compact
<1>10. Placed(n, keys, val, links)
  BY <1>1, <1>2, <1>3, <1>6, <1>7, <1>8, <1>9 DEF Placed
<1> QED
  BY <1>2, <1>10

(* The colliding pair goes to the free node and the key takes its place. *)
LEMMA MovePlaces ==
  ASSUME Inv, MapInv, MoveColliding, Placing
  PROVE \E p, keys, vals, links : Placed(p, keys, vals, links) /\ Settle(p, keys, vals, links)
<1> DEFINE mp == MainPos(ck)
           n == firstfree
           keys == [key EXCEPT ![n] = key[mp], ![mp] = ck]
           vals == [val EXCEPT ![n] = val[mp], ![mp] = NULL]
           links == [next EXCEPT ![cur] = n, ![n] = next[mp], ![mp] = NIL]
<1>1. /\ mp \in Node /\ n \in Node /\ cur \in Node
      /\ key \in [Node -> Key \cup {NULL}] /\ keys \in [Node -> Key \cup {NULL}]
      /\ val \in [Node -> Value \cup {NULL}] /\ next \in [Node -> Node \cup {NIL}]
      /\ vals \in [Node -> Value \cup {NULL}] /\ links \in [Node -> Node \cup {NIL}]
  BY MainPosType DEF Inv, TypeOK, Placing, MoveColliding
<1>2. key[n] = NULL /\ key[mp] # NULL /\ n # mp /\ Settle(mp, keys, vals, links)
      /\ next[cur] = mp /\ mp # NIL
  BY <1>1 DEF MoveColliding, Inv, TableInv, FirstFreeIsFree, LoopInv, PreviousCovers, Node, NIL
<1>3. keys[mp] = ck /\ keys[n] = key[mp] /\ \A i \in Node : i # n /\ i # mp => keys[i] = key[i]
  BY <1>1, <1>2
<1>4. vals[n] = val[mp] /\ \A i \in Node : i # n /\ i # mp => vals[i] = val[i]
  BY <1>1, <1>2
<1>5. \A i \in Node : i # n /\ i # mp /\ i # cur => links[i] = next[i]
  BY <1>1
<1>6. ck # NULL /\ \A i \in Node : key[i] # ck
  BY KeyAssumption DEF Placing, Present
<1> HIDE DEF mp, n, keys, vals, links
<1>7. Distinct(keys)
  BY <1>1, <1>2, <1>3, <1>6 DEF Distinct, Inv, TableInv, UniqueKeys
<1>8. ASSUME NEW k, NEW v, k \notin {NULL, ck}
      PROVE Holds(keys, vals, Node, k, v) <=> Holds(key, val, Node, k, v)
  <2>1. ASSUME NEW i \in Node, keys[i] = k, vals[i] = v
        PROVE \E j \in Node : key[j] = k /\ val[j] = v
    BY <1>1, <1>3, <1>4, <1>8, <2>1
  <2>2. ASSUME NEW i \in Node, key[i] = k, val[i] = v
        PROVE \E j \in Node : keys[j] = k /\ vals[j] = v
    BY <1>1, <1>2, <1>3, <1>4, <1>8, <2>2
  <2> QED
    BY <2>1, <2>2 DEF Holds
<1>9. Used(keys) = Used(key) \cup {n}
  BY <1>1, <1>2, <1>3, <1>6 DEF Used
<1>10. ASSUME InRehash, NEW i \in Node, keys[i] = NULL
       PROVE links[i] = NIL /\ i <= firstfree
  <2>1. i # n /\ i # mp /\ key[i] = NULL
    BY <1>2, <1>3, <1>6, <1>10
  <2>2. next[i] = NIL /\ i <= firstfree
    BY <1>10, <2>1 DEF MapInv, Compact
  <2>3. i # cur
    BY <1>2, <2>2
  <2> QED
    BY <1>5, <2>1, <2>2, <2>3
<1>11. Placed(mp, keys, vals, links)
  BY <1>1, <1>2, <1>3, <1>7, <1>8, <1>9, <1>10 DEF Placed
<1> QED
  BY <1>2, <1>11

(* Each way of inserting a key keeps the other pairs. *)
LEMMA InsertPlaces ==
  ASSUME Inv, MapInv, Insert
  PROVE /\ Placing
        /\ \E p, keys, vals, links : Placed(p, keys, vals, links) /\ Settle(p, keys, vals, links)
BY InsertIsPlacing, AtMainPlaces, ChainedPlaces, MovePlaces DEF Insert
-----------------------------------------------------------------------------
(* What a step of the table is to the map. *)
MapStep == [Map!Next]_(Map!mapVars)

(* A step that the map does not see. *)
LEMMA Unseen ==
  ASSUME Inv, MapInv, Inv', MapInv', \A k, v : Pair(k, v)' <=> Pair(k, v), UNCHANGED <<Pending, ret>>
  PROVE MapStep
BY SameMap DEF MapStep, Map!mapVars

(* A call takes effect. *)
LEMMA Answers ==
  ASSUME Pending = <<op, ck, cv>>, Pending' = <<>>,
         \/ op = "Get" /\ Map!AnswerGet(ck)
         \/ op = "Set" /\ Map!AnswerSet(ck, cv)
         \/ op = "NewSlot" /\ Map!AnswerNewSlot(ck, cv)
         \/ op = "Remove" /\ Map!AnswerRemove(ck)
  PROVE MapStep
<1>1. Pending # <<>> /\ Pending[1] = op /\ Pending[2] = ck /\ Pending[3] = cv
  OBVIOUS
<1>2. Map!Answer
  BY <1>1 DEF Map!Answer
<1> QED
  BY <1>2 DEF MapStep, Map!Next

(* The key that waits for Rehash is in the array when NewSlot is called    *)
(* again, so a NewSlot that inserts has no other waiting behind it.        *)
LEMMA NoneWaits ==
  ASSUME MapInv, Placing, ~InRehash
  PROVE pk = NULL /\ Pending = <<op, ck, cv>>
BY DEF MapInv, Waiting, Placing, Pending

(* NewSlot ends with a free node. *)
Settled(p, keys, vals, links) ==
  /\ firstfree' \in Node /\ firstfree' <= firstfree
  /\ \A i \in Node : i <= firstfree /\ keys[i] = NULL /\ links[i] = NIL => i <= firstfree'
  /\ key' = keys /\ next' = links
  /\ val' = [vals EXCEPT ![p] = cv]
  /\ usednodes' = usednodes + 1
  /\ Return(TRUE)
  /\ UNCHANGED <<numofnodes, callVars>>

(* NewSlot ends in a Rehash, after which it is called again. *)
RunsOut(keys, vals, links) ==
  /\ \A i \in Node : i <= firstfree => ~(keys[i] = NULL /\ links[i] = NIL)
  /\ StartRehash(keys, vals, usednodes)
  /\ pk' = ck /\ pv' = cv
  /\ UNCHANGED <<callVars, ret>>

(* NewSlot ends in one of these two ways. *)
LEMMA SettleEnds ==
  ASSUME TypeOK, NEW p, NEW keys, NEW vals, NEW links, Settle(p, keys, vals, links)
  PROVE Settled(p, keys, vals, links) \/ RunsOut(keys, vals, links)
<1> DEFINE free == {j \in 0 .. firstfree : keys[j] = NULL /\ links[j] = NIL}
<1>1. firstfree \in Nat /\ 0 .. firstfree \subseteq Node
      /\ \A i \in Node : i <= firstfree => i \in 0 .. firstfree
  BY DEF TypeOK, Node
<1>2. CASE \E f \in free :
             /\ \A g \in free : g <= f
             /\ firstfree' = f
             /\ key' = keys /\ next' = links
             /\ val' = [vals EXCEPT ![p] = cv]
             /\ usednodes' = usednodes + 1
             /\ Return(TRUE)
             /\ UNCHANGED <<numofnodes, callVars>>
  <2>1. firstfree' \in free /\ \A g \in free : g <= firstfree'
    BY <1>2
  <2>2. firstfree' \in Node /\ firstfree' <= firstfree
    BY <1>1, <2>1
  <2>3. \A i \in Node : i <= firstfree /\ keys[i] = NULL /\ links[i] = NIL => i <= firstfree'
    BY <1>1, <2>1
  <2> QED
    BY <1>2, <2>2, <2>3 DEF Settled
<1>3. CASE /\ free = {}
           /\ StartRehash(keys, vals, usednodes)
           /\ pk' = ck /\ pv' = cv
           /\ UNCHANGED <<callVars, ret>>
  BY <1>1, <1>3 DEF RunsOut
<1> QED
  BY <1>2, <1>3 DEF Settle

(* The pairs of the array once the new key has its value. *)
LEMMA SettledPairs ==
  ASSUME TypeOK, Placing, NEW p, NEW keys, NEW vals, NEW links,
         Placed(p, keys, vals, links), Settled(p, keys, vals, links)
  PROVE /\ \A k \in Key : \A v : Holds(key', val', Node', k, v) <=>
              IF k = ck THEN v = cv ELSE Holds(key, val, Node, k, v)
        /\ \A k \in Key : Present(key', Node', k) <=> k = ck \/ Present(key, Node, k)
        /\ Cardinality(Used(key')) = Cardinality(Used(key)) + 1
        /\ Cardinality(Used(key)) \in Nat
<1>1. /\ p \in Node /\ keys \in [Node -> Key \cup {NULL}] /\ vals \in [Node -> Value \cup {NULL}]
      /\ keys[p] = ck /\ Distinct(keys)
      /\ \A k, v : k \notin {NULL, ck} => (Holds(keys, vals, Node, k, v) <=> Holds(key, val, Node, k, v))
      /\ \E n \in Node : key[n] = NULL /\ Used(keys) = Used(key) \cup {n}
  BY DEF Placed
<1>2. key' = keys /\ val' = [vals EXCEPT ![p] = cv] /\ Node' = Node /\ ck # NULL /\ ck \in Key
  BY KeyAssumption DEF Settled, Node, Placing
<1>3. val'[p] = cv /\ \A i \in Node : i # p => val'[i] = vals[i]
  BY <1>1, <1>2
<1>4. \A i \in Node : keys[i] = ck <=> i = p
  BY <1>1, <1>2 DEF Distinct
<1>5. ASSUME NEW k \in Key, NEW v
      PROVE Holds(key', val', Node', k, v) <=> IF k = ck THEN v = cv ELSE Holds(key, val, Node, k, v)
  <2>1. CASE k = ck
    BY <1>1, <1>2, <1>3, <1>4, <2>1 DEF Holds
  <2>2. CASE k # ck
    <3>1. Holds(key', val', Node', k, v) <=> Holds(keys, vals, Node, k, v)
      BY <1>2, <1>3, <1>4, <2>2 DEF Holds
    <3>2. k # NULL
      BY KeyAssumption
    <3> QED
      BY <1>1, <2>2, <3>1, <3>2
  <2> QED
    BY <2>1, <2>2
<1>6. ASSUME NEW k \in Key
      PROVE Present(key', Node', k) <=> k = ck \/ Present(key, Node, k)
  <2>1. Present(key', Node', k) <=> \E v : Holds(key', val', Node', k, v)
    BY DEF Present, Holds
  <2>2. Present(key, Node, k) <=> \E v : Holds(key, val, Node, k, v)
    BY DEF Present, Holds
  <2> QED
    BY <1>5, <2>1, <2>2
<1>7. PICK n \in Node : key[n] = NULL /\ Used(keys) = Used(key) \cup {n}
  BY <1>1
<1>8. IsFiniteSet(Used(key)) /\ n \notin Used(key) /\ Cardinality(Used(key)) \in Nat
  BY <1>7, UsedFinite DEF Used, TypeOK
<1>9. Cardinality(Used(keys)) = Cardinality(Used(key)) + 1
  BY <1>7, <1>8, FS_AddElement
<1> QED
  BY <1>2, <1>5, <1>6, <1>8, <1>9

(* The loop of Rehash has moved a pair: the map does not see it. *)
LEMMA SettledMoving ==
  ASSUME Inv, MapInv, Inv', Placing, InRehash, NEW p, NEW keys, NEW vals, NEW links,
         Placed(p, keys, vals, links), Settled(p, keys, vals, links)
  PROVE MapInv' /\ MapStep
<1>1. pc' = "rehash" /\ UNCHANGED <<op, ck, cv, okey, oval, osize, ri, pk, pv, ret, numofnodes>>
  BY DEF Settled, Return, rehashVars, callVars
<1>2. Node' = Node /\ Rest' = Rest /\ Left' = Left /\ InRehash' /\ ~Moving' /\ Moving
  BY <1>1 DEF Node, Rest, Left, InRehash, Moving, Placing
<1>3. /\ \A k \in Key : \A v : Holds(key', val', Node', k, v) <=>
            IF k = ck THEN v = cv ELSE Holds(key, val, Node, k, v)
      /\ \A k \in Key : Present(key', Node', k) <=> k = ck \/ Present(key, Node, k)
      /\ Cardinality(Used(key')) = Cardinality(Used(key)) + 1
      /\ Cardinality(Used(key)) \in Nat
  BY SettledPairs DEF Inv
<1>4. \A i \in Rest : okey[i] # NULL => okey[i] \in Key
  BY DEF Inv, TypeOK, Rest
<1>5. Modes'
  BY <1>1, <1>2 DEF Modes, InRehash, Inv, TypeOK
<1>6. Divided'
  BY <1>1, <1>2, <1>3, <1>4 DEF MapInv, Divided, Present
<1>7. Waiting'
  <2>1. pk # NULL => pk \in Key
    BY DEF Inv, TypeOK
  <2> QED
    BY <1>1, <1>2, <1>3, <2>1 DEF MapInv, Waiting
<1>8. Counted'
  BY <1>3 DEF MapInv, Counted, Settled
<1>9. Compact'
  BY <1>2 DEF Compact, Placed, Settled
<1>10. Room'
  <2>1. Cardinality(Left) \in Nat /\ numofnodes \in Nat
    BY LeftFinite DEF Inv, TypeOK
  <2> QED
    BY <1>1, <1>2, <1>3, <2>1 DEF MapInv, Room
<1>11. MapInv'
  BY <1>5, <1>6, <1>7, <1>8, <1>9, <1>10 DEF MapInv
<1>12. \A k, v : Pair(k, v)' <=> Pair(k, v)
  <2>1. \A v : ~Holds(key, val, Node, ck, v)
    BY DEF Placing, Present, Holds
  <2>2. \A v : ~Holds(okey, oval, Rest, ck, v)
    BY <1>2 DEF MapInv, Divided, Present, Holds
  <2> QED
    BY <1>1, <1>2, <1>3, <2>1, <2>2 DEF Pair
<1>13. UNCHANGED <<Pending, ret>>
  BY <1>1, <1>2 DEF Pending, Moving
<1> QED
  BY <1>11, <1>12, <1>13, Unseen

(* A NewSlot of the program has inserted its pair. *)
LEMMA SettledAnswers ==
  ASSUME Inv, MapInv, Inv', Placing, ~InRehash, NEW p, NEW keys, NEW vals, NEW links,
         Placed(p, keys, vals, links), Settled(p, keys, vals, links)
  PROVE MapInv' /\ MapStep
<1>1. pc' = "idle" /\ ret' = TRUE /\ pk' = NULL
      /\ UNCHANGED <<op, ck, cv, okey, oval, osize, ri, numofnodes>>
  BY DEF Settled, Return, callVars
<1>2. osize = 0 /\ Node' = Node /\ Rest' = {} /\ Rest = {} /\ ~InRehash' /\ ~Moving' /\ ~Moving
  <2>1. osize = 0 /\ ri = 0
    BY DEF InRehash, Inv, TypeOK
  <2>2. Rest = {} /\ Rest' = {}
    BY <1>1, <2>1 DEF Rest
  <2> QED
    BY <1>1, <2>1, <2>2 DEF Node, InRehash, Moving
<1>3. /\ \A k \in Key : \A v : Holds(key', val', Node', k, v) <=>
            IF k = ck THEN v = cv ELSE Holds(key, val, Node, k, v)
      /\ Cardinality(Used(key')) = Cardinality(Used(key)) + 1
  BY SettledPairs DEF Inv
<1>4. pk = NULL /\ Pending = <<op, ck, cv>>
  BY NoneWaits
<1>5. Modes' /\ Waiting' /\ Compact' /\ Room'
  BY <1>1, <1>2 DEF Modes, Waiting, Compact, Room
<1>6. Divided'
  BY <1>1, <1>2 DEF Divided
<1>7. Counted'
  BY <1>3 DEF MapInv, Counted, Settled
<1>8. MapInv'
  BY <1>5, <1>6, <1>7 DEF MapInv
<1>9. \A k, v : Pair(k, v)' <=> IF k = ck THEN v = cv ELSE Pair(k, v)
  <2>1. ck \in Key /\ NULL \notin Key
    BY KeyAssumption DEF Placing
  <2> QED
    BY <1>1, <1>2, <1>3, <1>4, <2>1 DEF Pair, Holds
<1>10. MapOf' = Map!With(ck, cv)
  BY <1>8, <1>9, MapWith
<1>11. Pending' = <<>>
  BY <1>1 DEF Pending
<1> QED
  BY <1>1, <1>4, <1>8, <1>10, <1>11, Answers DEF Map!AnswerNewSlot, Placing

(* No node is free: Rehash runs, and not inside another Rehash. *)
LEMMA RunsOutUnseen ==
  ASSUME Inv, MapInv, Inv', Placing, NEW p, NEW keys, NEW vals, NEW links,
         Placed(p, keys, vals, links), RunsOut(keys, vals, links)
  PROVE MapInv' /\ MapStep
<1>1. /\ p \in Node /\ keys \in [Node -> Key \cup {NULL}] /\ vals \in [Node -> Value \cup {NULL}]
      /\ keys[p] = ck /\ Distinct(keys)
      /\ \A k, v : k \notin {NULL, ck} => (Holds(keys, vals, Node, k, v) <=> Holds(key, val, Node, k, v))
  BY DEF Placed
<1>2. PICK n \in Node : key[n] = NULL /\ Used(keys) = Used(key) \cup {n}
  BY DEF Placed
<1>3. IsFiniteSet(Used(key)) /\ n \notin Used(key) /\ Cardinality(Used(key)) \in Nat
  BY <1>2, UsedFinite DEF Inv, Used, TypeOK
<1>4. Cardinality(Used(keys)) = Cardinality(Used(key)) + 1
  BY <1>2, <1>3, FS_AddElement
<1>5. /\ Cardinality(Used(keys)) \in Nat /\ Cardinality(Used(keys)) <= numofnodes
      /\ Cardinality(Used(keys)) < numofnodes <=> \E i \in Node : keys[i] = NULL
  BY <1>1, UsedFinite DEF Inv
<1>6. ~InRehash
  <2>1. SUFFICES ASSUME InRehash PROVE FALSE
    OBVIOUS
  <2>2. Moving
    BY <2>1 DEF Moving, Placing
  <2>3. Cardinality(Left) \in Nat /\ numofnodes \in Nat
    BY LeftFinite DEF Inv, TypeOK
  <2>4. Cardinality(Used(keys)) < numofnodes
    BY <1>3, <1>4, <2>1, <2>2, <2>3 DEF MapInv, Room
  <2>5. PICK i \in Node : keys[i] = NULL
    BY <1>5, <2>4
  <2>6. links[i] = NIL /\ i <= firstfree
    BY <2>1, <2>5 DEF Placed
  <2> QED
    BY <2>5, <2>6 DEF RunsOut
<1>7. pk = NULL /\ Pending = <<op, ck, cv>>
  BY <1>6, NoneWaits
<1>8. usednodes \in Nat /\ Cardinality(Used(keys)) = usednodes + 1
  BY <1>3, <1>4 DEF MapInv, Counted
<1>9. /\ AllocNodes(RehashSize(usednodes)) /\ usednodes' = 0
      /\ okey' = keys /\ oval' = vals /\ osize' = numofnodes /\ ri' = 0 /\ pc' = "rehash"
      /\ pk' = ck /\ pv' = cv /\ ret' = ret
  BY DEF RunsOut, StartRehash, Oldsize, Inv, TypeOK, MINPOWER2
<1>10. RehashSize(usednodes) \in Nat
  BY <1>8, RehashSizeOK DEF Inv, Sizes
<1>11. Cardinality(Used(keys)) < RehashSize(usednodes)
  BY <1>5, <1>8, RehashHasRoom DEF Inv
<1>12. Present(keys, Node, ck)
  BY <1>1 DEF Present
<1>13. MapInv' /\ \A k, v : Pair(k, v)' <=> k \in Key /\ k # pk' /\ Holds(keys, vals, Node, k, v)
  BY <1>1, <1>9, <1>10, <1>11, <1>12, RebuildStarts DEF Inv
<1>14. osize = 0 /\ Rest = {} /\ ~Moving
  BY <1>6 DEF Rest, InRehash, Moving, Inv, TypeOK
<1>15. ASSUME NEW k, NEW v PROVE Pair(k, v)' <=> Pair(k, v)
  <2>1. ~Holds(key, val, Node, ck, v) /\ (k \in Key => k # NULL)
    BY KeyAssumption DEF Placing, Present, Holds
  <2>2. ~Holds(okey, oval, Rest, k, v)
    BY <1>14 DEF Holds
  <2>3. Pair(k, v) <=> k \in Key /\ Holds(key, val, Node, k, v)
    BY <1>7, <1>14, <2>1, <2>2 DEF Pair
  <2>4. Pair(k, v)' <=> k \in Key /\ k # ck /\ Holds(keys, vals, Node, k, v)
    BY <1>9, <1>13
  <2> QED
    BY <1>1, <2>1, <2>3, <2>4
<1>16. Pending' = <<"NewSlot", ck, cv>>
  <2>1. ck # NULL /\ osize' > 0
    BY <1>9, KeyAssumption DEF Placing, Inv, TypeOK, MINPOWER2
  <2> QED
    BY <1>9, <2>1 DEF Pending, InRehash
<1>17. UNCHANGED <<Pending, ret>>
  BY <1>7, <1>9, <1>16 DEF Placing
<1> QED
  BY <1>13, <1>15, <1>17, Unseen

(* NewSlot inserts a key. *)
LEMMA InsertMap ==
  ASSUME Inv, MapInv, Inv', Insert
  PROVE MapInv' /\ MapStep
<1>1. Placing
  BY InsertPlaces
<1>2. PICK p, keys, vals, links : Placed(p, keys, vals, links) /\ Settle(p, keys, vals, links)
  BY InsertPlaces
<1>3. Settled(p, keys, vals, links) \/ RunsOut(keys, vals, links)
  BY <1>2, SettleEnds DEF Inv
<1> QED
  BY <1>1, <1>2, <1>3, SettledMoving, SettledAnswers, RunsOutUnseen
-----------------------------------------------------------------------------
(* Nothing waits and nothing is moved outside Rehash. *)
LEMMA NoRest ==
  ASSUME TypeOK, ~InRehash
  PROVE osize = 0 /\ ri = 0 /\ Rest = {} /\ ~Moving
<1>1. osize = 0 /\ ri = 0
  BY DEF InRehash, TypeOK
<1> QED
  BY <1>1 DEF Rest, Moving, InRehash

(* What the pairs of the map are outside Rehash. *)
LEMMA PairOutside ==
  ASSUME TypeOK, ~InRehash, NEW k, NEW v
  PROVE Pair(k, v) <=> k \in Key /\ k # pk /\ Holds(key, val, Node, k, v)
<1>1. Rest = {} /\ ~Moving
  BY NoRest
<1> QED
  BY <1>1 DEF Pair, Holds

(* A call begins: the map sees it made. *)
LEMMA CallMap ==
  ASSUME Inv, MapInv, Inv', pc = "idle", NEW o \in {"Get", "Set", "NewSlot", "Remove"},
         NEW x \in Key \cup {NULL}, NEW y \in Value \cup {NULL}, o # "Set" => x # NULL,
         Begin(o, x, y), UNCHANGED <<tableVars, rehashVars, ret>>
  PROVE MapInv' /\ MapStep
<1>1. /\ op' = o /\ ck' = x /\ cv' = y /\ pc' = "walk"
      /\ UNCHANGED <<numofnodes, key, val, next, firstfree, usednodes>>
      /\ UNCHANGED <<okey, oval, osize, ri, pk, pv, ret>>
  BY DEF Begin, tableVars, rehashVars
<1>2. osize = 0 /\ pk = NULL /\ ~InRehash
  BY DEF MapInv, Modes, InRehash
<1>3. Node' = Node /\ Rest' = Rest /\ Rest = {} /\ ~Moving /\ ~Moving' /\ ~InRehash'
  BY <1>1, <1>2, NoRest DEF Node, Rest, Moving, InRehash, Inv
<1>4. Modes'
  BY <1>1, <1>2, <1>3 DEF Modes
<1>5. Divided' /\ Waiting' /\ Compact' /\ Room'
  BY <1>1, <1>2, <1>3 DEF Divided, Waiting, Compact, Room
<1>6. Counted'
  BY <1>1 DEF MapInv, Counted
<1>7. MapInv'
  BY <1>4, <1>5, <1>6 DEF MapInv
<1>8. \A k, v : Pair(k, v)' <=> Pair(k, v)
  BY <1>1, <1>3 DEF Pair, Holds
<1>9. MapOf' = MapOf
  BY <1>7, <1>8, SameMap
<1>10. Pending = <<>> /\ Pending' = <<o, x, y>>
  BY <1>1, <1>3 DEF Pending
<1>11. Map!Invoke
  BY <1>1, <1>9, <1>10 DEF Map!Invoke
<1> QED
  BY <1>7, <1>11 DEF MapStep, Map!Next

(* Clear empties the map. *)
LEMMA ClearMap ==
  ASSUME Inv, MapInv, Inv', Clear
  PROVE MapInv' /\ MapStep
<1>1. /\ pc = "idle" /\ pc' = "idle" /\ usednodes' = 0 /\ ret' = NULL
      /\ UNCHANGED <<op, ck, cv, okey, oval, osize, ri, pk, pv>>
  BY DEF Clear, callVars, rehashVars
<1>2. osize = 0 /\ pk = NULL /\ ~InRehash /\ ~InRehash'
  BY <1>1 DEF MapInv, Modes, InRehash
<1>3. Rest' = {} /\ ~Moving'
  BY <1>1, <1>2, NoRest DEF Inv, Rest, Moving
<1>4. DOMAIN key' = Node' /\ \A i \in Node' : key'[i] = NULL
  BY DEF Clear, AllocNodes, Node
<1>5. Used(key') = {}
  BY <1>4 DEF Used
<1>6. Counted'
  BY <1>1, <1>5, FS_EmptySet DEF Counted
<1>7. Modes' /\ Divided' /\ Waiting' /\ Compact' /\ Room'
  BY <1>1, <1>2, <1>3 DEF Modes, Divided, Waiting, Compact, Room
<1>8. MapInv'
  BY <1>6, <1>7 DEF MapInv
<1>9. NoPairs'
  BY <1>3, <1>4, KeyAssumption DEF NoPairs, Pair, Holds
<1>10. MapOf' = [k \in {} |-> NULL]
  <2>1. EmptyMap'
    BY <1>8, <1>9, MapEmpty, PTL
  <2> QED
    BY <2>1 DEF EmptyMap
<1>11. Pending = <<>> /\ Pending' = <<>>
  BY <1>1 DEF Pending
<1>12. Map!Clear
  BY <1>1, <1>10, <1>11 DEF Map!Clear
<1> QED
  BY <1>8, <1>12 DEF MapStep, Map!Next

(* The model goes on with the clone, which is to hold the same pairs. *)
LEMMA CloneMap ==
  ASSUME Inv, MapInv, Inv', Clone
  PROVE MapInv' /\ MapStep
<1>1. /\ pc = "idle" /\ pc' = "rehash" /\ usednodes' = 0 /\ AllocNodes(numofnodes)
      /\ okey' = key /\ oval' = val /\ osize' = numofnodes /\ ri' = 0
      /\ UNCHANGED <<op, ck, cv, pk, pv, ret>>
  BY DEF Clone, callVars
<1>2. osize = 0 /\ pk = NULL /\ ~InRehash
  BY <1>1 DEF MapInv, Modes, InRehash
<1>3. /\ key \in [Node -> Key \cup {NULL}] /\ val \in [Node -> Value \cup {NULL}]
      /\ numofnodes \in Nat /\ Distinct(key) /\ numofnodes > 0
  BY DEF Inv, TypeOK, TableInv, UniqueKeys, Distinct, MINPOWER2
<1>4. Cardinality(Used(key)) < numofnodes
  BY <1>3, UsedFinite DEF Inv, TypeOK, TableInv, FirstFreeIsFree
<1>5. MapInv' /\ \A k, v : Pair(k, v)' <=> k \in Key /\ k # pk' /\ Holds(key, val, Node, k, v)
  BY <1>1, <1>2, <1>3, <1>4, RebuildStarts DEF Inv
<1>6. \A k, v : Pair(k, v)' <=> Pair(k, v)
  BY <1>1, <1>2, <1>5, PairOutside DEF Inv
<1>7. Pending = <<>> /\ Pending' = <<>>
  BY <1>1, <1>2, <1>3 DEF Pending, InRehash
<1> QED
  BY <1>1, <1>5, <1>6, <1>7, Unseen

(* The loops of _Get and NewSlot go on. *)
LEMMA WalkMap ==
  ASSUME Inv, MapInv, Inv', WalkNext \/ FindPrevious \/ PreviousNext
  PROVE MapInv' /\ MapStep
<1>1. /\ pc \in {"walk", "prev"} /\ pc' \in {"walk", "prev"}
      /\ UNCHANGED <<numofnodes, key, val, next, firstfree, usednodes>>
      /\ UNCHANGED <<op, ck, cv, okey, oval, osize, ri, pk, pv, ret>>
  BY DEF WalkNext, FindPrevious, PreviousNext, Miss, tableVars, rehashVars
<1>2. /\ Node' = Node /\ Rest' = Rest /\ Left' = Left
      /\ InRehash' = InRehash /\ (Moving <=> InRehash) /\ (Moving' <=> InRehash)
  BY <1>1 DEF Node, Rest, Left, InRehash, Moving
<1>3. Modes'
  BY <1>1, <1>2 DEF MapInv, Modes
<1>4. Divided'
  BY <1>1, <1>2 DEF MapInv, Divided, Present
<1>5. Waiting'
  <2>1. CASE InRehash \/ pk = NULL
    BY <1>1, <1>2, <2>1 DEF MapInv, Waiting, Present
  <2>2. CASE ~InRehash /\ pk # NULL
    <3>1. pc = "walk" /\ ck = pk /\ Present(key, Node, pk)
      BY <2>2 DEF MapInv, Waiting
    <3>2. ~FindPrevious
      BY <2>2, <3>1, MissIsAbsent DEF FindPrevious, Present, Inv, LoopInv
    <3>3. pc' = "walk"
      BY <3>1, <3>2 DEF WalkNext, PreviousNext
    <3> QED
      BY <1>1, <1>2, <2>2, <3>3 DEF MapInv, Waiting, Present
  <2> QED
    BY <2>1, <2>2
<1>6. Counted' /\ Compact'
  BY <1>1, <1>2 DEF MapInv, Counted, Compact
<1>7. Room'
  BY <1>1, <1>2 DEF MapInv, Room
<1>8. MapInv'
  BY <1>3, <1>4, <1>5, <1>6, <1>7 DEF MapInv
<1>9. \A k, v : Pair(k, v)' <=> Pair(k, v)
  BY <1>1, <1>2 DEF Pair, Holds
<1>10. UNCHANGED <<Pending, ret>>
  BY <1>1, <1>2 DEF Pending
<1> QED
  BY <1>8, <1>9, <1>10, Unseen

(* What a lookup that succeeds has found. *)
LEMMA HitFinds ==
  ASSUME Inv, MapInv, Hit, ck # NULL, ~InRehash
  PROVE cur \in Node /\ ck \in Key /\ key[cur] = ck /\ \A i \in Node : key[i] = ck => i = cur
BY DEF Inv, TypeOK, Hit, TableInv, UniqueKeys

(* The key that Rehash moves is not in the new array: its NewSlot never    *)
(* finds it, and no other call runs meanwhile.                             *)
LEMMA HitOutside ==
  ASSUME Inv, MapInv, Hit
  PROVE ~InRehash /\ Pending = <<op, ck, cv>> /\ (pk # NULL => op = "NewSlot" /\ ck = pk)
<1>1. pc = "walk" /\ cur \in Node /\ key[cur] = ck
  BY DEF Hit, Inv, TypeOK
<1>2. ~InRehash
  BY <1>1 DEF MapInv, Divided, Moving, Present
<1> QED
  BY <1>1, <1>2 DEF Pending, MapInv, Waiting

(* A call that is not made by Rehash returns. *)
LEMMA Returned ==
  ASSUME Inv, MapInv, NEW r, Return(r), ~InRehash
  PROVE /\ pc' = "idle" /\ ret' = r /\ pk' = NULL /\ UNCHANGED <<okey, oval, osize, ri>>
        /\ Modes' /\ Divided' /\ Waiting' /\ Compact' /\ Room' /\ Pending' = <<>>
        /\ ~InRehash'
<1>1. pc' = "idle" /\ ret' = r /\ pk' = NULL /\ UNCHANGED <<okey, oval, osize, ri>>
  BY DEF Return
<1>2. osize = 0 /\ ri = 0
  BY NoRest DEF Inv
<1>3. Rest' = {} /\ ~Moving' /\ ~InRehash'
  BY <1>1, <1>2 DEF Rest, Moving, InRehash
<1>4. Modes' /\ Waiting' /\ Compact' /\ Room'
  BY <1>1, <1>2, <1>3 DEF Modes, Waiting, Compact, Room
<1>5. Divided'
  BY <1>3 DEF Divided
<1>6. Pending' = <<>>
  BY <1>1 DEF Pending
<1> QED
  BY <1>1, <1>3, <1>4, <1>5, <1>6

(* Get finds its key and returns its value. *)
LEMMA GetHitMap ==
  ASSUME Inv, MapInv, Inv', GetHit
  PROVE MapInv' /\ MapStep
<1>1. /\ Hit /\ op = "Get" /\ Return(val[cur]) /\ pc = "walk"
      /\ UNCHANGED <<numofnodes, key, val, next, firstfree, usednodes, op, ck, cv, cur>>
  BY DEF GetHit, Hit, tableVars, callVars
<1>2. ck # NULL
  BY <1>1 DEF MapInv, Modes
<1>3. ~InRehash /\ Pending = <<op, ck, cv>> /\ pk = NULL
  BY <1>1, HitOutside
<1>4. cur \in Node /\ ck \in Key /\ key[cur] = ck
  BY <1>1, <1>2, <1>3, HitFinds
<1>5. /\ pc' = "idle" /\ ret' = val[cur] /\ pk' = NULL
      /\ Modes' /\ Divided' /\ Waiting' /\ Compact' /\ Room' /\ Pending' = <<>>
      /\ ~InRehash' /\ UNCHANGED <<okey, oval, osize, ri>>
  BY <1>1, <1>3, Returned
<1>6. Counted'
  BY <1>1 DEF MapInv, Counted
<1>7. MapInv'
  BY <1>5, <1>6 DEF MapInv
<1>8. \A k, v : Pair(k, v)' <=> Pair(k, v)
  BY <1>1, <1>3, <1>5 DEF Pair, Holds, Moving, Rest, Node
<1>9. MapOf' = MapOf
  BY <1>7, <1>8, SameMap
<1>10. Pair(ck, val[cur])
  BY <1>2, <1>3, <1>4 DEF Pair, Holds
<1>11. ck \in DOMAIN MapOf /\ MapOf[ck] = val[cur]
  BY <1>10, MapPairs DEF MapIsPairs, MapsTo
<1>12. Map!AnswerGet(ck)
  BY <1>5, <1>9, <1>11 DEF Map!AnswerGet
<1> QED
  BY <1>1, <1>3, <1>5, <1>7, <1>12, Answers

(* Set, or NewSlot of a key that is there, overwrites the value. *)
LEMMA SetHitMap ==
  ASSUME Inv, MapInv, Inv', SetHit
  PROVE MapInv' /\ MapStep
<1>1. /\ Hit /\ op \in {"Set", "NewSlot"} /\ Return(op = "Set") /\ pc = "walk"
      /\ val' = [val EXCEPT ![cur] = cv]
      /\ UNCHANGED <<numofnodes, key, next, firstfree, usednodes, op, ck, cv, cur>>
  BY DEF SetHit, Hit, callVars
<1>2. ~InRehash /\ Pending = <<op, ck, cv>> /\ (pk # NULL => op = "NewSlot" /\ ck = pk)
  BY <1>1, HitOutside
<1>3. /\ pc' = "idle" /\ ret' = (op = "Set") /\ pk' = NULL
      /\ Modes' /\ Divided' /\ Waiting' /\ Compact' /\ Room' /\ Pending' = <<>>
      /\ ~InRehash' /\ UNCHANGED <<okey, oval, osize, ri>>
  BY <1>1, <1>2, Returned
<1>4. Counted'
  BY <1>1 DEF MapInv, Counted
<1>5. MapInv'
  BY <1>3, <1>4 DEF MapInv
<1>6. cur \in Node /\ Node' = Node /\ val'[cur] = cv /\ \A i \in Node : i # cur => val'[i] = val[i]
  BY <1>1 DEF Inv, TypeOK, Node
<1>7. \A k, v : Pair(k, v) <=> k \in Key /\ k # pk /\ Holds(key, val, Node, k, v)
  BY <1>2, PairOutside DEF Inv
<1>8. \A k, v : Pair(k, v)' <=> k \in Key /\ Holds(key, val', Node, k, v)
  <2>1. Rest' = {} /\ ~Moving'
    BY <1>2, <1>3, NoRest DEF Inv, Rest, Moving
  <2> QED
    BY <1>1, <1>3, <1>6, <2>1, KeyAssumption DEF Pair, Holds
<1>9. CASE ck = NULL
  <2>1. \A k, v : k \in Key => (Holds(key, val', Node, k, v) <=> Holds(key, val, Node, k, v))
    BY <1>1, <1>6, <1>9, KeyAssumption DEF Holds, Hit
  <2>2. op = "Set" /\ pk = NULL
    BY <1>1, <1>2, <1>9 DEF MapInv, Modes
  <2>3. \A k, v : Pair(k, v)' <=> Pair(k, v)
    BY <1>7, <1>8, <2>1, <2>2, KeyAssumption
  <2>4. MapOf' = MapOf
    BY <1>5, <2>3, SameMap
  <2>5. Map!AnswerSet(ck, cv)
    BY <1>3, <1>9, <2>2, <2>4 DEF Map!AnswerSet
  <2> QED
    BY <1>2, <1>3, <1>5, <2>2, <2>5, Answers
<1>10. CASE ck # NULL
  <2>1. cur \in Node /\ ck \in Key /\ key[cur] = ck /\ \A i \in Node : key[i] = ck => i = cur
    BY <1>1, <1>2, <1>10, HitFinds
  <2>2. \A k, v : Holds(key, val', Node, k, v) <=> IF k = ck THEN v = cv ELSE Holds(key, val, Node, k, v)
    BY <1>6, <2>1 DEF Holds
  <2>3. \A k, v : Pair(k, v)' <=> IF k = ck THEN v = cv ELSE Pair(k, v)
    BY <1>2, <1>7, <1>8, <2>1, <2>2, KeyAssumption
  <2>4. MapOf' = Map!With(ck, cv)
    BY <1>5, <2>3, MapWith
  <2>5. CASE op = "NewSlot"
    <3>1. Map!AnswerNewSlot(ck, cv)
      BY <1>3, <2>4 DEF Map!AnswerNewSlot
    <3> QED
      BY <1>2, <1>3, <1>5, <2>5, <3>1, Answers
  <2>6. CASE op = "Set"
    <3>1. Pair(ck, val[cur])
      BY <1>2, <1>7, <1>10, <2>1, <2>6 DEF Holds
    <3>2. ck \in DOMAIN MapOf
      BY <3>1, MapPairs DEF MapIsPairs, MapsTo
    <3>3. Map!AnswerSet(ck, cv)
      BY <1>3, <2>4, <2>6, <3>2 DEF Map!AnswerSet
    <3> QED
      BY <1>2, <1>3, <1>5, <2>6, <3>3, Answers
  <2> QED
    BY <1>1, <2>5, <2>6
<1> QED
  BY <1>9, <1>10

(* Remove empties the node of its key. *)
LEMMA RemoveHitMap ==
  ASSUME Inv, MapInv, Inv', RemoveHit
  PROVE MapInv' /\ MapStep
<1> DEFINE keys == [key EXCEPT ![cur] = NULL]
           vals == [val EXCEPT ![cur] = NULL]
<1>1. Hit /\ op = "Remove" /\ pc = "walk"
  BY DEF RemoveHit, Hit
<1>2. ck # NULL
  BY <1>1 DEF MapInv, Modes
<1>3. ~InRehash /\ Pending = <<op, ck, cv>> /\ pk = NULL
  BY <1>1, HitOutside
<1>4. cur \in Node /\ ck \in Key /\ key[cur] = ck /\ \A i \in Node : key[i] = ck => i = cur
  BY <1>1, <1>2, <1>3, HitFinds
<1>5. keys \in [Node -> Key \cup {NULL}] /\ vals \in [Node -> Value \cup {NULL}]
  BY DEF Inv, TypeOK
<1>6. /\ keys[cur] = NULL /\ \A i \in Node : i # cur => keys[i] = key[i] /\ vals[i] = val[i]
      /\ DOMAIN keys = Node /\ DOMAIN key = Node
  BY <1>4 DEF Inv, TypeOK
<1>7. CASE StartRehash(keys, vals, usednodes - 1) /\ ret' = NULL /\ UNCHANGED <<pk, pv, callVars>>
  <2>1. /\ AllocNodes(RehashSize(usednodes - 1)) /\ usednodes' = 0
        /\ okey' = keys /\ oval' = vals /\ osize' = numofnodes /\ ri' = 0 /\ pc' = "rehash"
        /\ pk' = NULL /\ ret' = NULL
    BY <1>3, <1>7 DEF StartRehash, Oldsize, Inv, TypeOK, MINPOWER2
  <2> HIDE DEF keys, vals
  <2>2. Used(keys) = Used(key) \ {cur} /\ cur \in Used(key)
    BY <1>2, <1>4, <1>6 DEF Used
  <2>3. IsFiniteSet(Used(key)) /\ Cardinality(Used(key)) \in Nat
    BY UsedFinite DEF Inv, TypeOK
  <2>4. Cardinality(Used(keys)) = usednodes - 1
    BY <2>2, <2>3, FS_RemoveElement DEF MapInv, Counted
  <2>5. Cardinality(Used(keys)) \in Nat /\ Cardinality(Used(keys)) <= numofnodes
    BY <1>5, UsedFinite DEF Inv
  <2>6. usednodes - 1 \in Nat
    BY <2>4, <2>5
  <2>7. RehashSize(usednodes - 1) \in Nat
    BY <2>6, RehashSizeOK DEF Inv, Sizes
  <2>8. Cardinality(Used(keys)) < RehashSize(usednodes - 1)
    <3>1. Cardinality(Used(keys)) <= (usednodes - 1) + 1
      BY <2>4, <2>6
    <3> QED
      BY <2>5, <2>6, <3>1, RehashHasRoom DEF Inv
  <2>9. Distinct(keys)
    BY <1>4, <1>6 DEF Distinct, Inv, TableInv, UniqueKeys
  <2>10. MapInv' /\ \A k, v : Pair(k, v)' <=> k \in Key /\ k # pk' /\ Holds(keys, vals, Node, k, v)
    BY <1>5, <2>1, <2>7, <2>8, <2>9, RebuildStarts DEF Inv
  <2>11. ASSUME NEW k, NEW v PROVE Pair(k, v)' <=> k # ck /\ Pair(k, v)
    <3>1. Pair(k, v) <=> k \in Key /\ k # pk /\ Holds(key, val, Node, k, v)
      BY <1>3, PairOutside DEF Inv
    <3>2. k \in Key => (Holds(keys, vals, Node, k, v) <=> k # ck /\ Holds(key, val, Node, k, v))
      BY <1>4, <1>6, KeyAssumption DEF Holds
    <3> QED
      BY <1>3, <2>1, <2>10, <3>1, <3>2
  <2>12. MapOf' = Map!Without(ck)
    BY <2>10, <2>11, MapWithout
  <2>13. Pending' = <<>>
    <3>1. osize' > 0
      BY <2>1 DEF Inv, TypeOK, MINPOWER2
    <3> QED
      BY <2>1, <3>1 DEF Pending, InRehash
  <2>14. Map!AnswerRemove(ck)
    BY <2>1, <2>12 DEF Map!AnswerRemove
  <2> QED
    BY <1>1, <1>3, <2>10, <2>13, <2>14, Answers
<1>8. CASE /\ key' = keys /\ val' = vals
           /\ usednodes' = usednodes - 1
           /\ Return(NULL)
           /\ UNCHANGED <<numofnodes, next, firstfree, callVars>>
  <2>1. /\ pc' = "idle" /\ ret' = NULL /\ pk' = NULL
        /\ Modes' /\ Divided' /\ Waiting' /\ Compact' /\ Room' /\ Pending' = <<>>
        /\ ~InRehash' /\ UNCHANGED <<okey, oval, osize, ri>>
    BY <1>3, <1>8, Returned
  <2>2. Node' = Node /\ key' = keys /\ val' = vals /\ usednodes' = usednodes - 1
    BY <1>8 DEF Node
  <2> HIDE DEF keys, vals
  <2>3. Used(keys) = Used(key) \ {cur} /\ cur \in Used(key)
    BY <1>2, <1>4, <1>6 DEF Used
  <2>4. IsFiniteSet(Used(key)) /\ Cardinality(Used(key)) \in Nat
    BY UsedFinite DEF Inv, TypeOK
  <2>5. Counted'
    BY <2>2, <2>3, <2>4, FS_RemoveElement DEF MapInv, Counted
  <2>6. MapInv'
    BY <2>1, <2>5 DEF MapInv
  <2>7. ASSUME NEW k, NEW v PROVE Pair(k, v)' <=> k # ck /\ Pair(k, v)
    <3>1. Pair(k, v) <=> k \in Key /\ k # pk /\ Holds(key, val, Node, k, v)
      BY <1>3, PairOutside DEF Inv
    <3>2. k \in Key => (Holds(keys, vals, Node, k, v) <=> k # ck /\ Holds(key, val, Node, k, v))
      BY <1>4, <1>6, KeyAssumption DEF Holds
    <3>3. Rest' = {} /\ ~Moving'
      BY <1>3, <2>1, NoRest DEF Inv, Rest, Moving
    <3>4. Pair(k, v)' <=> k \in Key /\ k # pk' /\ Holds(keys, vals, Node, k, v)
      BY <2>2, <3>3 DEF Pair, Holds
    <3> QED
      BY <1>3, <2>1, <3>1, <3>2, <3>4
  <2>8. MapOf' = Map!Without(ck)
    BY <2>6, <2>7, MapWithout
  <2>9. Map!AnswerRemove(ck)
    BY <2>1, <2>8 DEF Map!AnswerRemove
  <2> QED
    BY <1>1, <1>3, <2>1, <2>6, <2>9, Answers
<1> QED
  BY <1>7, <1>8 DEF RemoveHit

(* Get, Set and Remove do not find their key. *)
LEMMA MissAbsentMap ==
  ASSUME Inv, MapInv, Inv', MissAbsent
  PROVE MapInv' /\ MapStep
<1>1. /\ Miss /\ pc = "walk" /\ op # "NewSlot" /\ op # "none" /\ (op # "Set" => ck # NULL)
      /\ Return(IF op = "Remove" THEN NULL ELSE FALSE)
      /\ UNCHANGED <<numofnodes, key, val, next, firstfree, usednodes, op, ck, cv, cur>>
  BY DEF MissAbsent, Miss, tableVars, callVars, MapInv, Modes
<1>2. ~InRehash /\ pk = NULL /\ Pending = <<op, ck, cv>>
  BY <1>1 DEF MapInv, Modes, Moving, Waiting, Pending
<1>3. /\ pc' = "idle" /\ ret' = (IF op = "Remove" THEN NULL ELSE FALSE) /\ pk' = NULL
      /\ Modes' /\ Divided' /\ Waiting' /\ Compact' /\ Room' /\ Pending' = <<>>
      /\ ~InRehash' /\ UNCHANGED <<okey, oval, osize, ri>>
  <2>1. PICK r : r = IF op = "Remove" THEN NULL ELSE FALSE
    OBVIOUS
  <2>2. Return(r)
    BY <1>1, <2>1
  <2>3. /\ pc' = "idle" /\ ret' = r /\ pk' = NULL
        /\ Modes' /\ Divided' /\ Waiting' /\ Compact' /\ Room' /\ Pending' = <<>>
        /\ ~InRehash' /\ UNCHANGED <<okey, oval, osize, ri>>
    BY <1>2, <2>2, Returned
  <2> QED
    BY <2>1, <2>3
<1>4. Counted'
  BY <1>1 DEF MapInv, Counted
<1>5. MapInv'
  BY <1>3, <1>4 DEF MapInv
<1>6. \A k, v : Pair(k, v)' <=> Pair(k, v)
  BY <1>1, <1>2, <1>3 DEF Pair, Holds, Moving, Rest, Node
<1>7. MapOf' = MapOf
  BY <1>5, <1>6, SameMap
<1>8. \A v : ~Pair(ck, v)
  <2>1. ck # NULL => \A i \in Node : key[i] # ck
    BY <1>1, MissIsAbsent DEF Inv, LoopInv
  <2>2. \A v : Pair(ck, v) => ck \in Key /\ Holds(key, val, Node, ck, v)
    BY <1>2, PairOutside DEF Inv
  <2> QED
    BY <2>1, <2>2, KeyAssumption DEF Holds
<1>9. ck \notin DOMAIN MapOf
  BY <1>8, MapPairs DEF MapIsPairs, MapsTo
<1>10. op \in {"Get", "Set", "Remove"}
  BY <1>1 DEF Inv, TypeOK
<1>11. CASE op = "Get"
  <2>1. Map!AnswerGet(ck)
    BY <1>3, <1>7, <1>9, <1>11 DEF Map!AnswerGet
  <2> QED
    BY <1>2, <1>3, <1>5, <1>11, <2>1, Answers
<1>12. CASE op = "Set"
  <2>1. Map!AnswerSet(ck, cv)
    BY <1>3, <1>7, <1>9, <1>12 DEF Map!AnswerSet
  <2> QED
    BY <1>2, <1>3, <1>5, <1>12, <2>1, Answers
<1>13. CASE op = "Remove"
  <2>1. \A k, v : Pair(k, v)' <=> k # ck /\ Pair(k, v)
    BY <1>6, <1>8
  <2>2. MapOf' = Map!Without(ck)
    BY <1>5, <2>1, MapWithout
  <2>3. Map!AnswerRemove(ck)
    BY <1>3, <1>13, <2>2 DEF Map!AnswerRemove
  <2> QED
    BY <1>2, <1>3, <1>5, <1>13, <2>3, Answers
<1> QED
  BY <1>10, <1>11, <1>12, <1>13
-----------------------------------------------------------------------------
(* The loop of Rehash skips an empty node. *)
LEMMA RehashSkipMap ==
  ASSUME Inv, MapInv, Inv', RehashSkip
  PROVE MapInv' /\ MapStep
<1>1. /\ pc = "rehash" /\ pc' = "rehash" /\ ri < osize /\ okey[ri] = NULL /\ ri' = ri + 1
      /\ UNCHANGED <<numofnodes, key, val, next, firstfree, usednodes>>
      /\ UNCHANGED <<op, ck, cv, okey, oval, osize, pk, pv, ret>>
  BY DEF RehashSkip, tableVars, callVars
<1>2. /\ InRehash /\ InRehash' /\ ~Moving /\ ~Moving' /\ Node' = Node
      /\ Rest = Rest' \cup {ri} /\ ri \notin Rest'
  BY <1>1 DEF InRehash, Moving, Node, Rest, Inv, TypeOK
<1>3. \A k : k # NULL => (Present(okey, Rest', k) <=> Present(okey, Rest, k))
  BY <1>1, <1>2 DEF Present
<1>4. Left' = Left
  BY <1>1, <1>2 DEF Left
<1>5. Modes' /\ Counted' /\ Compact'
  BY <1>1, <1>2 DEF MapInv, Modes, Counted, Compact
<1>6. Divided'
  BY <1>1, <1>2 DEF MapInv, Divided
<1>7. Waiting'
  BY <1>1, <1>2, <1>3 DEF MapInv, Waiting
<1>8. Room'
  BY <1>1, <1>2, <1>4 DEF MapInv, Room
<1>9. MapInv'
  BY <1>5, <1>6, <1>7, <1>8 DEF MapInv
<1>10. ASSUME NEW k, NEW v PROVE Pair(k, v)' <=> Pair(k, v)
  <2>1. k \in Key => (Holds(okey, oval, Rest', k, v) <=> Holds(okey, oval, Rest, k, v))
    BY <1>1, <1>2, KeyAssumption DEF Holds
  <2> QED
    BY <1>1, <1>2, <2>1 DEF Pair
<1>11. UNCHANGED <<Pending, ret>>
  BY <1>1, <1>2 DEF Pending
<1> QED
  BY <1>9, <1>10, <1>11, Unseen

(* The loop of Rehash takes a pair out of the old array and calls NewSlot. *)
LEMMA RehashInsertMap ==
  ASSUME Inv, MapInv, Inv', RehashInsert
  PROVE MapInv' /\ MapStep
<1>1. /\ pc = "rehash" /\ pc' = "walk" /\ ri < osize /\ okey[ri] # NULL /\ ri' = ri + 1
      /\ op' = "NewSlot" /\ ck' = okey[ri] /\ cv' = oval[ri]
      /\ UNCHANGED <<numofnodes, key, val, next, firstfree, usednodes>>
      /\ UNCHANGED <<okey, oval, osize, pk, pv, ret>>
  BY DEF RehashInsert, Begin, tableVars
<1>2. /\ InRehash /\ InRehash' /\ ~Moving /\ Moving' /\ Node' = Node
      /\ Rest = Rest' \cup {ri} /\ ri \notin Rest' /\ ri \in Rest
  BY <1>1 DEF InRehash, Moving, Node, Rest, Inv, TypeOK
<1>3. \A k : Present(okey, Rest, k) <=> k = okey[ri] \/ Present(okey, Rest', k)
  BY <1>2 DEF Present
<1>4. ~Present(okey, Rest', okey[ri]) /\ ~Present(key, Node, okey[ri])
  BY <1>1, <1>2 DEF MapInv, Divided, Present
<1>5. Modes' /\ Counted' /\ Compact'
  BY <1>1, <1>2 DEF MapInv, Modes, Counted, Compact
<1>6. Divided'
  BY <1>1, <1>2, <1>4 DEF MapInv, Divided
<1>7. Waiting'
  BY <1>1, <1>2, <1>3 DEF MapInv, Waiting
<1>8. Room'
  <2>1. Left = Left' \cup {ri} /\ ri \notin Left' /\ Left' = Left \ {ri} /\ ri \in Left
    BY <1>1, <1>2 DEF Left
  <2>2. IsFiniteSet(Left) /\ Cardinality(Left) \in Nat
    BY LeftFinite DEF Inv
  <2>3. Cardinality(Left') = Cardinality(Left) - 1
    BY <2>1, <2>2, FS_RemoveElement
  <2>4. Cardinality(Used(key)) \in Nat /\ numofnodes \in Nat
    BY UsedFinite DEF Inv, TypeOK
  <2>5. Cardinality(Used(key)) + Cardinality(Left) < numofnodes
    BY <1>2, <2>2, <2>4 DEF MapInv, Room
  <2>6. Cardinality(Used(key)) + Cardinality(Left') + 1 < numofnodes
    BY <2>2, <2>3, <2>4, <2>5
  <2> QED
    BY <1>1, <1>2, <2>6 DEF Room
<1>9. MapInv'
  BY <1>5, <1>6, <1>7, <1>8 DEF MapInv
<1>10. ASSUME NEW k, NEW v PROVE Pair(k, v)' <=> Pair(k, v)
  <2>1. Holds(okey, oval, Rest, k, v) <=> (k = okey[ri] /\ v = oval[ri]) \/ Holds(okey, oval, Rest', k, v)
    BY <1>2 DEF Holds
  <2> QED
    BY <1>1, <1>2, <2>1 DEF Pair
<1>11. UNCHANGED <<Pending, ret>>
  BY <1>1, <1>2 DEF Pending
<1> QED
  BY <1>9, <1>10, <1>11, Unseen

(* Rehash ends; a NewSlot that waits for it is called again. *)
LEMMA RehashEndMap ==
  ASSUME Inv, MapInv, Inv', RehashEnd
  PROVE MapInv' /\ MapStep
<1>1. /\ pc = "rehash" /\ ri = osize /\ osize' = 0 /\ ri' = 0
      /\ UNCHANGED <<numofnodes, key, val, next, firstfree, usednodes, pk, pv, ret>>
  BY DEF RehashEnd, tableVars
<1>2. /\ InRehash /\ ~InRehash' /\ ~Moving /\ ~Moving' /\ Node' = Node /\ Rest = {} /\ Rest' = {}
  BY <1>1 DEF InRehash, Moving, Node, Rest, Inv, TypeOK, MapInv, Modes
<1>3. pk # NULL => Present(key, Node, pk)
  BY <1>2 DEF MapInv, Waiting, Present
<1>4. Counted' /\ Compact' /\ Room' /\ Divided'
  BY <1>1, <1>2 DEF MapInv, Counted, Compact, Room, Divided
<1>5. \A k, v : Pair(k, v)' <=> Pair(k, v)
  BY <1>1, <1>2 DEF Pair, Holds
<1>6. CASE pk = NULL
  <2>1. pc' = "idle"
    BY <1>6 DEF RehashEnd
  <2>2. Modes' /\ Waiting'
    BY <1>1, <1>2, <1>6, <2>1 DEF Modes, Waiting
  <2>3. MapInv'
    BY <1>4, <2>2 DEF MapInv
  <2>4. UNCHANGED <<Pending, ret>>
    BY <1>1, <1>2, <1>6, <2>1 DEF Pending
  <2> QED
    BY <1>5, <2>3, <2>4, Unseen
<1>7. CASE pk # NULL
  <2>1. pc' = "walk" /\ op' = "NewSlot" /\ ck' = pk /\ cv' = pv
    BY <1>7 DEF RehashEnd, Begin
  <2>2. Modes'
    BY <1>1, <1>2, <1>7, <2>1 DEF Modes
  <2>3. Waiting'
    BY <1>1, <1>2, <1>3, <2>1 DEF Waiting, Present
  <2>4. MapInv'
    BY <1>4, <2>2, <2>3 DEF MapInv
  <2>5. UNCHANGED <<Pending, ret>>
    BY <1>1, <1>2, <1>7, <2>1 DEF Pending
  <2> QED
    BY <1>5, <2>4, <2>5, Unseen
<1> QED
  BY <1>6, <1>7

(* The constructor works on an empty table. *)
LEMMA CreateMap ==
  ASSUME Inv, MapInv, Inv', CreateGrow \/ CreateDone
  PROVE MapInv' /\ MapStep
<1>1. /\ pc = "create" /\ pc' \in {"create", "idle"}
      /\ UNCHANGED <<usednodes, okey, oval, osize, ri, pk, pv, ret>>
  BY DEF CreateGrow, CreateDone, tableVars, rehashVars
<1>2. osize = 0 /\ pk = NULL /\ ~InRehash /\ ~InRehash' /\ \A i \in Node : key[i] = NULL
  BY <1>1 DEF MapInv, Modes, InRehash
<1>3. Rest = {} /\ Rest' = {} /\ ~Moving /\ ~Moving'
  BY <1>1, <1>2, NoRest DEF Inv, Rest, Moving
<1>4. DOMAIN key = Node /\ DOMAIN key' = Node' /\ \A i \in Node' : key'[i] = NULL
  BY <1>2 DEF CreateGrow, CreateDone, AllocNodes, Node, tableVars, Inv, TypeOK
<1>5. Used(key) = {} /\ Used(key') = {}
  BY <1>2, <1>4 DEF Used
<1>6. Counted'
  BY <1>1, <1>5 DEF MapInv, Counted
<1>7. Modes' /\ Divided' /\ Waiting' /\ Compact' /\ Room'
  BY <1>1, <1>2, <1>3, <1>4 DEF Modes, Divided, Waiting, Compact, Room
<1>8. MapInv'
  BY <1>6, <1>7 DEF MapInv
<1>9. \A k, v : ~Pair(k, v) /\ ~Pair(k, v)'
  BY <1>2, <1>3, <1>4, KeyAssumption DEF Pair, Holds
<1>10. UNCHANGED <<Pending, ret>>
  BY <1>1 DEF Pending
<1> QED
  BY <1>8, <1>9, <1>10, Unseen
-----------------------------------------------------------------------------
(* A new table is an empty map to which no call has been made. *)
LEMMA InitMap ==
  ASSUME Init
  PROVE MapInv /\ Map!Init
<1>1. Inv
  BY InitInv
<1>2. /\ osize = 0 /\ ri = 0 /\ pk = NULL /\ pc = "create" /\ usednodes = 0 /\ ret = NULL
      /\ ~InRehash
  BY DEF Init, InRehash
<1>3. DOMAIN key = Node /\ \A i \in Node : key[i] = NULL
  BY DEF Init, Node
<1>4. Rest = {} /\ ~Moving
  BY <1>1, <1>2, NoRest DEF Inv
<1>5. Counted
  <2>1. Used(key) = {}
    BY <1>3 DEF Used
  <2> QED
    BY <1>2, <2>1, FS_EmptySet DEF Counted
<1>6. Modes /\ Divided /\ Waiting /\ Compact /\ Room
  BY <1>2, <1>3, <1>4 DEF Modes, Divided, Waiting, Compact, Room
<1>7. MapInv
  BY <1>5, <1>6 DEF MapInv
<1>8. NoPairs
  BY <1>3, <1>4, KeyAssumption DEF NoPairs, Pair, Holds
<1>9. MapOf = [k \in {} |-> NULL]
  BY <1>1, <1>7, <1>8, MapEmpty DEF EmptyMap
<1> QED
  BY <1>2, <1>7, <1>9 DEF Map!Init, Pending

(* Every step of the table is a step of the map or none. *)
LEMMA StepMap ==
  ASSUME Inv, MapInv, [Next]_vars
  PROVE MapInv' /\ MapStep
<1>0. Inv'
  BY InvStep
<1>1. CASE UNCHANGED vars
  <2>1. /\ UNCHANGED <<numofnodes, key, val, next, firstfree, usednodes, pc>>
        /\ UNCHANGED <<op, ck, cv, okey, oval, osize, ri, pk, pv, ret>>
    BY <1>1 DEF vars, tableVars, callVars, rehashVars
  <2>2. MapInv'
    BY <2>1 DEF MapInv, Modes, Divided, Waiting, Counted, Compact, Room, Present, Moving,
       InRehash, Rest, Left, Node
  <2>3. \A k, v : Pair(k, v)' <=> Pair(k, v)
    BY <2>1 DEF Pair, Holds, Moving, InRehash, Rest, Node
  <2>4. UNCHANGED <<Pending, ret>>
    BY <2>1 DEF Pending, InRehash
  <2> QED
    BY <1>0, <2>2, <2>3, <2>4, Unseen
<1>2. CASE \E k \in Key : Get(k) \/ Remove(k)
  BY <1>0, <1>2, CallMap, KeyAssumption DEF Get, Remove
<1>3. CASE \E k \in Key \cup {NULL}, v \in Value \cup {NULL} : Set(k, v)
  BY <1>0, <1>3, CallMap DEF Set
<1>4. CASE \E k \in Key, v \in Value \cup {NULL} : NewSlot(k, v)
  BY <1>0, <1>4, CallMap, KeyAssumption DEF NewSlot
<1>5. CASE Clear
  BY <1>0, <1>5, ClearMap
<1>6. CASE Clone
  BY <1>0, <1>6, CloneMap
<1>7. CASE WalkNext \/ FindPrevious \/ PreviousNext
  BY <1>0, <1>7, WalkMap
<1>8. CASE GetHit
  BY <1>0, <1>8, GetHitMap
<1>9. CASE SetHit
  BY <1>0, <1>9, SetHitMap
<1>10. CASE RemoveHit
  BY <1>0, <1>10, RemoveHitMap
<1>11. CASE MissAbsent
  BY <1>0, <1>11, MissAbsentMap
<1>12. CASE InsertAtMain \/ MoveColliding \/ InsertChained
  BY <1>0, <1>12, InsertMap DEF Insert
<1>13. CASE RehashSkip
  BY <1>0, <1>13, RehashSkipMap
<1>14. CASE RehashInsert
  BY <1>0, <1>14, RehashInsertMap
<1>15. CASE RehashEnd
  BY <1>0, <1>15, RehashEndMap
<1>16. CASE CreateGrow \/ CreateDone
  BY <1>0, <1>16, CreateMap
<1> QED
  BY <1>1, <1>2, <1>3, <1>4, <1>5, <1>6, <1>7, <1>8, <1>9, <1>10, <1>11, <1>12,
     <1>13, <1>14, <1>15, <1>16 DEF Next, Call, Step

(* The hash table of sqtable.cpp implements the map: each call takes       *)
(* effect at once, with its own key and value only, and the walks, moves   *)
(* and rebuilds behind it are invisible.                                   *)
THEOREM TableImplementsMap == Spec => ImplementsMap
<1>1. Init => Inv /\ MapInv /\ Map!Init
  BY InitInv, InitMap
<1>2. Inv /\ MapInv /\ [Next]_vars => Inv' /\ MapInv' /\ MapStep
  BY InvStep, StepMap
<1> QED
  BY <1>1, <1>2, PTL DEF Spec, ImplementsMap, Map!Spec, MapStep

(* _usednodes, from which Remove and Rehash compute the size of the array, *)
(* is the number of keys at every step of sqtable.cpp.                     *)
THEOREM UsedNodesExact == Spec => []Counted
<1>1. Init => Inv /\ MapInv
  BY InitInv, InitMap
<1>2. Inv /\ MapInv /\ [Next]_vars => Inv' /\ MapInv'
  BY InvStep, StepMap
<1>3. MapInv => Counted
  BY DEF MapInv
<1> QED
  BY <1>1, <1>2, <1>3, PTL DEF Spec

(* A Rehash never starts inside the loop of another, which would lose the  *)
(* pairs not yet moved: there is room for all of them and one node more.   *)
THEOREM RehashAlwaysHasRoom == Spec => []Room
<1>1. Init => Inv /\ MapInv
  BY InitInv, InitMap
<1>2. Inv /\ MapInv /\ [Next]_vars => Inv' /\ MapInv'
  BY InvStep, StepMap
<1>3. MapInv => Room
  BY DEF MapInv
<1> QED
  BY <1>1, <1>2, <1>3, PTL DEF Spec
=============================================================================

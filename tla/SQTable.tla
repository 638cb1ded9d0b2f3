------------------------------ MODULE SQTable ------------------------------
(***************************************************************************)
(* The hash table of the Squirrel VM: SQTable in squirrel/sqtable.h and    *)
(* squirrel/sqtable.cpp.                                                   *)
(*                                                                         *)
(* A table is an array of _numofnodes nodes (key, val, next).  A key is    *)
(* stored in its main position (its hash modulo the array size) or in a    *)
(* node taken from the free pointer _firstfree and linked into the chain   *)
(* that starts at its main position.  Removing a key empties the node but  *)
(* leaves its link in place; the array is rebuilt (Rehash) when it runs    *)
(* out of free nodes, and when a Remove leaves it too full or too empty.   *)
(*                                                                         *)
(* Every loop of the code that follows links is modelled one iteration per *)
(* step (pc tells which loop is running), so that what the loops compute   *)
(* is a consequence of an invariant and their termination a liveness       *)
(* property.  The table is single threaded: an operation starts only when  *)
(* pc = "idle" and then runs to its end.                                   *)
(***************************************************************************)
EXTENDS Integers, FiniteSets

CONSTANTS
  Key,          \* the objects used as keys; null is not one of them
  Value,        \* the objects stored, null excepted
  NULL,         \* OT_NULL: no key in this node, or the value null
  Hash,         \* HashObj: the hash of each key
  InitialSizes  \* the nInitialSize arguments that SQTable::Create is called with

ASSUME KeyAssumption == NULL \notin Key /\ NULL \notin Value
ASSUME HashAssumption == Hash \in [Key -> Nat]
ASSUME SizeAssumption == InitialSizes \subseteq Nat

VARIABLES
  numofnodes, key, val, next, firstfree, usednodes,  \* the fields of SQTable
  pc,                   \* the loop that is running
  op, ck, cv, cur,      \* the call: its name, its key and val, the cursor of its loop
  okey, oval, osize, ri,  \* Rehash: nold, its size (0: no Rehash is running), the index i
  pk, pv,               \* the NewSlot that waits for Rehash(true) to return
  ret                   \* what the last call returned

tableVars == <<numofnodes, key, val, next, firstfree, usednodes>>
callVars == <<op, ck, cv, cur>>
rehashVars == <<okey, oval, osize, ri, pk, pv>>
vars == <<tableVars, pc, callVars, rehashVars, ret>>

MINPOWER2 == 4
NIL == -1                   \* the null node pointer
Node == 0 .. numofnodes - 1

(* HashObj: null hashes to the null pointer. *)
HashObj(k) == IF k = NULL THEN 0 ELSE Hash[k]

(* HashObj(key) & (_numofnodes - 1); the size is a power of two. *)
MainPos(k) == HashObj(k) % numofnodes

InRehash == osize > 0
-----------------------------------------------------------------------------
NoNodes == [n \in {} |-> NULL]

AllocNodes(size) ==
  /\ numofnodes' = size
  /\ key' = [n \in 0 .. size - 1 |-> NULL]
  /\ val' = [n \in 0 .. size - 1 |-> NULL]
  /\ next' = [n \in 0 .. size - 1 |-> NIL]
  /\ firstfree' = size - 1

(* prevent problems with the integer division *)
Oldsize == IF numofnodes < 4 THEN 4 ELSE numofnodes

(* The size that Rehash allocates for nelems elements. *)
RehashSize(nelems) ==
  IF nelems >= Oldsize - (Oldsize \div 4) THEN Oldsize * 2
  ELSE IF nelems <= Oldsize \div 4 /\ Oldsize > MINPOWER2 THEN Oldsize \div 2
  ELSE Oldsize

(* Rehash up to its loop; keys and vals are the node array it starts from. *)
StartRehash(keys, vals, nelems) ==
  /\ AllocNodes(RehashSize(nelems))
  /\ usednodes' = 0
  /\ okey' = keys /\ oval' = vals /\ osize' = Oldsize /\ ri' = 0
  /\ pc' = "rehash"

(* A call returns r: to the loop of Rehash if that made the call. *)
Return(r) ==
  IF InRehash
  THEN pc' = "rehash" /\ UNCHANGED <<ret, rehashVars>>
  ELSE /\ pc' = "idle"
       /\ ret' = r
       /\ pk' = NULL /\ pv' = NULL
       /\ UNCHANGED <<okey, oval, osize, ri>>

(* The constructor doubles pow2size (here numofnodes, nothing is in the     *)
(* nodes yet) from MINPOWER2 until it reaches nInitialSize (here cur).     *)
Init ==
  /\ numofnodes = MINPOWER2
  /\ key = [n \in 0 .. MINPOWER2 - 1 |-> NULL]
  /\ val = [n \in 0 .. MINPOWER2 - 1 |-> NULL]
  /\ next = [n \in 0 .. MINPOWER2 - 1 |-> NIL]
  /\ firstfree = MINPOWER2 - 1
  /\ usednodes = 0
  /\ pc = "create"
  /\ cur \in InitialSizes
  /\ op = "none" /\ ck = NULL /\ cv = NULL
  /\ okey = NoNodes /\ oval = NoNodes /\ osize = 0 /\ ri = 0
  /\ pk = NULL /\ pv = NULL
  /\ ret = NULL

CreateGrow ==
  /\ pc = "create" /\ cur > numofnodes
  /\ AllocNodes(numofnodes * 2)
  /\ UNCHANGED <<usednodes, pc, callVars, rehashVars, ret>>

CreateDone ==
  /\ pc = "create" /\ cur <= numofnodes
  /\ pc' = "idle"
  /\ UNCHANGED <<tableVars, callVars, rehashVars, ret>>
-----------------------------------------------------------------------------
(* A call enters _Get at the main position of its key. *)
Begin(o, k, v) ==
  /\ op' = o /\ ck' = k /\ cv' = v
  /\ cur' = MainPos(k)
  /\ pc' = "walk"

(* SQTable::Get returns false for null before it looks. *)
Get(k) ==
  /\ pc = "idle"
  /\ Begin("Get", k, NULL)
  /\ UNCHANGED <<tableVars, rehashVars, ret>>

(* SQTable::Set does not exclude null. *)
Set(k, v) ==
  /\ pc = "idle"
  /\ Begin("Set", k, v)
  /\ UNCHANGED <<tableVars, rehashVars, ret>>

NewSlot(k, v) ==
  /\ pc = "idle"
  /\ Begin("NewSlot", k, v)
  /\ UNCHANGED <<tableVars, rehashVars, ret>>

Remove(k) ==
  /\ pc = "idle"
  /\ Begin("Remove", k, NULL)
  /\ UNCHANGED <<tableVars, rehashVars, ret>>

(* Clear empties every node, then Rehash(true) finds nothing to reinsert. *)
Clear ==
  /\ pc = "idle"
  /\ AllocNodes(RehashSize(0))
  /\ usednodes' = 0
  /\ ret' = NULL
  /\ UNCHANGED <<pc, callVars, rehashVars>>

(* Clone reinserts the pairs, in node order, in a table of the same size;  *)
(* the model goes on with the clone.                                       *)
Clone ==
  /\ pc = "idle"
  /\ AllocNodes(numofnodes)
  /\ usednodes' = 0
  /\ okey' = key /\ oval' = val /\ osize' = numofnodes /\ ri' = 0
  /\ pc' = "rehash"
  /\ UNCHANGED <<callVars, pk, pv, ret>>
-----------------------------------------------------------------------------
(* The loop of _Get. *)
Hit == pc = "walk" /\ key[cur] = ck
Miss == pc = "walk" /\ key[cur] # ck /\ next[cur] = NIL

(* Mutant: the loop does not stop at the end of the chain. *)
MutWalkNext ==
  /\ pc = "walk" /\ key[cur] # ck
  /\ cur' = next[cur]
  /\ UNCHANGED <<tableVars, pc, op, ck, cv, rehashVars, ret>>

WalkNext ==
  /\ pc = "walk" /\ key[cur] # ck /\ next[cur] # NIL
  /\ cur' = next[cur]
  /\ UNCHANGED <<tableVars, pc, op, ck, cv, rehashVars, ret>>

GetHit ==
  /\ Hit /\ op = "Get"
  /\ Return(val[cur])
  /\ UNCHANGED <<tableVars, callVars>>

(* Set, and NewSlot on a key that is present: overwrite the value. *)
SetHit ==
  /\ Hit /\ op \in {"Set", "NewSlot"}
  /\ val' = [val EXCEPT ![cur] = cv]
  /\ Return(op = "Set")
  /\ UNCHANGED <<numofnodes, key, next, firstfree, usednodes, callVars>>

(* Mutant: Remove also cuts the link of the node it empties. *)
MutRemoveHit ==
  /\ Hit /\ op = "Remove"
  /\ key' = [key EXCEPT ![cur] = NULL] /\ val' = [val EXCEPT ![cur] = NULL]
  /\ next' = [next EXCEPT ![cur] = NIL]
  /\ usednodes' = usednodes - 1
  /\ Return(NULL)
  /\ UNCHANGED <<numofnodes, firstfree, callVars>>

(* Remove empties the node, keeps its link, and ends in Rehash(false). *)
RemoveHit ==
  /\ Hit /\ op = "Remove"
  /\ LET keys == [key EXCEPT ![cur] = NULL]
         vals == [val EXCEPT ![cur] = NULL]
     IN IF RehashSize(usednodes - 1) # Oldsize
        THEN /\ StartRehash(keys, vals, usednodes - 1)
             /\ ret' = NULL
             /\ UNCHANGED <<pk, pv>>
        ELSE /\ key' = keys /\ val' = vals
             /\ usednodes' = usednodes - 1
             /\ Return(NULL)
             /\ UNCHANGED <<numofnodes, next, firstfree>>
  /\ UNCHANGED callVars

(* Get and Set return false, Remove returns: nothing changes. *)
MissAbsent ==
  /\ Miss /\ op # "NewSlot"
  /\ Return(IF op = "Remove" THEN NULL ELSE FALSE)
  /\ UNCHANGED <<tableVars, callVars>>
-----------------------------------------------------------------------------
(* NewSlot once _Get has failed: the new key is in node p of keys/links.   *)
(* The loop that corrects _firstfree stops at the next free node at or     *)
(* below it; if there is none the table is rebuilt with the key already in *)
(* place, its value still unset, and NewSlot is called again.  The model   *)
(* keeps the locals of one Rehash: of another inside its loop, which would *)
(* take its pairs away, ImplementsMap would show the loss.                 *)
Settle(p, keys, vals, links) ==
  LET free == {j \in 0 .. firstfree : keys[j] = NULL /\ links[j] = NIL} IN
  \/ \E f \in free :
       /\ \A g \in free : g <= f
       /\ firstfree' = f
       /\ key' = keys /\ next' = links
       /\ val' = [vals EXCEPT ![p] = cv]
       /\ usednodes' = usednodes + 1
       /\ Return(TRUE)
       /\ UNCHANGED <<numofnodes, callVars>>
  \/ /\ free = {}
     /\ StartRehash(keys, vals, usednodes)
     /\ pk' = ck /\ pv' = cv
     /\ UNCHANGED <<callVars, ret>>

(* The main position is empty: the key goes there, whatever its link. *)
InsertAtMain ==
  /\ Miss /\ op = "NewSlot"
  /\ LET mp == MainPos(ck) IN
     /\ key[mp] = NULL
     /\ Settle(mp, [key EXCEPT ![mp] = ck], val, next)

(* The colliding key is not in its own main position: look for the node    *)
(* that links to it, starting from that main position.                     *)
IsStray(mp) == mp > firstfree /\ MainPos(key[mp]) # mp

FindPrevious ==
  /\ Miss /\ op = "NewSlot"
  /\ LET mp == MainPos(ck) IN
     /\ key[mp] # NULL /\ IsStray(mp)
     /\ cur' = MainPos(key[mp])
  /\ pc' = "prev"
  /\ UNCHANGED <<tableVars, op, ck, cv, rehashVars, ret>>

PreviousNext ==
  /\ pc = "prev" /\ next[cur] # MainPos(ck)
  /\ next[cur] # NIL          \* assert(othern->next != NULL)
  /\ cur' = next[cur]
  /\ UNCHANGED <<tableVars, pc, op, ck, cv, rehashVars, ret>>

(* Move the colliding key to the free node, then take its place. *)
MoveColliding ==
  /\ pc = "prev" /\ next[cur] = MainPos(ck)
  /\ LET mp == MainPos(ck)
         n == firstfree
     IN Settle(mp,
               [key EXCEPT ![n] = key[mp], ![mp] = ck],
               [val EXCEPT ![n] = val[mp], ![mp] = NULL],
               [next EXCEPT ![cur] = n, ![n] = next[mp], ![mp] = NIL])

(* Mutant: mp->next = n comes before n->next = mp->next. *)
MutInsertChained ==
  /\ Miss /\ op = "NewSlot"
  /\ LET mp == MainPos(ck)
         n == firstfree
     IN /\ key[mp] # NULL /\ ~IsStray(mp)
        /\ Settle(n,
                  [key EXCEPT ![n] = ck],
                  val,
                  [next EXCEPT ![mp] = n, ![n] = n])

(* The colliding key is at home: the new key goes to the free node, linked *)
(* right after the main position.                                          *)
InsertChained ==
  /\ Miss /\ op = "NewSlot"
  /\ LET mp == MainPos(ck)
         n == firstfree
     IN /\ key[mp] # NULL /\ ~IsStray(mp)
        /\ Settle(n,
                  [key EXCEPT ![n] = ck],
                  val,
                  [next EXCEPT ![n] = next[mp], ![mp] = n])
-----------------------------------------------------------------------------
(* The loop of Rehash: skip an empty node, or reinsert its pair. *)
RehashSkip ==
  /\ pc = "rehash" /\ ri < osize
  /\ okey[ri] = NULL
  /\ ri' = ri + 1
  /\ UNCHANGED <<tableVars, pc, callVars, okey, oval, osize, pk, pv, ret>>

RehashInsert ==
  /\ pc = "rehash" /\ ri < osize
  /\ okey[ri] # NULL
  /\ Begin("NewSlot", okey[ri], oval[ri])
  /\ ri' = ri + 1
  /\ UNCHANGED <<tableVars, okey, oval, osize, pk, pv, ret>>

(* Mutant: the loop stops one node early. *)
MutRehashEnd ==
  /\ pc = "rehash" /\ ri = osize - 1
  /\ okey' = NoNodes /\ oval' = NoNodes /\ osize' = 0 /\ ri' = 0
  /\ IF pk = NULL
     THEN pc' = "idle" /\ UNCHANGED callVars
     ELSE Begin("NewSlot", pk, pv)
  /\ UNCHANGED <<tableVars, pk, pv, ret>>

(* The old array is freed; a NewSlot that was waiting is called again. *)
RehashEnd ==
  /\ pc = "rehash" /\ ri = osize
  /\ okey' = NoNodes /\ oval' = NoNodes /\ osize' = 0 /\ ri' = 0
  /\ IF pk = NULL
     THEN pc' = "idle" /\ UNCHANGED callVars
     ELSE Begin("NewSlot", pk, pv)
  /\ UNCHANGED <<tableVars, pk, pv, ret>>
-----------------------------------------------------------------------------
Call ==
  \/ \E k \in Key : Get(k) \/ Remove(k)
  \/ \E k \in Key \cup {NULL}, v \in Value \cup {NULL} : Set(k, v)
  \/ \E k \in Key, v \in Value \cup {NULL} : NewSlot(k, v)
  \/ Clear
  \/ Clone

Step ==
  \/ WalkNext \/ GetHit \/ SetHit \/ RemoveHit \/ MissAbsent
  \/ InsertAtMain \/ FindPrevious \/ PreviousNext \/ MoveColliding \/ InsertChained
  \/ RehashSkip \/ RehashInsert \/ RehashEnd
  \/ CreateGrow \/ CreateDone

Next == Call \/ Step

Spec == Init /\ [][Next]_vars

(* A call that has begun runs on: nothing else can stop its thread. *)
FairSpec == Spec /\ WF_vars(Step)
-----------------------------------------------------------------------------
(* The fields and the registers have the types of their declarations. *)
TypeOK ==
  /\ numofnodes \in Nat /\ numofnodes >= MINPOWER2
  /\ key \in [Node -> Key \cup {NULL}]
  /\ val \in [Node -> Value \cup {NULL}]
  /\ next \in [Node -> Node \cup {NIL}]
  /\ firstfree \in Node
  /\ usednodes \in Int
  /\ pc \in {"create", "idle", "walk", "prev", "rehash"}
  /\ op \in {"none", "Get", "Set", "NewSlot", "Remove"}
  /\ ck \in Key \cup {NULL} /\ cv \in Value \cup {NULL}
  /\ cur \in Nat /\ (pc \in {"walk", "prev"} => cur \in Node)
  /\ osize \in Nat /\ ri \in 0 .. osize
  /\ okey \in [0 .. osize - 1 -> Key \cup {NULL}]
  /\ oval \in [0 .. osize - 1 -> Value \cup {NULL}]
  /\ pk \in Key \cup {NULL} /\ pv \in Value \cup {NULL}
  /\ ret \in Value \cup {NULL} \cup BOOLEAN

(* A call on a key that fails to find it (sqtable.h, the end of the loop   *)
(* of _Get) is right: the key is in no node of the array, so no insertion, *)
(* move, removal or rebuild has cut a key off its chain.                   *)
LookupSound == Miss /\ ck # NULL => \A i \in Node : key[i] # ck

(* No two nodes hold the same key: _Get never overlooked one when NewSlot  *)
(* inserted it.                                                            *)
UniqueKeys == \A i, j \in Node : key[i] = key[j] /\ key[i] # NULL => i = j

(* assert(othern->next != NULL) in NewSlot: the loop that looks for the    *)
(* node before the colliding one never runs off the chain.                 *)
PreviousExists == pc = "prev" => next[cur] # NIL

(* Every call returns: the chains have no cycle for a loop to follow.      *)
CallsReturn == (pc # "idle") ~> (pc = "idle")

-----------------------------------------------------------------------------
(* The shape of the array behind LookupSound.                              *)
Closed(S) == \A i \in S : next[i] # NIL => next[i] \in S

(* Node p is c or follows it on its chain: every set of nodes that holds c *)
(* and is closed under links holds p.                                      *)
InChain(c, p) == \A S \in SUBSET Node : c \in S /\ Closed(S) => p \in S

FirstFreeIsFree == key[firstfree] = NULL /\ next[firstfree] = NIL
LinksAboveFree == \A i \in Node : next[i] # NIL => next[i] > firstfree
LinksInjective == \A i, j \in Node : next[i] = next[j] /\ next[i] # NIL => i = j

(* A key outside its main position sits in a node once taken from the free *)
(* pointer, and no key has that node for its main position.                *)
StraysOwnNothing ==
  \A i \in Node : key[i] # NULL /\ MainPos(key[i]) # i =>
     /\ i > firstfree
     /\ \A j \in Node : key[j] # NULL => MainPos(key[j]) # i

KeysReachable == \A i \in Node : key[i] # NULL => InChain(MainPos(key[i]), i)

WalkCovers ==
  pc = "walk" /\ ck # NULL => \A p \in Node : key[p] = ck => InChain(cur, p)

PreviousCovers ==
  pc = "prev" =>
    LET mp == MainPos(ck) IN
    /\ ck # NULL /\ op = "NewSlot"
    /\ \A i \in Node : key[i] # ck
    /\ key[mp] # NULL /\ IsStray(mp)
    /\ cur # mp /\ InChain(cur, mp)

NewSlotHasKey == op = "NewSlot" => ck # NULL

(* The inductive invariant: what the free pointer, the links and the keys  *)
(* owe each other between any two steps of sqtable.cpp.                    *)
ChainInv ==
  /\ FirstFreeIsFree /\ LinksAboveFree /\ LinksInjective
  /\ UniqueKeys /\ StraysOwnNothing /\ KeysReachable
  /\ WalkCovers /\ PreviousCovers /\ NewSlotHasKey
-----------------------------------------------------------------------------
(* The map that the array stands for.  While Rehash runs a pair may still  *)
(* be in the old array, or in the hands of the call that reinserts it; the *)
(* key whose insertion made Rehash run has no value yet.                   *)
MapOf ==
  LET InOld(k) == \E i \in ri .. osize - 1 : okey[i] = k
      InNew(k) == \E i \in Node : key[i] = k
      InHand(k) == InRehash /\ pc \in {"walk", "prev"} /\ k = ck
  IN [k \in {x \in Key \ {pk} : InOld(x) \/ InNew(x) \/ InHand(x)} |->
        IF InNew(k) THEN val[CHOOSE i \in Node : key[i] = k]
        ELSE IF InHand(k) THEN cv
        ELSE oval[CHOOSE i \in ri .. osize - 1 : okey[i] = k]]

(* The call that has not taken effect.  A Remove has once its node is      *)
(* empty, though the Rehash that may follow has not returned.              *)
Pending ==
  IF pc \in {"create", "idle"} \/ (InRehash /\ pk = NULL) THEN <<>>
  ELSE IF InRehash THEN <<"NewSlot", pk, pv>>
  ELSE <<op, ck, cv>>

Map == INSTANCE SQMap WITH map <- MapOf, pending <- Pending, result <- ret

(* The table implements the map: every call takes effect at once and with  *)
(* its own key and value only, and neither Rehash nor Clone loses, invents *)
(* or changes a pair.                                                      *)
ImplementsMap == Map!Spec
=============================================================================

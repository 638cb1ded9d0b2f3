------------------------------ MODULE RefTable ------------------------------
(***************************************************************************)
(* The table of the references that the host holds on Squirrel objects:    *)
(* RefTable in squirrel/sqstate.cpp, behind sq_addref, sq_getrefcount and  *)
(* sq_release of sqapi.cpp.  An object in this table is a root of the      *)
(* garbage collector.                                                      *)
(*                                                                         *)
(* The table is an array of nodes (obj, refs, next).  Every node is either *)
(* in the chain of one bucket or in the free list; both are threaded       *)
(* through next.                                                           *)
(***************************************************************************)
EXTENDS Integers, FiniteSets

CONSTANTS
  Object,   \* the reference counted objects of the VM
  NULL,     \* OT_NULL: no object in this node
  Hash,     \* HashObj: the hash of each object
  MaxHeld,  \* bound: how many references the host holds on each object
  MaxReleases  \* bound: how many references the host releases

ASSUME ObjectAssumption == NULL \notin Object /\ Hash \in [Object -> Nat]
ASSUME BoundAssumption == MaxHeld \in [Object -> Nat] /\ MaxReleases \in Nat

VARIABLES
  numofslots, slotused, obj, refs, next, buckets, freelist,  \* the fields of RefTable
  failed,   \* history: an assert(t->refs != 0) of Resize has failed
  unheld,   \* history: the table has grown with an object that the host did not hold
  held,     \* held[o]: the sq_addref calls on o that have not been released
  releases  \* how many times the host has released a reference

tableVars == <<numofslots, slotused, obj, refs, next, buckets, freelist>>
vars == <<tableVars, failed, unheld, held, releases>>

NIL == -1
Node == 0 .. numofslots - 1

MainPos(o, size) == Hash[o] % size

(* The nodes that next leads to from head. *)
Chain(head, links) ==
  LET reach[k \in Nat] ==  \* in at most k steps
        IF k = 0 THEN {head} \ {NIL}
        ELSE LET r == reach[k - 1] IN r \cup ({links[n] : n \in r} \ {NIL})
  IN reach[numofslots]

(* AllocNodes: every node is in the free list, in order. *)
Init ==
  /\ numofslots = 4 /\ slotused = 0
  /\ obj = [n \in 0 .. 3 |-> NULL]
  /\ refs = [n \in 0 .. 3 |-> 0]
  /\ next = [n \in 0 .. 3 |-> IF n = 3 THEN NIL ELSE n + 1]
  /\ buckets = [b \in 0 .. 3 |-> NIL]
  /\ freelist = 0
  /\ failed = FALSE /\ unheld = FALSE
  /\ held = [o \in Object |-> 0]
  /\ releases = 0
-----------------------------------------------------------------------------
(* The loop of Get: the node of o in the chain of its bucket. *)
Lookup(o) == {n \in Chain(buckets[MainPos(o, numofslots)], next) : obj[n] = o}

(* The node before n in its chain, NIL if the bucket points to n. *)
Prev(n) ==
  IF buckets[MainPos(obj[n], numofslots)] = n THEN NIL
  ELSE CHOOSE p \in Node : next[p] = n

(* Add takes the first free node of the given table, puts o and r          *)
(* references in it and links it at the head of the bucket of o.           *)
Add(o, r, size, os, rs, links, bucks, free, used) ==
  LET b == MainPos(o, size) IN
  /\ numofslots' = size
  /\ obj' = [os EXCEPT ![free] = o]
  /\ refs' = [rs EXCEPT ![free] = r]
  /\ freelist' = links[free]
  /\ next' = [links EXCEPT ![free] = bucks[b]]
  /\ buckets' = [bucks EXCEPT ![b] = free]
  /\ slotused' = used + 1

(* Mutant: the nodes are added back by their place in the old table. *)
MutAddResized(o, r) ==
  LET size == 2 * numofslots
      main(n) == MainPos(obj[n], numofslots)
      before(n, b) == {m \in Node : m < n /\ main(m) = b}
      last(S) == IF S = {} THEN NIL ELSE CHOOSE m \in S : \A k \in S : k <= m
  IN /\ failed' = (failed \/ \E n \in Node : refs[n] = 0)
     /\ Add(o, r, size,
            [n \in 0 .. size - 1 |-> IF n < numofslots THEN obj[n] ELSE NULL],
            [n \in 0 .. size - 1 |-> IF n < numofslots THEN refs[n] ELSE 0],
            [n \in 0 .. size - 1 |-> IF n < numofslots THEN last(before(n, main(n)))
                                     ELSE IF n = size - 1 THEN NIL ELSE n + 1],
            [b \in 0 .. size - 1 |-> last(before(numofslots, b))],
            numofslots, numofslots)

(* Resize(2 * numofslots) when every node is in use: node n goes to node n *)
(* of the new table and each bucket lists its nodes last first; the nodes  *)
(* of the upper half are free.  Then Add.                                  *)
(*                                                                         *)
(* Resize asserts t->refs != 0 of every node that it moves.  A build with  *)
(* assertions ends where failed becomes true; one without them goes on as  *)
(* here.                                                                   *)
AddResized(o, r) ==
  LET size == 2 * numofslots
      main(n) == MainPos(obj[n], size)
      before(n, b) == {m \in Node : m < n /\ main(m) = b}
      last(S) == IF S = {} THEN NIL ELSE CHOOSE m \in S : \A k \in S : k <= m
  IN /\ failed' = (failed \/ \E n \in Node : refs[n] = 0)
     /\ Add(o, r, size,
            [n \in 0 .. size - 1 |-> IF n < numofslots THEN obj[n] ELSE NULL],
            [n \in 0 .. size - 1 |-> IF n < numofslots THEN refs[n] ELSE 0],
            [n \in 0 .. size - 1 |-> IF n < numofslots THEN last(before(n, main(n)))
                                     ELSE IF n = size - 1 THEN NIL ELSE n + 1],
            [b \in 0 .. size - 1 |-> last(before(numofslots, b))],
            numofslots, numofslots)

(* Mark: what the collector takes for a root. *)
Roots == {obj[n] : n \in Node} \ {NULL}

(* Get(obj, add = true) of an object that is not in the table; the node    *)
(* ends up with r references.                                              *)
GetAdd(o, r) ==
  \/ /\ numofslots # slotused
     /\ Add(o, r, numofslots, obj, refs, next, buckets, freelist, slotused)
     /\ UNCHANGED <<failed, unheld>>
  \/ /\ numofslots = slotused
     /\ AddResized(o, r)
     /\ unheld' = (unheld \/ \E x \in Roots : held[x] = 0)
-----------------------------------------------------------------------------
(* sq_addref on an object that is not in the table, or is. *)
AddRefNew(o) ==
  /\ Lookup(o) = {}
  /\ GetAdd(o, 1)

AddRefKnown(o) ==
  /\ \E n \in Lookup(o) : refs' = [refs EXCEPT ![n] = @ + 1]
  /\ UNCHANGED <<numofslots, slotused, obj, next, buckets, freelist, failed, unheld>>

AddRef(o) ==
  /\ held[o] < MaxHeld[o]
  /\ AddRefNew(o) \/ AddRefKnown(o)
  /\ held' = [held EXCEPT ![o] = @ + 1]
  /\ UNCHANGED releases

(* sq_getrefcount looks with add = true: it inserts an object that is not  *)
(* in the table, with no reference.                                        *)
GetRefCount(o) ==
  /\ \/ /\ Lookup(o) = {}
        /\ GetAdd(o, 0)
     \/ /\ Lookup(o) # {}
        /\ UNCHANGED <<tableVars, failed, unheld>>
  /\ UNCHANGED <<held, releases>>

(* Mutant: the bucket, not the node before, is made to skip the node. *)
MutUnlink(n) ==
  /\ buckets' = [buckets EXCEPT ![MainPos(obj[n], numofslots)] = next[n]]
  /\ next' = [next EXCEPT ![n] = freelist]

(* The node leaves its chain for the free list. *)
Unlink(n) ==
  /\ IF Prev(n) # NIL
     THEN /\ next' = [next EXCEPT ![Prev(n)] = next[n], ![n] = freelist]
          /\ UNCHANGED buckets
     ELSE /\ next' = [next EXCEPT ![n] = freelist]
          /\ buckets' = [buckets EXCEPT ![MainPos(obj[n], numofslots)] = next[n]]

(* sq_release of a reference that the host holds. *)
Release(o) ==
  /\ held[o] > 0 /\ releases < MaxReleases
  /\ \E n \in Lookup(o) :
       /\ refs' = [refs EXCEPT ![n] = @ - 1]
       /\ IF refs[n] = 1
          THEN /\ Unlink(n)
               /\ freelist' = n
               /\ slotused' = slotused - 1
               /\ obj' = [obj EXCEPT ![n] = NULL]
          ELSE UNCHANGED <<next, buckets, freelist, slotused, obj>>
  /\ held' = [held EXCEPT ![o] = @ - 1]
  /\ releases' = releases + 1
  /\ UNCHANGED <<numofslots, failed, unheld>>

Next == \E o \in Object : AddRef(o) \/ GetRefCount(o) \/ Release(o)

Spec == Init /\ [][Next]_vars
-----------------------------------------------------------------------------
(* The fields have the types of their declarations. *)
TypeOK ==
  /\ numofslots \in Nat \ {0} /\ slotused \in 0 .. numofslots
  /\ obj \in [Node -> Object \cup {NULL}]
  /\ refs \in [Node -> Nat]
  /\ next \in [Node -> Node \cup {NIL}]
  /\ buckets \in [Node -> Node \cup {NIL}]
  /\ freelist \in Node \cup {NIL}
  /\ \A o \in Object : held[o] \in 0 .. MaxHeld[o]

(* Every node is in the free list, and then has no object and no reference *)
(* (assert(newnode->refs == 0) in Add), or in the chain of the bucket that *)
(* its object hashes to, never both: no Resize, Add or Release loses one.  *)
(* assert(_freelist == 0) and its converse: the counter _slotused runs out *)
(* exactly when the free list does, so Add never takes a null free node.   *)
NodesAccounted ==
  /\ slotused = numofslots <=> freelist = NIL
  /\ Chain(freelist, next) = {n \in Node : obj[n] = NULL}
  /\ \A n \in Node : obj[n] = NULL => refs[n] = 0
  /\ \A b \in Node :
       Chain(buckets[b], next) = {n \in Node : obj[n] # NULL /\ MainPos(obj[n], numofslots) = b}

(* The host's references are counted exactly: a lookup finds the one node  *)
(* of an object, and no reference is forgotten or shared by a collision,   *)
(* so what the host holds stays a root of the collector.  Therefore the    *)
(* assertion of Resize on the reference counts (assert(t->refs != 0))      *)
(* has failed when, and only when, the table grew while it had an object   *)
(* that the host did not hold: one that sq_getrefcount has put in it, and  *)
(* that nothing takes out until it is held and released.  In a build       *)
(* without assertions the counts stay exact after that too.                *)
HeldIsCounted ==
  /\ \A o \in Object :
       /\ held[o] > 0 => o \in Roots
       /\ \A n \in Node : obj[n] = o => Lookup(o) = {n} /\ refs[n] = held[o]
  /\ failed <=> unheld
=============================================================================

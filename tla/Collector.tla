------------------------------ MODULE Collector ------------------------------
(***************************************************************************)
(* Memory of the Squirrel VM: reference counts (SQRefCounted, SQObjectPtr  *)
(* of squirrel/sqobject.h), weak references (sqobject.cpp) and the         *)
(* collector of cycles (sqstate.cpp).                                      *)
(*                                                                         *)
(* Every SQObjectPtr is a slot: a root, that RunMark starts from (the      *)
(* stack of a VM, the root table, the registry ...), or a field of an      *)
(* object.  Dropping the last reference to an object calls its Release,    *)
(* which drops the object's own references first, and so on: dying is the  *)
(* stack of the Releases that are running.  The sweep of CollectGarbage    *)
(* walks a chain from which these Releases remove objects.                 *)
(*                                                                         *)
(* Two kinds of references are special.  Mark does not follow some: the    *)
(* _closure of the CallInfo that a generator keeps and that Kill leaves,   *)
(* the open outers of a thread.  Finalize leaves others: that same         *)
(* _closure, the _function and _base of a closure, the nested functions of *)
(* a prototype.  So a sweep may leave objects behind that are counted and  *)
(* not marked; then _gc_chain no longer leads to them.                     *)
(***************************************************************************)
EXTENDS Integers, Sequences, FiniteSets, SequencesExt

CONSTANTS
  Obj,    \* the collectable objects
  Weak,   \* the weak references
  Field,  \* the references that an object has
  Root,   \* the slots that RunMark starts from
  Unmarked, \* the fields that Mark does not follow
  Kept,   \* the fields that Finalize leaves
  Level,  \* orders the objects: generators, closures, classes and prototypes
  NULL

ASSUME DisjointAssumption ==
  NULL \notin Obj \union Weak /\ Obj \cap Weak = {} /\ Root \cap (Obj \X Field) = {}

ASSUME KeptAssumption ==
  Unmarked \subseteq Obj \X Field /\ Kept \subseteq Obj \X Field /\ Level \in [Obj -> Nat]

Slot == Root \union (Obj \X Field)
Counted == Obj \union Weak

VARIABLES
  live,     \* what is allocated
  slot,     \* what each SQObjectPtr refers to
  uiRef,    \* _uiRef, without the bit MARK_FLAG
  marked,   \* the objects that have MARK_FLAG set
  weakref,  \* _weakref of each object
  target,   \* _obj of each weak reference
  gcChain, tchain,  \* _gc_chain, and the chain of the objects marked
  stray,    \* the lists that _gc_chain no longer leads to
  strayed,  \* a sweep has left objects behind
  dying,    \* the objects whose Release is running, the innermost last
  pc,       \* "idle", or what the shared state is doing
  t         \* the object that the sweep is at

chainVars == <<gcChain, tchain, stray, strayed, marked>>
weakVars == <<weakref, target>>
vars == <<live, slot, uiRef, marked, weakref, target, gcChain, tchain, stray, strayed, dying, pc, t>>

Init ==
  /\ live = {}
  /\ slot = [s \in Slot |-> NULL]
  /\ uiRef = [x \in Counted |-> 0]
  /\ marked = {}
  /\ weakref = [o \in Obj |-> NULL] /\ target = [w \in Weak |-> NULL]
  /\ gcChain = <<>> /\ tchain = <<>> /\ stray = {} /\ strayed = FALSE
  /\ dying = <<>>
  /\ pc = "idle" /\ t = NULL

Idle == pc = "idle" /\ dying = <<>>
IsObj(x) == x \in Obj

B(p) == IF p THEN 1 ELSE 0
-----------------------------------------------------------------------------
(* Mutant: the old value is released although it is referenced elsewhere. *)
MutPut(s, v) ==
  LET old == slot[s] IN
  /\ slot' = [slot EXCEPT ![s] = v]
  /\ uiRef' = [x \in Counted |-> uiRef[x] + B(x = v) - B(x = old)]
  /\ dying' = IF old # NULL /\ old # v /\ uiRef'[old] <= 1
              THEN Append(dying, old) ELSE dying

(* SQObjectPtr: the slot gets a reference to v and drops its old one.  An  *)
(* object without references is released; one that is marked never is, as *)
(* MARK_FLAG is part of its count.                                         *)
Put(s, v) ==
  LET old == slot[s] IN
  /\ slot' = [slot EXCEPT ![s] = v]
  /\ uiRef' = [x \in Counted |-> uiRef[x] + B(x = v) - B(x = old)]
  /\ dying' = IF old # NULL /\ old \notin marked /\ uiRef'[old] = 0
              THEN Append(dying, old) ELSE dying

(* What a program can reach in one step: the roots, and the fields of the  *)
(* objects that they refer to.                                             *)
Near == Root \union {s \in Obj \X Field : \E r \in Root : slot[r] = s[1]}

(* What Finalize leaves never closes a cycle: a generator keeps a closure,  *)
(* a closure its prototype and a class, a prototype those nested in it.    *)
Fits(s, v) == s \in Kept /\ IsObj(v) => Level[s[1]] < Level[v]

(* A value is copied from one slot to another, or a slot is cleared.  What *)
(* is not marked is not read: a dead generator cannot be resumed.          *)
Assign ==
  /\ Idle
  /\ \E s \in Near, v \in {NULL} \union {slot[x] : x \in Near \ Unmarked} :
       v # slot[s] /\ Fits(s, v) /\ Put(s, v)
  /\ UNCHANGED <<live, chainVars, weakVars, pc, t>>

(* An object is created: its constructor puts it on the chain. *)
Create ==
  /\ Idle
  /\ \E o \in Obj \ live, r \in Root :
       /\ live' = live \union {o}
       /\ gcChain' = <<o>> \o gcChain
       /\ Put(r, o)
  /\ UNCHANGED <<marked, tchain, stray, strayed, weakVars, pc, t>>

(* GetWeakRef of the object in r: an object has at most one weak reference, *)
(* which is created when it is first asked for.                            *)
GetWeakRef ==
  /\ Idle
  /\ \E r \in Root, s \in Near, w \in Weak :
       /\ IsObj(slot[r])
       /\ weakref[slot[r]] = w \/ (weakref[slot[r]] = NULL /\ w \notin live)
       /\ live' = live \union {w}
       /\ weakref' = [weakref EXCEPT ![slot[r]] = w]
       /\ target' = [target EXCEPT ![w] = slot[r]]
       /\ Put(s, w)
  /\ UNCHANGED <<chainVars, pc, t>>

(* _realval: reading a weak reference gives the object, or null. *)
Realval ==
  /\ Idle
  /\ \E r \in Root, s \in Near :
       slot[r] \in Weak /\ Fits(s, target[slot[r]]) /\ Put(s, target[slot[r]])
  /\ UNCHANGED <<live, chainVars, weakVars, pc, t>>
-----------------------------------------------------------------------------
Dying == Last(dying)
Fields(o) == {s \in {o} \X Field : slot[s] # NULL}

(* Release of an object, one reference at a time. *)
DropField ==
  /\ dying # <<>> /\ IsObj(Dying)
  /\ \E s \in Fields(Dying) : Put(s, NULL)
  /\ UNCHANGED <<live, chainVars, weakVars, pc, t>>

(* The lists that the objects without MARK_FLAG are linked in. *)
Lists == {gcChain} \union stray
OnList(o) == \E c \in Lists : Contains(c, o)

Index(chain, o) == CHOOSE i \in DOMAIN chain : chain[i] = o
Without(chain, o) == RemoveAt(chain, Index(chain, o))

(* An object is linked out of its list.  One that has no object before it  *)
(* is taken for the head of _gc_chain: if it is the head of another list   *)
(* _gc_chain becomes the rest of that.                                     *)
RemoveFromChain(o) ==
  \E c \in Lists :
    /\ Contains(c, o)
    /\ \/ c = gcChain /\ gcChain' = Without(c, o) /\ stray' = stray
       \/ /\ c # gcChain /\ o = Head(c)
          /\ gcChain' = Without(c, o) /\ stray' = (stray \ {c}) \union ({gcChain} \ {<<>>})
       \/ /\ c # gcChain /\ o # Head(c)
          /\ gcChain' = gcChain /\ stray' = (stray \ {c}) \union {Without(c, o)}

(* This comes before, between or after the references, as the destructors  *)
(* differ in it.                                                           *)
Unlink ==
  /\ dying # <<>> /\ RemoveFromChain(Dying)
  /\ UNCHANGED <<live, slot, uiRef, marked, tchain, strayed, weakVars, dying, pc, t>>

Destroyed(o) == IsObj(o) /\ Fields(o) = {} /\ ~OnList(o)

(* ~SQRefCounted clears the weak reference, and the memory is freed. *)
Free ==
  /\ dying # <<>> /\ Destroyed(Dying)
  /\ live' = live \ {Dying}
  /\ target' = [w \in Weak |-> IF w = weakref[Dying] THEN NULL ELSE target[w]]
  /\ weakref' = [weakref EXCEPT ![Dying] = NULL]
  /\ dying' = Front(dying)
  /\ UNCHANGED <<slot, uiRef, chainVars, pc, t>>

(* SQWeakRef::Release. *)
FreeWeak ==
  /\ dying # <<>> /\ Dying \in Weak
  /\ live' = live \ {Dying}
  /\ weakref' = [o \in Obj |-> IF o = target[Dying] THEN NULL ELSE weakref[o]]
  /\ target' = [target EXCEPT ![Dying] = NULL]
  /\ dying' = Front(dying)
  /\ UNCHANGED <<slot, uiRef, chainVars, pc, t>>
-----------------------------------------------------------------------------
(* The fields that an array has: marked and finalized like any other. *)
Elements(a) == {f \in Field : <<a, f>> \notin Unmarked \union Kept}

(* Bound: there is a slot and an object for the array that is to be pushed, *)
(* and fields for all that it may refer to.                                *)
RoomForArray ==
  /\ \E r \in Root : slot[r] = NULL
  /\ \E a \in Obj \ live : Cardinality(live \cap Obj) <= Cardinality(Elements(a))

(* CollectGarbage and ResurrectUnreachable begin with RunMark. *)
RunMark ==
  /\ Idle
  /\ pc' = "mark" \/ (pc' = "markall" /\ RoomForArray)
  /\ UNCHANGED <<live, slot, uiRef, chainVars, weakVars, dying, t>>

Marking == pc \in {"mark", "markall"}

(* Mutant: Mark does not look into the objects that it marks. *)
MutUnvisited == {o \in Obj \ marked : \E s \in Root : slot[s] = o}

(* The references that Mark follows from the roots and the objects of S. *)
Followed(S) == {s \in Slot \ Unmarked : s \in Root \/ s[1] \in S}

(* The objects that Mark will still visit.  It does not follow weak        *)
(* references.                                                             *)
Unvisited == {o \in Obj \ marked : \E s \in Followed(marked) : slot[s] = o}

(* Mark of an object: it moves to the other chain. *)
Mark ==
  /\ Marking
  /\ \E o \in Unvisited :
       /\ marked' = marked \union {o}
       /\ RemoveFromChain(o)
       /\ tchain' = <<o>> \o tchain
  /\ UNCHANGED <<live, slot, uiRef, strayed, weakVars, dying, pc, t>>

(* The object at the head of a chain, or null. *)
First(chain) == IF chain = <<>> THEN NULL ELSE Head(chain)

(* The sweep holds a reference to the object that it is at. *)
StartSweep(next) ==
  /\ pc' = next
  /\ t' = First(gcChain)
  /\ uiRef' = [x \in Counted |-> uiRef[x] + B(x = First(gcChain))]
  /\ UNCHANGED <<live, slot, chainVars, weakVars, dying>>

(* CollectGarbage: what is left on the chain is not marked. *)
Sweep == pc = "mark" /\ Unvisited = {} /\ StartSweep("sweep")

Sweeping == pc \in {"sweep", "delete"} /\ dying = <<>>

(* Finalize of the object, one reference at a time.  Some it leaves. *)
ToClear(o) == Fields(o) \ Kept

Finalize ==
  /\ Sweeping /\ t # NULL
  /\ \E s \in ToClear(t) : Put(s, NULL)
  /\ UNCHANGED <<live, chainVars, weakVars, pc, t>>

(* _next of an object. *)
Following(o) ==
  LET c == CHOOSE l \in Lists : Contains(l, o) IN First(SubSeq(c, Index(c, o) + 1, Len(c)))

(* Mutant: the next object is not held while this one is released. *)
MutAdvance ==
  /\ Sweeping /\ t # NULL /\ ToClear(t) = {}
  /\ LET nx == Following(t)
     IN /\ uiRef' = [x \in Counted |-> uiRef[x] - B(x = t)]
        /\ t' = nx
  /\ dying' = IF uiRef'[t] = 0 THEN <<t>> ELSE <<>>
  /\ UNCHANGED <<live, slot, chainVars, weakVars, pc>>

(* The sweep goes on to the next object and gives this one up. *)
Advance ==
  /\ Sweeping /\ t # NULL /\ ToClear(t) = {}
  /\ LET nx == Following(t)
     IN /\ uiRef' = [x \in Counted |-> uiRef[x] + B(x = nx) - B(x = t)]
        /\ t' = nx
  /\ dying' = IF uiRef'[t] = 0 THEN <<t>> ELSE <<>>
  /\ UNCHANGED <<live, slot, chainVars, weakVars, pc>>

(* CollectGarbage ends.  What is left on the chain is forgotten. *)
EndSweep ==
  /\ Sweeping /\ pc = "sweep" /\ t = NULL
  /\ pc' = "idle"
  /\ marked' = {}
  /\ gcChain' = tchain /\ tchain' = <<>>
  /\ stray' = stray \union ({gcChain} \ {<<>>})
  /\ strayed' = (strayed \/ gcChain # <<>>)
  /\ UNCHANGED <<live, slot, uiRef, weakVars, dying, t>>

(* Mutant: the array is on no chain. *)
MutResurrect ==
  /\ pc = "markall" /\ Unvisited = {} /\ gcChain # <<>>
  /\ \E r \in Root, a \in Obj \ live, f \in [1 .. Len(gcChain) -> Field] :
       /\ IsInjective(f) /\ Range(f) \subseteq Elements(a) /\ slot[r] = NULL
       /\ live' = live \union {a}
       /\ slot' = [s \in Slot |->
            IF s = r THEN a
            ELSE IF \E i \in DOMAIN f : s = <<a, f[i]>>
                 THEN gcChain[CHOOSE i \in DOMAIN f : s = <<a, f[i]>>]
                 ELSE slot[s]]
       /\ uiRef' = [x \in Counted |-> uiRef[x] + B(x = a) + B(x \in Range(gcChain))]
       /\ gcChain' = gcChain \o tchain
  /\ pc' = "idle" /\ marked' = {} /\ tchain' = <<>>
  /\ UNCHANGED <<stray, strayed, weakVars, dying, t>>

(* ResurrectUnreachable: an array of the unreachable objects is pushed on  *)
(* the stack, and they go back on the chain.                               *)
Resurrect ==
  /\ pc = "markall" /\ Unvisited = {} /\ gcChain # <<>>
  /\ \E r \in Root, a \in Obj \ live, f \in [1 .. Len(gcChain) -> Field] :
       /\ IsInjective(f) /\ Range(f) \subseteq Elements(a) /\ slot[r] = NULL
       /\ live' = live \union {a}
       /\ slot' = [s \in Slot |->
            IF s = r THEN a
            ELSE IF \E i \in DOMAIN f : s = <<a, f[i]>>
                 THEN gcChain[CHOOSE i \in DOMAIN f : s = <<a, f[i]>>]
                 ELSE slot[s]]
       /\ uiRef' = [x \in Counted |-> uiRef[x] + B(x = a) + B(x \in Range(gcChain))]
       /\ gcChain' = gcChain \o <<a>> \o tchain
  /\ pc' = "idle" /\ marked' = {} /\ tchain' = <<>>
  /\ UNCHANGED <<stray, strayed, weakVars, dying, t>>

(* The same when every object is reachable: null is pushed. *)
ResurrectNothing ==
  /\ pc = "markall" /\ Unvisited = {} /\ gcChain = <<>>
  /\ pc' = "idle" /\ marked' = {}
  /\ gcChain' = tchain /\ tchain' = <<>>
  /\ UNCHANGED <<live, slot, uiRef, stray, strayed, weakVars, dying, t>>
-----------------------------------------------------------------------------
(* sq_close: ~SQSharedState clears the roots, *)
Close ==
  /\ Idle
  /\ pc' = "close"
  /\ UNCHANGED <<live, slot, uiRef, chainVars, weakVars, dying, t>>

DropRoot ==
  /\ pc = "close" /\ dying = <<>>
  /\ \E r \in Root : slot[r] # NULL /\ Put(r, NULL)
  /\ UNCHANGED <<live, chainVars, weakVars, pc, t>>

(* Mutant: the chain is not swept. *)
MutDelete ==
  /\ pc = "close" /\ dying = <<>> /\ \A r \in Root : slot[r] = NULL
  /\ pc' = "closed"
  /\ UNCHANGED <<live, slot, uiRef, chainVars, weakVars, dying, t>>

(* sweeps the whole chain, *)
Delete ==
  /\ pc = "close" /\ dying = <<>> /\ \A r \in Root : slot[r] = NULL
  /\ StartSweep("delete")

(* and asserts that nothing is left: a build with assertions ends here if   *)
(* something is.                                                           *)
EndDelete ==
  /\ Sweeping /\ pc = "delete" /\ t = NULL
  /\ pc' = "closed"
  /\ UNCHANGED <<live, slot, uiRef, chainVars, weakVars, dying, t>>

Closed == pc = "closed" /\ UNCHANGED vars
-----------------------------------------------------------------------------
Work ==
  \/ DropField \/ Unlink \/ Free \/ FreeWeak
  \/ Mark \/ Sweep \/ Finalize \/ Advance \/ EndSweep \/ Resurrect \/ ResurrectNothing
  \/ DropRoot \/ Delete \/ EndDelete

Next == Assign \/ Create \/ GetWeakRef \/ Realval \/ RunMark \/ Close \/ Work \/ Closed

Spec == Init /\ [][Next]_vars
-----------------------------------------------------------------------------
(* The objects that a program can get at: in every set that holds those in *)
(* the roots and what its members refer to, but for what Mark skips.       *)
Reachable ==
  {o \in Obj : \A S \in SUBSET Obj :
     (\A s \in Followed(S) : IsObj(slot[s]) => slot[s] \in S) => o \in S}

(* What a sweep cannot free: what is referred to by a marked object that   *)
(* Mark does not follow, and what Finalize leaves referred to by that.     *)
LeftBehind ==
  {o \in Obj : \A S \in SUBSET Obj :
     (\A s \in Obj \X Field :
        IsObj(slot[s]) /\ ((s \in Unmarked /\ s[1] \in marked) \/ (s \in Kept /\ s[1] \in S))
          => slot[s] \in S) => o \in S}

(* The fields have the types of their declarations. *)
TypeOK ==
  /\ live \subseteq Counted /\ marked \subseteq Obj
  /\ slot \in [Slot -> Counted \union {NULL}]
  /\ uiRef \in [Counted -> Nat]
  /\ weakref \in [Obj -> Weak \union {NULL}] /\ target \in [Weak -> Obj \union {NULL}]
  /\ \A c \in {gcChain, tchain} \union stray : Range(c) \subseteq Obj
  /\ Range(dying) \subseteq Counted
  /\ pc \in {"idle", "mark", "markall", "sweep", "close", "delete", "closed"}
  /\ t \in Obj \union {NULL} /\ strayed \in BOOLEAN

(* _uiRef of everything allocated is the number of SQObjectPtrs that refer *)
(* to it, in the middle of a Release or of a sweep too, where the sweep    *)
(* has one reference more; nothing that no one refers to stays.            *)
CountExact ==
  \A x \in live :
    /\ uiRef[x] = Cardinality({s \in Slot : slot[s] = x}) + B(x = t)
    /\ uiRef[x] = 0 <=> x \in Range(dying)

(* No SQObjectPtr refers to freed memory, and neither does the sweep.  A   *)
(* weak reference gives its object as long as that is allocated and null   *)
(* from then on, in whatever order the two are released, and an object has *)
(* one weak reference only.                                                *)
NoDangling ==
  /\ \A s \in Slot : slot[s] \in live \union {NULL}
  /\ t \in live \union {NULL}
  /\ \A i, j \in DOMAIN dying : dying[i] \in live /\ (dying[i] = dying[j] => i = j)
  /\ \A w \in Weak : target[w] # NULL => w \in live /\ target[w] \in live /\ weakref[target[w]] = w
  /\ \A o \in Obj : weakref[o] # NULL => o \in live /\ weakref[o] \in live /\ target[weakref[o]] = o

(* Every object that is not being destroyed is linked in one list, once,   *)
(* and nothing that is freed is.  Marked objects are in the list of those. *)
(* Until a sweep leaves objects behind there is no list but _gc_chain and  *)
(* that one; from then on the objects left behind are in lists of their    *)
(* own, and when the first of such a list is destroyed _gc_chain becomes   *)
(* the rest of it and what was on _gc_chain is lost to the collector.      *)
ChainExact ==
  LET lists == {gcChain, tchain} \union stray
  IN /\ \A o \in live \cap Obj : o \notin Range(dying) => \E c \in lists : o \in Range(c)
     /\ \A c, d \in lists :
          Range(c) \subseteq live /\ IsInjective(c) /\ (c # d => Range(c) \cap Range(d) = {})
     /\ Range(tchain) = marked /\ (pc = "idle" => tchain = <<>>)
     /\ ~strayed => stray = {}

(* CollectGarbage marks what the program can reach, and frees nothing of   *)
(* it.  As long as no sweep has left objects behind, it frees all the rest *)
(* but what Mark skips and Finalize leaves, as a dead generator's closure. *)
CollectsGarbage ==
  /\ pc = "sweep" => marked = Reachable /\ marked \subseteq live
  /\ pc = "sweep" /\ t = NULL /\ dying = <<>> /\ ~strayed => (live \cap Obj) \ marked \subseteq LeftBehind

(* The assertion of ~SQSharedState: nothing is left when it has finalized  *)
(* what was on the chain.  It holds unless a collection has left objects   *)
(* behind before, whatever Finalize leaves.                                *)
ClosedEmpty == pc = "closed" /\ ~strayed => gcChain = <<>> /\ live = {}

=============================================================================

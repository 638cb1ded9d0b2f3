--------------------------- MODULE SQObjectsProofs ---------------------------
(***************************************************************************)
(* Proofs about SQObjects for every number of tables, classes, instances   *)
(* and nested metamethods: the places of members, the stack that           *)
(* metamethods are called on, and the slot that a lookup finds.            *)
(***************************************************************************)
EXTENDS SQObjects, FiniteSetTheorems, SequenceTheorems, WellFoundedInduction, TLAPS

WorldKeys == UNION {w.names \cup w.members : w \in Worlds}
Keys == WorldKeys \cup {"x", "constructor"} \cup Default
Kinds == {"table", "class", "instance", "userdata", "nowhere"}
Ops == {"Get", "Set", "NewSlot", "DeleteSlot", "Clone", "NewMember", "ClassOp", "New", "Script"}
Pcs == {"lookup", "delegated", "meta", "called", "default", "root", "rooted", "cloned"}
FrameSet == [op : Ops, self : Kinds \X Nat, key : Keys, raise : BOOLEAN, root : BOOLEAN, pc : Pcs]
MemberMaps == UNION {[D -> {"field", "method"} \X Nat] : D \in SUBSET Keys}
ClassSet == [base : Nat, locked : BOOLEAN, ctor : Int, udsize : Nat, meta : BOOLEAN, members : MemberMaps,
             fields : Nat, methods : Nat]
InstanceSet == [class : Nat, values : Nat, udsize : Nat]

(* The tables and their delegates. *)
TablesOK ==
  /\ slots \in Seq(SUBSET Keys) /\ Len(slots) >= 1
  /\ delegate \in Seq(Nat) /\ Len(delegate) = Len(slots)
  /\ \A t \in 1 .. Len(slots) : delegate[t] \in 0 .. Len(slots)
  /\ udelegate \in 0 .. Len(slots)

(* The members of a class: each has a place of its own. *)
ClassOK(c) ==
  /\ IsFiniteSet(DOMAIN c.members)
  /\ \A k, l \in DOMAIN c.members : c.members[k] = c.members[l] => k = l
  /\ \A k \in DOMAIN c.members : c.members[k][2] < (IF c.members[k][1] = "field" THEN c.fields ELSE c.methods)
  /\ c.ctor \in -1 .. c.methods - 1
  /\ IsMethod(c, "constructor") => c.members["constructor"][2] = c.ctor

ClassesOK ==
  /\ classes \in Seq(ClassSet)
  /\ \A c \in 1 .. Len(classes) : classes[c].base < c /\ ClassOK(classes[c])

(* The class of an instance is locked, so that it keeps its fields. *)
InstancesOK ==
  /\ instances \in Seq(InstanceSet)
  /\ \A i \in 1 .. Len(instances) :
       LET c == instances[i].class
       IN /\ c \in 1 .. Len(classes) /\ classes[c].locked
          /\ instances[i].values = classes[c].fields /\ instances[i].udsize = classes[c].udsize

(* A frame is of an object that there is. *)
SelfOK(o, ntables, nclasses, ninstances) ==
  /\ o[1] = "table" => o[2] \in 1 .. ntables
  /\ o[1] = "class" => o[2] \in 1 .. nclasses
  /\ o[1] = "instance" => o[2] \in 1 .. ninstances

FrameOK(f, ntables, nclasses, ninstances) ==
  /\ SelfOK(f.self, ntables, nclasses, ninstances)
  /\ f.op \in {"Clone", "NewSlot", "DeleteSlot"} => f.self[1] \in {"table", "instance"}
  /\ f.op = "NewMember" => f.self[1] = "class"
  /\ f.op \in {"Get", "Set"} => f.self[1] \in {"table", "class", "instance", "userdata"}

FramesOK ==
  /\ frames \in Seq(FrameSet) /\ vtop \in Int /\ nmeta \in Int
  /\ \A i \in 1 .. Len(frames) : FrameOK(frames[i], Len(slots), Len(classes), Len(instances))

ObjInv == world \in Worlds /\ TablesOK /\ ClassesOK /\ InstancesOK /\ FramesOK
-----------------------------------------------------------------------------
(* Induction over the natural numbers, as statements about sets. *)
LEMMA NatLess ==
  \E R : IsWellFoundedOn(R, Nat) /\ \A x, y \in Nat : y < x => <<y, x>> \in R
<1>1. \A x, y \in Nat : y < x => <<y, x>> \in OpToRel(<, Nat)
  BY Zenon DEF OpToRel
<1> QED
  BY <1>1, NatLessThanWellFounded, Zenon

(* A set of natural numbers has a least element. *)
LEMMA NatMin ==
  ASSUME NEW T \in SUBSET Nat, T # {}
  PROVE \E x \in T : \A y \in T : x <= y
<1>1. PICK R : IsWellFoundedOn(R, Nat) /\ \A x, y \in Nat : y < x => <<y, x>> \in R
  BY NatLess
<1>2. \E x \in T : \A y \in T : ~(<<y, x>> \in R)
  BY <1>1, WFMin, Zenon
<1>3. \A x, y \in Nat : y < x => <<y, x>> \in R
  BY <1>1
<1>4. \E x \in T : \A y \in T : ~(y < x)
  BY <1>2, <1>3, Zenon
<1> QED
  BY <1>4

(* What holds of 0 and goes from each number to the next holds of all. *)
LEMMA NatInd ==
  ASSUME NEW S, 0 \in S, \A n \in Nat : n \in S => n + 1 \in S
  PROVE Nat \subseteq S
<1>1. SUFFICES ASSUME Nat \ S # {} PROVE FALSE
  OBVIOUS
<1>2. PICK m \in Nat \ S : \A y \in Nat \ S : m <= y
  BY <1>1, NatMin
<1>3. m # 0 /\ m - 1 \in Nat /\ m - 1 \in S
  BY <1>2
<1> QED
  BY <1>2, <1>3
-----------------------------------------------------------------------------
(* Classes. *)

(* A class is one of its own Bases: the recursion that defines them is well *)
(* founded, a base is older than its class.                                *)
LEMMA BasesSelf ==
  ASSUME ClassesOK, NEW c \in 1 .. Len(classes)
  PROVE c \in Bases(c)
<1> DEFINE Up(f, n) == f = [d \in 0 .. n |-> IF d = 0 THEN {} ELSE {d} \union f[classes[d].base]]
           S == {n \in Nat : n <= c => \E f : Up(f, n)}
<1>1. \A d \in 1 .. c : classes[d].base \in 0 .. d - 1
  <2> SUFFICES ASSUME NEW d \in 1 .. c PROVE classes[d].base \in 0 .. d - 1
    OBVIOUS
  <2>1. d \in 1 .. Len(classes) /\ classes[d] \in ClassSet
    BY DEF ClassesOK
  <2>2. classes[d].base \in Nat
    BY <2>1 DEF ClassSet
  <2> QED
    BY <2>1, <2>2 DEF ClassesOK
<1>2. 0 \in S
  <2> DEFINE f == [d \in 0 .. 0 |-> {}]
  <2>1. Up(f, 0)
    OBVIOUS
  <2> QED
    BY <2>1
<1>3. ASSUME NEW n \in Nat, n \in S
      PROVE n + 1 \in S
  <2>1. SUFFICES ASSUME n + 1 <= c PROVE \E f : Up(f, n + 1)
    OBVIOUS
  <2>2. PICK f : Up(f, n)
    <3>1. n <= c
      BY <2>1 DEF ClassesOK
    <3> HIDE DEF Up
    <3> QED
      BY <1>3, <3>1
  <2> DEFINE b == classes[n + 1].base
             g == [d \in 0 .. n + 1 |-> IF d = n + 1 THEN {d} \union f[b] ELSE f[d]]
  <2>3. b \in 0 .. n
    BY <1>1, <2>1
  <2>4. \A d \in 0 .. n : f[d] = IF d = 0 THEN {} ELSE {d} \union f[classes[d].base]
    BY <2>2
  <2> HIDE DEF Up
  <2>5. \A d \in 0 .. n + 1 : g[d] = IF d = n + 1 THEN {d} \union f[b] ELSE f[d]
    OBVIOUS
  <2>6. g = [d \in 0 .. n + 1 |-> g[d]]
    OBVIOUS
  <2> HIDE DEF g
  <2>7. ASSUME NEW d \in 0 .. n + 1
        PROVE g[d] = IF d = 0 THEN {} ELSE {d} \union g[classes[d].base]
    <3>1. CASE d = n + 1
      <4>1. b \in 0 .. n + 1 /\ b # n + 1 /\ d # 0
        BY <2>3, <3>1
      <4> QED
        BY <2>5, <3>1, <4>1
    <3>2. CASE d = 0
      <4>1. 0 \in 0 .. n + 1 /\ 0 # n + 1 /\ 0 \in 0 .. n
        OBVIOUS
      <4> QED
        BY <2>4, <2>5, <3>2, <4>1
    <3>3. CASE d # 0 /\ d # n + 1
      <4>1. d \in 0 .. n /\ d \in 1 .. c
        BY <2>1, <3>3
      <4>2. classes[d].base \in 0 .. n + 1 /\ classes[d].base # n + 1
        BY <1>1, <4>1
      <4> QED
        BY <2>4, <2>5, <3>3, <4>1, <4>2
    <3> QED
      BY <3>1, <3>2, <3>3
  <2>8. Up(g, n + 1)
    BY <2>6, <2>7 DEF Up
  <2> QED
    BY <2>8
<1>4. Nat \subseteq S
  <2> HIDE DEF S
  <2> QED
    BY <1>2, <1>3, NatInd
<1>5. c \in Nat /\ c <= c /\ c # 0 /\ c \in 0 .. c
  BY DEF ClassesOK
<1>6. \E f : Up(f, c)
  BY <1>4, <1>5
<1> DEFINE u == CHOOSE f : Up(f, c)
<1>7. Up(u, c)
  BY <1>6
<1>8. c \in u[c]
  <2> HIDE DEF u
  <2> QED
    BY <1>5, <1>7
<1>9. Bases(c) = u[c]
  BY DEF Bases
<1> QED
  BY <1>8, <1>9

(* NewSlot of a class: the members that there were stay where they are, but *)
(* for a method whose name a field takes.                                  *)
MemberAdded(c, d, fails) ==
  /\ d \in ClassSet /\ ClassOK(d)
  /\ d.base = c.base /\ d.locked = c.locked /\ d.udsize = c.udsize
  /\ c.locked /\ ~fails => d.fields = c.fields
  /\ \A k \in DOMAIN c.members :
       /\ k \in DOMAIN d.members
       /\ \/ d.members[k] = c.members[k]
          \/ IsMethod(c, k) /\ IsField(d, k) /\ (~fails => ~c.locked)

(* SQClass::NewSlot adds at most one member, in a place of its own. *)
LEMMA Added ==
  ASSUME NEW c \in ClassSet, ClassOK(c), NEW k \in Keys, NEW closure \in BOOLEAN, NEW static \in BOOLEAN
  PROVE MemberAdded(c, WithMember(c, k, closure, static), NewSlotFails(c, k, closure, static))
<1> DEFINE fails == NewSlotFails(c, k, closure, static)
           m(place) == Placed(c.members, k, place)
<1>1. /\ c.base \in Nat /\ c.locked \in BOOLEAN /\ c.ctor \in Int /\ c.udsize \in Nat /\ c.meta \in BOOLEAN
      /\ c.members \in MemberMaps /\ c.fields \in Nat /\ c.methods \in Nat
      /\ c = [base |-> c.base, locked |-> c.locked, ctor |-> c.ctor, udsize |-> c.udsize, meta |-> c.meta,
              members |-> c.members, fields |-> c.fields, methods |-> c.methods]
  BY DEF ClassSet
<1>2. /\ DOMAIN c.members \subseteq Keys
      /\ \A l \in DOMAIN c.members : c.members[l] \in {"field", "method"} \X Nat
  BY <1>1 DEF MemberMaps
<1>3. \A place : /\ DOMAIN m(place) = DOMAIN c.members \cup {k}
                 /\ m(place)[k] = place
                 /\ \A l \in DOMAIN c.members : l # k => m(place)[l] = c.members[l]
  BY DEF Placed
<1>4. \A place \in {"field", "method"} \X Nat : m(place) \in MemberMaps /\ IsFiniteSet(DOMAIN m(place))
  <2> SUFFICES ASSUME NEW place \in {"field", "method"} \X Nat
               PROVE m(place) \in MemberMaps /\ IsFiniteSet(DOMAIN m(place))
    OBVIOUS
  <2>1. m(place) \in [DOMAIN c.members \cup {k} -> {"field", "method"} \X Nat]
    BY <1>2 DEF Placed
  <2>2. DOMAIN c.members \cup {k} \in SUBSET Keys
    BY <1>2
  <2>3. IsFiniteSet(DOMAIN c.members \cup {k})
    BY FS_AddElement DEF ClassOK
  <2> HIDE DEF m
  <2> QED
    BY <1>3, <2>1, <2>2, <2>3 DEF MemberMaps
<1> HIDE DEF m
<1>5. CASE WithMember(c, k, closure, static) = c
  BY <1>5 DEF MemberAdded
<1>6. CASE ~IsField(c, k) /\ WithMember(c, k, closure, static) = [c EXCEPT !.meta = TRUE]
  <2> DEFINE d == [c EXCEPT !.meta = TRUE]
  <2>1. /\ d \in ClassSet /\ d.members = c.members /\ d.fields = c.fields /\ d.methods = c.methods
        /\ d.ctor = c.ctor /\ d.base = c.base /\ d.locked = c.locked /\ d.udsize = c.udsize
    BY <1>1 DEF ClassSet
  <2> HIDE DEF d
  <2>2. MemberAdded(c, d, fails)
    BY <2>1 DEF MemberAdded, ClassOK, IsMethod, IsField
  <2> QED
    BY <1>6, <2>2 DEF d
<1>7. CASE /\ ~IsField(c, k) /\ ~IsMethod(c, k) /\ (closure \/ static)
           /\ WithMember(c, k, closure, static)
              = [c EXCEPT !.methods = @ + 1, !.members = m(<<"method", c.methods>>),
                          !.ctor = IF k = "constructor" THEN c.methods ELSE @]
  <2> DEFINE place == <<"method", c.methods>>
             d == [c EXCEPT !.methods = @ + 1, !.members = m(place),
                            !.ctor = IF k = "constructor" THEN c.methods ELSE @]
  <2>1. place \in {"field", "method"} \X Nat /\ place[1] = "method" /\ place[2] = c.methods
    BY <1>1
  <2>2. k \notin DOMAIN c.members
    BY <1>2, <1>7 DEF IsField, IsMethod
  <2>3. /\ d.members = m(place) /\ d.fields = c.fields /\ d.methods = c.methods + 1
        /\ d.ctor = (IF k = "constructor" THEN c.methods ELSE c.ctor)
        /\ d.base = c.base /\ d.locked = c.locked /\ d.udsize = c.udsize
        /\ d.meta = c.meta
    BY <1>1
  <2>4. d \in ClassSet
    <3>1. m(place) \in MemberMaps
      BY <1>4, <2>1
    <3>2. (IF k = "constructor" THEN c.methods ELSE c.ctor) \in Int /\ c.methods + 1 \in Nat
      BY <1>1
    <3> QED
      BY <1>1, <3>1, <3>2 DEF ClassSet
  <2> HIDE DEF d, place
  <2>5. ClassOK(d)
    <3>1. IsFiniteSet(DOMAIN d.members)
      BY <1>4, <2>1, <2>3
    <3>2. \A l \in DOMAIN c.members : c.members[l] # place /\ l # k
      BY <1>1, <1>2, <2>1, <2>2 DEF ClassOK
    <3>3. DOMAIN d.members = DOMAIN c.members \cup {k} /\ d.members[k] = place
          /\ \A l \in DOMAIN c.members : d.members[l] = c.members[l]
      BY <1>3, <2>3, <3>2
    <3>4. \A i, j \in DOMAIN d.members : d.members[i] = d.members[j] => i = j
      BY <3>2, <3>3 DEF ClassOK
    <3>5. \A i \in DOMAIN d.members : d.members[i][2] < (IF d.members[i][1] = "field" THEN d.fields ELSE d.methods)
      BY <1>1, <1>2, <2>1, <2>3, <3>3 DEF ClassOK
    <3>6. d.ctor \in -1 .. d.methods - 1
      BY <1>1, <2>3 DEF ClassOK
    <3>7. IsMethod(d, "constructor") => d.members["constructor"][2] = d.ctor
      BY <2>1, <2>3, <3>3 DEF ClassOK, IsMethod
    <3> QED
      BY <3>1, <3>4, <3>5, <3>6, <3>7 DEF ClassOK
  <2>6. MemberAdded(c, d, fails)
    BY <1>3, <2>2, <2>3, <2>4, <2>5 DEF MemberAdded
  <2> QED
    BY <1>7, <2>6 DEF d, place
<1>8. CASE /\ ~IsField(c, k) /\ ~closure /\ ~static
           /\ WithMember(c, k, closure, static)
              = [c EXCEPT !.fields = @ + 1, !.members = m(<<"field", c.fields>>)]
  <2> DEFINE place == <<"field", c.fields>>
             d == [c EXCEPT !.fields = @ + 1, !.members = m(place)]
  <2>1. place \in {"field", "method"} \X Nat /\ place[1] = "field" /\ place[2] = c.fields
    BY <1>1
  <2>2. k \in DOMAIN c.members => IsMethod(c, k)
    BY <1>2, <1>8 DEF IsField, IsMethod
  <2>3. /\ d.members = m(place) /\ d.fields = c.fields + 1 /\ d.methods = c.methods
        /\ d.ctor = c.ctor
        /\ d.base = c.base /\ d.locked = c.locked /\ d.udsize = c.udsize
        /\ d.meta = c.meta
    BY <1>1
  <2>4. d \in ClassSet
    <3>1. m(place) \in MemberMaps
      BY <1>4, <2>1
    <3>2. c.fields + 1 \in Nat
      BY <1>1
    <3> QED
      BY <1>1, <3>1, <3>2 DEF ClassSet
  <2> HIDE DEF d, place
  <2>5. DOMAIN d.members = DOMAIN c.members \cup {k} /\ d.members[k] = place
        /\ \A l \in DOMAIN c.members : l # k => d.members[l] = c.members[l]
    BY <1>3, <2>3
  <2>6. ClassOK(d)
    <3>1. IsFiniteSet(DOMAIN d.members)
      BY <1>4, <2>1, <2>3
    <3>2. \A l \in DOMAIN c.members : c.members[l] # place
      BY <1>1, <1>2, <2>1 DEF ClassOK
    <3>4. \A i, j \in DOMAIN d.members : d.members[i] = d.members[j] => i = j
      BY <2>5, <3>2 DEF ClassOK
    <3>5. \A i \in DOMAIN d.members : d.members[i][2] < (IF d.members[i][1] = "field" THEN d.fields ELSE d.methods)
      BY <1>1, <1>2, <2>1, <2>3, <2>5 DEF ClassOK
    <3>6. d.ctor \in -1 .. d.methods - 1
      BY <1>1, <2>3 DEF ClassOK
    <3>7. IsMethod(d, "constructor") => d.members["constructor"][2] = d.ctor
      BY <2>1, <2>3, <2>5 DEF ClassOK, IsMethod
    <3> QED
      BY <3>1, <3>4, <3>5, <3>6, <3>7 DEF ClassOK
  <2>7. c.locked => fails
    BY <1>8 DEF NewSlotFails
  <2>8. \A l \in DOMAIN c.members : l \in DOMAIN d.members
          /\ (d.members[l] = c.members[l] \/ (IsMethod(c, l) /\ IsField(d, l)))
    BY <2>1, <2>2, <2>5 DEF IsField
  <2> HIDE DEF fails
  <2>9. MemberAdded(c, d, fails)
    BY <2>3, <2>4, <2>6, <2>7, <2>8 DEF MemberAdded
  <2> QED
    BY <1>8, <2>9 DEF d, place, fails
<1> QED
  BY <1>5, <1>6, <1>7, <1>8 DEF WithMember, m

(* A new class has what its base has, but is not locked. *)
LEMMA NewClass ==
  ASSUME ClassesOK, NEW b \in 0 .. Len(classes)
  PROVE SQClass(b) \in ClassSet /\ ClassOK(SQClass(b)) /\ SQClass(b).base = b
<1>1. CASE b = 0
  <2> DEFINE d == SQClass(b)
  <2>1. /\ d = [base |-> 0, locked |-> FALSE, ctor |-> -1, udsize |-> 0, meta |-> FALSE, members |-> <<>>,
                fields |-> 0, methods |-> 0]
    BY <1>1 DEF SQClass
  <2>2. DOMAIN <<>> = {} /\ <<>> \in [{} -> {"field", "method"} \X Nat] /\ IsFiniteSet({})
    BY FS_EmptySet
  <2>3. <<>> \in MemberMaps
    BY <2>2 DEF MemberMaps
  <2> HIDE DEF d
  <2>4. d \in ClassSet
    BY <2>1, <2>3 DEF ClassSet
  <2>5. ClassOK(d)
    BY <2>1, <2>2 DEF ClassOK, IsMethod
  <2> QED
    BY <1>1, <2>1, <2>4, <2>5 DEF d
<1>2. CASE b # 0
  <2> DEFINE c == classes[b]
             d == [c EXCEPT !.base = b, !.locked = FALSE]
  <2>1. c \in ClassSet /\ ClassOK(c) /\ b \in Nat
    BY <1>2 DEF ClassesOK
  <2> HIDE DEF c
  <2>2. /\ d \in ClassSet /\ d.members = c.members /\ d.fields = c.fields /\ d.methods = c.methods
        /\ d.ctor = c.ctor /\ d.base = b
    BY <2>1 DEF ClassSet
  <2> HIDE DEF d
  <2>3. ClassOK(d)
    BY <2>1, <2>2 DEF ClassOK, IsMethod
  <2> QED
    BY <1>2, <2>2, <2>3 DEF c, d, SQClass
<1> QED
  BY <1>1, <1>2
-----------------------------------------------------------------------------
(* What a step does to the classes and the instances. *)
AddsMember ==
  /\ UNCHANGED instances
  /\ \E c \in 1 .. Len(classes), k \in Keys, closure, static \in BOOLEAN :
       /\ ~NewSlotFails(classes[c], k, closure, static)
       /\ classes' = [classes EXCEPT ![c] = WithMember(classes[c], k, closure, static)]
AddsClass == UNCHANGED instances /\ \E b \in 0 .. Len(classes) : classes' = Append(classes, SQClass(b))
SetsSize ==
  /\ UNCHANGED instances
  /\ \E c \in 1 .. Len(classes) : ~classes[c].locked /\ classes' = [classes EXCEPT ![c].udsize = 1]
AddsInstance ==
  \E c \in 1 .. Len(classes) : instances' = Append(instances, SQInstance(c)) /\ classes' = Locked(c)
ClonesInstance ==
  UNCHANGED classes /\ \E i \in 1 .. Len(instances) : instances' = Append(instances, instances[i])

ClassEffect ==
  \/ UNCHANGED <<classes, instances>>
  \/ AddsMember \/ AddsClass \/ SetsSize \/ AddsInstance \/ ClonesInstance

(* The frame on top. *)
LEMMA TopOK ==
  ASSUME FramesOK, frames # <<>>
  PROVE /\ Top \in FrameSet /\ FrameOK(Top, Len(slots), Len(classes), Len(instances))
        /\ Len(frames) \in Nat \ {0} /\ Top = frames[Len(frames)]
        /\ Top.op \in Ops /\ Top.pc \in Pcs /\ Top.key \in Keys /\ Top.self \in Kinds \X Nat
        /\ Top.raise \in BOOLEAN /\ Top.root \in BOOLEAN
<1>1. Len(frames) \in Nat \ {0} /\ Top = frames[Len(frames)]
  BY DEF FramesOK, Top, Last
<1>2. Top \in FrameSet /\ FrameOK(Top, Len(slots), Len(classes), Len(instances))
  BY <1>1 DEF FramesOK
<1> QED
  BY <1>1, <1>2 DEF FrameSet

(* The names of this world are known. *)
LEMMA KnownKeys ==
  ASSUME world \in Worlds
  PROVE Member \subseteq Keys /\ Name \subseteq Keys /\ Default \subseteq Keys /\ {"x", "constructor"} \subseteq Keys
<1>1. world.names \cup world.members \in {w.names \cup w.members : w \in Worlds}
  OBVIOUS
<1>2. world.names \cup world.members \subseteq WorldKeys
  BY <1>1 DEF WorldKeys
<1> QED
  BY <1>2 DEF Keys, Member, Name

(* Every step does one of these. *)
LEMMA ClassEffects ==
  ASSUME ObjInv, Next
  PROVE ClassEffect
<1>1. DOMAIN classes = 1 .. Len(classes) /\ DOMAIN instances = 1 .. Len(instances)
  BY DEF ObjInv, ClassesOK, InstancesOK
<1>2. FramesOK /\ Member \subseteq Keys
  BY KnownKeys DEF ObjInv
<1>3. ASSUME NEW c \in 1 .. Len(classes), NEW k \in Keys, NEW closure \in BOOLEAN, NEW static \in BOOLEAN,
             ClassNewSlot(c, k, closure, static), UNCHANGED instances
      PROVE ClassEffect
  BY <1>3 DEF ClassNewSlot, ClassEffect, AddsMember
<1>4. CASE UNCHANGED <<classes, instances>>
  BY <1>4 DEF ClassEffect
<1>5. CASE ScriptReturn \/ ScriptThrow \/ sq_newtable \/ sq_setdelegate \/ sq_rawdeleteslot
  BY <1>4, <1>5 DEF ScriptReturn, ScriptThrow, sq_newtable, sq_setdelegate, sq_rawdeleteslot, Fail, heap
<1>6. CASE sq_rawset
  <2>1. CASE \E c \in DOMAIN classes, k \in Member, closure \in BOOLEAN : ClassNewSlot(c, k, closure, FALSE)
    BY <1>1, <1>2, <1>3, <1>6, <2>1 DEF sq_rawset
  <2>2. CASE UNCHANGED classes
    BY <1>4, <1>6, <2>2 DEF sq_rawset
  <2> QED
    BY <1>6, <2>1, <2>2 DEF sq_rawset
<1>7. CASE sq_newclass \/ CLASS_OP
  BY <1>7 DEF sq_newclass, CLASS_OP, ClassEffect, AddsClass
<1>8. CASE sq_setclassudsize
  BY <1>1, <1>8 DEF sq_setclassudsize, ClassEffect, SetsSize
<1>9. CASE sq_rawnewmember
  BY <1>1, <1>2, <1>3, <1>9 DEF sq_rawnewmember
<1>10. CASE sq_createinstance \/ CreateClassInstance
  BY <1>1, <1>10 DEF sq_createinstance, CreateClassInstance, CreateInstance, ClassEffect, AddsInstance
<1>11. CASE BeginAccess \/ GetLookup \/ SetLookup \/ AfterDelegate \/ AccessMeta \/ AccessCalled
  <2>1. UNCHANGED heap
    BY <1>11 DEF BeginAccess, Start, GetLookup, SetLookup, AfterDelegate, AccessMeta, AccessCalled, Found, Goto, Nest,
                 Fail, CallMetaMethod
  <2> QED
    BY <1>4, <2>1 DEF heap
<1>12. CASE InvokeDefaultDelegate \/ RootFallback \/ AfterRoot
  <2>1. UNCHANGED heap
    BY <1>12 DEF InvokeDefaultDelegate, RootFallback, AskRoot, AfterRoot, NoMatch, Goto, Fail
  <2> QED
    BY <1>4, <2>1 DEF heap
<1>13. CASE BeginSlot \/ BeginClone \/ BeginMember
  BY <1>4, <1>13 DEF BeginSlot, Operand, BeginClone, BeginMember, heap
<1>14. CASE NewSlot \/ DeleteSlot
  BY <1>4, <1>14 DEF NewSlot, DeleteSlot, CallMetaMethod, Fail, heap
<1>15. CASE Clone
  <2>1. frames # <<>> /\ Top.op = "Clone"
    BY <1>15 DEF Clone, At
  <2>2. FrameOK(Top, Len(slots), Len(classes), Len(instances))
    BY <1>2, <2>1, TopOK
  <2>3. Top.self[1] # "table" => Top.self[2] \in 1 .. Len(instances)
    BY <2>1, <2>2 DEF FrameOK, SelfOK
  <2> QED
    BY <1>4, <1>15, <2>3 DEF Clone, ClassEffect, ClonesInstance
<1>16. CASE CloneMeta \/ Inherited \/ GetConstructor \/ MetaCalled
  BY <1>4, <1>16 DEF CloneMeta, Inherited, GetConstructor, MetaCalled, CallMetaMethod, heap
<1>17. CASE NewSlotA
  <2>1. frames # <<>> /\ Top.op = "NewMember"
    BY <1>17 DEF NewSlotA, At
  <2>2. Top.self[2] \in 1 .. Len(classes) /\ Top.key \in Keys
    BY <1>2, <2>1, TopOK DEF FrameOK, SelfOK
  <2>3. CASE UNCHANGED heap
    BY <1>4, <2>3 DEF heap
  <2>4. CASE ~UNCHANGED heap
    <3>1. \E closure, static \in BOOLEAN : ClassNewSlot(Top.self[2], Top.key, closure, static) /\ UNCHANGED instances
      BY <1>17, <2>4 DEF NewSlotA, CallMetaMethod, Fail
    <3> QED
      BY <1>3, <2>2, <3>1
  <2> QED
    BY <2>3, <2>4
<1> QED
  BY <1>5, <1>6, <1>7, <1>8, <1>9, <1>10, <1>11, <1>12, <1>13, <1>14, <1>15, <1>16, <1>17 DEF Next

(* The members keep their places: HandlesStay of one step. *)
HandlesKept ==
  \A c \in 1 .. Len(classes) : \A k \in DOMAIN classes[c].members :
    \/ MemberHandle(classes'[c], k) = MemberHandle(classes[c], k)
    \/ IsMethod(classes[c], k) /\ IsField(classes'[c], k) /\ ~classes[c].locked

(* Every effect on the classes keeps the layout of classes and instances. *)
LEMMA ClassesKept ==
  ASSUME ClassesOK, InstancesOK, ClassEffect
  PROVE /\ ClassesOK' /\ InstancesOK' /\ HandlesKept
        /\ Len(classes) <= Len(classes') /\ Len(instances) <= Len(instances')
<1> DEFINE N == Len(classes)
           M == Len(instances)
<1>1. /\ classes \in Seq(ClassSet) /\ N \in Nat /\ instances \in Seq(InstanceSet) /\ M \in Nat
      /\ \A c \in 1 .. N : classes[c] \in ClassSet /\ classes[c].base < c /\ ClassOK(classes[c])
      /\ \A i \in 1 .. M : instances[i] \in InstanceSet
  BY DEF ClassesOK, InstancesOK
<1>2. \A i \in 1 .. M : /\ instances[i].class \in 1 .. N /\ classes[instances[i].class].locked
                        /\ instances[i].values = classes[instances[i].class].fields
                        /\ instances[i].udsize = classes[instances[i].class].udsize
  BY DEF InstancesOK
<1>3. ASSUME classes' \in Seq(ClassSet), N <= Len(classes'), instances' = instances,
             \A c \in 1 .. Len(classes') : classes'[c].base < c /\ ClassOK(classes'[c]),
             \A c \in 1 .. N : classes[c].locked =>
               classes'[c].locked /\ classes'[c].fields = classes[c].fields /\ classes'[c].udsize = classes[c].udsize
      PROVE ClassesOK' /\ InstancesOK' /\ M <= Len(instances')
  <2>1. ClassesOK'
    BY <1>3 DEF ClassesOK
  <2>2. \A i \in 1 .. M : instances[i].class \in 1 .. Len(classes')
    BY <1>1, <1>2, <1>3
  <2>3. InstancesOK'
    BY <1>1, <1>2, <1>3, <2>2 DEF InstancesOK
  <2> QED
    BY <1>1, <1>3, <2>1, <2>3
<1>4. CASE UNCHANGED <<classes, instances>>
  BY <1>1, <1>4 DEF ClassesOK, InstancesOK, HandlesKept
<1>5. CASE AddsMember
  <2>1. PICK c \in 1 .. N, k \in Keys, closure \in BOOLEAN, static \in BOOLEAN :
          /\ ~NewSlotFails(classes[c], k, closure, static)
          /\ classes' = [classes EXCEPT ![c] = WithMember(classes[c], k, closure, static)]
    BY <1>5 DEF AddsMember
  <2>2. PICK d : d = WithMember(classes[c], k, closure, static)
    OBVIOUS
  <2>3. MemberAdded(classes[c], d, FALSE)
    <3>1. MemberAdded(classes[c], d, NewSlotFails(classes[c], k, closure, static))
      BY <1>1, <2>2, Added
    <3> QED
      BY <2>1, <3>1 DEF MemberAdded
  <2>4. d \in ClassSet /\ classes' = [classes EXCEPT ![c] = d]
    BY <2>1, <2>2, <2>3 DEF MemberAdded
  <2>5. /\ classes' \in Seq(ClassSet) /\ Len(classes') = N
        /\ classes'[c] = d /\ \A e \in 1 .. N : e # c => classes'[e] = classes[e]
    BY <1>1, <2>4
  <2>6. \A e \in 1 .. Len(classes') : classes'[e].base < e /\ ClassOK(classes'[e])
    BY <1>1, <2>3, <2>5 DEF MemberAdded
  <2>7. \A e \in 1 .. N : classes[e].locked =>
           classes'[e].locked /\ classes'[e].fields = classes[e].fields /\ classes'[e].udsize = classes[e].udsize
    BY <2>3, <2>5 DEF MemberAdded
  <2>8. HandlesKept
    BY <2>3, <2>5 DEF HandlesKept, MemberAdded, MemberHandle
  <2>9. instances' = instances /\ N <= Len(classes')
    BY <1>1, <1>5, <2>5 DEF AddsMember
  <2> QED
    BY <1>3, <2>5, <2>6, <2>7, <2>8, <2>9
<1>6. CASE AddsClass
  <2>1. PICK b \in 0 .. N : classes' = Append(classes, SQClass(b))
    BY <1>6 DEF AddsClass
  <2>2. PICK d : d = SQClass(b)
    OBVIOUS
  <2>3. d \in ClassSet /\ ClassOK(d) /\ d.base = b
    BY <2>2, NewClass
  <2>4. /\ classes' \in Seq(ClassSet) /\ Len(classes') = N + 1
        /\ classes'[N + 1] = d /\ \A e \in 1 .. N : classes'[e] = classes[e]
    BY <1>1, <2>1, <2>2, <2>3, AppendProperties
  <2>5. \A e \in 1 .. Len(classes') : e \in 1 .. N \/ e = N + 1
    BY <1>1, <2>4
  <2>6. \A e \in 1 .. Len(classes') : classes'[e].base < e /\ ClassOK(classes'[e])
    BY <1>1, <2>3, <2>4, <2>5
  <2>7. instances' = instances /\ N <= Len(classes')
    BY <1>1, <1>6, <2>4 DEF AddsClass
  <2>8. HandlesKept
    BY <2>4 DEF HandlesKept
  <2> QED
    BY <1>3, <2>4, <2>6, <2>7, <2>8
<1>7. CASE SetsSize
  <2>1. PICK c \in 1 .. N : ~classes[c].locked /\ classes' = [classes EXCEPT ![c].udsize = 1]
    BY <1>7 DEF SetsSize
  <2>2. PICK d : d = [classes[c] EXCEPT !.udsize = 1]
    OBVIOUS
  <2>3. /\ d \in ClassSet /\ d.members = classes[c].members /\ d.fields = classes[c].fields
        /\ d.methods = classes[c].methods /\ d.ctor = classes[c].ctor /\ d.base = classes[c].base
    BY <1>1, <2>2 DEF ClassSet
  <2>4. ClassOK(d)
    BY <1>1, <2>3 DEF ClassOK, IsMethod
  <2>5. classes' = [classes EXCEPT ![c] = d]
    BY <2>1, <2>2
  <2>6. /\ classes' \in Seq(ClassSet) /\ Len(classes') = N
        /\ classes'[c] = d /\ \A e \in 1 .. N : e # c => classes'[e] = classes[e]
    BY <1>1, <2>3, <2>5
  <2>7. \A e \in 1 .. Len(classes') : classes'[e].base < e /\ ClassOK(classes'[e])
    BY <1>1, <2>3, <2>4, <2>6
  <2>8. \A e \in 1 .. N : classes[e].locked =>
           classes'[e].locked /\ classes'[e].fields = classes[e].fields /\ classes'[e].udsize = classes[e].udsize
    BY <2>1, <2>6
  <2>9. HandlesKept
    BY <2>3, <2>6 DEF HandlesKept, MemberHandle
  <2>10. instances' = instances /\ N <= Len(classes')
    BY <1>1, <1>7, <2>6 DEF SetsSize
  <2> QED
    BY <1>3, <2>6, <2>7, <2>8, <2>9, <2>10
<1>8. CASE AddsInstance
  <2>1. PICK c \in 1 .. N : instances' = Append(instances, SQInstance(c)) /\ classes' = Locked(c)
    BY <1>8 DEF AddsInstance
  <2>2. c \in Bases(c)
    BY BasesSelf
  <2>3. DOMAIN classes = 1 .. N
    BY <1>1
  <2>4. \A e \in 1 .. N : classes'[e] = [classes[e] EXCEPT !.locked = classes[e].locked \/ e \in Bases(c)]
    BY <2>1, <2>3 DEF Locked
  <2>5. \A e \in 1 .. N :
          /\ classes'[e] \in ClassSet /\ classes'[e].members = classes[e].members
          /\ classes'[e].fields = classes[e].fields /\ classes'[e].methods = classes[e].methods
          /\ classes'[e].ctor = classes[e].ctor /\ classes'[e].base = classes[e].base
          /\ classes'[e].udsize = classes[e].udsize
          /\ classes'[e].locked = (classes[e].locked \/ e \in Bases(c))
    <3> SUFFICES ASSUME NEW e \in 1 .. N, NEW b \in BOOLEAN, b = (classes[e].locked \/ e \in Bases(c))
                 PROVE /\ classes'[e] \in ClassSet /\ classes'[e].members = classes[e].members
                       /\ classes'[e].fields = classes[e].fields /\ classes'[e].methods = classes[e].methods
                       /\ classes'[e].ctor = classes[e].ctor /\ classes'[e].base = classes[e].base
                       /\ classes'[e].udsize = classes[e].udsize
                       /\ classes'[e].locked = b
      OBVIOUS
    <3>1. classes'[e] = [classes[e] EXCEPT !.locked = b] /\ classes[e] \in ClassSet
      BY <1>1, <2>4
    <3> QED
      BY <3>1 DEF ClassSet
  <2>6. classes' \in [1 .. N -> ClassSet]
    BY <2>1, <2>3, <2>5 DEF Locked
  <2>7. classes' \in Seq(ClassSet) /\ Len(classes') = N
    <3>1. classes' \in Seq(ClassSet)
      BY <1>1, <2>6, SeqDef
    <3> QED
      BY <1>1, <2>6, <3>1, LenProperties
  <2>8. \A e \in 1 .. N : classes'[e].base < e /\ ClassOK(classes'[e])
    BY <1>1, <2>5 DEF ClassOK, IsMethod
  <2>9. ClassesOK' /\ HandlesKept
    BY <2>5, <2>7, <2>8 DEF ClassesOK, HandlesKept, MemberHandle
  <2>10. PICK x : x = SQInstance(c)
    OBVIOUS
  <2>11. classes[c] \in ClassSet /\ classes[c].fields \in Nat /\ classes[c].udsize \in Nat /\ c \in Nat
    <3>1. classes[c] \in ClassSet /\ c \in Nat
      BY <1>1
    <3> QED
      BY <3>1 DEF ClassSet
  <2>12. x \in InstanceSet /\ x.class = c /\ x.values = classes[c].fields /\ x.udsize = classes[c].udsize
    BY <2>10, <2>11 DEF SQInstance, InstanceSet
  <2>13. /\ instances' \in Seq(InstanceSet) /\ Len(instances') = M + 1
         /\ instances'[M + 1] = x /\ \A i \in 1 .. M : instances'[i] = instances[i]
    BY <1>1, <2>1, <2>10, <2>12, AppendProperties
  <2>14. \A i \in 1 .. M + 1 : i \in 1 .. M \/ i = M + 1
    BY <1>1
  <2>15. \A i \in 1 .. M + 1 : /\ instances'[i].class \in 1 .. N /\ classes'[instances'[i].class].locked
                               /\ instances'[i].values = classes'[instances'[i].class].fields
                               /\ instances'[i].udsize = classes'[instances'[i].class].udsize
    <3> SUFFICES ASSUME NEW i \in 1 .. M + 1
                 PROVE /\ instances'[i].class \in 1 .. N /\ classes'[instances'[i].class].locked
                       /\ instances'[i].values = classes'[instances'[i].class].fields
                       /\ instances'[i].udsize = classes'[instances'[i].class].udsize
      OBVIOUS
    <3>1. CASE i \in 1 .. M
      <4>1. PICK e : e = instances[i].class
        OBVIOUS
      <4>2. /\ e \in 1 .. N /\ classes[e].locked /\ instances'[i].class = e
            /\ instances'[i].values = classes[e].fields /\ instances'[i].udsize = classes[e].udsize
        BY <1>2, <2>13, <3>1, <4>1
      <4>3. classes'[e].locked /\ classes'[e].fields = classes[e].fields /\ classes'[e].udsize = classes[e].udsize
        BY <2>5, <4>2
      <4> QED
        BY <4>2, <4>3
    <3>2. CASE i = M + 1
      <4>1. classes'[c].locked /\ classes'[c].fields = classes[c].fields /\ classes'[c].udsize = classes[c].udsize
        BY <2>2, <2>5
      <4> QED
        BY <2>12, <2>13, <3>2, <4>1
    <3> QED
      BY <2>14, <3>1, <3>2
  <2>16. InstancesOK'
    BY <2>7, <2>13, <2>15 DEF InstancesOK
  <2> QED
    BY <1>1, <2>7, <2>9, <2>13, <2>16
<1>9. CASE ClonesInstance
  <2>1. PICK j \in 1 .. M : instances' = Append(instances, instances[j])
    BY <1>9 DEF ClonesInstance
  <2>2. /\ instances' \in Seq(InstanceSet) /\ Len(instances') = M + 1
        /\ instances'[M + 1] = instances[j] /\ \A i \in 1 .. M : instances'[i] = instances[i]
    BY <1>1, <2>1, AppendProperties
  <2>3. \A i \in 1 .. M + 1 : i \in 1 .. M \/ i = M + 1
    BY <1>1
  <2>4. classes' = classes
    BY <1>9 DEF ClonesInstance
  <2>5. \A i \in 1 .. M + 1 : /\ instances'[i].class \in 1 .. N /\ classes[instances'[i].class].locked
                              /\ instances'[i].values = classes[instances'[i].class].fields
                              /\ instances'[i].udsize = classes[instances'[i].class].udsize
    BY <1>2, <2>2, <2>3
  <2>6. InstancesOK' /\ ClassesOK' /\ HandlesKept
    BY <2>2, <2>4, <2>5 DEF InstancesOK, ClassesOK, HandlesKept
  <2> QED
    BY <1>1, <2>2, <2>4, <2>6
<1> QED
  BY <1>4, <1>5, <1>6, <1>7, <1>8, <1>9 DEF ClassEffect
-----------------------------------------------------------------------------
(* What a step does to the tables. *)
LEMMA TablesKept ==
  ASSUME ObjInv, Next
  PROVE TablesOK' /\ Len(slots) <= Len(slots')
<1> DEFINE N == Len(slots)
<1>1. /\ slots \in Seq(SUBSET Keys) /\ N \in Nat /\ N >= 1 /\ delegate \in Seq(Nat) /\ Len(delegate) = N
      /\ \A t \in 1 .. N : delegate[t] \in 0 .. N /\ slots[t] \in SUBSET Keys
      /\ udelegate \in 0 .. N /\ Table = 1 .. N
  BY DEF ObjInv, TablesOK, Table
<1>2. FramesOK /\ Name \subseteq Keys
  BY KnownKeys DEF ObjInv
<1>3. CASE UNCHANGED <<slots, delegate, udelegate>>
  BY <1>1, <1>3 DEF TablesOK
<1>4. ASSUME NEW t \in 1 .. N, NEW X \in SUBSET Keys, slots' = [slots EXCEPT ![t] = X], UNCHANGED <<delegate, udelegate>>
      PROVE TablesOK' /\ N <= Len(slots')
  <2>1. slots' \in Seq(SUBSET Keys) /\ Len(slots') = N
    BY <1>1, <1>4
  <2> QED
    BY <1>1, <1>4, <2>1 DEF TablesOK
<1>5. ASSUME NEW X \in SUBSET Keys, NEW d \in 0 .. N, slots' = Append(slots, X), delegate' = Append(delegate, d),
             UNCHANGED udelegate
      PROVE TablesOK' /\ N <= Len(slots')
  <2>1. slots' \in Seq(SUBSET Keys) /\ Len(slots') = N + 1
    BY <1>1, <1>5, AppendProperties
  <2>2. d \in Nat
    BY <1>1
  <2>3. /\ delegate' \in Seq(Nat) /\ Len(delegate') = N + 1
        /\ \A t \in 1 .. N : delegate'[t] = delegate[t]
        /\ delegate'[N + 1] = d
    BY <1>1, <1>5, <2>2, AppendProperties
  <2>4. \A t \in 1 .. N + 1 : delegate'[t] \in 0 .. N + 1
    <3>1. \A t \in 1 .. N + 1 : t \in 1 .. N \/ t = N + 1
      BY <1>1
    <3>2. \A x \in 0 .. N : x \in 0 .. N + 1
      BY <1>1
    <3> QED
      BY <1>1, <2>3, <3>1, <3>2
  <2> QED
    BY <1>1, <1>5, <2>1, <2>3, <2>4 DEF TablesOK
<1>6. CASE sq_newtable
  <2>1. 0 \in 0 .. N /\ {} \in SUBSET Keys
    BY <1>1
  <2> QED
    BY <1>5, <1>6, <2>1 DEF sq_newtable
<1>7. CASE sq_setdelegate
  <2>1. slots' = slots
    BY <1>7 DEF sq_setdelegate
  <2>2. CASE \E t \in Table, mt \in Table \union {0} :
               /\ delegate' = IF MakesCycle(t, mt) THEN delegate ELSE [delegate EXCEPT ![t] = mt]
               /\ UNCHANGED udelegate
    <3>1. PICK t \in 1 .. N, mt \in 0 .. N :
               /\ delegate' = delegate \/ delegate' = [delegate EXCEPT ![t] = mt]
               /\ UNCHANGED udelegate
      <4>1. Table \union {0} = 0 .. N
        BY <1>1
      <4> QED
        BY <1>1, <2>2, <4>1
    <3>2. mt \in Nat
      BY <1>1
    <3>3. delegate' \in Seq(Nat) /\ Len(delegate') = N /\ \A u \in 1 .. N : delegate'[u] \in 0 .. N
      <4>1. CASE delegate' = delegate
        BY <1>1, <4>1
      <4>2. CASE delegate' = [delegate EXCEPT ![t] = mt]
        <5>1. /\ delegate' \in Seq(Nat) /\ Len(delegate') = N
              /\ \A u \in 1 .. N : delegate'[u] = IF u = t THEN mt ELSE delegate[u]
          BY <1>1, <3>2, <4>2, ExceptSeq
        <5> QED
          BY <1>1, <5>1
      <4> QED
        BY <3>1, <4>1, <4>2
    <3> QED
      BY <1>1, <2>1, <3>1, <3>3 DEF TablesOK
  <2>3. CASE \E mt \in Table \union {0} : udelegate' = mt /\ UNCHANGED delegate
    BY <1>1, <2>1, <2>3 DEF TablesOK
  <2> QED
    BY <1>7, <2>2, <2>3 DEF sq_setdelegate
<1>8. CASE sq_rawset
  <2>1. CASE \E t \in Table, k \in Name : slots' = [slots EXCEPT ![t] = slots[t] \union {k}]
    <3>1. PICK t \in 1 .. N, k \in Keys : slots' = [slots EXCEPT ![t] = slots[t] \union {k}]
      BY <1>1, <1>2, <2>1
    <3>2. slots[t] \union {k} \in SUBSET Keys
      BY <1>1
    <3> QED
      BY <1>4, <1>8, <3>1, <3>2 DEF sq_rawset
  <2>2. CASE UNCHANGED slots
    BY <1>3, <1>8, <2>2 DEF sq_rawset
  <2> QED
    BY <1>8, <2>1, <2>2 DEF sq_rawset
<1>9. CASE sq_rawdeleteslot
  <2>1. PICK t \in 1 .. N, k \in Name : slots' = [slots EXCEPT ![t] = slots[t] \ {k}]
    BY <1>1, <1>9 DEF sq_rawdeleteslot
  <2>2. slots[t] \ {k} \in SUBSET Keys
    BY <1>1
  <2> QED
    BY <1>4, <1>9, <2>1, <2>2 DEF sq_rawdeleteslot
<1>10. CASE NewSlot \/ DeleteSlot
  <2>1. frames # <<>> /\ Top.op \in {"NewSlot", "DeleteSlot"}
    BY <1>10 DEF NewSlot, DeleteSlot, At
  <2>2. /\ Top.self[1] \in {"table", "instance"} /\ (Top.self[1] = "table" => Top.self[2] \in 1 .. N)
        /\ Top.key \in Keys
    BY <1>2, <2>1, TopOK DEF FrameOK, SelfOK
  <2>3. CASE UNCHANGED heap
    BY <1>3, <2>3 DEF heap
  <2>4. CASE ~UNCHANGED heap
    <3>1. /\ Top.self[1] = "table" /\ UNCHANGED <<delegate, udelegate>>
          /\ \/ slots' = [slots EXCEPT ![Top.self[2]] = slots[Top.self[2]] \union {Top.key}]
             \/ slots' = [slots EXCEPT ![Top.self[2]] = slots[Top.self[2]] \ {Top.key}]
      BY <1>10, <2>2, <2>4 DEF NewSlot, DeleteSlot, CallMetaMethod, Fail
    <3>2. PICK t \in 1 .. N, k \in Keys : /\ t = Top.self[2] /\ k = Top.key
            /\ \/ slots' = [slots EXCEPT ![t] = slots[t] \union {k}]
               \/ slots' = [slots EXCEPT ![t] = slots[t] \ {k}]
      BY <2>2, <3>1
    <3>3. slots[t] \union {k} \in SUBSET Keys /\ slots[t] \ {k} \in SUBSET Keys
      BY <1>1
    <3> QED
      BY <1>4, <3>1, <3>2, <3>3
  <2> QED
    BY <2>3, <2>4
<1>11. CASE Clone
  <2>1. frames # <<>> /\ Top.op = "Clone"
    BY <1>11 DEF Clone, At
  <2>2. Top.self[1] = "table" => Top.self[2] \in 1 .. N
    BY <1>2, <2>1, TopOK DEF FrameOK, SelfOK
  <2>3. CASE Top.self[1] = "table"
    <3>1. slots[Top.self[2]] \in SUBSET Keys /\ DelegateOf(Top.self) \in 0 .. N
      BY <1>1, <2>2, <2>3 DEF DelegateOf
    <3> QED
      BY <1>5, <1>11, <2>3, <3>1 DEF Clone
  <2>4. CASE Top.self[1] # "table"
    BY <1>3, <1>11, <2>4 DEF Clone
  <2> QED
    BY <2>3, <2>4
<1>12. CASE ScriptReturn \/ ScriptThrow \/ sq_newclass \/ sq_setclassudsize \/ sq_rawnewmember \/ sq_createinstance
            \/ CLASS_OP \/ CreateClassInstance
  BY <1>3, <1>12 DEF ScriptReturn, ScriptThrow, sq_newclass, sq_setclassudsize, sq_rawnewmember, sq_createinstance,
                     CLASS_OP, CreateClassInstance, CreateInstance, Fail, heap
<1>13. CASE BeginAccess \/ GetLookup \/ SetLookup \/ AfterDelegate \/ AccessMeta \/ AccessCalled
  <2>1. UNCHANGED heap
    BY <1>13 DEF BeginAccess, Start, GetLookup, SetLookup, AfterDelegate, AccessMeta, AccessCalled, Found, Goto, Nest,
                 Fail, CallMetaMethod
  <2> QED
    BY <1>3, <2>1 DEF heap
<1>14. CASE InvokeDefaultDelegate \/ RootFallback \/ AfterRoot
  <2>1. UNCHANGED heap
    BY <1>14 DEF InvokeDefaultDelegate, RootFallback, AskRoot, AfterRoot, NoMatch, Goto, Fail
  <2> QED
    BY <1>3, <2>1 DEF heap
<1>15. CASE BeginSlot \/ BeginClone \/ BeginMember \/ CloneMeta \/ Inherited \/ GetConstructor \/ MetaCalled
  BY <1>3, <1>15 DEF BeginSlot, Operand, BeginClone, BeginMember, CloneMeta, Inherited, GetConstructor, MetaCalled,
                     CallMetaMethod, heap
<1>16. CASE NewSlotA
  BY <1>3, <1>16 DEF NewSlotA, CallMetaMethod, Fail, heap
<1> QED
  BY <1>6, <1>7, <1>8, <1>9, <1>10, <1>11, <1>12, <1>13, <1>14, <1>15, <1>16 DEF Next
-----------------------------------------------------------------------------
(* What a step does to the frames, and to what is held for them. *)
Weight(pc, n) == IF pc = "called" THEN n ELSE 0
Holds(p) ==
  /\ vtop' = vtop + Weight(p, Pushed(Top.op)) - Weight(Top.pc, Pushed(Top.op))
  /\ nmeta' = nmeta + Weight(p, Counted(Top.op)) - Weight(Top.pc, Counted(Top.op))
IsNew(f) == f \in FrameSet /\ f.pc = "lookup" /\ FrameOK(f, Len(slots'), Len(classes'), Len(instances'))

Begins == \E f : IsNew(f) /\ frames' = Append(frames, f) /\ UNCHANGED <<vtop, nmeta>>
Turns == frames # <<>> /\ \E p \in Pcs : Holds(p) /\ frames' = [frames EXCEPT ![Len(frames)].pc = p]
Calls ==
  frames # <<>> /\ \E p \in Pcs : \E f :
    IsNew(f) /\ Holds(p) /\ frames' = Append([frames EXCEPT ![Len(frames)].pc = p], f)
Returning == frames # <<>> /\ Holds("ended") /\ frames' = Front(frames)
FrameEffect == UNCHANGED <<frames, vtop, nmeta>> \/ Begins \/ Turns \/ Calls \/ Returning

(* What is pushed and counted is a number. *)
LEMMA Amounts ==
  ASSUME NEW op
  PROVE Pushed(op) \in Nat /\ Counted(op) \in Nat
BY DEF Pushed, Counted

(* The objects are known. *)
LEMMA ObjectOK ==
  ASSUME ObjInv, NEW o \in Object
  PROVE /\ o \in Kinds \X Nat /\ o[1] \in {"table", "class", "instance", "userdata"}
        /\ SelfOK(o, Len(slots), Len(classes), Len(instances))
<1>1. /\ DOMAIN slots = 1 .. Len(slots) /\ DOMAIN classes = 1 .. Len(classes)
      /\ DOMAIN instances = 1 .. Len(instances)
      /\ Len(slots) \in Nat /\ Len(classes) \in Nat /\ Len(instances) \in Nat
  BY DEF ObjInv, TablesOK, ClassesOK, InstancesOK
<1>2. \/ \E t \in 1 .. Len(slots) : o = <<"table", t>>
      \/ \E t \in 1 .. Len(classes) : o = <<"class", t>>
      \/ \E t \in 1 .. Len(instances) : o = <<"instance", t>>
      \/ o = <<"userdata", 0>>
  BY <1>1 DEF Object, Table
<1>3. o[1] \in {"table", "class", "instance", "userdata"} /\ o \in Kinds \X Nat
  BY <1>1, <1>2 DEF Kinds
<1> QED
  BY <1>2, <1>3 DEF SelfOK

(* The steps that frames make. *)
LEMMA Moves ==
  ASSUME FramesOK, frames # <<>>, Top.pc # "called"
  PROVE /\ \A p \in Pcs : p # "called" /\ Goto(p) => FrameEffect
        /\ \A p \in Pcs : \A f : p # "called" /\ IsNew(f) /\ Nest(p, f) => FrameEffect
        /\ \A ok, from : Return(ok, from) /\ Keep => FrameEffect
        /\ \A e : Fail(e) => FrameEffect
        /\ CallMetaMethod(Pushed(Top.op), Counted(Top.op)) => FrameEffect
        /\ \A ok, from : PopFrame(ok, from) /\ UNCHANGED <<vtop, nmeta>> => FrameEffect
        /\ \A p \in Pcs : p # "called" /\ frames' = [frames EXCEPT ![Len(frames)].pc = p] /\ Keep => FrameEffect
        /\ \A p \in Pcs : \A f :
             p # "called" /\ IsNew(f) /\ frames' = Append([frames EXCEPT ![Len(frames)].pc = p], f) /\ Keep => FrameEffect
<1>1. vtop \in Int /\ nmeta \in Int /\ Pushed(Top.op) \in Nat /\ Counted(Top.op) \in Nat
  BY Amounts DEF FramesOK
<1>2. \A p : p # "called" /\ UNCHANGED <<vtop, nmeta>> => Holds(p)
  BY <1>1 DEF Holds, Weight
<1>3. \A p \in Pcs : p # "called" /\ Goto(p) => FrameEffect
  BY <1>2 DEF Goto, FrameEffect, Turns
<1>4. \A p \in Pcs : \A f : p # "called" /\ IsNew(f) /\ Nest(p, f) => FrameEffect
  BY <1>2 DEF Nest, FrameEffect, Calls
<1>5. \A ok, from : Return(ok, from) /\ UNCHANGED <<vtop, nmeta>> => FrameEffect
  BY <1>2 DEF Return, PopFrame, FrameEffect, Returning
<1>6. \A ok, from : Return(ok, from) /\ Keep => FrameEffect
  BY <1>5 DEF Keep
<1>7. \A e : Fail(e) => FrameEffect
  BY <1>5 DEF Fail
<1>8. CallMetaMethod(Pushed(Top.op), Counted(Top.op)) => FrameEffect
  <2> SUFFICES ASSUME CallMetaMethod(Pushed(Top.op), Counted(Top.op)) PROVE FrameEffect
    OBVIOUS
  <2>1. vtop' = vtop + Pushed(Top.op) /\ nmeta' = nmeta + Counted(Top.op)
        /\ frames' = Append([frames EXCEPT ![Len(frames)].pc = "called"], Script)
    BY DEF CallMetaMethod
  <2>2. Holds("called")
    BY <1>1, <2>1 DEF Holds, Weight
  <2>3. IsNew(Script)
    <3>1. "x" \in Keys
      BY DEF Keys
    <3>2. Script = [op |-> "Script", self |-> <<"nowhere", 0>>, key |-> "x", raise |-> FALSE, root |-> FALSE, pc |-> "lookup"]
      BY DEF Script, Frame, Nowhere
    <3>3. Script \in FrameSet
      BY <3>1, <3>2 DEF FrameSet, Ops, Pcs, Kinds
    <3> QED
      BY <3>2, <3>3 DEF IsNew, FrameOK, SelfOK
  <2> QED
    <3>1. "called" \in Pcs
      BY DEF Pcs
    <3> QED
      BY <2>1, <2>2, <2>3, <3>1 DEF FrameEffect, Calls
<1>9. \A ok, from : PopFrame(ok, from) /\ UNCHANGED <<vtop, nmeta>> => FrameEffect
  BY <1>2 DEF PopFrame, FrameEffect, Returning
<1>10. \A p \in Pcs : p # "called" /\ frames' = [frames EXCEPT ![Len(frames)].pc = p] /\ Keep => FrameEffect
  BY <1>2 DEF Keep, FrameEffect, Turns
<1>11. \A p \in Pcs : \A f :
         p # "called" /\ IsNew(f) /\ frames' = Append([frames EXCEPT ![Len(frames)].pc = p], f) /\ Keep => FrameEffect
  BY <1>2 DEF Keep, FrameEffect, Calls
<1> QED
  BY <1>3, <1>4, <1>6, <1>7, <1>8, <1>9, <1>10, <1>11

(* A call that waited for its metamethod goes on. *)
LEMMA MovesCalled ==
  ASSUME FramesOK, frames # <<>>, Top.pc = "called", Called(Pushed(Top.op), Counted(Top.op))
  PROVE /\ \A p \in Pcs : p # "called" /\ frames' = [frames EXCEPT ![Len(frames)].pc = p] => FrameEffect
        /\ \A ok, from : Return(ok, from) => FrameEffect
<1>1. vtop \in Int /\ nmeta \in Int /\ Pushed(Top.op) \in Nat /\ Counted(Top.op) \in Nat
  BY Amounts DEF FramesOK
<1>2. \A p : p # "called" => Holds(p)
  BY <1>1 DEF Holds, Weight, Called
<1> QED
  BY <1>2 DEF Return, PopFrame, FrameEffect, Returning, Turns

(* A frame begins. *)
LEMMA MovesBegin ==
  ASSUME NEW op \in Ops, NEW o \in Kinds \X Nat, NEW k \in Keys, NEW root \in BOOLEAN, Begin(op, o, k, root),
         SelfOK(o, Len(slots'), Len(classes'), Len(instances')),
         op \in {"Clone", "NewSlot", "DeleteSlot"} => o[1] \in {"table", "instance"},
         op = "NewMember" => o[1] = "class",
         op \in {"Get", "Set"} => o[1] \in {"table", "class", "instance", "userdata"}
  PROVE FrameEffect
<1> DEFINE f == Frame(op, o, k, TRUE, root)
<1>1. f = [op |-> op, self |-> o, key |-> k, raise |-> TRUE, root |-> root, pc |-> "lookup"]
  BY DEF Frame
<1>2. frames' = Append(frames, f) /\ UNCHANGED <<vtop, nmeta>>
  BY DEF Begin
<1> HIDE DEF f
<1>3. f \in FrameSet
  BY <1>1 DEF FrameSet, Pcs
<1>4. IsNew(f)
  BY <1>1, <1>3 DEF IsNew, FrameOK
<1> QED
  BY <1>2, <1>4 DEF FrameEffect, Begins

(* Every step does one of these. *)
LEMMA FrameEffects ==
  ASSUME ObjInv, Next
  PROVE FrameEffect
<1>1. FramesOK /\ {"x", "constructor"} \subseteq Keys /\ Default \subseteq Keys /\ Member \subseteq Keys
  BY KnownKeys DEF ObjInv
<1>2. /\ Len(slots) \in Nat /\ Len(slots) >= 1 /\ Len(classes) \in Nat /\ Len(instances) \in Nat
      /\ \A t \in 1 .. Len(slots) : delegate[t] \in 0 .. Len(slots)
      /\ udelegate \in 0 .. Len(slots)
      /\ DOMAIN classes = 1 .. Len(classes)
  BY DEF ObjInv, TablesOK, ClassesOK, InstancesOK
<1>3. CASE sq_newtable \/ sq_setdelegate \/ sq_rawset \/ sq_rawdeleteslot \/ sq_newclass \/ sq_setclassudsize
           \/ sq_rawnewmember \/ sq_createinstance
  <2>1. Mutation
    BY <1>3 DEF sq_newtable, sq_setdelegate, sq_rawset, sq_rawdeleteslot, sq_newclass, sq_setclassudsize,
                sq_rawnewmember, sq_createinstance
  <2> QED
    BY <2>1 DEF Mutation, FrameEffect
<1>4. ASSUME NEW op \in Ops, NEW o \in Object, NEW k \in Keys, NEW root \in BOOLEAN, Begin(op, o, k, root),
             UNCHANGED heap,
             op \in {"Clone", "NewSlot", "DeleteSlot"} => o[1] \in {"table", "instance"},
             op = "NewMember" => o[1] = "class"
      PROVE FrameEffect
  <2>1. /\ o \in Kinds \X Nat /\ o[1] \in {"table", "class", "instance", "userdata"}
        /\ SelfOK(o, Len(slots), Len(classes), Len(instances))
    BY ObjectOK
  <2>2. SelfOK(o, Len(slots'), Len(classes'), Len(instances'))
    BY <1>4, <2>1 DEF heap
  <2> QED
    BY <1>4, <2>1, <2>2, MovesBegin
<1>5. CASE BeginAccess
  <2>1. PICK op \in {"Get", "Set"}, o \in Object, k \in {"x"} \union Default, root \in BOOLEAN : Begin(op, o, k, root)
    BY <1>5 DEF BeginAccess, Start
  <2>2. UNCHANGED heap
    BY <1>5 DEF BeginAccess, Start
  <2>3. op \in Ops /\ k \in Keys /\ op # "NewMember" /\ op \notin {"Clone", "NewSlot", "DeleteSlot"}
    BY <1>1 DEF Ops
  <2> QED
    BY <1>4, <2>1, <2>2, <2>3
<1>6. CASE BeginSlot
  <2>1. PICK op \in {"NewSlot", "DeleteSlot"}, o \in Object : o[1] \in {"table", "instance"} /\ Begin(op, o, "x", FALSE)
    BY <1>6 DEF BeginSlot, Operand
  <2>2. UNCHANGED heap
    BY <1>6 DEF BeginSlot, Operand
  <2>3. op \in Ops /\ "x" \in Keys /\ op # "NewMember"
    BY <1>1 DEF Ops
  <2> QED
    BY <1>4, <2>1, <2>2, <2>3
<1>7. CASE BeginClone
  <2>1. PICK o \in Object : o[1] \in {"table", "instance"} /\ Begin("Clone", o, "x", FALSE)
    BY <1>7 DEF BeginClone
  <2>2. UNCHANGED heap
    BY <1>7 DEF BeginClone
  <2>3. "Clone" \in Ops /\ "x" \in Keys
    BY <1>1 DEF Ops
  <2> QED
    BY <1>4, <2>1, <2>2, <2>3
<1>8. CASE BeginMember
  <2>1. PICK c \in 1 .. Len(classes), k \in Keys : Begin("NewMember", <<"class", c>>, k, FALSE)
    BY <1>1, <1>2, <1>8 DEF BeginMember
  <2>2. UNCHANGED heap
    BY <1>8 DEF BeginMember
  <2>3. "NewMember" \in Ops /\ <<"class", c>> \in Object
    BY <1>2 DEF Ops, Object
  <2> QED
    BY <1>4, <2>1, <2>2, <2>3
<1>9. CASE CLASS_OP
  <2>1. PICK b \in 0 .. Len(classes) : /\ classes' = Append(classes, SQClass(b))
                                       /\ Begin("ClassOp", <<"class", Len(classes) + 1>>, "x", FALSE)
    BY <1>9 DEF CLASS_OP
  <2>2. Len(classes') = Len(classes) + 1
    <3>1. classes \in Seq(ClassSet) /\ SQClass(b) \in ClassSet
      BY NewClass DEF ObjInv, ClassesOK
    <3> QED
      BY <2>1, <3>1, AppendProperties
  <2>3. "ClassOp" \in Ops /\ <<"class", Len(classes) + 1>> \in Kinds \X Nat
    BY <1>2 DEF Ops, Kinds
  <2>4. SelfOK(<<"class", Len(classes) + 1>>, Len(slots'), Len(classes'), Len(instances'))
    BY <1>2, <2>2 DEF SelfOK
  <2> QED
    BY <1>1, <2>1, <2>3, <2>4, MovesBegin
<1>10. CASE CreateClassInstance
  <2>1. PICK c \in 1 .. Len(classes) : /\ instances' = Append(instances, SQInstance(c))
                                       /\ Begin("New", <<"instance", Len(instances) + 1>>, "constructor", FALSE)
    BY <1>2, <1>10 DEF CreateClassInstance, CreateInstance
  <2>2. Len(instances') = Len(instances) + 1
    <3>1. instances \in Seq(InstanceSet) /\ classes[c] \in ClassSet /\ c \in Nat
      BY <1>2 DEF ObjInv, InstancesOK, ClassesOK
    <3>2. classes[c].fields \in Nat /\ classes[c].udsize \in Nat
      BY <3>1 DEF ClassSet
    <3>3. SQInstance(c) \in InstanceSet
      BY <3>1, <3>2 DEF SQInstance, InstanceSet
    <3> QED
      BY <2>1, <3>1, <3>3, AppendProperties
  <2>3. "New" \in Ops /\ <<"instance", Len(instances) + 1>> \in Kinds \X Nat
    BY <1>2 DEF Ops, Kinds
  <2>4. SelfOK(<<"instance", Len(instances) + 1>>, Len(slots'), Len(classes'), Len(instances'))
    BY <1>2, <2>2 DEF SelfOK
  <2> QED
    BY <1>1, <2>1, <2>3, <2>4, MovesBegin
<1>11. ASSUME frames # <<>>, Top.pc # "called", NEW op \in Ops, NEW t \in 1 .. Len(slots), NEW p \in Pcs, p # "called",
              NEW raise \in BOOLEAN, UNCHANGED heap, op \in {"Get", "Set"}, Keep,
              frames' = Append([frames EXCEPT ![Len(frames)].pc = p], Frame(op, <<"table", t>>, Top.key, raise, FALSE))
       PROVE FrameEffect
  <2> DEFINE f == Frame(op, <<"table", t>>, Top.key, raise, FALSE)
  <2>1. f = [op |-> op, self |-> <<"table", t>>, key |-> Top.key, raise |-> raise, root |-> FALSE, pc |-> "lookup"]
    BY DEF Frame
  <2>2. Top.key \in Keys /\ <<"table", t>> \in Kinds \X Nat
    BY <1>1, <1>2, <1>11, TopOK DEF Kinds
  <2>3. frames' = Append([frames EXCEPT ![Len(frames)].pc = p], f)
    BY <1>11
  <2> HIDE DEF f
  <2>4. f \in FrameSet
    BY <2>1, <2>2 DEF FrameSet, Pcs
  <2>5. FrameOK(f, Len(slots), Len(classes), Len(instances))
    BY <1>11, <2>1 DEF FrameOK, SelfOK
  <2>6. UNCHANGED <<slots, classes, instances>>
    BY <1>11 DEF heap
  <2>7. IsNew(f)
    BY <2>1, <2>4, <2>5, <2>6 DEF IsNew
  <2> QED
    BY <1>1, <1>11, <2>3, <2>7, Moves
<1>12. ASSUME frames # <<>>
       PROVE /\ Top.op \in Ops /\ Top.self \in Kinds \X Nat /\ Top.key \in Keys
             /\ Top.self[1] = "table" => DelegateOf(Top.self) \in 0 .. Len(slots)
             /\ Top.self[1] = "userdata" => DelegateOf(Top.self) \in 0 .. Len(slots)
  <2>1. /\ Top.op \in Ops /\ Top.self \in Kinds \X Nat /\ Top.key \in Keys
        /\ Top.self[1] = "table" => Top.self[2] \in 1 .. Len(slots)
    BY <1>1, <1>12, TopOK DEF FrameOK, SelfOK
  <2> QED
    BY <1>2, <2>1 DEF DelegateOf
<1>13. ASSUME frames # <<>>, Top.pc # "called"
       PROVE /\ \A p \in Pcs : p # "called" /\ Goto(p) => FrameEffect
             /\ \A p \in Pcs : p # "called" /\ frames' = [frames EXCEPT ![Len(frames)].pc = p] /\ Keep => FrameEffect
             /\ \A ok, from : PopFrame(ok, from) /\ UNCHANGED <<vtop, nmeta>> => FrameEffect
             /\ \A ok, from : Return(ok, from) /\ Keep => FrameEffect
             /\ \A e : Fail(e) => FrameEffect
             /\ CallMetaMethod(Pushed(Top.op), Counted(Top.op)) => FrameEffect
             /\ Found => FrameEffect
             /\ NoMatch => FrameEffect
             /\ \A ok : Returns(ok) => FrameEffect
  BY <1>1, <1>13, Moves DEF Found, NoMatch, Returns
<1>14. CASE ScriptReturn \/ ScriptThrow
  <2>1. frames # <<>> /\ Top.pc # "called"
    BY <1>14 DEF ScriptReturn, ScriptThrow, At
  <2>2. \E ok, from : PopFrame(ok, from) /\ UNCHANGED <<vtop, nmeta>>
    BY <1>14 DEF ScriptReturn, ScriptThrow, Keep
  <2> QED
    BY <1>13, <2>1, <2>2
<1>15. CASE GetLookup
  <2>1. frames # <<>> /\ Top.op = "Get" /\ Top.pc = "lookup"
    BY <1>15 DEF GetLookup, At
  <2>2. Top.self[1] \in {"table", "class", "instance", "userdata"}
    BY <1>1, <2>1, TopOK DEF FrameOK
  <2>3. CASE Nest("delegated", Delegated("Get")) /\ Top.self[1] \in {"table", "userdata"} /\ DelegateOf(Top.self) # 0
    <3>1. DelegateOf(Top.self) \in 1 .. Len(slots)
      BY <1>2, <1>12, <2>1, <2>3
    <3>2. "delegated" \in Pcs /\ "Get" \in Ops /\ ("Get" = "Set") \in BOOLEAN
      BY DEF Pcs, Ops
    <3>3. /\ UNCHANGED heap /\ Keep
          /\ frames' = Append([frames EXCEPT ![Len(frames)].pc = "delegated"],
                              Frame("Get", <<"table", DelegateOf(Top.self)>>, Top.key, "Get" = "Set", FALSE))
      BY <2>3 DEF Nest, Keep, Delegated
    <3> QED
      BY <1>11, <2>1, <3>1, <3>2, <3>3
  <2>4. CASE Found \/ Goto("default") \/ Goto("meta")
    BY <1>13, <2>1, <2>4 DEF Pcs
  <2> QED
    BY <1>15, <2>2, <2>3, <2>4 DEF GetLookup, DelegateOf
<1>16. CASE SetLookup
  <2>1. frames # <<>> /\ Top.op = "Set" /\ Top.pc = "lookup"
    BY <1>16 DEF SetLookup, At
  <2>2. CASE Nest("delegated", Delegated("Set")) /\ Top.self[1] = "table" /\ DelegateOf(Top.self) # 0
    <3>1. DelegateOf(Top.self) \in 1 .. Len(slots)
      BY <1>2, <1>12, <2>1, <2>2
    <3>2. "delegated" \in Pcs /\ "Set" \in Ops /\ ("Set" = "Set") \in BOOLEAN
      BY DEF Pcs, Ops
    <3>3. /\ UNCHANGED heap /\ Keep
          /\ frames' = Append([frames EXCEPT ![Len(frames)].pc = "delegated"],
                              Frame("Set", <<"table", DelegateOf(Top.self)>>, Top.key, "Set" = "Set", FALSE))
      BY <2>2 DEF Nest, Keep, Delegated
    <3> QED
      BY <1>11, <2>1, <3>1, <3>2, <3>3
  <2>3. CASE Found \/ Fail("error") \/ Goto("meta")
    BY <1>13, <2>1, <2>3 DEF Pcs
  <2> QED
    BY <1>16, <2>2, <2>3 DEF SetLookup
<1>17. CASE AfterDelegate
  <2>1. frames # <<>> /\ Top.pc = "delegated"
    BY <1>17 DEF AfterDelegate, At
  <2>2. Goto("meta") \/ (Return(TRUE, ret.from) /\ Keep)
    BY <1>17 DEF AfterDelegate
  <2> QED
    BY <1>13, <2>1, <2>2 DEF Pcs
<1>18. CASE AccessMeta
  <2>1. frames # <<>> /\ Top.pc = "meta" /\ Top.op \in {"Get", "Set"}
    BY <1>18 DEF AccessMeta, At
  <2>2. \/ CallMetaMethod(IF Top.op = "Get" THEN 2 ELSE 3, 1)
        \/ Goto(IF Top.op = "Get" THEN "default" ELSE "root")
    BY <1>18 DEF AccessMeta
  <2>3. (IF Top.op = "Get" THEN 2 ELSE 3) = Pushed(Top.op) /\ 1 = Counted(Top.op)
    BY <2>1 DEF Pushed, Counted
  <2>4. CallMetaMethod(Pushed(Top.op), Counted(Top.op)) \/ Goto("default") \/ Goto("root")
    BY <2>2, <2>3
  <2> QED
    BY <1>13, <2>1, <2>4 DEF Pcs
<1>19. CASE AccessCalled
  <2>1. frames # <<>> /\ Top.pc = "called" /\ Top.op \in {"Get", "Set"}
    BY <1>19 DEF AccessCalled, At
  <2>2. (IF Top.op = "Get" THEN 2 ELSE 3) = Pushed(Top.op) /\ 1 = Counted(Top.op)
    BY <2>1 DEF Pushed, Counted
  <2>3. Called(IF Top.op = "Get" THEN 2 ELSE 3, 1)
    BY <1>19 DEF AccessCalled
  <2>4. Called(Pushed(Top.op), Counted(Top.op))
    BY <2>2, <2>3
  <2>5. \/ Return(ret.ok, ret.from)
        \/ frames' = [frames EXCEPT ![Len(frames)].pc = "default"]
        \/ frames' = [frames EXCEPT ![Len(frames)].pc = "root"]
    BY <1>19 DEF AccessCalled
  <2>6. "default" \in Pcs /\ "root" \in Pcs /\ "default" # "called" /\ "root" # "called"
    BY DEF Pcs
  <2> QED
    BY <1>1, <2>1, <2>4, <2>5, <2>6, MovesCalled
<1>20. CASE InvokeDefaultDelegate
  <2>1. frames # <<>> /\ Top.pc = "default"
    BY <1>20 DEF InvokeDefaultDelegate, At
  <2>2. Goto("root") \/ (Return(TRUE, DefaultDelegate) /\ Keep)
    BY <1>20 DEF InvokeDefaultDelegate
  <2> QED
    BY <1>13, <2>1, <2>2 DEF Pcs
<1>21. CASE RootFallback
  <2>1. frames # <<>> /\ Top.pc = "root" /\ Top.op \in {"Get", "Set"}
    BY <1>21 DEF RootFallback, At
  <2>2. "rooted" \in Pcs /\ "Get" \in Ops /\ Root \in 1 .. Len(slots) /\ TRUE \in BOOLEAN
    BY <1>2 DEF Pcs, Ops, Root
  <2>3. CASE NoMatch
    BY <1>13, <2>1, <2>3
  <2>4. CASE AskRoot
    <3>1. UNCHANGED heap /\ Keep
      BY <2>4 DEF AskRoot
    <3>2. CASE frames' = [frames EXCEPT ![Len(frames)].pc = "rooted"]
      BY <1>13, <2>1, <2>2, <3>1, <3>2
    <3>3. CASE frames' = Append([frames EXCEPT ![Len(frames)].pc = "rooted"],
                                Frame("Get", <<"table", Root>>, Top.key, TRUE, FALSE))
      BY <1>11, <2>1, <2>2, <3>1, <3>3
    <3> QED
      BY <2>4, <3>2, <3>3 DEF AskRoot
  <2> QED
    BY <1>21, <2>3, <2>4 DEF RootFallback
<1>22. CASE AfterRoot
  <2>1. frames # <<>> /\ Top.pc = "rooted"
    BY <1>22 DEF AfterRoot, At
  <2>2. NoMatch \/ (\E from : Return(TRUE, from) /\ Keep)
    BY <1>22 DEF AfterRoot
  <2> QED
    BY <1>13, <2>1, <2>2
<1>23. CASE NewSlot \/ DeleteSlot
  <2>1. frames # <<>> /\ Top.pc = "lookup" /\ Top.op \in {"NewSlot", "DeleteSlot"}
    BY <1>23 DEF NewSlot, DeleteSlot, At
  <2>2. Pushed("NewSlot") = 3 /\ Pushed("DeleteSlot") = 2 /\ Counted("NewSlot") = 1 /\ Counted("DeleteSlot") = 1
    BY DEF Pushed, Counted
  <2>3. CallMetaMethod(Pushed(Top.op), Counted(Top.op)) \/ Fail("error") \/ Returns(TRUE)
    BY <1>23, <2>2 DEF NewSlot, DeleteSlot, At
  <2> QED
    BY <1>13, <2>1, <2>3
<1>24. CASE Clone
  <2>1. frames # <<>> /\ Top.pc = "lookup"
    BY <1>24 DEF Clone, At
  <2>2. frames' = [frames EXCEPT ![Len(frames)].pc = "cloned"] /\ vtop' = vtop /\ nmeta' = nmeta
    BY <1>24 DEF Clone, Keep
  <2>3. Holds("cloned")
    <3>1. vtop \in Int /\ nmeta \in Int /\ Pushed(Top.op) \in Nat /\ Counted(Top.op) \in Nat
      BY <1>1, Amounts DEF FramesOK
    <3> QED
      BY <2>1, <2>2, <3>1 DEF Holds, Weight
  <2>4. "cloned" \in Pcs
    BY DEF Pcs
  <2> QED
    BY <2>1, <2>2, <2>3, <2>4 DEF FrameEffect, Turns
<1>25. CASE CloneMeta \/ Inherited \/ GetConstructor
  <2>1. frames # <<>> /\ Top.pc # "called" /\ Top.op \in {"Clone", "ClassOp", "New"}
    BY <1>25 DEF CloneMeta, Inherited, GetConstructor, At
  <2>2. /\ Pushed("Clone") = 2 /\ Pushed("ClassOp") = 2 /\ Pushed("New") = 0
        /\ Counted("Clone") = 1 /\ Counted("ClassOp") = 0 /\ Counted("New") = 0
    BY DEF Pushed, Counted
  <2>3. CallMetaMethod(Pushed(Top.op), Counted(Top.op)) \/ Returns(TRUE)
    BY <1>25, <2>2 DEF CloneMeta, Inherited, GetConstructor, At
  <2> QED
    BY <1>13, <2>1, <2>3
<1>26. CASE NewSlotA
  <2>1. frames # <<>> /\ Top.pc = "lookup" /\ Top.op = "NewMember"
    BY <1>26 DEF NewSlotA, At
  <2>2. Pushed("NewMember") = 5 /\ Counted("NewMember") = 1
    BY DEF Pushed, Counted
  <2>3. CallMetaMethod(Pushed(Top.op), Counted(Top.op)) \/ Fail("error") \/ Returns(TRUE)
    BY <1>26, <2>1, <2>2 DEF NewSlotA
  <2> QED
    BY <1>13, <2>1, <2>3
<1>27. CASE MetaCalled
  <2>1. frames # <<>> /\ Top.pc = "called" /\ Called(Pushed(Top.op), Counted(Top.op)) /\ Return(ret.ok, Nowhere)
    BY <1>27 DEF MetaCalled, At
  <2> QED
    BY <1>1, <2>1, MovesCalled
<1> QED
  BY <1>3, <1>5, <1>6, <1>7, <1>8, <1>9, <1>10, <1>14, <1>15, <1>16, <1>17, <1>18, <1>19, <1>20, <1>21, <1>22, <1>23,
     <1>24, <1>25, <1>26, <1>27 DEF Next
-----------------------------------------------------------------------------
(* The frame on top has another pc. *)
IsTurned(gs, fs, p) == gs = [fs EXCEPT ![Len(fs)].pc = p]

(* It is the same call of the same object, and so are those below. *)
LEMMA Turned ==
  ASSUME NEW fs \in Seq(FrameSet), fs # <<>>, NEW p \in Pcs, NEW gs, IsTurned(gs, fs, p)
  PROVE /\ gs \in Seq(FrameSet) /\ Len(gs) = Len(fs) /\ Len(fs) \in Nat \ {0}
        /\ \A i \in 1 .. Len(fs) : i # Len(fs) => gs[i] = fs[i]
        /\ \A i \in 1 .. Len(fs) : gs[i].op = fs[i].op /\ gs[i].self = fs[i].self /\ gs[i].key = fs[i].key
                                   /\ gs[i].root = fs[i].root /\ gs[i].raise = fs[i].raise
        /\ gs[Len(fs)].pc = p
<1>1. Len(fs) \in Nat \ {0} /\ fs[Len(fs)] \in FrameSet
  OBVIOUS
<1>2. PICK f : f = [fs[Len(fs)] EXCEPT !.pc = p]
  OBVIOUS
<1>3. /\ f \in FrameSet /\ f.pc = p /\ f.op = fs[Len(fs)].op /\ f.self = fs[Len(fs)].self
      /\ f.key = fs[Len(fs)].key /\ f.root = fs[Len(fs)].root /\ f.raise = fs[Len(fs)].raise
  BY <1>1, <1>2 DEF FrameSet
<1>4. gs = [fs EXCEPT ![Len(fs)] = f]
  BY <1>2 DEF IsTurned
<1>5. /\ gs \in Seq(FrameSet) /\ Len(gs) = Len(fs)
      /\ \A i \in 1 .. Len(fs) : gs[i] = IF i = Len(fs) THEN f ELSE fs[i]
  BY <1>1, <1>3, <1>4, ExceptSeq
<1> QED
  BY <1>1, <1>3, <1>5

(* The first k elements of a sequence. *)
LEMMA Prefixed ==
  ASSUME NEW S, NEW s \in Seq(S), NEW k \in 0 .. Len(s)
  PROVE SubSeq(s, 1, k) \in Seq(S) /\ Len(SubSeq(s, 1, k)) = k /\ \A i \in 1 .. k : SubSeq(s, 1, k)[i] = s[i]
<1>1. k \in Nat /\ Len(s) \in Nat /\ 1 .. k \subseteq 1 .. Len(s)
  OBVIOUS
<1>2. SubSeq(s, 1, k) = [i \in 1 .. k |-> s[i]]
  BY <1>1
<1>3. \A i \in 1 .. k : s[i] \in S
  BY <1>1
<1> QED
  BY <1>1, <1>2, <1>3

(* The frames keep their types and their objects. *)
LEMMA FramesKept ==
  ASSUME FramesOK, FrameEffect, Len(slots) \in Nat, Len(classes) \in Nat, Len(instances) \in Nat,
         Len(slots') \in Nat, Len(classes') \in Nat, Len(instances') \in Nat,
         Len(slots) <= Len(slots'), Len(classes) <= Len(classes'), Len(instances) <= Len(instances')
  PROVE FramesOK'
<1> DEFINE OK(f) == FrameOK(f, Len(slots'), Len(classes'), Len(instances'))
           N == Len(frames)
<1>1. frames \in Seq(FrameSet) /\ N \in Nat /\ \A i \in 1 .. N : OK(frames[i])
  BY DEF FramesOK, FrameOK, SelfOK
<1>2. vtop \in Int /\ nmeta \in Int /\ Pushed(Top.op) \in Nat /\ Counted(Top.op) \in Nat
  BY Amounts DEF FramesOK
<1>3. \A p : Holds(p) => vtop' \in Int /\ nmeta' \in Int
  BY <1>2 DEF Holds, Weight
<1>4. \A f, g : g.op = f.op /\ g.self = f.self /\ OK(f) => OK(g)
  BY DEF FrameOK
<1>5. ASSUME frames' \in Seq(FrameSet), vtop' \in Int, nmeta' \in Int, \A i \in 1 .. Len(frames') : OK(frames'[i])
      PROVE FramesOK'
  BY <1>5 DEF FramesOK
<1>6. \A f : IsNew(f) => f \in FrameSet /\ OK(f)
  BY DEF IsNew
<1> HIDE DEF OK
<1>7. CASE UNCHANGED <<frames, vtop, nmeta>>
  BY <1>1, <1>2, <1>5, <1>7
<1>8. CASE Begins
  <2>1. PICK f : IsNew(f) /\ frames' = Append(frames, f) /\ UNCHANGED <<vtop, nmeta>>
    BY <1>8 DEF Begins
  <2>2. /\ frames' \in Seq(FrameSet) /\ Len(frames') = N + 1 /\ frames'[N + 1] = f
        /\ \A i \in 1 .. N : frames'[i] = frames[i]
    BY <1>1, <1>6, <2>1, AppendProperties
  <2>3. \A i \in 1 .. N + 1 : i \in 1 .. N \/ i = N + 1
    BY <1>1
  <2> QED
    BY <1>1, <1>2, <1>5, <1>6, <2>1, <2>2, <2>3
<1>9. CASE Turns
  <2>1. PICK p \in Pcs : Holds(p) /\ frames' = [frames EXCEPT ![Len(frames)].pc = p]
    BY <1>9 DEF Turns
  <2>2. PICK g : g = frames'
    OBVIOUS
  <2>3. IsTurned(g, frames, p)
    BY <2>1, <2>2 DEF IsTurned
  <2>4. /\ g \in Seq(FrameSet) /\ Len(g) = N
        /\ \A i \in 1 .. N : g[i].op = frames[i].op /\ g[i].self = frames[i].self
    <3>1. frames # <<>>
      BY <1>9 DEF Turns
    <3> QED
      BY <1>1, <2>3, <3>1, Turned
  <2> QED
    BY <1>1, <1>3, <1>4, <1>5, <2>1, <2>2, <2>4
<1>10. CASE Calls
  <2>0. PICK p \in Pcs : \E f : IsNew(f) /\ Holds(p) /\ frames' = Append([frames EXCEPT ![Len(frames)].pc = p], f)
    BY <1>10 DEF Calls
  <2>1. PICK f : IsNew(f) /\ Holds(p) /\ frames' = Append([frames EXCEPT ![Len(frames)].pc = p], f)
    BY <2>0
  <2>2. PICK g : g = [frames EXCEPT ![Len(frames)].pc = p]
    OBVIOUS
  <2>3. /\ g \in Seq(FrameSet) /\ Len(g) = N
        /\ \A i \in 1 .. N : g[i].op = frames[i].op /\ g[i].self = frames[i].self
    <3>1. frames # <<>> /\ IsTurned(g, frames, p)
      BY <1>10, <2>2 DEF Calls, IsTurned
    <3> QED
      BY <1>1, <3>1, Turned
  <2>4. /\ frames' \in Seq(FrameSet) /\ Len(frames') = N + 1 /\ frames'[N + 1] = f
        /\ \A i \in 1 .. N : frames'[i] = g[i]
    <3>1. f \in FrameSet /\ frames' = Append(g, f) /\ N \in Nat
      BY <1>1, <1>6, <2>1, <2>2
    <3> QED
      BY <2>3, <3>1, AppendProperties
  <2>5. \A i \in 1 .. N + 1 : i \in 1 .. N \/ i = N + 1
    BY <1>1
  <2>6. \A i \in 1 .. N : OK(frames'[i])
    BY <1>1, <1>4, <2>3, <2>4
  <2> QED
    BY <1>3, <1>5, <1>6, <2>1, <2>4, <2>5, <2>6
<1>11. CASE Returning
  <2>1. Holds("ended") /\ frames' = SubSeq(frames, 1, N - 1) /\ N # 0
    BY <1>1, <1>11 DEF Returning, Front
  <2>2. frames' \in Seq(FrameSet) /\ Len(frames') = N - 1 /\ \A i \in 1 .. N - 1 : frames'[i] = frames[i]
    <3>1. N - 1 \in 0 .. N
      BY <1>1, <2>1
    <3> QED
      BY <1>1, <2>1, <3>1, Prefixed
  <2> QED
    BY <1>1, <1>3, <1>5, <2>1, <2>2
<1> QED
  BY <1>7, <1>8, <1>9, <1>10, <1>11 DEF FrameEffect

(* No step changes the bounds. *)
LEMMA WorldKept ==
  Next => world' = world
<1> SUFFICES ASSUME Next PROVE world' = world
  OBVIOUS
<1>1. CASE ScriptReturn \/ ScriptThrow \/ sq_newtable \/ sq_setdelegate \/ sq_rawset \/ sq_rawdeleteslot
           \/ sq_newclass \/ sq_setclassudsize \/ sq_rawnewmember \/ sq_createinstance
  BY <1>1 DEF ScriptReturn, ScriptThrow, PopFrame, sq_newtable, sq_setdelegate, sq_rawset, sq_rawdeleteslot,
              sq_newclass, sq_setclassudsize, sq_rawnewmember, sq_createinstance, Mutation
<1>2. CASE BeginAccess \/ BeginSlot \/ BeginClone \/ BeginMember \/ CLASS_OP \/ CreateClassInstance
  BY <1>2 DEF BeginAccess, Start, BeginSlot, Operand, BeginClone, BeginMember, CLASS_OP, CreateClassInstance, Begin
<1>3. CASE GetLookup \/ SetLookup \/ AfterDelegate \/ AccessMeta \/ AccessCalled
  BY <1>3 DEF GetLookup, SetLookup, AfterDelegate, AccessMeta, AccessCalled, Found, Goto, Nest, Fail, CallMetaMethod,
              Return, PopFrame
<1>4. CASE InvokeDefaultDelegate \/ RootFallback \/ AfterRoot
  BY <1>4 DEF InvokeDefaultDelegate, RootFallback, AskRoot, AfterRoot, NoMatch, Goto, Fail, Return, PopFrame
<1>5. CASE NewSlot \/ DeleteSlot \/ Clone \/ CloneMeta \/ NewSlotA \/ Inherited \/ GetConstructor \/ MetaCalled
  BY <1>5 DEF NewSlot, DeleteSlot, Clone, CloneMeta, NewSlotA, Inherited, GetConstructor, MetaCalled, Returns, Return, PopFrame,
              Fail, CallMetaMethod
<1> QED
  BY <1>1, <1>2, <1>3, <1>4, <1>5 DEF Next

(* ObjInv is inductive. *)
LEMMA ObjInvAlways ==
  Spec => []ObjInv
<1>1. Init => ObjInv
  <2> SUFFICES ASSUME Init PROVE ObjInv
    OBVIOUS
  <2>1. /\ world \in Worlds /\ slots = <<{}>> /\ delegate = <<0>> /\ udelegate = 0 /\ classes = <<>> /\ instances = <<>>
        /\ frames = <<>> /\ vtop = 0 /\ nmeta = 0
    BY DEF Init
  <2>2. {} \in SUBSET Keys /\ 0 \in Nat
    OBVIOUS
  <2>3. slots \in Seq(SUBSET Keys) /\ Len(slots) = 1 /\ delegate \in Seq(Nat) /\ Len(delegate) = 1 /\ delegate[1] = 0
    BY <2>1, <2>2
  <2>4. TablesOK
    BY <2>1, <2>3 DEF TablesOK
  <2>5. ClassesOK /\ InstancesOK /\ FramesOK
    BY <2>1 DEF ClassesOK, InstancesOK, FramesOK
  <2> QED
    BY <2>1, <2>4, <2>5 DEF ObjInv
<1>2. ASSUME ObjInv, [Next]_vars PROVE ObjInv'
  <2>1. CASE Next
    <3>1. TablesOK' /\ Len(slots) <= Len(slots')
      BY <1>2, <2>1, TablesKept
    <3>2. ClassesOK' /\ InstancesOK' /\ Len(classes) <= Len(classes') /\ Len(instances) <= Len(instances')
      BY <1>2, <2>1, ClassEffects, ClassesKept DEF ObjInv
    <3>3. /\ Len(slots) \in Nat /\ Len(classes) \in Nat /\ Len(instances) \in Nat
          /\ Len(slots') \in Nat /\ Len(classes') \in Nat /\ Len(instances') \in Nat
      BY <1>2, <3>1, <3>2 DEF ObjInv, TablesOK, ClassesOK, InstancesOK
    <3>4. FramesOK'
      BY <1>2, <2>1, <3>1, <3>2, <3>3, FrameEffects, FramesKept DEF ObjInv
    <3>5. world' = world
      BY <2>1, WorldKept
    <3> QED
      BY <1>2, <3>1, <3>2, <3>4, <3>5 DEF ObjInv
  <2>2. CASE UNCHANGED vars
    BY <1>2, <2>2 DEF vars, heap, ObjInv, TablesOK, ClassesOK, InstancesOK, FramesOK
  <2> QED
    BY <1>2, <2>1, <2>2
<1> QED
  BY <1>1, <1>2, PTL DEF Spec
-----------------------------------------------------------------------------
(* The places of members. *)

(* The members of a class have as many places as there are members. *)
LEMMA PlacesDistinct ==
  ASSUME NEW c \in ClassSet, ClassOK(c)
  PROVE LET places == {MemberHandle(c, k) : k \in DOMAIN c.members}
        IN /\ Cardinality(places) = Cardinality(DOMAIN c.members)
           /\ \A p \in places : HandleExists(c, p)
<1> DEFINE D == DOMAIN c.members
           places == {c.members[k] : k \in D}
           f == [k \in D |-> c.members[k]]
<1>1. c.members \in MemberMaps /\ c.fields \in Nat /\ c.methods \in Nat
  BY DEF ClassSet
<1>2. \A k \in D : c.members[k] \in {"field", "method"} \X Nat
  BY <1>1 DEF MemberMaps
<1>3. f \in Bijection(D, places)
  BY DEF Bijection, Injection, Surjection, IsInjective, ClassOK
<1>4. Cardinality(places) = Cardinality(D)
  <2>1. ExistsBijection(D, places) /\ IsFiniteSet(D)
    BY <1>3 DEF ExistsBijection, ClassOK
  <2> QED
    BY <2>1, FS_Bijection
<1>5. ASSUME NEW k \in D
      PROVE HandleExists(c, c.members[k])
  BY <1>1, <1>2 DEF ClassOK, HandleExists
<1> QED
  BY <1>4, <1>5 DEF MemberHandle

(* Every member of every class has a place of its own that exists, and     *)
(* every instance the fields and the user data of its class, whatever      *)
(* SQClass::NewSlot, Lock, CreateInstance and the copy of a base class do, *)
(* for any number of classes and any MEMBER_MAX_COUNT.                     *)
THEOREM LayoutAlwaysSound ==
  Spec => []LayoutSound
<1>1. ObjInv => LayoutSound
  <2> SUFFICES ASSUME ObjInv PROVE LayoutSound
    OBVIOUS
  <2>1. DOMAIN classes = 1 .. Len(classes) /\ DOMAIN instances = 1 .. Len(instances)
    BY DEF ObjInv, ClassesOK, InstancesOK
  <2>2. ASSUME NEW i \in DOMAIN classes
        PROVE classes[i] \in ClassSet /\ ClassOK(classes[i])
    BY <2>1 DEF ObjInv, ClassesOK
  <2>3. ASSUME NEW i \in DOMAIN classes
        PROVE LET c == classes[i]
                  places == {MemberHandle(c, k) : k \in DOMAIN c.members}
              IN /\ Cardinality(places) = Cardinality(DOMAIN c.members)
                 /\ \A p \in places : HandleExists(c, p)
    <3>1. PICK c : c = classes[i]
      OBVIOUS
    <3>2. LET places == {MemberHandle(c, k) : k \in DOMAIN c.members}
          IN /\ Cardinality(places) = Cardinality(DOMAIN c.members)
             /\ \A p \in places : HandleExists(c, p)
      BY <2>2, <3>1, PlacesDistinct
    <3> QED
      BY <3>1, <3>2
  <2>4. ASSUME NEW i \in DOMAIN classes
        PROVE /\ classes[i].ctor \in -1 .. classes[i].methods - 1
              /\ IsMethod(classes[i], "constructor") => classes[i].members["constructor"][2] = classes[i].ctor
    BY <2>2 DEF ClassOK
  <2>5. ASSUME NEW i \in DOMAIN instances
        PROVE LET c == classes[instances[i].class]
              IN instances[i].values = c.fields /\ instances[i].udsize = c.udsize
    BY <2>1 DEF ObjInv, InstancesOK
  <2> QED
    BY <2>3, <2>4, <2>5, Zenon DEF LayoutSound
<1> QED
  BY <1>1, ObjInvAlways, PTL

(* A member handle stays that of its member for ever, except that a method *)
(* of a class that is not locked gives way to a field of its name: what    *)
(* sq_getmemberhandle returned goes on naming the member it was asked for. *)
THEOREM HandlesAlwaysStay ==
  Spec => HandlesStay
<1> DEFINE Stays == \A c \in DOMAIN classes : \A k \in DOMAIN classes[c].members :
                      \/ MemberHandle(classes'[c], k) = MemberHandle(classes[c], k)
                      \/ IsMethod(classes[c], k) /\ IsField(classes'[c], k) /\ ~classes[c].locked
<1>1. ASSUME ObjInv, [Next]_vars PROVE [Stays]_vars
  <2>1. CASE Next
    <3>1. HandlesKept
      BY <1>1, <2>1, ClassEffects, ClassesKept DEF ObjInv
    <3>2. DOMAIN classes = 1 .. Len(classes)
      BY <1>1 DEF ObjInv, ClassesOK
    <3> QED
      BY <3>1, <3>2 DEF HandlesKept
  <2> QED
    BY <1>1, <2>1
<1> QED
  BY <1>1, ObjInvAlways, PTL DEF Spec, HandlesStay
-----------------------------------------------------------------------------
(* The stack that metamethods are called on. *)

(* Awaiting, as a function of the frames. *)
IsSum(u, fs, amount) ==
  u = [n \in 0 .. Len(fs) |-> IF n = 0 THEN 0 ELSE u[n - 1] + (IF fs[n].pc = "called" THEN amount[n] ELSE 0)]
SumOf(fs, amount) == (CHOOSE u : IsSum(u, fs, amount))[Len(fs)]

(* What the calls that wait have of the amount that w gives each operation. *)
Amount(fs, w) == [i \in DOMAIN fs |-> w[fs[i].op]]
Held(fs, w) == SumOf(fs, Amount(fs, w))
PushedBy == [op \in Ops |-> Pushed(op)]
CountedBy == [op \in Ops |-> Counted(op)]

(* The function that sums up exists. *)
LEMMA SumExists ==
  ASSUME NEW fs, NEW N \in Nat, Len(fs) = N, NEW amount
  PROVE \E u : IsSum(u, fs, amount)
<1> DEFINE W(n) == IF fs[n].pc = "called" THEN amount[n] ELSE 0
           Up(u, n) == u = [k \in 0 .. n |-> IF k = 0 THEN 0 ELSE u[k - 1] + W(k)]
           S == {n \in Nat : \E u : Up(u, n)}
<1> HIDE DEF W
<1>1. 0 \in S
  <2> DEFINE u == [k \in 0 .. 0 |-> 0]
  <2>1. Up(u, 0)
    OBVIOUS
  <2> QED
    BY <2>1
<1>2. ASSUME NEW n \in Nat, n \in S
      PROVE n + 1 \in S
  <2>1. PICK u : Up(u, n)
    BY <1>2
  <2> DEFINE v == [k \in 0 .. n + 1 |-> IF k = n + 1 THEN u[n] + W(n + 1) ELSE u[k]]
  <2>2. DOMAIN v = 0 .. n + 1 /\ v[n + 1] = u[n] + W(n + 1) /\ \A k \in 0 .. n : v[k] = u[k]
    OBVIOUS
  <2>3. v = [k \in 0 .. n + 1 |-> v[k]]
    OBVIOUS
  <2> HIDE DEF v
  <2>4. \A k \in 0 .. n : u[k] = IF k = 0 THEN 0 ELSE u[k - 1] + W(k)
    BY <2>1
  <2>5. ASSUME NEW k \in 0 .. n + 1
        PROVE v[k] = IF k = 0 THEN 0 ELSE v[k - 1] + W(k)
    <3>1. CASE k = n + 1
      <4>1. k - 1 = n /\ n \in 0 .. n /\ k # 0
        BY <3>1
      <4> QED
        BY <2>2, <3>1, <4>1
    <3>2. CASE k # n + 1
      <4>1. k \in 0 .. n /\ (k # 0 => k - 1 \in 0 .. n)
        BY <3>2
      <4> QED
        BY <2>2, <2>4, <4>1
    <3> QED
      BY <3>1, <3>2
  <2>6. Up(v, n + 1)
    BY <2>3, <2>5
  <2> QED
    BY <2>6
<1>3. Nat \subseteq S
  <2> HIDE DEF S
  <2> QED
    BY <1>1, <1>2, NatInd
<1> QED
  BY <1>3 DEF IsSum, W

(* A sum of numbers is a number, and frames that begin alike have the same *)
(* sum so far.                                                             *)
LEMMA SumsAgree ==
  ASSUME NEW fs \in Seq(FrameSet), NEW gs \in Seq(FrameSet), NEW w \in [Ops -> Nat], NEW m \in Nat,
         m <= Len(fs), m <= Len(gs), \A i \in 1 .. m : fs[i] = gs[i],
         NEW u, NEW v, IsSum(u, fs, Amount(fs, w)), IsSum(v, gs, Amount(gs, w))
  PROVE u[m] = v[m] /\ u[m] \in Nat
<1> DEFINE S == {n \in Nat : n <= m => u[n] = v[n] /\ u[n] \in Nat}
<1>1. 0 \in S
  <2>1. 0 \in 0 .. Len(fs) /\ 0 \in 0 .. Len(gs)
    OBVIOUS
  <2>2. u[0] = 0 /\ v[0] = 0
    BY <2>1 DEF IsSum
  <2> QED
    BY <2>2
<1>2. ASSUME NEW n \in Nat, n \in S
      PROVE n + 1 \in S
  <2>1. SUFFICES ASSUME n + 1 <= m PROVE u[n + 1] = v[n + 1] /\ u[n + 1] \in Nat
    OBVIOUS
  <2>2. n + 1 \in 1 .. m /\ n + 1 \in 1 .. Len(fs) /\ n + 1 \in 1 .. Len(gs) /\ (n + 1) - 1 = n /\ n + 1 # 0
    BY <2>1
  <2>3. fs[n + 1] = gs[n + 1] /\ fs[n + 1].op \in Ops
    <3>1. fs[n + 1] \in FrameSet
      BY <2>2
    <3> QED
      BY <2>2, <3>1 DEF FrameSet
  <2>4. Amount(fs, w)[n + 1] = w[fs[n + 1].op] /\ Amount(gs, w)[n + 1] = w[fs[n + 1].op] /\ w[fs[n + 1].op] \in Nat
    BY <2>2, <2>3 DEF Amount
  <2>5. n + 1 \in 0 .. Len(fs) /\ n + 1 \in 0 .. Len(gs)
    BY <2>2
  <2>6. /\ u[n + 1] = u[n] + (IF fs[n + 1].pc = "called" THEN Amount(fs, w)[n + 1] ELSE 0)
        /\ v[n + 1] = v[n] + (IF gs[n + 1].pc = "called" THEN Amount(gs, w)[n + 1] ELSE 0)
    BY <2>2, <2>5 DEF IsSum
  <2>7. u[n] = v[n] /\ u[n] \in Nat
    BY <1>2, <2>1
  <2> QED
    BY <2>3, <2>4, <2>6, <2>7
<1>3. Nat \subseteq S
  <2> HIDE DEF S
  <2> QED
    BY <1>1, <1>2, NatInd
<1> QED
  BY <1>3

(* What is held for all frames but the last, and for the last. *)
LEMMA HeldLast ==
  ASSUME NEW fs \in Seq(FrameSet), NEW gs \in Seq(FrameSet), NEW w \in [Ops -> Nat], NEW N \in Nat,
         Len(gs) = N, Len(fs) = N + 1, \A i \in 1 .. N : fs[i] = gs[i]
  PROVE Held(fs, w) = Held(gs, w) + Weight(fs[N + 1].pc, w[fs[N + 1].op]) /\ Held(gs, w) \in Nat
<1>1. PICK u : u = CHOOSE x : IsSum(x, fs, Amount(fs, w))
  OBVIOUS
<1>2. PICK v : v = CHOOSE x : IsSum(x, gs, Amount(gs, w))
  OBVIOUS
<1>3. IsSum(u, fs, Amount(fs, w))
  <2>1. \E x : IsSum(x, fs, Amount(fs, w))
    BY SumExists
  <2> QED
    BY <1>1, <2>1
<1>4. IsSum(v, gs, Amount(gs, w))
  <2>1. \E x : IsSum(x, gs, Amount(gs, w))
    BY SumExists
  <2> QED
    BY <1>2, <2>1
<1>5. Held(fs, w) = u[N + 1] /\ Held(gs, w) = v[N]
  BY <1>1, <1>2 DEF Held, SumOf
<1>6. u[N] = v[N] /\ u[N] \in Nat
  <2>1. N <= Len(fs) /\ N <= Len(gs)
    OBVIOUS
  <2> QED
    BY <1>3, <1>4, <2>1, SumsAgree
<1>7. N + 1 \in 0 .. Len(fs) /\ (N + 1) - 1 = N /\ N + 1 # 0 /\ N + 1 \in DOMAIN fs
  OBVIOUS
<1>8. u[N + 1] = u[N] + (IF fs[N + 1].pc = "called" THEN Amount(fs, w)[N + 1] ELSE 0)
  BY <1>3, <1>7 DEF IsSum
<1>9. Amount(fs, w)[N + 1] = w[fs[N + 1].op]
  BY <1>7 DEF Amount
<1> QED
  BY <1>5, <1>6, <1>8, <1>9 DEF Weight

(* A call begins, *)
LEMMA HeldBegun ==
  ASSUME NEW fs \in Seq(FrameSet), NEW f \in FrameSet, f.pc = "lookup", NEW w \in [Ops -> Nat]
  PROVE Held(Append(fs, f), w) = Held(fs, w) /\ Held(fs, w) \in Nat
<1>1. PICK gs : gs = Append(fs, f)
  OBVIOUS
<1>2. /\ gs \in Seq(FrameSet) /\ Len(gs) = Len(fs) + 1 /\ gs[Len(fs) + 1] = f
      /\ \A i \in 1 .. Len(fs) : gs[i] = fs[i]
  BY <1>1, AppendProperties
<1>3. Len(fs) \in Nat
  OBVIOUS
<1>4. Held(gs, w) = Held(fs, w) + Weight(f.pc, w[f.op]) /\ Held(fs, w) \in Nat
  BY <1>2, <1>3, HeldLast
<1> QED
  BY <1>1, <1>4 DEF Weight

(* returns, *)
LEMMA HeldReturned ==
  ASSUME NEW fs \in Seq(FrameSet), fs # <<>>, NEW w \in [Ops -> Nat]
  PROVE /\ Held(fs, w) = Held(Front(fs), w) + Weight(fs[Len(fs)].pc, w[fs[Len(fs)].op])
        /\ Held(Front(fs), w) \in Nat
<1>1. PICK gs : gs = Front(fs)
  OBVIOUS
<1>2. PICK N : N = Len(fs) - 1
  OBVIOUS
<1>3. N \in Nat /\ N \in 0 .. Len(fs) /\ Len(fs) = N + 1
  BY <1>2
<1>4. gs = SubSeq(fs, 1, N)
  BY <1>1, <1>2 DEF Front
<1>5. gs \in Seq(FrameSet) /\ Len(gs) = N /\ \A i \in 1 .. N : fs[i] = gs[i]
  BY <1>3, <1>4, Prefixed
<1> QED
  BY <1>1, <1>3, <1>5, HeldLast

(* or goes on. *)
LEMMA HeldTurned ==
  ASSUME NEW fs \in Seq(FrameSet), fs # <<>>, NEW p \in Pcs, NEW gs, IsTurned(gs, fs, p),
         NEW w \in [Ops -> Nat]
  PROVE LET a == w[fs[Len(fs)].op]
        IN Held(gs, w) = Held(fs, w) + Weight(p, a) - Weight(fs[Len(fs)].pc, a)
<1>0. PICK N : N = Len(fs)
  OBVIOUS
<1>1. /\ gs \in Seq(FrameSet) /\ Len(gs) = N /\ N \in Nat \ {0}
      /\ \A i \in 1 .. N : i # N => gs[i] = fs[i]
      /\ \A i \in 1 .. N : gs[i].op = fs[i].op
      /\ gs[N].pc = p
  BY <1>0, Turned
<1>2. gs # <<>> /\ gs[N].op = fs[N].op /\ N - 1 \in 0 .. N
  BY <1>1
<1>3. Front(gs) = Front(fs)
  <2>1. /\ Front(gs) = SubSeq(gs, 1, N - 1) /\ Front(fs) = SubSeq(fs, 1, N - 1)
    BY <1>0, <1>1 DEF Front
  <2>2. PICK K : K = N - 1
    OBVIOUS
  <2>3. K \in 0 .. Len(fs) /\ K \in 0 .. Len(gs)
    BY <1>0, <1>1, <2>2
  <2>4. PICK a : a = SubSeq(gs, 1, N - 1)
    OBVIOUS
  <2>5. PICK b : b = SubSeq(fs, 1, N - 1)
    OBVIOUS
  <2>6. a \in Seq(FrameSet) /\ Len(a) = N - 1 /\ \A i \in 1 .. N - 1 : a[i] = gs[i]
    BY <1>1, <2>4, <2>2, <2>3, Prefixed
  <2>7. b \in Seq(FrameSet) /\ Len(b) = N - 1 /\ \A i \in 1 .. N - 1 : b[i] = fs[i]
    BY <1>1, <2>5, <2>2, <2>3, Prefixed
  <2>8. \A i \in 1 .. N - 1 : i \in 1 .. N /\ i # N
    BY <1>1
  <2>9. \A i \in 1 .. N - 1 : a[i] = b[i]
    BY <1>1, <2>6, <2>7, <2>8
  <2>10. a = b
    <3>1. DOMAIN a = 1 .. N - 1 /\ DOMAIN b = 1 .. N - 1 /\ a = [i \in DOMAIN a |-> a[i]] /\ b = [i \in DOMAIN b |-> b[i]]
      BY <2>6, <2>7
    <3> QED
      BY <2>9, <3>1, Zenon
  <2> QED
    BY <2>1, <2>4, <2>5, <2>10
<1>4. PICK h : h = Held(Front(fs), w)
  OBVIOUS
<1>5. PICK a : a = w[fs[N].op]
  OBVIOUS
<1>6. a \in Nat
  <2>1. fs[N] \in FrameSet
    BY <1>0, <1>1
  <2>2. fs[N].op \in Ops
    BY <2>1 DEF FrameSet
  <2> QED
    BY <1>5, <2>2
<1>7. Held(fs, w) = h + Weight(fs[N].pc, a) /\ h \in Nat
  BY <1>0, <1>4, <1>5, HeldReturned
<1>8. Held(gs, w) = h + Weight(p, a)
  <2>1. Held(gs, w) = Held(Front(gs), w) + Weight(gs[N].pc, w[gs[N].op])
    BY <1>1, <1>2, HeldReturned
  <2> QED
    BY <1>1, <1>2, <1>3, <1>4, <1>5, <2>1
<1>9. Weight(fs[N].pc, a) \in Nat /\ Weight(p, a) \in Nat
  BY <1>6 DEF Weight
<1> QED
  BY <1>0, <1>5, <1>7, <1>8, <1>9

(* What the frames hold changes by what is pushed and popped. *)
LEMMA HeldKept ==
  ASSUME FramesOK, FrameEffect, NEW w \in [Ops -> Nat]
  PROVE \/ UNCHANGED <<vtop, nmeta>> /\ Held(frames', w) = Held(frames, w)
        \/ \E p : Holds(p) /\ Top.op \in Ops
                  /\ Held(frames', w) = Held(frames, w) + Weight(p, w[Top.op]) - Weight(Top.pc, w[Top.op])
<1>1. frames \in Seq(FrameSet) /\ Len(frames) \in Nat
  BY DEF FramesOK
<1>2. CASE UNCHANGED <<frames, vtop, nmeta>>
  BY <1>2
<1>3. CASE Begins
  <2>1. PICK f : IsNew(f) /\ frames' = Append(frames, f) /\ UNCHANGED <<vtop, nmeta>>
    BY <1>3 DEF Begins
  <2>2. f \in FrameSet /\ f.pc = "lookup"
    BY <2>1 DEF IsNew
  <2> QED
    BY <1>1, <2>1, <2>2, HeldBegun
<1>4. ASSUME frames # <<>>
      PROVE /\ Top = frames[Len(frames)] /\ Top.op \in Ops /\ w[Top.op] \in Nat
            /\ \A p : Weight(p, w[Top.op]) \in Nat
  <2>1. Top = frames[Len(frames)] /\ frames[Len(frames)] \in FrameSet
    BY <1>1, <1>4 DEF Top, Last
  <2>2. Top.op \in Ops
    BY <2>1 DEF FrameSet
  <2> QED
    BY <2>1, <2>2 DEF Weight
<1>5. ASSUME frames # <<>>, NEW p \in Pcs, NEW g, IsTurned(g, frames, p)
      PROVE Held(g, w) = Held(frames, w) + Weight(p, w[Top.op]) - Weight(Top.pc, w[Top.op])
  BY <1>1, <1>4, <1>5, HeldTurned
<1>6. CASE Turns
  <2>1. PICK p \in Pcs : Holds(p) /\ frames' = [frames EXCEPT ![Len(frames)].pc = p]
    BY <1>6 DEF Turns
  <2>2. frames # <<>> /\ IsTurned(frames', frames, p)
    BY <1>6, <2>1 DEF Turns, IsTurned
  <2> QED
    BY <1>4, <1>5, <2>1, <2>2
<1>7. CASE Calls
  <2>0. PICK p \in Pcs : \E f : IsNew(f) /\ Holds(p) /\ frames' = Append([frames EXCEPT ![Len(frames)].pc = p], f)
    BY <1>7 DEF Calls
  <2>1. PICK f : IsNew(f) /\ Holds(p) /\ frames' = Append([frames EXCEPT ![Len(frames)].pc = p], f)
    BY <2>0
  <2>2. PICK g : g = [frames EXCEPT ![Len(frames)].pc = p]
    OBVIOUS
  <2>3. frames # <<>> /\ IsTurned(g, frames, p)
    BY <1>7, <2>2 DEF Calls, IsTurned
  <2>4. g \in Seq(FrameSet)
    BY <1>1, <2>3, Turned
  <2>5. f \in FrameSet /\ f.pc = "lookup" /\ frames' = Append(g, f)
    BY <2>1, <2>2 DEF IsNew
  <2>6. Held(frames', w) = Held(g, w)
    BY <2>4, <2>5, HeldBegun
  <2> QED
    BY <1>4, <1>5, <2>1, <2>3, <2>6
<1>8. CASE Returning
  <2>1. frames # <<>> /\ Holds("ended") /\ frames' = Front(frames)
    BY <1>8 DEF Returning
  <2>2. Held(frames, w) = Held(frames', w) + Weight(Top.pc, w[Top.op]) /\ Held(frames', w) \in Nat
    BY <1>1, <1>4, <2>1, HeldReturned
  <2>3. Weight("ended", w[Top.op]) = 0
    BY DEF Weight
  <2> QED
    BY <1>4, <2>1, <2>2, <2>3
<1> QED
  BY <1>2, <1>3, <1>6, <1>7, <1>8 DEF FrameEffect

(* StackHeld says that of the frames. *)
StackSum == vtop = Held(frames, PushedBy) /\ nmeta = Held(frames, CountedBy)

(* It does, of frames of the types they have. *)
LEMMA StackHeldIs ==
  FramesOK => (StackHeld <=> StackSum)
<1> SUFFICES ASSUME FramesOK PROVE StackHeld <=> StackSum
  OBVIOUS
<1>1. \A i \in DOMAIN frames : frames[i].op \in Ops
  <2>1. \A i \in DOMAIN frames : frames[i] \in FrameSet
    BY DEF FramesOK
  <2> QED
    BY <2>1 DEF FrameSet
<1>2. Amount(frames, PushedBy) = [i \in DOMAIN frames |-> Pushed(frames[i].op)]
  BY <1>1 DEF Amount, PushedBy
<1>3. Amount(frames, CountedBy) = [i \in DOMAIN frames |-> Counted(frames[i].op)]
  BY <1>1 DEF Amount, CountedBy
<1>4. \A a : Awaiting(a) = SumOf(frames, a)
  BY DEF Awaiting, SumOf, IsSum
<1> QED
  BY <1>2, <1>3, <1>4 DEF StackHeld, StackSum, Held

(* The stack of the VM holds what the operations that wait for a           *)
(* metamethod have pushed, and _nmetamethodscall counts them, however      *)
(* deeply metamethods nest and however each of them ends: the Push and Pop *)
(* around every CallMetaMethod match.                                      *)
THEOREM StackAlwaysHeld ==
  Spec => []StackHeld
<1>1. Init => StackHeld
  <2> SUFFICES ASSUME Init PROVE StackHeld
    OBVIOUS
  <2>1. frames = <<>> /\ vtop = 0 /\ nmeta = 0
    BY DEF Init
  <2>2. FramesOK
    BY <2>1 DEF FramesOK
  <2>3. ASSUME NEW a
        PROVE SumOf(frames, a) = 0
    <3>1. Len(frames) = 0 /\ 0 \in 0 .. 0
      BY <2>1
    <3>2. \E u : IsSum(u, frames, a)
      BY <3>1, SumExists
    <3>3. PICK u : IsSum(u, frames, a) /\ SumOf(frames, a) = u[Len(frames)]
      BY <3>2 DEF SumOf
    <3>4. u[0] = 0
      BY <3>1, <3>3 DEF IsSum
    <3> QED
      BY <3>1, <3>3, <3>4
  <2> QED
    BY <2>1, <2>2, <2>3, StackHeldIs DEF StackSum, Held
<1>2. ASSUME ObjInv, ObjInv', StackHeld, [Next]_vars PROVE StackHeld'
  <2>1. FramesOK /\ FramesOK'
    BY <1>2 DEF ObjInv
  <2>2. vtop = Held(frames, PushedBy) /\ nmeta = Held(frames, CountedBy)
    BY <1>2, <2>1, StackHeldIs DEF StackSum
  <2>3. vtop \in Int /\ nmeta \in Int
    BY <2>1 DEF FramesOK
  <2>4. PushedBy \in [Ops -> Nat] /\ CountedBy \in [Ops -> Nat]
    BY DEF PushedBy, CountedBy, Pushed, Counted, Ops
  <2>5. vtop' = Held(frames', PushedBy) /\ nmeta' = Held(frames', CountedBy)
    <3>1. CASE Next
      <4>1. FrameEffect
        BY <1>2, <3>1, FrameEffects
      <4>2. Top.op \in Ops => PushedBy[Top.op] = Pushed(Top.op) /\ CountedBy[Top.op] = Counted(Top.op)
        BY DEF PushedBy, CountedBy
      <4>3. vtop' = Held(frames', PushedBy)
        BY <2>1, <2>2, <2>4, <4>1, <4>2, HeldKept DEF Holds
      <4>4. nmeta' = Held(frames', CountedBy)
        BY <2>1, <2>2, <2>4, <4>1, <4>2, HeldKept DEF Holds
      <4> QED
        BY <4>3, <4>4
    <3>2. CASE UNCHANGED vars
      BY <2>2, <3>2 DEF vars
    <3> QED
      BY <1>2, <3>1, <3>2
  <2> QED
    <3>1. StackSum'
      BY <2>5 DEF StackSum
    <3> QED
      BY <2>1, <3>1, StackHeldIs, PTL
<1> QED
  BY <1>1, <1>2, ObjInvAlways, PTL DEF Spec
-----------------------------------------------------------------------------
(* The delegates of a table. *)

(* Chain, as a function of the delegates: what n steps reach. *)
Step(links, nodes) == nodes \union {links[u] : u \in nodes \ {0}}
IsReach(h, links, t) ==
  h = [n \in 0 .. Len(links) |-> IF n = 0 THEN {t} ELSE Step(links, h[n - 1])]
LinksOK(links, N) == links \in Seq(Nat) /\ Len(links) = N /\ \A t \in 1 .. N : links[t] \in 0 .. N
Closed(links, nodes) == \A u \in nodes \ {0} : links[u] \in nodes \union {0}

(* The function exists. *)
LEMMA ReachExists ==
  ASSUME NEW links, NEW N \in Nat, Len(links) = N, NEW t
  PROVE \E h : IsReach(h, links, t)
<1> DEFINE Up(u, n) == u = [k \in 0 .. n |-> IF k = 0 THEN {t} ELSE Step(links, u[k - 1])]
           S == {n \in Nat : \E u : Up(u, n)}
<1>1. 0 \in S
  <2> DEFINE u == [k \in 0 .. 0 |-> {t}]
  <2>1. Up(u, 0)
    OBVIOUS
  <2> QED
    BY <2>1
<1>2. ASSUME NEW n \in Nat, n \in S
      PROVE n + 1 \in S
  <2>1. PICK u : Up(u, n)
    BY <1>2
  <2> DEFINE v == [k \in 0 .. n + 1 |-> IF k = n + 1 THEN Step(links, u[n]) ELSE u[k]]
  <2>2. DOMAIN v = 0 .. n + 1 /\ v[n + 1] = Step(links, u[n]) /\ \A k \in 0 .. n : v[k] = u[k]
    OBVIOUS
  <2>3. v = [k \in 0 .. n + 1 |-> v[k]]
    OBVIOUS
  <2> HIDE DEF v
  <2>4. \A k \in 0 .. n : u[k] = IF k = 0 THEN {t} ELSE Step(links, u[k - 1])
    BY <2>1
  <2>5. ASSUME NEW k \in 0 .. n + 1
        PROVE v[k] = IF k = 0 THEN {t} ELSE Step(links, v[k - 1])
    <3>1. CASE k = n + 1
      <4>1. k - 1 = n /\ n \in 0 .. n /\ k # 0
        BY <3>1
      <4> QED
        BY <2>2, <3>1, <4>1
    <3>2. CASE k # n + 1
      <4>1. k \in 0 .. n /\ (k # 0 => k - 1 \in 0 .. n)
        BY <3>2
      <4> QED
        BY <2>2, <2>4, <4>1
    <3> QED
      BY <3>1, <3>2
  <2>6. Up(v, n + 1)
    BY <2>3, <2>5
  <2> QED
    BY <2>6
<1>3. Nat \subseteq S
  <2> HIDE DEF S
  <2> QED
    BY <1>1, <1>2, NatInd
<1> QED
  BY <1>3 DEF IsReach

(* It reaches tables, the first one among them. *)
LEMMA ReachInside ==
  ASSUME NEW N \in Nat, NEW links, LinksOK(links, N), NEW t \in 1 .. N, NEW h, IsReach(h, links, t)
  PROVE /\ h[0] = {t} /\ \A n \in 0 .. N : t \in h[n] /\ h[n] \subseteq 0 .. N
        /\ \A n \in 0 .. N - 1 : h[n + 1] = Step(links, h[n])
<1>1. Len(links) = N /\ \A u \in 1 .. N : links[u] \in 0 .. N
  BY DEF LinksOK
<1>2. h[0] = {t} /\ \A n \in 0 .. N - 1 : h[n + 1] = Step(links, h[n])
  <2>1. 0 \in 0 .. N /\ \A n \in 0 .. N - 1 : n + 1 \in 0 .. N /\ n + 1 # 0 /\ (n + 1) - 1 = n
    OBVIOUS
  <2> QED
    BY <1>1, <2>1 DEF IsReach
<1> DEFINE S == {n \in Nat : n <= N => t \in h[n] /\ h[n] \subseteq 0 .. N}
<1>3. 0 \in S
  BY <1>2
<1>4. ASSUME NEW n \in Nat, n \in S
      PROVE n + 1 \in S
  <2>1. SUFFICES ASSUME n + 1 <= N PROVE t \in h[n + 1] /\ h[n + 1] \subseteq 0 .. N
    OBVIOUS
  <2>2. n \in 0 .. N - 1 /\ t \in h[n] /\ h[n] \subseteq 0 .. N
    BY <1>4, <2>1
  <2>3. \A u \in h[n] \ {0} : u \in 1 .. N
    BY <2>2
  <2>4. h[n + 1] = h[n] \union {links[u] : u \in h[n] \ {0}}
    BY <1>2, <2>2 DEF Step
  <2>5. \A u \in h[n] \ {0} : links[u] \in 0 .. N
    BY <1>1, <2>3
  <2> QED
    BY <2>2, <2>4, <2>5
<1>5. Nat \subseteq S
  <2> HIDE DEF S
  <2> QED
    BY <1>3, <1>4, NatInd
<1> QED
  BY <1>2, <1>5

(* One step fewer than there are tables reaches all it ever will: each step *)
(* before adds a table.                                                    *)
LEMMA ReachCloses ==
  ASSUME NEW N \in Nat, NEW links, LinksOK(links, N), NEW t \in 1 .. N, NEW h, IsReach(h, links, t)
  PROVE Closed(links, h[N - 1]) /\ h[N] \ {0} = h[N - 1] \ {0}
<1>1. /\ h[0] = {t} /\ \A n \in 0 .. N : t \in h[n] /\ h[n] \subseteq 0 .. N
      /\ \A n \in 0 .. N - 1 : h[n + 1] = Step(links, h[n])
  BY ReachInside
<1>2. \A n \in 0 .. N : IsFiniteSet(h[n] \ {0}) /\ Cardinality(h[n] \ {0}) \in Nat
  <2> SUFFICES ASSUME NEW n \in 0 .. N
               PROVE IsFiniteSet(h[n] \ {0}) /\ Cardinality(h[n] \ {0}) \in Nat
    OBVIOUS
  <2>1. IsFiniteSet(0 .. N) /\ h[n] \ {0} \subseteq 0 .. N
    <3>1. IsFiniteSet(0 .. N)
      BY FS_Interval
    <3> QED
      BY <1>1, <3>1
  <2>2. IsFiniteSet(h[n] \ {0})
    BY <2>1, FS_Subset
  <2> QED
    BY <2>2, FS_CardinalityType
<1> DEFINE S == {n \in Nat : n <= N - 1 => Closed(links, h[n]) \/ Cardinality(h[n] \ {0}) >= n + 1}
<1>3. 0 \in S
  <2>1. h[0] \ {0} = {t}
    BY <1>1
  <2>2. Cardinality({t}) = 1
    BY FS_Singleton
  <2> QED
    BY <2>1, <2>2
<1>4. ASSUME NEW n \in Nat, n \in S
      PROVE n + 1 \in S
  <2>1. SUFFICES ASSUME n + 1 <= N - 1
                 PROVE Closed(links, h[n + 1]) \/ Cardinality(h[n + 1] \ {0}) >= (n + 1) + 1
    OBVIOUS
  <2>2. n \in 0 .. N - 1 /\ n \in 0 .. N /\ n + 1 \in 0 .. N /\ n <= N - 1
    BY <2>1
  <2>3. h[n + 1] = Step(links, h[n])
    BY <1>1, <2>2
  <2>4. CASE Closed(links, h[n])
    <3>1. h[n + 1] \ {0} = h[n] \ {0}
      BY <2>3, <2>4 DEF Closed, Step
    <3>2. Closed(links, h[n + 1])
      BY <2>3, <2>4, <3>1 DEF Closed
    <3> QED
      BY <3>2
  <2>5. CASE ~Closed(links, h[n])
    <3>1. PICK u \in h[n] \ {0} : links[u] \notin h[n] \union {0}
      BY <2>5 DEF Closed
    <3>2. links[u] \in h[n + 1] \ {0} /\ links[u] \notin h[n] \ {0} /\ h[n] \ {0} \subseteq h[n + 1] \ {0}
      BY <2>3, <3>1 DEF Step
    <3>3. PICK A : A = h[n] \ {0}
      OBVIOUS
    <3>4. PICK B : B = h[n + 1] \ {0}
      OBVIOUS
    <3>5. IsFiniteSet(A) /\ IsFiniteSet(B) /\ Cardinality(A) \in Nat /\ Cardinality(B) \in Nat
      BY <1>2, <2>2, <3>3, <3>4
    <3>6. A \subseteq B /\ A # B
      BY <3>2, <3>3, <3>4
    <3>7. Cardinality(A) < Cardinality(B)
      BY <3>5, <3>6, FS_Subset
    <3>8. Cardinality(A) >= n + 1
      BY <1>4, <2>2, <2>5, <3>3
    <3> QED
      BY <3>4, <3>5, <3>7, <3>8
  <2> QED
    BY <2>4, <2>5
<1>5. Nat \subseteq S
  <2> HIDE DEF S
  <2> QED
    BY <1>3, <1>4, NatInd
<1>6. N - 1 \in Nat /\ N - 1 \in 0 .. N - 1 /\ N - 1 \in 0 .. N /\ (N - 1) + 1 = N
  OBVIOUS
<1>7. Closed(links, h[N - 1]) \/ Cardinality(h[N - 1] \ {0}) >= N
  BY <1>5, <1>6
<1>8. Closed(links, h[N - 1])
  <2>1. CASE Cardinality(h[N - 1] \ {0}) >= N
    <3>1. PICK A : A = h[N - 1] \ {0}
      OBVIOUS
    <3>2. A \subseteq 1 .. N /\ Cardinality(A) \in Nat
      <4>1. h[N - 1] \subseteq 0 .. N
        BY <1>1, <1>6
      <4> QED
        BY <1>2, <1>6, <3>1, <4>1
    <3>3. IsFiniteSet(1 .. N) /\ Cardinality(1 .. N) = N
      BY FS_Interval
    <3>4. A = 1 .. N
      <4>1. Cardinality(A) <= Cardinality(1 .. N) /\ (Cardinality(1 .. N) = Cardinality(A) => 1 .. N = A)
        BY <3>2, <3>3, FS_Subset, Zenon
      <4>2. Cardinality(A) = N
        BY <2>1, <3>1, <3>2, <3>3, <4>1
      <4> QED
        BY <3>3, <4>1, <4>2
    <3>5. \A u \in h[N - 1] \ {0} : links[u] \in 0 .. N
      BY <3>1, <3>2 DEF LinksOK
    <3>6. \A v \in 0 .. N : v \in h[N - 1] \union {0}
      BY <3>1, <3>4
    <3> QED
      BY <3>5, <3>6 DEF Closed
  <2> QED
    BY <1>7, <2>1
<1>9. h[N] = Step(links, h[N - 1])
  BY <1>1, <1>6
<1> QED
  BY <1>8, <1>9 DEF Closed, Step

(* What a table reaches is itself and what its delegate reaches. *)
LEMMA ReachFromDelegate ==
  ASSUME NEW N \in Nat, NEW links, LinksOK(links, N), NEW t \in 1 .. N, NEW g, IsReach(g, links, t),
         links[t] # 0, NEW h, IsReach(h, links, links[t])
  PROVE g[N] \ {0} = {t} \union (h[N] \ {0})
<1>1. PICK d : d = links[t]
  OBVIOUS
<1>2. d \in 1 .. N /\ IsReach(h, links, d)
  BY <1>1 DEF LinksOK
<1>3. /\ g[0] = {t} /\ \A n \in 0 .. N - 1 : g[n + 1] = Step(links, g[n])
  BY ReachInside
<1>4. /\ h[0] = {d} /\ \A n \in 0 .. N - 1 : h[n + 1] = Step(links, h[n])
      /\ \A n \in 0 .. N : d \in h[n]
  BY <1>2, ReachInside
<1> DEFINE S == {n \in Nat : n <= N - 1 => g[n + 1] = {t} \union h[n]}
<1>5. 0 \in S
  <2>1. 0 \in 0 .. N - 1 /\ 0 + 1 = 1
    OBVIOUS
  <2>2. g[1] = Step(links, {t})
    BY <1>3, <2>1
  <2>3. Step(links, {t}) = {t, d}
    BY <1>1 DEF Step
  <2> QED
    BY <1>4, <2>2, <2>3
<1>6. ASSUME NEW n \in Nat, n \in S
      PROVE n + 1 \in S
  <2>1. SUFFICES ASSUME n + 1 <= N - 1 PROVE g[(n + 1) + 1] = {t} \union h[n + 1]
    OBVIOUS
  <2>2. n + 1 \in 0 .. N - 1 /\ n \in 0 .. N - 1 /\ n \in 0 .. N
    BY <2>1
  <2>3. g[(n + 1) + 1] = Step(links, g[n + 1]) /\ g[n + 1] = {t} \union h[n] /\ h[n + 1] = Step(links, h[n]) /\ d \in h[n]
    BY <1>3, <1>4, <1>6, <2>2
  <2>4. Step(links, {t} \union h[n]) = {t} \union Step(links, h[n])
    BY <1>1, <2>3 DEF Step
  <2> QED
    BY <2>3, <2>4
<1>7. Nat \subseteq S
  <2> HIDE DEF S
  <2> QED
    BY <1>5, <1>6, NatInd
<1>8. N - 1 \in Nat /\ (N - 1) + 1 = N
  OBVIOUS
<1>9. g[N] = {t} \union h[N - 1]
  BY <1>7, <1>8
<1>10. h[N] \ {0} = h[N - 1] \ {0}
  BY <1>2, ReachCloses
<1> QED
  BY <1>9, <1>10

(* Chain, along the delegates. *)
LEMMA Chains ==
  ASSUME TablesOK, NEW t \in 1 .. Len(slots)
  PROVE /\ t \in Chain(t) /\ Chain(t) \subseteq 1 .. Len(slots)
        /\ \A u \in Chain(t) : delegate[u] # 0 => delegate[u] \in Chain(t)
        /\ delegate[t] = 0 => Chain(t) = {t}
        /\ delegate[t] # 0 => delegate[t] \in 1 .. Len(slots) /\ Chain(t) = {t} \union Chain(delegate[t])
<1>1. PICK N : N = Len(slots)
  OBVIOUS
<1>2. N \in Nat /\ Len(delegate) = N /\ LinksOK(delegate, N) /\ t \in 1 .. N
  BY <1>1 DEF TablesOK, LinksOK
<1>3. ASSUME NEW s
      PROVE \E h : IsReach(h, delegate, s) /\ Chain(s) = h[N] \ {0}
  <2>1. \E h : IsReach(h, delegate, s)
    BY <1>2, ReachExists
  <2>2. Chain(s) = (CHOOSE h : IsReach(h, delegate, s))[N] \ {0}
    BY <1>2 DEF Chain, IsReach, Step
  <2> QED
    BY <2>1, <2>2
<1>4. PICK g : IsReach(g, delegate, t) /\ Chain(t) = g[N] \ {0}
  BY <1>3
<1>5. t \in g[N] /\ g[N] \subseteq 0 .. N /\ g[0] = {t} /\ \A n \in 0 .. N - 1 : g[n + 1] = Step(delegate, g[n])
  <2>1. N \in 0 .. N
    BY <1>2
  <2> QED
    BY <1>2, <1>4, <2>1, ReachInside
<1>6. t \in Chain(t) /\ Chain(t) \subseteq 1 .. N
  BY <1>2, <1>4, <1>5
<1>7. \A u \in Chain(t) : delegate[u] # 0 => delegate[u] \in Chain(t)
  <2>1. Closed(delegate, g[N - 1]) /\ g[N] \ {0} = g[N - 1] \ {0}
    BY <1>2, <1>4, ReachCloses
  <2> QED
    BY <1>4, <2>1 DEF Closed
<1>8. ASSUME delegate[t] = 0 PROVE Chain(t) = {t}
  <2> DEFINE S == {n \in Nat : n <= N => g[n] \subseteq {t, 0}}
  <2>1. 0 \in S
    BY <1>5
  <2>2. ASSUME NEW n \in Nat, n \in S PROVE n + 1 \in S
    <3>1. SUFFICES ASSUME n + 1 <= N PROVE g[n + 1] \subseteq {t, 0}
      OBVIOUS
    <3>2. n \in 0 .. N - 1 /\ g[n] \subseteq {t, 0}
      BY <1>2, <2>2, <3>1
    <3>3. g[n + 1] = g[n] \union {delegate[u] : u \in g[n] \ {0}}
      BY <1>5, <3>2 DEF Step
    <3>4. \A u \in g[n] \ {0} : u = t
      BY <3>2
    <3> QED
      BY <1>8, <3>2, <3>3, <3>4
  <2>3. Nat \subseteq S
    <3> HIDE DEF S
    <3> QED
      BY <2>1, <2>2, NatInd
  <2>4. g[N] \subseteq {t, 0}
    BY <1>2, <2>3
  <2> QED
    BY <1>2, <1>4, <1>5, <2>4
<1>9. ASSUME delegate[t] # 0
      PROVE delegate[t] \in 1 .. N /\ Chain(t) = {t} \union Chain(delegate[t])
  <2>1. delegate[t] \in 1 .. N
    BY <1>2, <1>9 DEF LinksOK
  <2>2. PICK h : IsReach(h, delegate, delegate[t]) /\ Chain(delegate[t]) = h[N] \ {0}
    BY <1>3
  <2>3. g[N] \ {0} = {t} \union (h[N] \ {0})
    BY <1>2, <1>4, <1>9, <2>2, ReachFromDelegate
  <2> QED
    BY <1>4, <2>1, <2>2, <2>3
<1> QED
  BY <1>1, <1>6, <1>7, <1>8, <1>9
-----------------------------------------------------------------------------
(* An access, as it is noted. *)
Places == {"table", "class", "instance", "userdata", "nowhere", "default", "metamethod"} \X Nat
Results == [ok : BOOLEAN, from : Places]
Replies == {"none", "awaited", "value", "null", "error"}
LookupSet == [expected : SUBSET Places, behind : SUBSET Places, hooked : BOOLEAN, answer : Replies]
Accesses == [op : {"none", "Get", "Set"}, lookup : LookupSet, before : LookupSet, root : BOOLEAN, ended : BOOLEAN,
             result : Results]

(* What there is to be found in the objects as they are: what each lookup  *)
(* must find, which objects define metamethods, and which lookups pass one.*)
ExpectedNow == [a \in {"Get", "Set"} \X (Kinds \X Nat) \X Keys |-> Expected(a[1], a[2], a[3])]
Passes(op, o) == \E p \in Along(op, o) : HasMetaMethod(p)
View == [expected |-> ExpectedNow,
         has |-> {o \in Kinds \X Nat : HasMetaMethod(o)},
         passing |-> {a \in {"Get", "Set"} \X (Kinds \X Nat) : Passes(a[1], a[2])},
         root |-> slots[Root]]

(* The access in its own frames, those below the first metamethod, of      *)
(* which there are m.  Once the root table is asked the first of them no   *)
(* longer belongs to the lookup.                                           *)
Base(fs) == IF fs[1].pc = "rooted" THEN 2 ELSE 1

OwnFrame(f, i, m, b, k, la) ==
  /\ f.op = la.op /\ f.key = k /\ f.pc # "cloned"
  /\ i > 1 => ~f.root /\ f.self[1] = "table"
  /\ i < m => f.pc \in {"delegated", "rooted"}
  /\ f.pc = "rooted" => i = 1 /\ (i < m => la.op = "Get")
  /\ f.pc = "default" => la.op = "Get"
  /\ f.pc # "lookup" => ~(la.op = "Set" /\ f.self[1] = "class")
  /\ b <= i /\ la.op = "Get" /\ f.key \in Default /\ f.self[1] \in {"table", "class"} => la.lookup.expected # {}

(* As long as it has called no metamethod each of its frames looks for     *)
(* what the lookup must find, and beyond the point where it may call one   *)
(* there is none of it.                                                    *)
Fresh(V, f, l) ==
  /\ V.expected[<<f.op, f.self, f.key>>] = l.expected
  /\ f.pc \in {"meta", "root"} => l.expected = {}
  /\ f.pc = "default" /\ l.expected # {} =>
       f.key \in Default /\ f.self[1] # "userdata" /\ l.expected = {DefaultDelegate}

(* A metamethod on its way is still before it: in a frame below the n-th,  *)
(* or there.                                                               *)
HookedBelow(V, fs, l, n) == ~l.hooked \/ l.expected # {} \/ \E i \in Base(fs) .. n - 1 : fs[i].self \in V.has
StillHooked(V, fs, l, n) ==
  \/ HookedBelow(V, fs, l, n)
  \/ fs[n].pc = "lookup" /\ <<fs[n].op, fs[n].self>> \in V.passing
  \/ fs[n].pc \in {"delegated", "meta"} /\ fs[n].self \in V.has

(* What a call of it has returned to the one below. *)
ReturnedOK(rt, l) ==
  \/ l.answer = "none" /\ rt.ok /\ rt.from \in l.expected
  \/ l.answer = "none" /\ ~rt.ok /\ l.expected = {}
  \/ l.answer = "value" /\ rt.ok /\ rt.from = MetaMethod
  \/ l.answer = "null" /\ ~rt.ok

(* What a metamethod has. *)
AnsweredOK(rt, le, l, n) ==
  \/ l.answer = "value" /\ rt.ok /\ rt.from = MetaMethod
  \/ l.answer = "null" /\ ~rt.ok /\ (n = 1 => le = "null")
  \/ l.answer = "error" /\ ~rt.ok /\ n = 1 /\ le # "null"

RootOf(V, k) == IF k \in V.root THEN {<<"table", Root>>} ELSE {}

(* No metamethod is running: where the access is, and what it knows. *)
Stands(V, fs, rt, le, l, n) ==
  /\ fs[n].pc = "lookup" => l.answer = "none"
  /\ fs[n].pc \in {"meta", "default", "root"} => l.answer \in {"none", "null"}
  /\ fs[n].pc = "called" => AnsweredOK(rt, le, l, n)
  /\ fs[n].pc = "delegated" \/ (fs[n].pc = "rooted" /\ fs[n].op = "Get") => ReturnedOK(rt, l)
  /\ fs[n].pc = "rooted" /\ fs[n].op = "Set" => l.answer = "none" /\ ~l.hooked /\ l.expected = RootOf(V, fs[n].key)
  /\ l.answer = "none" => StillHooked(V, fs, l, n) /\ (fs[n].pc = "rooted" \/ \A i \in Base(fs) .. n : Fresh(V, fs[i], l))

(* One is. *)
Waits(fs, l, m) == fs[m + 1].op = "Script" /\ fs[m].pc = "called" /\ l.answer = "awaited"

(* What the own frames are, whether one is or not. *)
Owned(fs, la, m) ==
  /\ m \in 1 .. Len(fs)
  /\ \A i \in 1 .. m : OwnFrame(fs[i], i, m, Base(fs), fs[1].key, la)
  /\ la.root => fs[1].root /\ fs[1].pc # "rooted" /\ ~(la.op = "Set" /\ fs[1].self[1] = "class")
  /\ la.lookup.behind = IF fs[1].pc # "rooted" /\ la.op = "Get" /\ fs[1].self[1] = "instance" /\ fs[1].key \in Default
                        THEN {DefaultDelegate} ELSE {}
  /\ fs[1].pc = "root" => la.lookup.behind = {}
  /\ la.lookup.answer # "none" => la.lookup.expected = {}

Walks(V, fs, rt, le, la, m) ==
  /\ Owned(fs, la, m)
  /\ IF m = Len(fs) THEN Stands(V, fs, rt, le, la.lookup, m) ELSE Waits(fs, la.lookup, m)

(* How it has ended. *)
Answers(la) ==
  LET l == la.lookup
      found == la.result.ok
      from == la.result.from
  IN \/ l.expected # {} /\ l.answer = "none" /\ found /\ from \in l.expected
     \/ l.expected = {} /\ l.answer = "value" /\ found /\ from = MetaMethod
     \/ l.expected = {} /\ Missed([l EXCEPT !.behind = {}]) /\ found /\ from \in l.behind
     \/ l.expected = {} /\ l.answer = "error" /\ ~found
     \/ Missed(l) /\ ~la.root /\ ~found

WalksOK(V, fs, rt, le, la) ==
  /\ la \in Accesses /\ rt \in Results
  /\ la.op = "none" => la = NoAccess
  /\ Missed(la.before)
  /\ la.op # "none" /\ ~la.ended => \E m \in 1 .. Len(fs) : Walks(V, fs, rt, le, la, m)
  /\ la.ended => fs = <<>> /\ Answers(la)

WalkInv == WalksOK(View, frames, ret, lasterror, last)
-----------------------------------------------------------------------------
(* What a lookup must find. *)
Near(t, k) == {u \in Chain(t) : k \in slots[u] /\ \A v \in Chain(t) : k \in slots[v] => v \in Chain(u)}
Behind(op, k) == IF op = "Get" /\ k \in Default THEN {DefaultDelegate} ELSE {}

(* From a table: the slot of the nearest, or that of the default delegate. *)
LEMMA ExpectedTable ==
  ASSUME TablesOK, NEW t \in 1 .. Len(slots), NEW op, NEW k
  PROVE Expected(op, <<"table", t>>, k) =
          IF Near(t, k) = {} THEN Behind(op, k) ELSE {<<"table", u>> : u \in Near(t, k)}
<1>1. t # 0 /\ t \in Chain(t)
  BY Chains DEF TablesOK
<1>2. Chain(t) # {}
  BY <1>1
<1> DEFINE found == {<<"table", u>> : u \in Near(t, k)}
<1>3. Expected(op, <<"table", t>>, k) =
        IF found \union {} = {} /\ op = "Get" /\ k \in Default THEN {DefaultDelegate} ELSE found \union {}
  BY <1>1, <1>2, Zenon DEF Expected, Near
<1>4. found = {} <=> Near(t, k) = {}
  OBVIOUS
<1> HIDE DEF found
<1>5. found \union {} = found
  OBVIOUS
<1> QED
  BY <1>3, <1>4, <1>5 DEF Behind, found

(* The nearest slot of a table: its own, or the nearest of its delegate. *)
LEMMA NearAlong ==
  ASSUME TablesOK, NEW t \in 1 .. Len(slots), NEW k
  PROVE /\ k \in slots[t] => t \in Near(t, k)
        /\ k \notin slots[t] /\ delegate[t] = 0 => Near(t, k) = {}
        /\ k \notin slots[t] /\ delegate[t] # 0 => Near(t, k) = Near(delegate[t], k)
        /\ Near(t, k) \subseteq 1 .. Len(slots)
<1>1. /\ t \in Chain(t) /\ Chain(t) \subseteq 1 .. Len(slots)
      /\ delegate[t] = 0 => Chain(t) = {t}
      /\ delegate[t] # 0 => Chain(t) = {t} \union Chain(delegate[t])
  BY Chains
<1> QED
  BY <1>1 DEF Near

(* From another object: its own slot, or that of the default delegate. *)
LEMMA ExpectedOther ==
  ASSUME NEW o, NEW op, NEW k
  PROVE /\ o[1] = "instance" => Expected(op, o, k) = IF Reachable(op, o, k) THEN {o} ELSE {}
        /\ o[1] = "class" /\ op = "Get" => Expected(op, o, k) = IF Reachable(op, o, k) THEN {o} ELSE Behind(op, k)
        /\ o[1] = "class" /\ op # "Get" => Expected(op, o, k) = {}
        /\ o[1] = "userdata" /\ op # "Get" => Expected(op, o, k) = {}
        /\ o[1] = "userdata" /\ udelegate = 0 => Expected(op, o, k) = {}
<1>1. o[1] = "instance" => Expected(op, o, k) = IF Reachable(op, o, k) THEN {o} ELSE {}
  BY DEF Expected
<1>2. o[1] = "class" /\ op = "Get" => Expected(op, o, k) = IF Reachable(op, o, k) THEN {o} ELSE Behind(op, k)
  BY DEF Expected, Behind
<1>3. o[1] = "class" /\ op # "Get" => Expected(op, o, k) = {}
  BY DEF Expected
<1>4. o[1] = "userdata" /\ op # "Get" => Expected(op, o, k) = {}
  BY DEF Expected
<1>5. o[1] = "userdata" /\ udelegate = 0 => Expected(op, o, k) = {}
  BY DEF Expected
<1> QED
  BY <1>1, <1>2, <1>3, <1>4, <1>5

(* A userdata delegates Get to its table. *)
LEMMA ExpectedUserdata ==
  ASSUME TablesOK, NEW o, o[1] = "userdata", udelegate # 0, NEW k
  PROVE Expected("Get", o, k) = Expected("Get", <<"table", udelegate>>, k)
<1>1. PICK t : t = udelegate
  OBVIOUS
<1>2. t \in 1 .. Len(slots) /\ t # 0
  BY <1>1 DEF TablesOK
<1>3. Chain(t) # {}
  BY <1>2, Chains
<1> DEFINE found == {<<"table", u>> : u \in Near(t, k)}
<1>4. Expected("Get", o, k) =
        IF found \union {} = {} /\ "Get" = "Get" /\ k \in Default THEN {DefaultDelegate} ELSE found \union {}
  BY <1>1, <1>2, <1>3, Zenon DEF Expected, Near
<1>5. found = {} <=> Near(t, k) = {}
  OBVIOUS
<1> HIDE DEF found
<1>6. found \union {} = found
  OBVIOUS
<1>7. Expected("Get", <<"table", t>>, k) = IF Near(t, k) = {} THEN Behind("Get", k) ELSE {<<"table", u>> : u \in Near(t, k)}
  BY <1>2, ExpectedTable
<1> QED
  BY <1>1, <1>4, <1>5, <1>6, <1>7 DEF Behind, found

(* It is a set of places. *)
LEMMA ExpectedPlaces ==
  ASSUME TablesOK, NEW op \in {"Get", "Set"}, NEW o \in Kinds \X Nat, NEW k,
         o[1] \in {"table", "class", "instance", "userdata"},
         SelfOK(o, Len(slots), Len(classes), Len(instances))
  PROVE Expected(op, o, k) \in SUBSET Places
<1>1. Behind(op, k) \in SUBSET Places /\ o \in Places
  BY DEF Behind, Places, Kinds, DefaultDelegate
<1>2. ASSUME NEW t \in 1 .. Len(slots), NEW x
      PROVE Expected(x, <<"table", t>>, k) \in SUBSET Places
  <2>1. \A u \in 1 .. Len(slots) : <<"table", u>> \in Places
    BY DEF Places, TablesOK
  <2>2. Near(t, k) \subseteq 1 .. Len(slots)
    BY NearAlong
  <2>3. Expected(x, <<"table", t>>, k) = IF Near(t, k) = {} THEN Behind(x, k) ELSE {<<"table", u>> : u \in Near(t, k)}
    BY ExpectedTable
  <2>4. Behind(x, k) \in SUBSET Places
    BY DEF Behind, Places, DefaultDelegate
  <2> QED
    BY <2>1, <2>2, <2>3, <2>4
<1>3. CASE o[1] = "table"
  <2>1. PICK t \in 1 .. Len(slots) : o = <<"table", t>>
    BY <1>3 DEF SelfOK
  <2> QED
    BY <1>2, <2>1
<1>4. CASE o[1] \in {"class", "instance"}
  <2>1. /\ o[1] = "instance" => Expected(op, o, k) = IF Reachable(op, o, k) THEN {o} ELSE {}
        /\ o[1] = "class" /\ op = "Get" => Expected(op, o, k) = IF Reachable(op, o, k) THEN {o} ELSE Behind(op, k)
        /\ o[1] = "class" /\ op # "Get" => Expected(op, o, k) = {}
    BY ExpectedOther
  <2> QED
    BY <1>1, <1>4, <2>1
<1>5. CASE o[1] = "userdata"
  <2>1. /\ op # "Get" => Expected(op, o, k) = {}
        /\ udelegate = 0 => Expected(op, o, k) = {}
    BY <1>5, ExpectedOther
  <2>2. udelegate # 0 => Expected("Get", o, k) = Expected("Get", <<"table", udelegate>>, k)
    BY <1>5, ExpectedUserdata
  <2>3. udelegate # 0 => udelegate \in 1 .. Len(slots)
    BY DEF TablesOK
  <2> QED
    BY <1>2, <2>1, <2>2, <2>3
<1> QED
  BY <1>3, <1>4, <1>5

(* What a lookup of an object must find, whether the object itself has the *)
(* key, its delegate is to be asked, or neither.                           *)
LEMMA Lookups ==
  ASSUME TablesOK, NEW op \in {"Get", "Set"}, NEW o \in Kinds \X Nat, NEW k,
         o[1] \in {"table", "class", "instance", "userdata"},
         SelfOK(o, Len(slots), Len(classes), Len(instances))
  PROVE /\ Reachable(op, o, k) /\ ~(op = "Set" /\ o[1] = "class") => o \in Expected(op, o, k)
        /\ op = "Set" /\ o[1] = "class" => Expected(op, o, k) = {}
        /\ ~Reachable(op, o, k) /\ o[1] = "instance" => Expected(op, o, k) = {}
        /\ ~Reachable(op, o, k) /\ o[1] = "class" => Expected(op, o, k) = Behind(op, k)
        /\ ~Reachable(op, o, k) /\ o[1] = "table" /\ DelegateOf(o) = 0 => Expected(op, o, k) = Behind(op, k)
        /\ o[1] = "userdata" /\ (op = "Set" \/ DelegateOf(o) = 0) => Expected(op, o, k) = {}
        /\ ~Reachable(op, o, k) /\ DelegateOf(o) # 0 /\ (o[1] = "table" \/ (o[1] = "userdata" /\ op = "Get")) =>
             /\ DelegateOf(o) \in 1 .. Len(slots)
             /\ Expected(op, o, k) = Expected(op, <<"table", DelegateOf(o)>>, k)
<1>1. Behind("Set", k) = {}
  BY DEF Behind
<1>2. CASE o[1] = "table"
  <2>1. PICK t \in 1 .. Len(slots) : o = <<"table", t>>
    BY <1>2 DEF SelfOK
  <2>2. Reachable(op, o, k) <=> k \in slots[t]
    BY <2>1 DEF Reachable, Has
  <2>3. DelegateOf(o) = delegate[t] /\ o[1] # "class" /\ o[1] # "instance" /\ o[1] # "userdata"
    BY <2>1 DEF DelegateOf
  <2>4. Expected(op, o, k) = IF Near(t, k) = {} THEN Behind(op, k) ELSE {<<"table", u>> : u \in Near(t, k)}
    BY <2>1, ExpectedTable
  <2>5. /\ k \in slots[t] => t \in Near(t, k)
        /\ k \notin slots[t] /\ delegate[t] = 0 => Near(t, k) = {}
        /\ k \notin slots[t] /\ delegate[t] # 0 => Near(t, k) = Near(delegate[t], k)
    BY NearAlong
  <2>6. Reachable(op, o, k) => o \in Expected(op, o, k)
    BY <2>1, <2>2, <2>4, <2>5
  <2>7. ~Reachable(op, o, k) /\ delegate[t] = 0 => Expected(op, o, k) = Behind(op, k)
    BY <2>2, <2>4, <2>5
  <2>8. ASSUME ~Reachable(op, o, k), delegate[t] # 0
        PROVE delegate[t] \in 1 .. Len(slots) /\ Expected(op, o, k) = Expected(op, <<"table", delegate[t]>>, k)
    <3>1. delegate[t] \in 1 .. Len(slots)
      BY <2>8, Chains
    <3>2. Expected(op, <<"table", delegate[t]>>, k) =
            IF Near(delegate[t], k) = {} THEN Behind(op, k) ELSE {<<"table", u>> : u \in Near(delegate[t], k)}
      BY <3>1, ExpectedTable
    <3> QED
      BY <2>2, <2>4, <2>5, <2>8, <3>1, <3>2
  <2> QED
    BY <2>3, <2>6, <2>7, <2>8
<1>3. CASE o[1] \in {"class", "instance"}
  <2>1. /\ o[1] = "instance" => Expected(op, o, k) = IF Reachable(op, o, k) THEN {o} ELSE {}
        /\ o[1] = "class" /\ op = "Get" => Expected(op, o, k) = IF Reachable(op, o, k) THEN {o} ELSE Behind(op, k)
        /\ o[1] = "class" /\ op # "Get" => Expected(op, o, k) = {}
    BY ExpectedOther
  <2> QED
    BY <1>1, <1>3, <2>1
<1>4. CASE o[1] = "userdata"
  <2>1. DelegateOf(o) = udelegate /\ ~Reachable(op, o, k)
    BY <1>4 DEF DelegateOf, Reachable, Has
  <2>2. /\ op # "Get" => Expected(op, o, k) = {}
        /\ udelegate = 0 => Expected(op, o, k) = {}
    BY <1>4, ExpectedOther
  <2>3. udelegate # 0 => udelegate \in 1 .. Len(slots)
    BY DEF TablesOK
  <2>4. op = "Get" /\ udelegate # 0 => Expected(op, o, k) = Expected(op, <<"table", udelegate>>, k)
    BY <1>4, ExpectedUserdata
  <2> QED
    BY <1>4, <2>1, <2>2, <2>3, <2>4
<1> QED
  BY <1>2, <1>3, <1>4

(* The metamethods on the way of a lookup: the object's own, and those on  *)
(* the way from its delegate.                                              *)
LEMMA Passing ==
  ASSUME TablesOK, NEW op \in {"Get", "Set"}, NEW o \in Kinds \X Nat,
         o[1] \in {"table", "class", "instance", "userdata"},
         SelfOK(o, Len(slots), Len(classes), Len(instances)), Passes(op, o)
  PROVE \/ HasMetaMethod(o)
        \/ /\ DelegateOf(o) # 0 /\ (o[1] = "table" \/ (o[1] = "userdata" /\ op = "Get"))
           /\ Passes(op, <<"table", DelegateOf(o)>>)
<1>1. PICK p \in Along(op, o) : HasMetaMethod(p)
  BY DEF Passes
<1>2. \A t : Along(op, <<"table", t>>) = {<<"table", u>> : u \in Chain(t)}
  BY DEF Along
<1>3. CASE o[1] = "table"
  <2>1. PICK t \in 1 .. Len(slots) : o = <<"table", t>>
    BY <1>3 DEF SelfOK
  <2>2. DelegateOf(o) = delegate[t]
    BY <2>1 DEF DelegateOf
  <2>3. PICK u \in Chain(t) : p = <<"table", u>>
    BY <1>1, <1>2, <2>1
  <2>4. CASE u = t
    BY <1>1, <2>1, <2>3, <2>4
  <2>5. CASE u # t
    <3>1. delegate[t] # 0 /\ u \in Chain(delegate[t])
      <4>1. /\ delegate[t] = 0 => Chain(t) = {t}
            /\ delegate[t] # 0 => Chain(t) = {t} \union Chain(delegate[t])
        BY Chains
      <4> QED
        BY <2>3, <2>5, <4>1
    <3>2. p \in Along(op, <<"table", delegate[t]>>)
      BY <1>2, <2>3, <3>1
    <3> QED
      BY <1>1, <1>3, <2>2, <3>1, <3>2 DEF Passes
  <2> QED
    BY <2>4, <2>5
<1>4. CASE o[1] # "table"
  <2>1. \/ p = o
        \/ o[1] = "userdata" /\ op = "Get" /\ udelegate # 0 /\ \E u \in Chain(udelegate) : p = <<"table", u>>
    BY <1>1, <1>4 DEF Along
  <2>2. CASE p = o
    BY <1>1, <2>2
  <2>3. CASE o[1] = "userdata" /\ op = "Get" /\ udelegate # 0 /\ \E u \in Chain(udelegate) : p = <<"table", u>>
    <3>1. DelegateOf(o) = udelegate
      BY <2>3 DEF DelegateOf
    <3>2. p \in Along(op, <<"table", udelegate>>)
      BY <1>2, <2>3
    <3> QED
      BY <1>1, <2>3, <3>1, <3>2 DEF Passes
  <2> QED
    BY <2>1, <2>2, <2>3
<1> QED
  BY <1>3, <1>4
-----------------------------------------------------------------------------
(* The own frames of an access. *)

(* They are those whatever is above them. *)
LEMMA OwnedKept ==
  ASSUME NEW la, NEW fs, NEW gs, NEW m \in Nat \ {0}, Owned(fs, la, m), m \in 1 .. Len(gs),
         \A i \in 1 .. m : gs[i] = fs[i]
  PROVE Owned(gs, la, m)
<1>1. gs[1] = fs[1] /\ Base(gs) = Base(fs)
  BY DEF Base
<1>2. \A i \in 1 .. m : OwnFrame(gs[i], i, m, Base(gs), gs[1].key, la)
  BY <1>1 DEF Owned
<1> QED
  BY <1>1, <1>2 DEF Owned

(* The one on top returns. *)
LEMMA OwnedReturned ==
  ASSUME NEW la, NEW fs, NEW m \in Nat \ {0}, Owned(fs, la, m + 1)
  PROVE /\ Owned(fs, la, m)
        /\ fs[m].pc = "delegated" \/ (fs[m].pc = "rooted" /\ m = 1 /\ fs[m].op = "Get")
<1>1. m + 1 \in 1 .. Len(fs) /\ \A i \in 1 .. m + 1 : OwnFrame(fs[i], i, m + 1, Base(fs), fs[1].key, la)
  BY DEF Owned
<1>2. m \in 1 .. Len(fs)
  <2>1. Len(fs) >= m + 1
    BY <1>1
  <2> QED
    BY <2>1, <1>1
<1>3. ASSUME NEW i \in 1 .. m PROVE OwnFrame(fs[i], i, m, Base(fs), fs[1].key, la)
  <2>1. i \in 1 .. m + 1 /\ (i < m => i < m + 1)
    OBVIOUS
  <2>2. OwnFrame(fs[i], i, m + 1, Base(fs), fs[1].key, la)
    BY <1>1, <2>1
  <2> QED
    BY <2>1, <2>2 DEF OwnFrame
<1>4. fs[m].pc = "delegated" \/ (fs[m].pc = "rooted" /\ m = 1 /\ fs[m].op = "Get")
  <2>1. m \in 1 .. m + 1 /\ m < m + 1
    OBVIOUS
  <2>2. OwnFrame(fs[m], m, m + 1, Base(fs), fs[1].key, la)
    BY <1>1, <2>1
  <2> QED
    BY <2>1, <2>2 DEF OwnFrame
<1> QED
  BY <1>2, <1>3, <1>4 DEF Owned

(* The same access, which knows more of its metamethods. *)
Alike(la, la2) ==
  /\ la2.op = la.op /\ la2.root = la.root
  /\ la2.lookup.expected = la.lookup.expected /\ la2.lookup.behind = la.lookup.behind
  /\ la2.lookup.answer # "none" => la2.lookup.expected = {}

(* The one on top goes on. *)
LEMMA OwnedTurned ==
  ASSUME NEW la, NEW la2, Alike(la, la2), NEW fs \in Seq(FrameSet), fs # <<>>, Owned(fs, la, Len(fs)),
         NEW p \in {"meta", "default", "root", "called", "delegated"}, NEW gs, IsTurned(gs, fs, p),
         fs[Len(fs)].pc # "rooted", ~(la.op = "Set" /\ fs[Len(fs)].self[1] = "class"),
         p = "default" => la.op = "Get", p = "root" /\ Len(fs) = 1 => la.lookup.behind = {}
  PROVE Owned(gs, la2, Len(fs)) /\ Base(gs) = Base(fs) /\ gs[1].key = fs[1].key
<1>1. PICK n : n = Len(fs)
  OBVIOUS
<1>2. p \in Pcs
  BY DEF Pcs
<1>3. /\ gs \in Seq(FrameSet) /\ Len(gs) = n /\ n \in Nat \ {0}
      /\ \A i \in 1 .. n : i # n => gs[i] = fs[i]
      /\ \A i \in 1 .. n : gs[i].op = fs[i].op /\ gs[i].self = fs[i].self /\ gs[i].key = fs[i].key /\ gs[i].root = fs[i].root
      /\ gs[n].pc = p
  BY <1>1, <1>2, Turned
<1>4. 1 \in 1 .. n /\ n \in 1 .. n /\ (n # 1 => gs[1] = fs[1]) /\ fs[n].pc # "rooted"
  BY <1>1, <1>3
<1>5. gs[1].pc = "rooted" <=> fs[1].pc = "rooted"
  BY <1>3, <1>4
<1>6. Base(gs) = Base(fs)
  BY <1>5 DEF Base
<1>7. gs[1].key = fs[1].key /\ gs[1].self = fs[1].self /\ gs[1].root = fs[1].root
  BY <1>3, <1>4
<1>8. /\ \A i \in 1 .. n : OwnFrame(fs[i], i, n, Base(fs), fs[1].key, la)
      /\ la.root => fs[1].root /\ fs[1].pc # "rooted" /\ ~(la.op = "Set" /\ fs[1].self[1] = "class")
      /\ la.lookup.behind = IF fs[1].pc # "rooted" /\ la.op = "Get" /\ fs[1].self[1] = "instance" /\ fs[1].key \in Default
                            THEN {DefaultDelegate} ELSE {}
      /\ fs[1].pc = "root" => la.lookup.behind = {}
  BY <1>1 DEF Owned
<1>9. ASSUME NEW i \in 1 .. n PROVE OwnFrame(gs[i], i, n, Base(gs), gs[1].key, la2)
  <2>1. OwnFrame(fs[i], i, n, Base(fs), fs[1].key, la)
    BY <1>8
  <2>2. CASE i # n
    <3>1. gs[i] = fs[i]
      BY <1>3, <2>2
    <3> QED
      BY <1>6, <1>7, <2>1, <3>1 DEF OwnFrame, Alike
  <2>3. CASE i = n
    <3>1. ~(i < n) /\ gs[i].pc = p /\ p # "rooted" /\ p # "cloned"
      BY <1>3, <2>3
    <3>2. gs[i].op = fs[i].op /\ gs[i].self = fs[i].self /\ gs[i].key = fs[i].key /\ gs[i].root = fs[i].root
      BY <1>3
    <3>3. ~(la.op = "Set" /\ fs[i].self[1] = "class")
      BY <1>1, <2>3
    <3> QED
      BY <1>6, <1>7, <2>1, <3>1, <3>2, <3>3 DEF OwnFrame, Alike
  <2> QED
    BY <2>2, <2>3
<1>10. gs[1].pc = "root" => la2.lookup.behind = {}
  <2>1. CASE n = 1
    BY <1>1, <1>3, <2>1 DEF Alike
  <2>2. CASE n # 1
    BY <1>4, <1>8, <2>2 DEF Alike
  <2> QED
    BY <2>1, <2>2
<1>11. la2.root => gs[1].root /\ gs[1].pc # "rooted" /\ ~(la2.op = "Set" /\ gs[1].self[1] = "class")
  BY <1>5, <1>7, <1>8 DEF Alike
<1>12. la2.lookup.behind = IF gs[1].pc # "rooted" /\ la2.op = "Get" /\ gs[1].self[1] = "instance" /\ gs[1].key \in Default
                           THEN {DefaultDelegate} ELSE {}
  BY <1>5, <1>7, <1>8 DEF Alike
<1>13. Owned(gs, la2, n)
  BY <1>3, <1>4, <1>9, <1>10, <1>11, <1>12 DEF Owned, Alike
<1> QED
  BY <1>1, <1>6, <1>7, <1>13

(* It asks its delegate. *)
LEMMA OwnedMore ==
  ASSUME NEW la, NEW n \in Nat \ {0}, NEW fs, Owned(fs, la, n), fs[n].pc = "delegated",
         NEW hs, NEW m, m = n + 1, Len(hs) = m, \A i \in 1 .. n : hs[i] = fs[i],
         hs[m].op = la.op, hs[m].key = fs[1].key, hs[m].pc = "lookup", ~hs[m].root, hs[m].self[1] = "table",
         la.op = "Get" /\ hs[m].key \in Default => la.lookup.expected # {}
  PROVE Owned(hs, la, m)
<1>1. hs[1] = fs[1] /\ Base(hs) = Base(fs)
  BY DEF Base
<1>2. /\ \A i \in 1 .. n : OwnFrame(fs[i], i, n, Base(fs), fs[1].key, la)
  BY DEF Owned
<1>3. ASSUME NEW i \in 1 .. n PROVE OwnFrame(hs[i], i, n + 1, Base(hs), hs[1].key, la)
  <2>1. OwnFrame(fs[i], i, n, Base(fs), fs[1].key, la) /\ hs[i] = fs[i]
    BY <1>2
  <2>2. i < n \/ i = n
    OBVIOUS
  <2> QED
    BY <1>1, <2>1, <2>2 DEF OwnFrame
<1>4. OwnFrame(hs[m], n + 1, n + 1, Base(hs), hs[1].key, la)
  BY <1>1 DEF OwnFrame
<1>5. \A i \in 1 .. n + 1 : OwnFrame(hs[i], i, n + 1, Base(hs), hs[1].key, la)
  <2>1. \A i \in 1 .. n + 1 : i \in 1 .. n \/ i = n + 1
    OBVIOUS
  <2> QED
    BY <1>3, <1>4, <2>1
<1> QED
  BY <1>1, <1>5 DEF Owned
-----------------------------------------------------------------------------
(* The steps of an access while no metamethod is running. *)
Underway(V, fs, rt, le, la) ==
  /\ la \in Accesses /\ rt \in Results /\ fs \in Seq(FrameSet) /\ fs # <<>>
  /\ la.op # "none" /\ ~la.ended /\ Missed(la.before)
  /\ Walks(V, fs, rt, le, la, Len(fs))

(* What the call on top may return. *)
MayReturn(V, fs, la, ok, from) ==
  LET l == la.lookup
      n == Len(fs)
  IN \/ ok /\ l.answer = "none" /\ from \in l.expected
     \/ ok /\ l.answer = "value" /\ l.expected = {} /\ from = MetaMethod
     \/ ok /\ n = 1 /\ l.expected = {} /\ from \in l.behind /\ (l.answer = "null" \/ (l.answer = "none" /\ ~l.hooked))
     \/ ~ok /\ l.answer = "none" /\ l.expected = {} /\ HookedBelow(V, fs, l, n) /\ (n = 1 => l.behind = {} /\ ~la.root)
     \/ ~ok /\ l.answer = "null" /\ l.expected = {} /\ (n = 1 => l.behind = {} /\ ~la.root)
     \/ ~ok /\ l.answer = "error" /\ l.expected = {} /\ n = 1

HasEnded(la2, la, r) == la2 = [la EXCEPT !.ended = TRUE, !.result = r]

(* A metamethod below the frame on top is still before the access when    *)
(* that has returned.                                                      *)
LEMMA HookedReturned ==
  ASSUME NEW V, NEW fs, NEW gs, NEW l, NEW m \in Nat \ {0}, HookedBelow(V, fs, l, m + 1), Base(gs) = Base(fs),
         \A i \in 1 .. m : gs[i] = fs[i], fs[m].pc = "delegated" \/ (fs[m].pc = "rooted" /\ m = 1)
  PROVE StillHooked(V, gs, l, m)
<1>1. Base(fs) \in {1, 2} /\ (m = 1 /\ fs[m].pc = "rooted" => Base(fs) = 2)
  BY DEF Base
<1>2. CASE ~l.hooked \/ l.expected # {}
  BY <1>2 DEF StillHooked, HookedBelow
<1>3. CASE \E i \in Base(fs) .. (m + 1) - 1 : fs[i].self \in V.has
  <2>1. PICK i \in Base(fs) .. (m + 1) - 1 : fs[i].self \in V.has
    BY <1>3
  <2>2. i \in Base(fs) .. m /\ i \in 1 .. m /\ gs[i] = fs[i]
    BY <1>1, <2>1
  <2>3. CASE i = m
    <3>1. ~(m = 1 /\ fs[m].pc = "rooted")
      BY <1>1, <2>2, <2>3
    <3> QED
      BY <2>1, <2>2, <2>3, <3>1 DEF StillHooked
  <2>4. CASE i # m
    <3>1. i \in Base(gs) .. m - 1
      BY <1>1, <2>2, <2>4
    <3> QED
      BY <2>1, <2>2, <3>1 DEF StillHooked, HookedBelow
  <2> QED
    BY <2>3, <2>4
<1> QED
  BY <1>2, <1>3 DEF HookedBelow

LEMMA WalkReturns ==
  ASSUME NEW V, NEW fs, NEW rt, NEW le, NEW la, Underway(V, fs, rt, le, la),
         NEW ok \in BOOLEAN, NEW from \in Places, MayReturn(V, fs, la, ok, from), NEW r, r = [ok |-> ok, from |-> from],
         NEW rt2, rt2 = (IF Len(fs) > 1 THEN r ELSE NoResult), NEW le2,
         NEW la2, IF Len(fs) > 1 THEN la2 = la ELSE HasEnded(la2, la, r)
  PROVE WalksOK(V, Front(fs), rt2, le2, la2)
<1>1. /\ la \in Accesses /\ fs \in Seq(FrameSet) /\ fs # <<>> /\ Len(fs) \in Nat \ {0}
      /\ la.op # "none" /\ ~la.ended /\ Missed(la.before) /\ Walks(V, fs, rt, le, la, Len(fs))
  BY DEF Underway
<1>2. PICK l : l = la.lookup
  OBVIOUS
<1>3. r \in Results /\ r.ok = ok /\ r.from = from /\ NoResult \in Results /\ rt2 \in Results
  BY DEF Results, NoResult, Nowhere, Places
<1>4. Owned(fs, la, Len(fs)) /\ Stands(V, fs, rt, le, l, Len(fs))
  BY <1>1, <1>2 DEF Walks
<1>5. CASE Len(fs) > 1
  <2>1. PICK gs : gs = Front(fs)
    OBVIOUS
  <2>2. PICK N : N = Len(fs) - 1
    OBVIOUS
  <2>3. N \in Nat \ {0} /\ N \in 0 .. Len(fs) /\ Len(fs) = N + 1 /\ N + 1 # 1
    <3>1. PICK n \in Nat : n = Len(fs)
      BY <1>1
    <3>2. n > 1 /\ N = n - 1
      BY <1>5, <2>2, <3>1
    <3>3. N \in Nat \ {0} /\ N \in 0 .. n /\ n = N + 1 /\ N + 1 # 1
      BY <3>2
    <3> QED
      BY <3>1, <3>3
  <2>4. gs = SubSeq(fs, 1, N)
    BY <2>1, <2>2 DEF Front
  <2>5. gs \in Seq(FrameSet) /\ Len(gs) = N /\ \A i \in 1 .. N : fs[i] = gs[i]
    BY <1>1, <2>3, <2>4, Prefixed
  <2>6. rt2 = r /\ la2 = la
    BY <1>5
  <2>7. Owned(fs, la, N + 1) /\ Stands(V, fs, rt, le, l, N + 1)
    BY <1>4, <2>3
  <2>8. Owned(fs, la, N) /\ (fs[N].pc = "delegated" \/ (fs[N].pc = "rooted" /\ N = 1 /\ fs[N].op = "Get"))
    <3>1. N \in Nat \ {0} /\ Owned(fs, la, N + 1)
      BY <2>3, <2>7
    <3> QED
      BY ONLY <3>1, OwnedReturned
  <2>9. Owned(gs, la, N)
    <3>1. N \in Nat \ {0} /\ N \in 1 .. Len(gs) /\ \A i \in 1 .. N : gs[i] = fs[i]
      BY <2>3, <2>5
    <3> QED
      BY ONLY <2>8, <3>1, OwnedKept
  <2>10. gs[N] = fs[N] /\ gs[1] = fs[1] /\ Base(gs) = Base(fs)
    BY <2>3, <2>5 DEF Base
  <2>11. \/ ok /\ l.answer = "none" /\ from \in l.expected
         \/ ok /\ l.answer = "value" /\ l.expected = {} /\ from = MetaMethod
         \/ ~ok /\ l.answer = "none" /\ l.expected = {} /\ HookedBelow(V, fs, l, N + 1)
         \/ ~ok /\ l.answer = "null" /\ l.expected = {}
    BY <1>2, <2>3 DEF MayReturn
  <2>12. ReturnedOK(r, l)
    BY <1>3, <2>11 DEF ReturnedOK
  <2>13. ASSUME l.answer = "none"
         PROVE StillHooked(V, gs, l, N) /\ (gs[N].pc = "rooted" \/ \A i \in Base(gs) .. N : Fresh(V, gs[i], l))
    <3>1. HookedBelow(V, fs, l, N + 1)
      BY <2>11, <2>13 DEF HookedBelow
    <3>2. StillHooked(V, gs, l, N)
      <4>1. (\A i \in 1 .. N : gs[i] = fs[i]) /\ Base(gs) = Base(fs)
            /\ (fs[N].pc = "delegated" \/ (fs[N].pc = "rooted" /\ N = 1))
        BY <2>5, <2>8, <2>10
      <4> QED
        BY ONLY <2>3, <3>1, <4>1, HookedReturned
    <3>3. CASE fs[N].pc = "delegated"
      <4>1. fs[N + 1].pc # "rooted"
        <5>1. OwnFrame(fs[N + 1], N + 1, N + 1, Base(fs), fs[1].key, la)
          <6>1. N + 1 \in 1 .. N + 1
            BY <2>3
          <6> QED
            BY <2>7, <6>1 DEF Owned
        <5> QED
          BY <2>3, <5>1 DEF OwnFrame
      <4>2. \A i \in Base(fs) .. N + 1 : Fresh(V, fs[i], l)
        BY <2>7, <2>13, <4>1 DEF Stands
      <4>3. \A i \in Base(fs) .. N : i \in Base(fs) .. N + 1 /\ i \in 1 .. N
        BY <2>3 DEF Base
      <4> QED
        BY <2>5, <2>10, <3>2, <4>2, <4>3
    <3> QED
      BY <2>8, <2>10, <3>2, <3>3
  <2>14. Stands(V, gs, r, le2, l, N)
    BY <2>8, <2>10, <2>12, <2>13 DEF Stands
  <2>15. Walks(V, gs, r, le2, la, N)
    BY <1>2, <2>5, <2>9, <2>14 DEF Walks
  <2>16. N \in 1 .. Len(gs)
    BY <2>3, <2>5
  <2> QED
    BY <1>1, <1>3, <2>1, <2>6, <2>15, <2>16 DEF WalksOK
<1>6. CASE ~(Len(fs) > 1)
  <2>1. Front(fs) = <<>> /\ Len(fs) = 1
    <3>1. PICK n \in Nat \ {0} : n = Len(fs)
      BY <1>1
    <3>2. n = 1 /\ n - 1 = 0
      BY <1>6, <3>1
    <3> QED
      BY <1>1, <3>1, <3>2 DEF Front
  <2>2. rt2 = NoResult /\ la2 = [la EXCEPT !.ended = TRUE, !.result = r]
    BY <1>6 DEF HasEnded
  <2>3. /\ la2 \in Accesses /\ la2.op = la.op /\ la2.lookup = l /\ la2.before = la.before /\ la2.root = la.root
        /\ la2.ended /\ la2.result = r
    BY <1>1, <1>2, <1>3, <2>2 DEF Accesses
  <2>4. ~HookedBelow(V, fs, l, 1) \/ ~l.hooked \/ l.expected # {}
    BY DEF HookedBelow, Base
  <2>5. Missed([l EXCEPT !.behind = {}]) <=> l.expected = {} /\ (l.answer = "null" \/ (l.answer = "none" /\ ~l.hooked))
    <3>1. l \in LookupSet
      BY <1>1, <1>2 DEF Accesses
    <3>2. PICK l2 : l2 = [l EXCEPT !.behind = {}]
      OBVIOUS
    <3>3. l2.expected = l.expected /\ l2.behind = {} /\ l2.answer = l.answer /\ l2.hooked = l.hooked
      BY <3>1, <3>2 DEF LookupSet
    <3> QED
      BY <3>2, <3>3 DEF Missed
  <2>6. \/ ok /\ l.answer = "none" /\ from \in l.expected
        \/ ok /\ l.answer = "value" /\ l.expected = {} /\ from = MetaMethod
        \/ ok /\ l.expected = {} /\ from \in l.behind /\ (l.answer = "null" \/ (l.answer = "none" /\ ~l.hooked))
        \/ ~ok /\ l.answer = "none" /\ l.expected = {} /\ ~l.hooked /\ l.behind = {} /\ ~la.root
        \/ ~ok /\ l.answer = "null" /\ l.expected = {} /\ l.behind = {} /\ ~la.root
        \/ ~ok /\ l.answer = "error" /\ l.expected = {}
    BY <1>2, <2>1, <2>4 DEF MayReturn
  <2>7. Answers(la2)
    <3>1. CASE ok
      <4>1. \/ l.expected # {} /\ l.answer = "none" /\ from \in l.expected
            \/ l.expected = {} /\ l.answer = "value" /\ from = MetaMethod
            \/ l.expected = {} /\ Missed([l EXCEPT !.behind = {}]) /\ from \in l.behind
        BY <2>5, <2>6, <3>1
      <4> QED
        BY <1>3, <2>3, <3>1, <4>1 DEF Answers
    <3>2. CASE ~ok
      <4>1. l.expected = {} /\ (l.answer = "error" \/ (Missed(l) /\ ~la.root))
        BY <2>6, <3>2 DEF Missed
      <4> QED
        BY <1>3, <2>3, <3>2, <4>1 DEF Answers
    <3> QED
      BY <3>1, <3>2
  <2> QED
    BY <1>1, <1>3, <2>1, <2>2, <2>3, <2>7 DEF WalksOK
<1> QED
  BY <1>5, <1>6

(* What is known of the access when the frame on top is no longer that of *)
(* a class to be set.                                                      *)
LEMMA UnderwayTop ==
  ASSUME NEW V, NEW fs, NEW rt, NEW le, NEW la, Underway(V, fs, rt, le, la), NEW n, n = Len(fs)
  PROVE /\ n \in Nat \ {0} /\ fs \in Seq(FrameSet) /\ fs[n] \in FrameSet
        /\ Owned(fs, la, n) /\ Stands(V, fs, rt, le, la.lookup, n) /\ Alike(la, la)
        /\ OwnFrame(fs[n], n, n, Base(fs), fs[1].key, la)
        /\ fs[n].pc # "rooted" => Base(fs) \in 1 .. n /\ n \in Base(fs) .. n
        /\ la.lookup \in LookupSet
<1>1. n \in Nat \ {0} /\ fs \in Seq(FrameSet) /\ fs[n] \in FrameSet /\ la \in Accesses
  BY DEF Underway
<1>2. Owned(fs, la, n) /\ Stands(V, fs, rt, le, la.lookup, n)
  BY DEF Underway, Walks
<1>3. OwnFrame(fs[n], n, n, Base(fs), fs[1].key, la)
  BY <1>1, <1>2 DEF Owned
<1>4. Alike(la, la)
  BY <1>2 DEF Owned, Alike
<1>5. fs[n].pc # "rooted" => Base(fs) \in 1 .. n /\ n \in Base(fs) .. n
  BY <1>1 DEF Base
<1>6. la.lookup \in LookupSet
  BY <1>1 DEF Accesses
<1> QED
  BY <1>1, <1>2, <1>3, <1>4, <1>5, <1>6

(* The metamethods below are those of the same objects. *)
LEMMA HookedSame ==
  ASSUME NEW V, NEW fs, NEW gs, NEW l, NEW n \in Nat \ {0}, HookedBelow(V, fs, l, n), Base(gs) = Base(fs),
         \A i \in 1 .. n : i # n => gs[i] = fs[i]
  PROVE HookedBelow(V, gs, l, n)
<1>1. \A i \in Base(fs) .. n - 1 : i \in 1 .. n /\ i # n
  BY DEF Base
<1> QED
  BY <1>1 DEF HookedBelow

(* It goes on in the same call. *)
LEMMA WalkGoes ==
  ASSUME NEW V, NEW fs, NEW rt, NEW le, NEW la, Underway(V, fs, rt, le, la), NEW n, n = Len(fs), NEW l, l = la.lookup,
         fs[n].pc # "rooted", ~(la.op = "Set" /\ fs[n].self[1] = "class"),
         NEW p \in {"default", "meta", "root"}, p = "default" => la.op = "Get", p = "root" /\ n = 1 => l.behind = {},
         l.answer \in {"none", "null"},
         l.answer = "none" => /\ p \in {"meta", "root"} => l.expected = {}
                              /\ p = "default" /\ l.expected # {} =>
                                   fs[n].key \in Default /\ fs[n].self[1] # "userdata" /\ l.expected = {DefaultDelegate}
                              /\ V.expected[<<fs[n].op, fs[n].self, fs[n].key>>] = l.expected
                              /\ HookedBelow(V, fs, l, n) \/ (p = "meta" /\ fs[n].self \in V.has),
         NEW gs, IsTurned(gs, fs, p), NEW le2
  PROVE WalksOK(V, gs, NoResult, le2, la)
<1>1. /\ n \in Nat \ {0} /\ fs \in Seq(FrameSet) /\ fs # <<>>
      /\ Owned(fs, la, n) /\ Stands(V, fs, rt, le, l, n) /\ Alike(la, la)
      /\ Base(fs) \in 1 .. n
  BY UnderwayTop DEF Underway
<1>2. p \in Pcs
  BY DEF Pcs
<1>3. /\ Len(gs) = n
      /\ \A i \in 1 .. n : i # n => gs[i] = fs[i]
      /\ gs[n].op = fs[n].op /\ gs[n].self = fs[n].self /\ gs[n].key = fs[n].key /\ gs[n].pc = p
  <2>1. n \in 1 .. n
    BY <1>1
  <2> QED
    BY <1>1, <1>2, <2>1, Turned
<1>4. Owned(gs, la, n) /\ Base(gs) = Base(fs)
  <2>1. p \in {"meta", "default", "root", "called", "delegated"} /\ Len(fs) = n
    OBVIOUS
  <2> QED
    BY <1>1, <2>1, OwnedTurned
<1>5. ASSUME l.answer = "none"
      PROVE StillHooked(V, gs, l, n) /\ \A i \in Base(gs) .. n : Fresh(V, gs[i], l)
  <2>1. StillHooked(V, gs, l, n)
    <3>1. CASE HookedBelow(V, fs, l, n)
      <4>1. HookedBelow(V, gs, l, n)
        BY <1>1, <1>3, <1>4, <3>1, HookedSame
      <4> QED
        BY <4>1 DEF StillHooked
    <3>2. CASE p = "meta" /\ fs[n].self \in V.has
      BY <1>3, <3>2 DEF StillHooked
    <3> QED
      BY <1>5, <3>1, <3>2
  <2>2. Fresh(V, gs[n], l)
    BY <1>3, <1>5 DEF Fresh
  <2>3. \A i \in Base(fs) .. n : Fresh(V, fs[i], l)
    BY <1>1, <1>5 DEF Stands
  <2>4. \A i \in Base(gs) .. n : i = n \/ (i \in 1 .. n /\ i # n /\ i \in Base(fs) .. n)
    BY <1>1, <1>4
  <2> QED
    BY <1>3, <2>1, <2>2, <2>3, <2>4
<1>6. Stands(V, gs, NoResult, le2, l, n)
  BY <1>3, <1>5 DEF Stands
<1>7. Walks(V, gs, NoResult, le2, la, n) /\ n \in 1 .. Len(gs)
  BY <1>1, <1>3, <1>4, <1>6 DEF Walks
<1>8. NoResult \in Results
  BY DEF NoResult, Results, Nowhere, Places
<1> QED
  BY <1>7, <1>8 DEF WalksOK, Underway

(* It asks the delegate. *)
LEMMA WalkNests ==
  ASSUME NEW V, NEW fs, NEW rt, NEW le, NEW la, Underway(V, fs, rt, le, la), NEW n, n = Len(fs), NEW l, l = la.lookup,
         fs[n].pc = "lookup", ~(la.op = "Set" /\ fs[n].self[1] = "class"),
         NEW g, g.op = la.op, g.key = fs[n].key, ~g.root, g.pc = "lookup", g.self[1] = "table",
         V.expected[<<g.op, g.self, g.key>>] = l.expected,
         la.op = "Get" /\ g.key \in Default => l.expected # {},
         HookedBelow(V, fs, l, n) \/ fs[n].self \in V.has \/ <<g.op, g.self>> \in V.passing,
         NEW gs, IsTurned(gs, fs, "delegated"), NEW hs, hs = Append(gs, g), NEW rt2 \in Results, NEW le2
  PROVE WalksOK(V, hs, rt2, le2, la)
<1>1. /\ n \in Nat \ {0} /\ fs \in Seq(FrameSet) /\ fs # <<>>
      /\ Owned(fs, la, n) /\ Stands(V, fs, rt, le, l, n) /\ Alike(la, la)
      /\ OwnFrame(fs[n], n, n, Base(fs), fs[1].key, la) /\ Base(fs) \in 1 .. n
  BY UnderwayTop DEF Underway
<1>2. "delegated" \in Pcs
  BY DEF Pcs
<1>3. /\ Len(gs) = n /\ gs \in Seq(FrameSet)
      /\ \A i \in 1 .. n : i # n => gs[i] = fs[i]
      /\ gs[n].op = fs[n].op /\ gs[n].self = fs[n].self /\ gs[n].key = fs[n].key /\ gs[n].pc = "delegated"
  <2>1. n \in 1 .. n
    BY <1>1
  <2> QED
    BY <1>1, <1>2, <2>1, Turned
<1>4. Owned(gs, la, n) /\ Base(gs) = Base(fs) /\ gs[1].key = fs[1].key
  <2>1. "delegated" \in {"meta", "default", "root", "called", "delegated"} /\ Len(fs) = n /\ fs[n].pc # "rooted"
    OBVIOUS
  <2> QED
    BY <1>1, <2>1, OwnedTurned
<1>5. Len(hs) = n + 1 /\ hs[n + 1] = g /\ \A i \in 1 .. n : hs[i] = gs[i]
  BY <1>1, <1>3
<1>6. Owned(hs, la, n + 1) /\ Base(hs) = Base(gs)
  <2>1. g.key = gs[1].key
    BY <1>1, <1>4 DEF OwnFrame
  <2>2. PICK m : m = n + 1
    OBVIOUS
  <2>3. n \in Nat \ {0} /\ Owned(gs, la, n) /\ gs[n].pc = "delegated" /\ Len(hs) = m /\ hs[m] = g
    BY <1>1, <1>3, <1>4, <1>5, <2>2
  <2>4. /\ hs[m].op = la.op /\ hs[m].key = gs[1].key /\ hs[m].pc = "lookup" /\ ~hs[m].root /\ hs[m].self[1] = "table"
        /\ la.op = "Get" /\ hs[m].key \in Default => la.lookup.expected # {}
    BY <2>1, <2>3
  <2>5. (\A i \in 1 .. n : hs[i] = gs[i]) /\ hs[1] = gs[1]
    BY <1>1, <1>5
  <2>6. Owned(hs, la, m)
    BY ONLY <2>2, <2>3, <2>4, <2>5, OwnedMore
  <2> QED
    BY <2>2, <2>5, <2>6 DEF Base
<1>7. l.answer = "none"
  BY <1>1 DEF Stands
<1>8. StillHooked(V, hs, l, n + 1)
  <2>1. CASE HookedBelow(V, fs, l, n)
    <3>1. CASE ~l.hooked \/ l.expected # {}
      BY <3>1 DEF StillHooked, HookedBelow
    <3>2. CASE \E i \in Base(fs) .. n - 1 : fs[i].self \in V.has
      <4>1. PICK i \in Base(fs) .. n - 1 : fs[i].self \in V.has
        BY <3>2
      <4>2. i \in 1 .. n /\ i # n /\ i \in Base(hs) .. (n + 1) - 1
        BY <1>1, <1>4, <1>6, <4>1
      <4>3. hs[i] = fs[i]
        BY <1>3, <1>5, <4>2
      <4> QED
        BY <4>1, <4>2, <4>3 DEF StillHooked, HookedBelow
    <3> QED
      BY <2>1, <3>1, <3>2 DEF HookedBelow
  <2>2. CASE fs[n].self \in V.has
    <3>1. n \in Base(hs) .. (n + 1) - 1 /\ n \in 1 .. n
      BY <1>1, <1>4, <1>6
    <3>2. hs[n].self = fs[n].self
      BY <1>3, <1>5, <3>1
    <3> QED
      BY <2>2, <3>1, <3>2 DEF StillHooked, HookedBelow
  <2>3. CASE <<g.op, g.self>> \in V.passing
    BY <1>5, <2>3 DEF StillHooked
  <2> QED
    BY <2>1, <2>2, <2>3
<1>9. \A i \in Base(hs) .. n + 1 : Fresh(V, hs[i], l)
  <2>1. Fresh(V, g, l)
    BY DEF Fresh
  <2>2. \A i \in Base(fs) .. n : Fresh(V, fs[i], l)
    BY <1>1, <1>7 DEF Stands
  <2>3. Fresh(V, gs[n], l)
    <3>1. Fresh(V, fs[n], l)
      BY <1>1, <2>2
    <3> QED
      BY <1>3, <3>1 DEF Fresh
  <2>4. \A i \in Base(hs) .. n + 1 : i = n + 1 \/ i = n \/ (i \in 1 .. n /\ i # n /\ i \in Base(fs) .. n)
    BY <1>1, <1>4, <1>6
  <2>5. hs[n] = gs[n]
    BY <1>1, <1>5
  <2> QED
    BY <1>3, <1>5, <2>1, <2>2, <2>3, <2>4, <2>5
<1>10. Stands(V, hs, rt2, le2, l, n + 1)
  BY <1>5, <1>7, <1>8, <1>9 DEF Stands
<1>11. Walks(V, hs, rt2, le2, la, n + 1) /\ n + 1 \in 1 .. Len(hs)
  BY <1>1, <1>5, <1>6, <1>10 DEF Walks
<1> QED
  BY <1>11 DEF WalksOK, Underway

WithAnswer(la2, la, answer) == la2 = [la EXCEPT !.lookup.answer = answer]

LEMMA Answering ==
  ASSUME NEW la \in Accesses, NEW a \in Replies, NEW la2, WithAnswer(la2, la, a)
  PROVE /\ la2 \in Accesses /\ la2.op = la.op /\ la2.root = la.root /\ la2.ended = la.ended /\ la2.before = la.before
        /\ la2.lookup.expected = la.lookup.expected /\ la2.lookup.behind = la.lookup.behind
        /\ la2.lookup.hooked = la.lookup.hooked /\ la2.lookup.answer = a
<1>1. PICK l : l = [la.lookup EXCEPT !.answer = a]
  OBVIOUS
<1>2. /\ l \in LookupSet /\ l.expected = la.lookup.expected /\ l.behind = la.lookup.behind
      /\ l.hooked = la.lookup.hooked /\ l.answer = a
  <2>1. la.lookup \in LookupSet
    BY DEF Accesses
  <2> QED
    BY <1>1, <2>1 DEF LookupSet
<1>3. la2 = [la EXCEPT !.lookup = l]
  BY <1>1 DEF WithAnswer
<1>4. /\ la2 \in Accesses /\ la2.op = la.op /\ la2.root = la.root /\ la2.ended = la.ended /\ la2.before = la.before
      /\ la2.lookup = l
  BY <1>2, <1>3 DEF Accesses
<1> QED
  BY <1>2, <1>4

(* It calls a metamethod. *)
LEMMA WalkCalls ==
  ASSUME NEW V, NEW fs, NEW rt, NEW le, NEW la, Underway(V, fs, rt, le, la), NEW n, n = Len(fs),
         fs[n].pc = "meta", NEW g, g.op = "Script",
         NEW gs, IsTurned(gs, fs, "called"), NEW hs, hs = Append(gs, g), NEW la2, WithAnswer(la2, la, "awaited"),
         NEW V2, NEW le2
  PROVE WalksOK(V2, hs, NoResult, le2, la2)
<1>1. /\ n \in Nat \ {0} /\ fs \in Seq(FrameSet) /\ fs # <<>> /\ la \in Accesses /\ la.op # "none"
      /\ Missed(la.before) /\ ~la.ended
      /\ Owned(fs, la, n) /\ Stands(V, fs, rt, le, la.lookup, n)
      /\ OwnFrame(fs[n], n, n, Base(fs), fs[1].key, la) /\ n \in Base(fs) .. n
  BY UnderwayTop DEF Underway
<1>2. la.lookup.expected = {}
  <2>1. CASE la.lookup.answer = "none"
    <3>1. Fresh(V, fs[n], la.lookup)
      BY <1>1, <2>1 DEF Stands
    <3> QED
      BY <3>1 DEF Fresh
  <2>2. CASE la.lookup.answer # "none"
    BY <1>1, <2>2 DEF Owned
  <2> QED
    BY <2>1, <2>2
<1>3. /\ la2 \in Accesses /\ la2.op = la.op /\ la2.root = la.root /\ la2.ended = la.ended /\ la2.before = la.before
      /\ la2.lookup.expected = la.lookup.expected /\ la2.lookup.behind = la.lookup.behind
      /\ la2.lookup.hooked = la.lookup.hooked /\ la2.lookup.answer = "awaited"
  <2>1. "awaited" \in Replies
    BY DEF Replies
  <2> QED
    BY <1>1, <2>1, Answering
<1>4. "called" \in Pcs
  BY DEF Pcs
<1>5. Len(gs) = n /\ gs \in Seq(FrameSet) /\ gs[n].pc = "called"
  BY <1>1, <1>4, Turned
<1>6. Owned(gs, la2, n)
  <2>1. Alike(la, la2)
    BY <1>2, <1>3 DEF Alike
  <2>2. ~(la.op = "Set" /\ fs[Len(fs)].self[1] = "class")
    BY <1>1 DEF OwnFrame
  <2>3. /\ "called" \in {"meta", "default", "root", "called", "delegated"} /\ Len(fs) = n /\ fs[Len(fs)].pc # "rooted"
        /\ ("called" = "default" => la.op = "Get") /\ ("called" = "root" /\ Len(fs) = 1 => la.lookup.behind = {})
    OBVIOUS
  <2> QED
    BY <1>1, <2>1, <2>2, <2>3, OwnedTurned
<1>7. Len(hs) = n + 1 /\ hs[n + 1] = g /\ hs[n] = gs[n] /\ \A i \in 1 .. n : hs[i] = gs[i]
  BY <1>1, <1>5
<1>8. n \in 1 .. Len(hs) /\ n # Len(hs)
  BY <1>1, <1>7
<1>9. Owned(hs, la2, n)
  BY <1>1, <1>6, <1>7, <1>8, OwnedKept
<1>10. Waits(hs, la2.lookup, n)
  BY <1>3, <1>5, <1>7 DEF Waits
<1>11. Walks(V2, hs, NoResult, le2, la2, n)
  BY <1>8, <1>9, <1>10 DEF Walks
<1>12. NoResult \in Results
  BY DEF NoResult, Results, Nowhere, Places
<1> QED
  BY <1>1, <1>3, <1>8, <1>11, <1>12 DEF WalksOK

(* The metamethod has ended. *)
LEMMA WalkAnswers ==
  ASSUME NEW V, NEW fs \in Seq(FrameSet), NEW rt, NEW le, NEW la \in Accesses, la.op # "none", ~la.ended, Missed(la.before),
         NEW m \in Nat \ {0}, Len(fs) = m + 1, Walks(V, fs, rt, le, la, m),
         NEW a \in Replies, NEW r \in Results, NEW le2,
         \/ a = "value" /\ r.ok /\ r.from = MetaMethod
         \/ a = "null" /\ ~r.ok /\ (m = 1 => le2 = "null")
         \/ a = "error" /\ ~r.ok /\ m = 1 /\ le2 # "null",
         NEW la2, WithAnswer(la2, la, a), NEW V2, NEW gs, Len(gs) = m, \A i \in 1 .. m : gs[i] = fs[i]
  PROVE WalksOK(V2, gs, r, le2, la2)
<1>1. m # Len(fs) /\ Owned(fs, la, m) /\ Waits(fs, la.lookup, m)
  <2>1. m # Len(fs)
    OBVIOUS
  <2> QED
    BY <2>1 DEF Walks
<1>2. la.lookup.expected = {}
  BY <1>1 DEF Owned, Waits
<1>3. /\ la2 \in Accesses /\ la2.op = la.op /\ la2.root = la.root /\ la2.ended = la.ended /\ la2.before = la.before
      /\ la2.lookup.expected = la.lookup.expected /\ la2.lookup.behind = la.lookup.behind
      /\ la2.lookup.hooked = la.lookup.hooked /\ la2.lookup.answer = a
  BY Answering
<1>4. m \in 1 .. Len(gs) /\ gs[m] = fs[m]
  OBVIOUS
<1>5. Owned(gs, la2, m)
  <2>1. Owned(gs, la, m)
    BY <1>1, <1>4, OwnedKept
  <2>2. \A i \in 1 .. m : OwnFrame(gs[i], i, m, Base(gs), gs[1].key, la2)
    <3>1. \A i \in 1 .. m : OwnFrame(gs[i], i, m, Base(gs), gs[1].key, la)
      BY <2>1 DEF Owned
    <3> QED
      BY <1>3, <3>1 DEF OwnFrame
  <2>3. /\ la.root => gs[1].root /\ gs[1].pc # "rooted" /\ ~(la.op = "Set" /\ gs[1].self[1] = "class")
        /\ la.lookup.behind = IF gs[1].pc # "rooted" /\ la.op = "Get" /\ gs[1].self[1] = "instance" /\ gs[1].key \in Default
                              THEN {DefaultDelegate} ELSE {}
        /\ gs[1].pc = "root" => la.lookup.behind = {}
    BY <2>1 DEF Owned
  <2> QED
    BY <1>2, <1>3, <1>4, <2>2, <2>3 DEF Owned
<1>6. Stands(V2, gs, r, le2, la2.lookup, m)
  <2>1. gs[m].pc = "called"
    BY <1>1, <1>4 DEF Waits
  <2>2. AnsweredOK(r, le2, la2.lookup, m) /\ la2.lookup.answer # "none"
    BY <1>3 DEF AnsweredOK
  <2> QED
    BY <2>1, <2>2 DEF Stands
<1>7. Walks(V2, gs, r, le2, la2, m)
  BY <1>5, <1>6 DEF Walks
<1> QED
  BY <1>3, <1>4, <1>7 DEF WalksOK

(* Whatever happens in it, or above. *)
LEMMA WalkAbove ==
  ASSUME NEW V, NEW fs, NEW rt, NEW le, NEW la \in Accesses, la.op # "none", ~la.ended, Missed(la.before),
         NEW m \in Nat \ {0}, m < Len(fs), Walks(V, fs, rt, le, la, m), Len(fs) \in Nat,
         NEW gs, Len(gs) \in Nat, m + 1 <= Len(gs), \A i \in 1 .. m + 1 : gs[i] = fs[i],
         NEW V2, NEW rt2 \in Results, NEW le2
  PROVE WalksOK(V2, gs, rt2, le2, la)
<1>1. m # Len(fs) /\ Owned(fs, la, m) /\ Waits(fs, la.lookup, m)
  <2>1. m # Len(fs)
    OBVIOUS
  <2> QED
    BY <2>1 DEF Walks
<1>2. m \in 1 .. Len(gs) /\ m # Len(gs) /\ (\A i \in 1 .. m : gs[i] = fs[i]) /\ gs[m] = fs[m] /\ gs[m + 1] = fs[m + 1]
  OBVIOUS
<1>3. Owned(gs, la, m)
  BY <1>1, <1>2, OwnedKept
<1>4. Waits(gs, la.lookup, m)
  BY <1>1, <1>2 DEF Waits
<1>5. Walks(V2, gs, rt2, le2, la, m)
  BY <1>2, <1>3, <1>4 DEF Walks
<1> QED
  BY <1>2, <1>5 DEF WalksOK

(* All else has failed: the root table is asked. *)
AsksRoot(la2, la, l) == la2 = [la EXCEPT !.before = la.lookup, !.lookup = l, !.root = FALSE]

(* What the root table is asked for. *)
InRoot(V, la, l, k, gs, g, hs) ==
  /\ la.op = "Set" => hs = gs /\ ~l.hooked /\ l.expected = RootOf(V, k)
  /\ la.op = "Get" => /\ hs = Append(gs, g)
                      /\ V.expected[<<g.op, g.self, g.key>>] = l.expected
                      /\ l.hooked => <<g.op, g.self>> \in V.passing
                      /\ g.key \in Default => l.expected # {}

LEMMA Asking ==
  ASSUME NEW la \in Accesses, NEW l \in LookupSet, NEW la2, AsksRoot(la2, la, l)
  PROVE /\ la2 \in Accesses /\ la2.op = la.op /\ ~la2.root /\ la2.ended = la.ended /\ la2.before = la.lookup
        /\ la2.lookup = l
<1>1. la.lookup \in LookupSet
  BY DEF Accesses
<1> QED
  BY <1>1 DEF Accesses, AsksRoot

LEMMA WalkAsks ==
  ASSUME NEW V, NEW fs, NEW rt, NEW le, NEW la, Underway(V, fs, rt, le, la), NEW n, n = Len(fs),
         fs[n].pc = "root", fs[n].root, NEW l \in LookupSet, l.behind = {}, l.answer = "none",
         NEW la2, AsksRoot(la2, la, l), NEW gs, IsTurned(gs, fs, "rooted"), NEW rt2 \in Results, NEW le2,
         NEW g, g.op = "Get", g.key = fs[n].key, ~g.root, g.pc = "lookup", g.self[1] = "table",
         NEW hs, InRoot(V, la, l, fs[n].key, gs, g, hs)
  PROVE WalksOK(V, hs, rt2, le2, la2)
<1>0. /\ la.op = "Set" => hs = gs
      /\ la.op = "Get" => hs = Append(gs, g)
      /\ la.op = "Set" => ~l.hooked /\ l.expected = RootOf(V, fs[n].key)
      /\ la.op = "Get" => /\ V.expected[<<g.op, g.self, g.key>>] = l.expected
                          /\ l.hooked => <<g.op, g.self>> \in V.passing
                          /\ g.key \in Default => l.expected # {}
  BY DEF InRoot
<1>1. /\ n \in Nat \ {0} /\ fs \in Seq(FrameSet) /\ fs # <<>> /\ la \in Accesses /\ la.op # "none"
      /\ Missed(la.before) /\ ~la.ended
      /\ Owned(fs, la, n) /\ Stands(V, fs, rt, le, la.lookup, n)
      /\ OwnFrame(fs[n], n, n, Base(fs), fs[1].key, la) /\ n \in Base(fs) .. n
  BY UnderwayTop DEF Underway
<1>2. n = 1 /\ la.op \in {"Get", "Set"} /\ fs[1].op = la.op /\ ~(la.op = "Set" /\ fs[1].self[1] = "class")
  <2>1. n = 1
    BY <1>1 DEF OwnFrame
  <2>2. la.op \in {"Get", "Set"}
    BY <1>1 DEF Accesses
  <2> QED
    BY <1>1, <2>1, <2>2 DEF OwnFrame
<1>3. Missed(la.lookup)
  <2>1. la.lookup.answer \in {"none", "null"} /\ la.lookup.behind = {}
    BY <1>1, <1>2 DEF Stands, Owned
  <2>2. CASE la.lookup.answer = "null"
    BY <1>1, <2>1, <2>2 DEF Owned, Missed
  <2>3. CASE la.lookup.answer = "none"
    <3>1. Fresh(V, fs[n], la.lookup) /\ StillHooked(V, fs, la.lookup, n)
      BY <1>1, <2>3 DEF Stands
    <3>2. la.lookup.expected = {}
      BY <3>1 DEF Fresh
    <3>3. ~la.lookup.hooked
      BY <1>2, <3>1, <3>2 DEF StillHooked, HookedBelow, Base
    <3> QED
      BY <2>1, <2>3, <3>2, <3>3 DEF Missed
  <2> QED
    BY <2>1, <2>2, <2>3
<1>4. /\ la2 \in Accesses /\ la2.op = la.op /\ ~la2.root /\ la2.ended = la.ended /\ la2.before = la.lookup
      /\ la2.lookup = l
  <2>1. la \in Accesses /\ l \in LookupSet /\ AsksRoot(la2, la, l)
    BY <1>1
  <2> QED
    BY ONLY <2>1, Asking
<1>5. Len(gs) = 1 /\ gs \in Seq(FrameSet) /\ gs[1].op = fs[1].op /\ gs[1].key = fs[1].key /\ gs[1].pc = "rooted"
      /\ gs[1].self = fs[1].self
  <2>1. "rooted" \in Pcs /\ 1 \in 1 .. Len(fs) /\ Len(fs) = 1
    BY <1>1, <1>2 DEF Pcs
  <2>2. /\ gs \in Seq(FrameSet) /\ Len(gs) = Len(fs)
        /\ \A i \in 1 .. Len(fs) : gs[i].op = fs[i].op /\ gs[i].self = fs[i].self /\ gs[i].key = fs[i].key
        /\ gs[Len(fs)].pc = "rooted"
    BY <1>1, <2>1, Turned
  <2> QED
    BY <2>1, <2>2
<1>6. CASE la.op = "Set"
  <2>1. hs = gs /\ Base(hs) = 2 /\ Len(hs) = 1
    BY <1>0, <1>5, <1>6 DEF Base
  <2>2. OwnFrame(hs[1], 1, 1, Base(hs), hs[1].key, la2)
    BY <1>2, <1>4, <1>5, <1>6, <2>1 DEF OwnFrame
  <2>3. Owned(hs, la2, 1)
    <3>1. 1 \in 1 .. Len(hs) /\ \A i \in 1 .. 1 : i = 1
      BY ONLY <2>1
    <3> QED
      BY <1>4, <1>5, <2>1, <2>2, <3>1 DEF Owned
  <2>4. Stands(V, hs, rt2, le2, l, 1)
    <3>1. hs[1].op = "Set" /\ hs[1].pc = "rooted" /\ hs[1].key = fs[n].key
      BY <1>2, <1>5, <1>6, <2>1
    <3>2. StillHooked(V, hs, l, 1)
      BY <1>0, <1>6 DEF StillHooked, HookedBelow
    <3> QED
      BY <1>0, <1>6, <3>1, <3>2 DEF Stands
  <2>5. Walks(V, hs, rt2, le2, la2, 1)
    BY <1>4, <1>5, <2>1, <2>3, <2>4 DEF Walks
  <2>6. 1 \in 1 .. Len(hs)
    BY ONLY <2>1
  <2> QED
    BY <1>1, <1>3, <1>4, <2>5, <2>6 DEF WalksOK
<1>7. CASE la.op = "Get"
  <2>1. Len(hs) = 2 /\ hs[1] = gs[1] /\ hs[2] = g
    <3>1. hs = Append(gs, g) /\ Len(gs) = 1 /\ gs \in Seq(FrameSet)
      BY <1>0, <1>5, <1>7
    <3> QED
      BY ONLY <3>1
  <2>2. Base(hs) = 2
    BY <1>5, <2>1 DEF Base
  <2>3. OwnFrame(hs[1], 1, 2, Base(hs), hs[1].key, la2)
    BY <1>2, <1>4, <1>5, <1>7, <2>1, <2>2 DEF OwnFrame
  <2>4. OwnFrame(hs[2], 2, 2, Base(hs), hs[1].key, la2)
    BY <1>0, <1>2, <1>4, <1>5, <1>7, <2>1, <2>2 DEF OwnFrame
  <2>5. Owned(hs, la2, 2)
    <3>1. 2 \in 1 .. Len(hs) /\ \A i \in 1 .. 2 : i = 1 \/ i = 2
      BY <2>1
    <3> QED
      BY <1>4, <1>5, <2>1, <2>3, <2>4, <3>1 DEF Owned
  <2>6. Stands(V, hs, rt2, le2, l, 2)
    <3>1. hs[2].pc = "lookup" /\ hs[2].op = "Get"
      BY <2>1
    <3>2. StillHooked(V, hs, l, 2)
      BY <1>0, <1>7, <2>1 DEF StillHooked, HookedBelow
    <3>3. \A i \in Base(hs) .. 2 : Fresh(V, hs[i], l)
      <4>1. \A i \in Base(hs) .. 2 : i = 2
        BY <2>2
      <4>2. Fresh(V, g, l)
        BY <1>0, <1>7 DEF Fresh
      <4> QED
        BY <2>1, <4>1, <4>2
    <3> QED
      BY <3>1, <3>2, <3>3 DEF Stands
  <2>7. Walks(V, hs, rt2, le2, la2, 2)
    BY <1>4, <2>1, <2>5, <2>6 DEF Walks
  <2>8. 2 \in 1 .. Len(hs)
    BY <2>1
  <2> QED
    BY <1>1, <1>3, <1>4, <2>7, <2>8 DEF WalksOK
<1> QED
  BY <1>2, <1>6, <1>7

(* What there is to be found depends on the objects only. *)
LEMMA ViewStays ==
  ASSUME UNCHANGED heap
  PROVE View' = View
<1>1. slots' = slots /\ delegate' = delegate /\ udelegate' = udelegate /\ classes' = classes /\ instances' = instances
  BY DEF heap
<1>2. ExpectedNow' = ExpectedNow
  BY <1>1 DEF ExpectedNow, Expected, Chain, Reachable, Has, IsField, Keys, WorldKeys
<1>3. {o \in Kinds \X Nat : HasMetaMethod(o)}' = {o \in Kinds \X Nat : HasMetaMethod(o)}
  BY <1>1 DEF HasMetaMethod, DelegateOf
<1>4. \A op, o : Passes(op, o)' <=> Passes(op, o)
  BY <1>1 DEF Passes, Along, Chain, HasMetaMethod, DelegateOf
<1>5. {a \in {"Get", "Set"} \X (Kinds \X Nat) : Passes(a[1], a[2])}' = {a \in {"Get", "Set"} \X (Kinds \X Nat) : Passes(a[1], a[2])}
  BY <1>4
<1> QED
  BY <1>1, <1>2, <1>3, <1>5 DEF View

(* What an access knows of its top frame, while no metamethod is running. *)
TopIs(f, n, la) ==
  LET l == la.lookup
  IN /\ f.op = la.op /\ f.op \in {"Get", "Set"} /\ f.pc # "cloned" /\ f.self \in Kinds \X Nat /\ f.key \in Keys
     /\ f.self[1] \in {"table", "class", "instance", "userdata"}
     /\ SelfOK(f.self, Len(slots), Len(classes), Len(instances))
     /\ n > 1 => ~f.root /\ f.self[1] = "table"
     /\ f.pc = "rooted" => n = 1
     /\ f.pc = "default" => f.op = "Get"
     /\ f.pc # "lookup" => ~(f.op = "Set" /\ f.self[1] = "class")
     /\ f.pc # "rooted" /\ f.op = "Get" /\ f.key \in Default /\ f.self[1] \in {"table", "class"} => l.expected # {}
     /\ la.root /\ n = 1 => f.root /\ f.pc # "rooted" /\ ~(f.op = "Set" /\ f.self[1] = "class")
     /\ n = 1 => l.behind = IF f.pc # "rooted" /\ f.op = "Get" /\ f.self[1] = "instance" /\ f.key \in Default
                            THEN {DefaultDelegate} ELSE {}
     /\ n = 1 /\ f.pc = "root" => l.behind = {}
     /\ l.answer # "none" => l.expected = {}

TopHas(f, n, l, rt, le) ==
  /\ f.pc = "lookup" => l.answer = "none"
  /\ f.pc \in {"meta", "default", "root"} => l.answer \in {"none", "null"}
  /\ f.pc = "called" => AnsweredOK(rt, le, l, n)
  /\ f.pc = "delegated" \/ (f.pc = "rooted" /\ f.op = "Get") => ReturnedOK(rt, l)
  /\ f.pc = "rooted" /\ f.op = "Set" =>
       l.answer = "none" /\ ~l.hooked /\ l.expected = IF f.key \in slots[Root] THEN {<<"table", Root>>} ELSE {}

TopSeeks(f, n, l) ==
  l.answer = "none" =>
    /\ \/ HookedBelow(View, frames, l, n)
       \/ f.pc = "lookup" /\ Passes(f.op, f.self)
       \/ f.pc \in {"delegated", "meta"} /\ HasMetaMethod(f.self)
    /\ f.pc # "rooted" =>
         /\ Expected(f.op, f.self, f.key) = l.expected
         /\ f.pc \in {"meta", "root"} => l.expected = {}
         /\ f.pc = "default" /\ l.expected # {} =>
              f.key \in Default /\ f.self[1] # "userdata" /\ l.expected = {DefaultDelegate}

LEMMA Known ==
  ASSUME ObjInv, Underway(View, frames, ret, lasterror, last), NEW n, n = Len(frames), NEW f, f = frames[n]
  PROVE /\ TopIs(f, n, last) /\ TopHas(f, n, last.lookup, ret, lasterror) /\ TopSeeks(f, n, last.lookup)
        /\ n \in Nat \ {0} /\ Top = f /\ frames \in Seq(FrameSet) /\ frames # <<>>
        /\ last # NoAccess /\ Own(frames)
        /\ Expected(f.op, f.self, f.key) = View.expected[<<f.op, f.self, f.key>>]
        /\ f.self \in View.has <=> HasMetaMethod(f.self)
<1>1. PICK V : V = View
  OBVIOUS
<1>2. PICK l : l = last.lookup
  OBVIOUS
<1>3. /\ n \in Nat \ {0} /\ frames \in Seq(FrameSet) /\ f \in FrameSet
      /\ Owned(frames, last, n) /\ Stands(V, frames, ret, lasterror, l, n)
      /\ OwnFrame(f, n, n, Base(frames), frames[1].key, last)
      /\ f.pc # "rooted" => Base(frames) \in 1 .. n /\ n \in Base(frames) .. n
  BY <1>1, <1>2, UnderwayTop
<1>4. last \in Accesses /\ frames # <<>> /\ last.op # "none" /\ last # NoAccess /\ last.op \in {"Get", "Set"} /\ Top = f
  <2>1. last \in Accesses /\ frames # <<>> /\ last.op # "none"
    BY DEF Underway
  <2> QED
    BY <2>1 DEF Accesses, NoAccess, Top, Last
<1>5. /\ FrameOK(f, Len(slots), Len(classes), Len(instances)) /\ f.self \in Kinds \X Nat /\ f.key \in Keys
  BY <1>3 DEF ObjInv, FramesOK, FrameSet
<1>6. /\ f.op = last.op /\ f.op \in {"Get", "Set"} /\ f.pc # "cloned"
      /\ n > 1 => ~f.root /\ f.self[1] = "table"
      /\ f.pc = "rooted" => n = 1
      /\ f.pc = "default" => f.op = "Get"
      /\ f.pc # "lookup" => ~(f.op = "Set" /\ f.self[1] = "class")
      /\ f.pc # "rooted" /\ f.op = "Get" /\ f.key \in Default /\ f.self[1] \in {"table", "class"} => l.expected # {}
  BY <1>2, <1>3, <1>4 DEF OwnFrame
<1>7. /\ f.self[1] \in {"table", "class", "instance", "userdata"}
      /\ SelfOK(f.self, Len(slots), Len(classes), Len(instances))
  BY <1>5, <1>6 DEF FrameOK
<1>8. n = 1 => frames[1] = f
  OBVIOUS
<1>9. /\ last.root /\ n = 1 => f.root /\ f.pc # "rooted" /\ ~(f.op = "Set" /\ f.self[1] = "class")
      /\ n = 1 => l.behind = IF f.pc # "rooted" /\ f.op = "Get" /\ f.self[1] = "instance" /\ f.key \in Default
                             THEN {DefaultDelegate} ELSE {}
      /\ n = 1 /\ f.pc = "root" => l.behind = {}
      /\ l.answer # "none" => l.expected = {}
  BY <1>2, <1>3, <1>6, <1>8 DEF Owned
<1>10. /\ V.expected[<<f.op, f.self, f.key>>] = Expected(f.op, f.self, f.key)
       /\ f.self \in V.has <=> HasMetaMethod(f.self)
       /\ <<f.op, f.self>> \in V.passing <=> Passes(f.op, f.self)
       /\ V.root = slots[Root]
  <2>1. V.expected = ExpectedNow /\ V.root = slots[Root] /\ V.has = {o \in Kinds \X Nat : HasMetaMethod(o)}
        /\ V.passing = {a \in {"Get", "Set"} \X (Kinds \X Nat) : Passes(a[1], a[2])}
    BY <1>1 DEF View
  <2>2. V.expected[<<f.op, f.self, f.key>>] = Expected(f.op, f.self, f.key)
    BY <1>5, <1>6, <2>1 DEF ExpectedNow
  <2>3. f.self \in V.has <=> HasMetaMethod(f.self)
    BY <1>5, <2>1
  <2>4. <<f.op, f.self>> \in V.passing <=> Passes(f.op, f.self)
    BY <1>5, <1>6, <2>1
  <2> QED
    BY <2>1, <2>2, <2>3, <2>4
<1>11. /\ f.pc = "lookup" => l.answer = "none"
       /\ f.pc \in {"meta", "default", "root"} => l.answer \in {"none", "null"}
       /\ f.pc = "called" => AnsweredOK(ret, lasterror, l, n)
       /\ f.pc = "delegated" \/ (f.pc = "rooted" /\ f.op = "Get") => ReturnedOK(ret, l)
       /\ f.pc = "rooted" /\ f.op = "Set" => l.answer = "none" /\ ~l.hooked /\ l.expected = RootOf(V, f.key)
       /\ l.answer = "none" => /\ StillHooked(V, frames, l, n)
                               /\ f.pc = "rooted" \/ \A i \in Base(frames) .. n : Fresh(V, frames[i], l)
  BY <1>3 DEF Stands
<1>12. RootOf(V, f.key) = IF f.key \in slots[Root] THEN {<<"table", Root>>} ELSE {}
  BY <1>10 DEF RootOf
<1>13. ASSUME l.answer = "none"
       PROVE /\ \/ HookedBelow(V, frames, l, n)
                \/ f.pc = "lookup" /\ Passes(f.op, f.self)
                \/ f.pc \in {"delegated", "meta"} /\ HasMetaMethod(f.self)
             /\ f.pc # "rooted" => Fresh(V, f, l)
  <2>1. StillHooked(V, frames, l, n)
    BY <1>11, <1>13
  <2>2. f.pc # "rooted" => Fresh(V, f, l)
    BY <1>3, <1>11, <1>13
  <2> QED
    BY <1>10, <2>1, <2>2 DEF StillHooked
<1>14. f.pc # "rooted" /\ Fresh(V, f, l) =>
         /\ Expected(f.op, f.self, f.key) = l.expected
         /\ f.pc \in {"meta", "root"} => l.expected = {}
         /\ f.pc = "default" /\ l.expected # {} =>
              f.key \in Default /\ f.self[1] # "userdata" /\ l.expected = {DefaultDelegate}
  BY <1>10 DEF Fresh
<1>15. TopIs(f, n, last) /\ TopHas(f, n, l, ret, lasterror) /\ TopSeeks(f, n, l)
  <2>1. TopIs(f, n, last)
    BY <1>2, <1>5, <1>6, <1>7, <1>9 DEF TopIs
  <2>2. TopHas(f, n, l, ret, lasterror)
    BY <1>11, <1>12 DEF TopHas
  <2>3. TopSeeks(f, n, l)
    BY <1>1, <1>13, <1>14 DEF TopSeeks
  <2> QED
    BY <2>1, <2>2, <2>3
<1>16. Own(frames)
  <2>1. \A i \in 1 .. n : frames[i].op = last.op
    BY <1>3 DEF Owned, OwnFrame
  <2> QED
    BY <1>3, <1>4, <2>1 DEF Own
<1> QED
  BY <1>1, <1>2, <1>3, <1>4, <1>10, <1>15, <1>16

(* The steps an access takes itself. *)
LEMMA WalkSteps ==
  ASSUME ObjInv, Underway(View, frames, ret, lasterror, last), Next
  PROVE WalkInv'
<1>1. PICK n : n = Len(frames)
  OBVIOUS
<1>2. PICK f : f = frames[n]
  OBVIOUS
<1>3. PICK l : l = last.lookup
  OBVIOUS
<1>4. PICK V : V = View
  OBVIOUS
<1>5. /\ TopIs(f, n, last) /\ TopHas(f, n, l, ret, lasterror) /\ TopSeeks(f, n, l)
      /\ n \in Nat \ {0} /\ Top = f /\ frames \in Seq(FrameSet) /\ frames # <<>>
      /\ last # NoAccess /\ Own(frames)
      /\ Expected(f.op, f.self, f.key) = View.expected[<<f.op, f.self, f.key>>]
      /\ f.self \in View.has <=> HasMetaMethod(f.self)
  BY <1>1, <1>2, <1>3, Known
<1>6. Underway(V, frames, ret, lasterror, last)
  BY <1>4
<1>7. /\ f.op = last.op /\ f.op \in {"Get", "Set"} /\ f.pc # "cloned" /\ f.self \in Kinds \X Nat /\ f.key \in Keys
      /\ f.self[1] \in {"table", "class", "instance", "userdata"}
      /\ SelfOK(f.self, Len(slots), Len(classes), Len(instances))
      /\ n > 1 => ~f.root /\ f.self[1] = "table"
      /\ f.pc = "rooted" => n = 1
      /\ f.pc = "default" => f.op = "Get"
      /\ f.pc # "lookup" => ~(f.op = "Set" /\ f.self[1] = "class")
      /\ f.pc # "rooted" /\ f.op = "Get" /\ f.key \in Default /\ f.self[1] \in {"table", "class"} => l.expected # {}
      /\ last.root /\ n = 1 => f.root /\ f.pc # "rooted" /\ ~(f.op = "Set" /\ f.self[1] = "class")
      /\ n = 1 => l.behind = IF f.pc # "rooted" /\ f.op = "Get" /\ f.self[1] = "instance" /\ f.key \in Default
                             THEN {DefaultDelegate} ELSE {}
      /\ n = 1 /\ f.pc = "root" => l.behind = {}
      /\ l.answer # "none" => l.expected = {}
  BY <1>3, <1>5 DEF TopIs
<1>8. ret \in Results /\ last \in Accesses /\ TablesOK /\ l \in LookupSet
  BY <1>3 DEF Underway, Accesses, ObjInv
<1>9. (n = 1 \/ n > 1) /\ ~(n = 1 /\ n > 1)
  BY <1>5
<1>10. ASSUME UNCHANGED heap, WalksOK(V, frames', ret', lasterror', last')
       PROVE WalkInv'
  <2>1. View' = V
    BY <1>4, <1>10, ViewStays
  <2> QED
    BY <1>10, <2>1 DEF WalkInv
<1>11. Nowhere \in Places /\ DefaultDelegate \in Places /\ NoResult \in Results /\ <<"table", Root>> \in Places
       /\ f.self \in Places /\ ret.from \in Places /\ ret.ok \in BOOLEAN
  BY <1>7, <1>8 DEF Nowhere, Places, DefaultDelegate, NoResult, Results, Root, Kinds
<1>12. ASSUME NEW ok \in BOOLEAN, NEW from \in Places, MayReturn(V, frames, last, ok, from), Return(ok, from), UNCHANGED heap
       PROVE WalkInv'
  <2>1. PICK r : r = [ok |-> ok, from |-> from]
    OBVIOUS
  <2>2. PICK fs, rt, la, le : fs = frames /\ rt = ret /\ la = last /\ le = lasterror
    OBVIOUS
  <2>3. PICK rt2, la2, le2 : rt2 = ret' /\ la2 = last' /\ le2 = lasterror'
    OBVIOUS
  <2>4. /\ frames' = Front(fs)
        /\ rt2 = (IF Len(fs) > 1 THEN r ELSE NoResult)
    BY <1>12, <2>1, <2>2, <2>3 DEF Return, PopFrame
  <2>5. IF Len(fs) > 1 THEN la2 = la ELSE HasEnded(la2, la, r)
    <3>1. la2 = IF Len(fs) > 1 \/ la = NoAccess THEN la ELSE [la EXCEPT !.ended = TRUE, !.result = r]
      BY <1>12, <2>1, <2>2, <2>3 DEF Return
    <3> QED
      BY <1>5, <2>2, <3>1 DEF HasEnded
  <2>6. Underway(V, fs, rt, le, la) /\ MayReturn(V, fs, la, ok, from)
    BY <1>6, <1>12, <2>2
  <2>7. WalksOK(V, Front(fs), rt2, le2, la2)
    BY ONLY ok \in BOOLEAN, from \in Places, <2>1, <2>4, <2>5, <2>6, WalkReturns
  <2> QED
    BY <1>10, <1>12, <2>3, <2>4, <2>7
<1>13. ASSUME f.pc # "rooted", ~(f.op = "Set" /\ f.self[1] = "class"),
              NEW p \in {"default", "meta", "root"}, p = "default" => f.op = "Get", p = "root" /\ n = 1 => l.behind = {},
              l.answer \in {"none", "null"},
              l.answer = "none" => /\ p \in {"meta", "root"} => l.expected = {}
                                   /\ p = "default" /\ l.expected # {} =>
                                        f.key \in Default /\ f.self[1] # "userdata" /\ l.expected = {DefaultDelegate}
                                   /\ HookedBelow(V, frames, l, n) \/ (p = "meta" /\ HasMetaMethod(f.self)),
              frames' = [frames EXCEPT ![Len(frames)].pc = p], ret' = NoResult, last' = last, UNCHANGED heap
       PROVE WalkInv'
  <2>1. PICK fs, rt, la, le, gs, le2 : fs = frames /\ rt = ret /\ la = last /\ le = lasterror /\ gs = frames' /\ le2 = lasterror'
    OBVIOUS
  <2>2. IsTurned(gs, fs, p) /\ Underway(V, fs, rt, le, la)
    BY <1>6, <1>13, <2>1 DEF IsTurned
  <2>3. /\ n = Len(fs) /\ l = la.lookup /\ fs[n].pc # "rooted" /\ ~(la.op = "Set" /\ fs[n].self[1] = "class")
        /\ p = "default" => la.op = "Get"
        /\ p = "root" /\ n = 1 => l.behind = {}
    BY <1>1, <1>2, <1>3, <1>7, <1>13, <2>1
  <2>4. l.answer = "none" => /\ p \in {"meta", "root"} => l.expected = {}
                             /\ p = "default" /\ l.expected # {} =>
                                  fs[n].key \in Default /\ fs[n].self[1] # "userdata" /\ l.expected = {DefaultDelegate}
                             /\ V.expected[<<fs[n].op, fs[n].self, fs[n].key>>] = l.expected
                             /\ HookedBelow(V, fs, l, n) \/ (p = "meta" /\ fs[n].self \in V.has)
    <3> SUFFICES ASSUME l.answer = "none"
                 PROVE /\ p \in {"meta", "root"} => l.expected = {}
                       /\ p = "default" /\ l.expected # {} =>
                            f.key \in Default /\ f.self[1] # "userdata" /\ l.expected = {DefaultDelegate}
                       /\ V.expected[<<f.op, f.self, f.key>>] = l.expected
                       /\ HookedBelow(V, frames, l, n) \/ (p = "meta" /\ f.self \in V.has)
      BY <1>2, <2>1
    <3>1. V.expected[<<f.op, f.self, f.key>>] = l.expected
      BY <1>4, <1>5, <1>13 DEF TopSeeks
    <3> QED
      BY <1>4, <1>5, <1>13, <3>1
  <2>5. WalksOK(V, gs, NoResult, le2, la)
    BY ONLY <1>13, <2>2, <2>3, <2>4, WalkGoes
  <2> QED
    BY <1>10, <1>13, <2>1, <2>5
<1>14. ASSUME f.pc = "lookup", ~(f.op = "Set" /\ f.self[1] = "class"), NEW op \in {"Get", "Set"}, op = f.op,
              ~Reachable(f.op, f.self, f.key), DelegateOf(f.self) # 0,
              f.self[1] = "table" \/ (f.self[1] = "userdata" /\ f.op = "Get"), Nest("delegated", Delegated(op))
       PROVE WalkInv'
  <2>1. PICK t : t = DelegateOf(f.self)
    OBVIOUS
  <2>2. t \in 1 .. Len(slots) /\ Expected(f.op, f.self, f.key) = Expected(f.op, <<"table", t>>, f.key)
    BY <1>7, <1>8, <1>14, <2>1, Lookups
  <2>3. PICK g : g = Delegated(op)
    OBVIOUS
  <2>4. g.op = f.op /\ g.self = <<"table", t>> /\ g.key = f.key /\ g.root = FALSE /\ g.pc = "lookup"
    BY <1>5, <1>14, <2>1, <2>3 DEF Delegated, Frame
  <2>5. PICK fs, rt, la, le, gs, le2, hs :
          /\ fs = frames /\ rt = ret /\ la = last /\ le = lasterror /\ le2 = lasterror' /\ hs = frames'
          /\ gs = [frames EXCEPT ![Len(frames)].pc = "delegated"]
    OBVIOUS
  <2>6. hs = Append(gs, g) /\ ret' = rt /\ last' = la /\ UNCHANGED heap
    BY <1>14, <2>3, <2>5 DEF Nest
  <2>7. IsTurned(gs, fs, "delegated") /\ Underway(V, fs, rt, le, la)
    BY <1>6, <2>5 DEF IsTurned
  <2>8. <<"table", t>> \in Kinds \X Nat /\ <<"table", t>>[1] = "table"
    BY <1>8, <2>2 DEF Kinds, TablesOK
  <2>9. l.answer = "none" /\ Expected(f.op, f.self, f.key) = l.expected
    BY <1>5, <1>14 DEF TopSeeks, TopHas
  <2>10. V.expected[<<g.op, g.self, g.key>>] = l.expected
    BY <1>4, <1>7, <2>2, <2>4, <2>8, <2>9 DEF View, ExpectedNow
  <2>11. HookedBelow(V, fs, l, n) \/ f.self \in V.has \/ <<g.op, g.self>> \in V.passing
    <3>1. CASE HookedBelow(View, frames, l, n)
      BY <1>4, <2>5, <3>1
    <3>2. CASE Passes(f.op, f.self)
      <4>1. HasMetaMethod(f.self) \/ Passes(f.op, <<"table", t>>)
        BY <1>7, <1>8, <2>1, <3>2, Passing
      <4>2. Passes(f.op, <<"table", t>>) => <<g.op, g.self>> \in V.passing
        BY <1>4, <1>7, <2>4, <2>8 DEF View
      <4> QED
        BY <1>4, <1>5, <4>1, <4>2
    <3>3. CASE HasMetaMethod(f.self)
      BY <1>4, <1>5, <3>3
    <3> QED
      BY <1>5, <2>9, <3>1, <3>2, <3>3 DEF TopSeeks
  <2>12. f.key \in Default /\ f.op = "Get" => l.expected # {}
    <3>1. Expected(f.op, <<"table", t>>, f.key) =
            IF Near(t, f.key) = {} THEN Behind(f.op, f.key) ELSE {<<"table", u>> : u \in Near(t, f.key)}
      BY <1>8, <2>2, ExpectedTable
    <3>2. f.key \in Default /\ f.op = "Get" => Behind(f.op, f.key) # {}
      BY DEF Behind
    <3> QED
      BY <2>2, <2>9, <3>1, <3>2
  <2>13. /\ n = Len(fs) /\ l = la.lookup /\ fs[n].pc = "lookup" /\ ~(la.op = "Set" /\ fs[n].self[1] = "class")
         /\ g.op = la.op /\ g.key = fs[n].key /\ ~g.root /\ g.pc = "lookup" /\ g.self[1] = "table"
         /\ la.op = "Get" /\ g.key \in Default => l.expected # {}
         /\ HookedBelow(V, fs, l, n) \/ fs[n].self \in V.has \/ <<g.op, g.self>> \in V.passing
    BY <1>1, <1>2, <1>3, <1>7, <1>14, <2>4, <2>5, <2>8, <2>11, <2>12
  <2>14. rt \in Results
    BY <1>8, <2>5
  <2>15. WalksOK(V, hs, rt, le2, la)
    BY ONLY <2>6, <2>7, <2>10, <2>13, <2>14, WalkNests
  <2> QED
    BY <1>10, <2>5, <2>6, <2>15
<1>15. ASSUME f.pc = "meta", NEW a, NEW b, CallMetaMethod(a, b)
       PROVE WalkInv'
  <2>1. PICK fs, rt, la, le, gs, le2, hs, la2 :
          /\ fs = frames /\ rt = ret /\ la = last /\ le = lasterror /\ le2 = lasterror' /\ hs = frames' /\ la2 = last'
          /\ gs = [frames EXCEPT ![Len(frames)].pc = "called"]
    OBVIOUS
  <2>2. PICK g : g = Script
    OBVIOUS
  <2>3. hs = Append(gs, g) /\ ret' = NoResult /\ UNCHANGED heap /\ g.op = "Script"
    BY <1>15, <2>1, <2>2 DEF CallMetaMethod, Script, Frame
  <2>4. WithAnswer(la2, la, "awaited")
    BY <1>5, <1>15, <2>1 DEF CallMetaMethod, Answered, Note, WithAnswer
  <2>5. IsTurned(gs, fs, "called") /\ Underway(V, fs, rt, le, la) /\ n = Len(fs) /\ fs[n].pc = "meta"
    BY <1>1, <1>2, <1>6, <1>15, <2>1 DEF IsTurned
  <2>6. WalksOK(V, hs, NoResult, le2, la2)
    BY ONLY <2>3, <2>4, <2>5, WalkCalls
  <2> QED
    BY <1>10, <2>1, <2>3, <2>6
<1>16. ASSUME NEW p \in {"default", "meta", "root"}, Goto(p)
       PROVE frames' = [frames EXCEPT ![Len(frames)].pc = p] /\ ret' = NoResult /\ last' = last /\ UNCHANGED heap
  BY <1>16 DEF Goto
<1>17. ASSUME MayReturn(V, frames, last, FALSE, Nowhere)
       PROVE (\A e : Fail(e) => WalkInv') /\ (NoMatch => WalkInv')
  BY <1>11, <1>12, <1>17 DEF NoMatch, Fail
<1>18. MayReturn(V, frames, last, FALSE, Nowhere) <=>
         \/ l.answer = "none" /\ l.expected = {} /\ HookedBelow(V, frames, l, n) /\ (n = 1 => l.behind = {} /\ ~last.root)
         \/ l.answer = "null" /\ l.expected = {} /\ (n = 1 => l.behind = {} /\ ~last.root)
         \/ l.answer = "error" /\ l.expected = {} /\ n = 1
  BY <1>1, <1>3 DEF MayReturn
<1>19. DelegateOf(f.self) = 0 /\ f.self[1] # "instance" => ~HasMetaMethod(f.self)
  BY DEF HasMetaMethod
<1>20. Passes(f.op, f.self) =>
         \/ HasMetaMethod(f.self)
         \/ DelegateOf(f.self) # 0 /\ (f.self[1] = "table" \/ (f.self[1] = "userdata" /\ f.op = "Get"))
  BY <1>7, <1>8, Passing
<1>21. /\ Reachable(f.op, f.self, f.key) /\ ~(f.op = "Set" /\ f.self[1] = "class") => f.self \in Expected(f.op, f.self, f.key)
       /\ f.op = "Set" /\ f.self[1] = "class" => Expected(f.op, f.self, f.key) = {}
       /\ ~Reachable(f.op, f.self, f.key) /\ f.self[1] = "instance" => Expected(f.op, f.self, f.key) = {}
       /\ ~Reachable(f.op, f.self, f.key) /\ f.self[1] = "class" => Expected(f.op, f.self, f.key) = Behind(f.op, f.key)
       /\ ~Reachable(f.op, f.self, f.key) /\ f.self[1] = "table" /\ DelegateOf(f.self) = 0 =>
            Expected(f.op, f.self, f.key) = Behind(f.op, f.key)
       /\ f.self[1] = "userdata" /\ (f.op = "Set" \/ DelegateOf(f.self) = 0) => Expected(f.op, f.self, f.key) = {}
  <2>1. PICK o \in Kinds \X Nat, op \in {"Get", "Set"}, k \in Keys : o = f.self /\ op = f.op /\ k = f.key
    BY <1>7
  <2>2. SelfOK(o, Len(slots), Len(classes), Len(instances)) /\ o[1] \in {"table", "class", "instance", "userdata"}
    BY <1>7, <2>1
  <2>3. /\ Reachable(op, o, k) /\ ~(op = "Set" /\ o[1] = "class") => o \in Expected(op, o, k)
        /\ op = "Set" /\ o[1] = "class" => Expected(op, o, k) = {}
        /\ ~Reachable(op, o, k) /\ o[1] = "instance" => Expected(op, o, k) = {}
        /\ ~Reachable(op, o, k) /\ o[1] = "class" => Expected(op, o, k) = Behind(op, k)
        /\ ~Reachable(op, o, k) /\ o[1] = "table" /\ DelegateOf(o) = 0 => Expected(op, o, k) = Behind(op, k)
        /\ o[1] = "userdata" /\ (op = "Set" \/ DelegateOf(o) = 0) => Expected(op, o, k) = {}
        /\ ~Reachable(op, o, k) /\ DelegateOf(o) # 0 /\ (o[1] = "table" \/ (o[1] = "userdata" /\ op = "Get")) =>
             /\ DelegateOf(o) \in 1 .. Len(slots)
             /\ Expected(op, o, k) = Expected(op, <<"table", DelegateOf(o)>>, k)
    <3>1. TablesOK /\ o \in Kinds \X Nat /\ op \in {"Get", "Set"}
      BY <1>8, <2>1
    <3> QED
      BY ONLY <2>2, <3>1, Lookups
  <2> QED
    BY <2>1, <2>3
<1>22. f.self[1] \in {"class", "instance"} => DelegateOf(f.self) = 0
  BY DEF DelegateOf
<1>23. /\ f.pc = "lookup" => l.answer = "none" /\ Expected(f.op, f.self, f.key) = l.expected
                             /\ (HookedBelow(V, frames, l, n) \/ Passes(f.op, f.self))
       /\ f.pc \in {"meta", "default", "root"} => l.answer \in {"none", "null"}
       /\ f.pc \in {"meta", "root"} => l.expected = {}
       /\ f.pc \in {"default", "root", "rooted"} /\ l.answer = "none" => HookedBelow(V, frames, l, n)
       /\ f.pc \in {"delegated", "meta"} /\ l.answer = "none" => HookedBelow(V, frames, l, n) \/ HasMetaMethod(f.self)
       /\ f.pc = "default" /\ l.expected # {} =>
            l.answer = "none" /\ f.key \in Default /\ f.self[1] # "userdata" /\ l.expected = {DefaultDelegate}
  BY <1>4, <1>5, <1>7 DEF TopHas, TopSeeks
<1>24. \A ops, pc : At(ops, pc) => f.op \in ops /\ f.pc = pc
  BY <1>5 DEF At
<1>25. CASE GetLookup
  <2>1. f.op = "Get" /\ f.pc = "lookup"
    BY <1>24, <1>25 DEF GetLookup
  <2>2. CASE Reachable("Get", f.self, f.key)
    <3>1. Return(TRUE, f.self) /\ UNCHANGED heap
      BY <1>5, <1>25, <2>2 DEF GetLookup, Found
    <3>2. MayReturn(V, frames, last, TRUE, f.self)
      BY <1>3, <1>21, <1>23, <2>1, <2>2 DEF MayReturn
    <3> QED
      BY <1>11, <1>12, <3>1, <3>2
  <2>3. CASE ~Reachable("Get", f.self, f.key)
    <3>1. CASE f.self[1] # "instance" /\ DelegateOf(f.self) = 0
      <4>1. Goto("default")
        BY <1>5, <1>25, <2>3, <3>1 DEF GetLookup
      <4>2. l.expected # {} => f.key \in Default /\ f.self[1] # "userdata" /\ l.expected = {DefaultDelegate}
        BY <1>7, <1>21, <1>23, <2>1, <2>3, <3>1 DEF Behind, DefaultDelegate
      <4>3. HookedBelow(V, frames, l, n)
        BY <1>19, <1>20, <1>23, <2>1, <3>1
      <4> QED
        BY <1>13, <1>16, <1>23, <2>1, <4>1, <4>2, <4>3
    <3>2. CASE f.self[1] = "instance"
      <4>1. Goto("meta")
        BY <1>5, <1>25, <2>3, <3>2 DEF GetLookup
      <4>2. l.expected = {}
        BY <1>21, <1>23, <2>1, <2>3, <3>2
      <4>3. HookedBelow(V, frames, l, n) \/ HasMetaMethod(f.self)
        BY <1>20, <1>22, <1>23, <2>1, <3>2
      <4> QED
        BY <1>13, <1>16, <1>23, <2>1, <4>1, <4>2, <4>3
    <3>3. CASE f.self[1] # "instance" /\ DelegateOf(f.self) # 0
      <4>1. Nest("delegated", Delegated("Get"))
        BY <1>5, <1>25, <2>3, <3>3 DEF GetLookup
      <4>2. f.self[1] \in {"table", "userdata"}
        BY <1>7, <1>22, <3>3
      <4> QED
        BY <1>14, <2>1, <2>3, <3>3, <4>1, <4>2
    <3> QED
      BY <3>1, <3>2, <3>3
  <2> QED
    BY <2>2, <2>3
<1>26. CASE SetLookup
  <2>1. f.op = "Set" /\ f.pc = "lookup"
    BY <1>24, <1>26 DEF SetLookup
  <2>2. CASE f.self[1] = "class"
    <3>1. Fail("error")
      BY <1>5, <1>26, <2>2 DEF SetLookup
    <3>2. l.expected = {} /\ l.answer = "none" /\ HookedBelow(V, frames, l, n)
      BY <1>19, <1>20, <1>21, <1>22, <1>23, <2>1, <2>2
    <3>3. n = 1 => l.behind = {} /\ ~last.root
      BY <1>7, <2>1, <2>2
    <3> QED
      BY <1>17, <1>18, <3>1, <3>2, <3>3
  <2>3. CASE f.self[1] # "class" /\ Reachable("Set", f.self, f.key)
    <3>1. Return(TRUE, f.self) /\ UNCHANGED heap
      BY <1>5, <1>26, <2>3 DEF SetLookup, Found
    <3>2. MayReturn(V, frames, last, TRUE, f.self)
      BY <1>3, <1>21, <1>23, <2>1, <2>3 DEF MayReturn
    <3> QED
      BY <1>11, <1>12, <3>1, <3>2
  <2>4. CASE f.self[1] = "table" /\ DelegateOf(f.self) # 0 /\ ~Reachable("Set", f.self, f.key)
    <3>1. Nest("delegated", Delegated("Set"))
      BY <1>5, <1>26, <2>4 DEF SetLookup
    <3> QED
      BY <1>14, <2>1, <2>4, <3>1
  <2>5. CASE f.self[1] # "class" /\ ~(f.self[1] = "table" /\ DelegateOf(f.self) # 0) /\ ~Reachable("Set", f.self, f.key)
    <3>1. Goto("meta")
      BY <1>5, <1>26, <2>5 DEF SetLookup
    <3>2. l.expected = {}
      BY <1>7, <1>21, <1>23, <2>1, <2>5 DEF Behind
    <3>3. HookedBelow(V, frames, l, n) \/ HasMetaMethod(f.self)
      BY <1>7, <1>20, <1>23, <2>1, <2>5
    <3> QED
      BY <1>13, <1>16, <1>23, <2>1, <2>5, <3>1, <3>2, <3>3
  <2> QED
    BY <2>2, <2>3, <2>4, <2>5
<1>27. CASE AfterDelegate
  <2>1. f.pc = "delegated" /\ ReturnedOK(ret, l)
    BY <1>5, <1>24, <1>27 DEF AfterDelegate, TopHas
  <2>2. CASE ret.ok
    <3>1. Return(TRUE, ret.from) /\ UNCHANGED heap
      BY <1>27, <2>2 DEF AfterDelegate
    <3>2. MayReturn(V, frames, last, TRUE, ret.from)
      BY <1>3, <1>7, <2>1, <2>2 DEF MayReturn, ReturnedOK
    <3> QED
      BY <1>11, <1>12, <3>1, <3>2
  <2>3. CASE ~ret.ok
    <3>1. Goto("meta")
      BY <1>27, <2>3 DEF AfterDelegate
    <3>2. l.answer \in {"none", "null"} /\ l.expected = {}
      BY <1>7, <2>1, <2>3 DEF ReturnedOK
    <3>3. l.answer = "none" => HookedBelow(V, frames, l, n) \/ HasMetaMethod(f.self)
      BY <1>23, <2>1
    <3> QED
      BY <1>7, <1>13, <1>16, <2>1, <3>1, <3>2, <3>3
  <2> QED
    BY <2>2, <2>3
<1>28. CASE AccessMeta
  <2>1. f.pc = "meta" /\ l.expected = {} /\ l.answer \in {"none", "null"}
    BY <1>23, <1>24, <1>28 DEF AccessMeta
  <2>2. CASE HasMetaMethod(f.self)
    <3>1. CallMetaMethod(IF f.op = "Get" THEN 2 ELSE 3, 1)
      BY <1>5, <1>28, <2>2 DEF AccessMeta
    <3> QED
      BY <1>15, <2>1, <3>1
  <2>3. CASE ~HasMetaMethod(f.self)
    <3>1. Goto(IF f.op = "Get" THEN "default" ELSE "root")
      BY <1>5, <1>28, <2>3 DEF AccessMeta
    <3>2. l.answer = "none" => HookedBelow(V, frames, l, n)
      BY <1>23, <2>1, <2>3
    <3>3. CASE f.op = "Get"
      <4>1. Goto("default")
        BY <3>1, <3>3
      <4> QED
        BY <1>7, <1>13, <1>16, <2>1, <3>2, <3>3, <4>1
    <3>4. CASE f.op # "Get"
      <4>1. Goto("root")
        BY <3>1, <3>4
      <4> QED
        BY <1>7, <1>13, <1>16, <2>1, <3>2, <3>4, <4>1
    <3> QED
      BY <3>3, <3>4
  <2> QED
    BY <2>2, <2>3
<1>29. CASE AccessCalled
  <2>1. f.pc = "called" /\ AnsweredOK(ret, lasterror, l, n) /\ UNCHANGED heap /\ l.expected = {}
    BY <1>5, <1>7, <1>24, <1>29 DEF AccessCalled, TopHas, AnsweredOK
  <2>2. CASE ret.ok \/ lasterror # "null"
    <3>1. Return(ret.ok, ret.from)
      BY <1>29, <2>2 DEF AccessCalled
    <3>2. MayReturn(V, frames, last, ret.ok, ret.from)
      BY <1>1, <1>3, <2>1, <2>2 DEF MayReturn, AnsweredOK
    <3> QED
      BY <1>11, <1>12, <2>1, <3>1, <3>2
  <2>3. CASE ~(ret.ok \/ lasterror # "null")
    <3>1. /\ frames' = [frames EXCEPT ![Len(frames)].pc = IF f.op = "Get" THEN "default" ELSE "root"]
          /\ ret' = NoResult /\ last' = last
      BY <1>5, <1>29, <2>3 DEF AccessCalled
    <3>2. l.answer = "null"
      BY <2>1, <2>3 DEF AnsweredOK
    <3>3. CASE f.op = "Get"
      <4>1. frames' = [frames EXCEPT ![Len(frames)].pc = "default"]
        BY <3>1, <3>3
      <4> QED
        BY <1>7, <1>13, <2>1, <3>1, <3>2, <3>3, <4>1
    <3>4. CASE f.op # "Get"
      <4>1. frames' = [frames EXCEPT ![Len(frames)].pc = "root"]
        BY <3>1, <3>4
      <4> QED
        BY <1>7, <1>13, <2>1, <3>1, <3>2, <3>4, <4>1
    <3> QED
      BY <3>3, <3>4
  <2> QED
    BY <2>2, <2>3
<1>30. CASE InvokeDefaultDelegate
  <2>1. f.pc = "default" /\ f.op = "Get" /\ l.answer \in {"none", "null"} /\ f.pc # "rooted"
    BY <1>23, <1>24, <1>30 DEF InvokeDefaultDelegate
  <2>2. CASE f.key \in Default /\ f.self[1] # "userdata"
    <3>1. Return(TRUE, DefaultDelegate) /\ UNCHANGED heap
      BY <1>5, <1>30, <2>2 DEF InvokeDefaultDelegate
    <3>2. CASE l.expected # {}
      <4>1. MayReturn(V, frames, last, TRUE, DefaultDelegate)
        BY <1>3, <1>23, <2>1, <3>2 DEF MayReturn
      <4> QED
        BY <1>11, <1>12, <3>1, <4>1
    <3>3. CASE l.expected = {}
      <4>1. f.self[1] = "instance" /\ n = 1
        BY <1>7, <1>9, <2>1, <2>2, <3>3
      <4>2. DefaultDelegate \in l.behind
        BY <1>7, <2>1, <2>2, <4>1
      <4>3. l.answer = "none" => ~l.hooked
        <5>1. ~(\E i \in Base(frames) .. n - 1 : frames[i].self \in V.has)
          BY <4>1 DEF Base
        <5> QED
          BY <1>23, <2>1, <3>3, <5>1 DEF HookedBelow
      <4>4. MayReturn(V, frames, last, TRUE, DefaultDelegate)
        BY <1>1, <1>3, <2>1, <3>3, <4>1, <4>2, <4>3 DEF MayReturn
      <4> QED
        BY <1>11, <1>12, <3>1, <4>4
    <3> QED
      BY <3>2, <3>3
  <2>3. CASE ~(f.key \in Default /\ f.self[1] # "userdata")
    <3>1. Goto("root")
      BY <1>5, <1>30, <2>3 DEF InvokeDefaultDelegate
    <3>2. l.expected = {} /\ (l.answer = "none" => HookedBelow(V, frames, l, n))
      BY <1>23, <2>1, <2>3
    <3>3. n = 1 => l.behind = {}
      BY <1>7, <2>3
    <3> QED
      BY <1>7, <1>13, <1>16, <2>1, <3>1, <3>2, <3>3
  <2> QED
    BY <2>2, <2>3
<1>31. CASE RootFallback
  <2>1. f.pc = "root" /\ l.expected = {} /\ l.answer \in {"none", "null"}
        /\ (l.answer = "none" => HookedBelow(V, frames, l, n))
    BY <1>23, <1>24, <1>31 DEF RootFallback
  <2>2. CASE ~f.root
    <3>1. NoMatch
      BY <1>5, <1>31, <2>2 DEF RootFallback
    <3>2. n = 1 => l.behind = {} /\ ~last.root
      BY <1>7, <2>1, <2>2
    <3> QED
      BY <1>17, <1>18, <2>1, <3>1, <3>2
  <2>3. CASE f.root
    <3>1. AskRoot
      BY <1>5, <1>31, <2>3 DEF RootFallback
    <3>2. PICK fs, rt, la, le, gs, le2, hs, la2 :
            /\ fs = frames /\ rt = ret /\ la = last /\ le = lasterror /\ le2 = lasterror' /\ hs = frames' /\ la2 = last'
            /\ gs = [frames EXCEPT ![Len(frames)].pc = "rooted"]
      OBVIOUS
    <3>3. PICK g : g = Frame("Get", <<"table", Root>>, f.key, TRUE, FALSE)
      OBVIOUS
    <3>4. PICK r : r = RootLookup(f.op, f.key)
      OBVIOUS
    <3>5. /\ f.op = "Set" => hs = gs
          /\ f.op = "Get" => hs = Append(gs, g)
          /\ ret' = rt /\ UNCHANGED heap
      BY <1>5, <3>1, <3>2, <3>3 DEF AskRoot
    <3>6. AsksRoot(la2, la, r)
      BY <1>5, <3>1, <3>2, <3>4 DEF AskRoot, Note, AsksRoot
    <3>7. g.op = "Get" /\ g.self = <<"table", Root>> /\ g.key = f.key /\ ~g.root /\ g.pc = "lookup" /\ g.self[1] = "table"
      BY <3>3 DEF Frame
    <3>8. Root \in 1 .. Len(slots) /\ <<"table", Root>> \in Kinds \X Nat
      BY <1>8 DEF Root, TablesOK, Kinds
    <3>9. /\ r \in LookupSet /\ r.behind = {} /\ r.answer = "none"
          /\ f.op = "Set" => ~r.hooked /\ r.expected = RootOf(V, f.key)
          /\ f.op = "Get" => /\ V.expected[<<g.op, g.self, g.key>>] = r.expected
                             /\ r.hooked => <<g.op, g.self>> \in V.passing
                             /\ g.key \in Default => r.expected # {}
      <4>1. CASE f.op = "Set"
        <5>1. PICK e : e = IF f.key \in slots[Root] THEN {<<"table", Root>>} ELSE {}
          OBVIOUS
        <5>2. r = [expected |-> e, behind |-> {}, hooked |-> FALSE, answer |-> "none"]
          BY <3>4, <4>1, <5>1 DEF RootLookup, NoLookup
        <5>3. e \in SUBSET Places
          BY <1>11, <5>1
        <5>4. r \in LookupSet
          BY <5>2, <5>3 DEF LookupSet, Replies
        <5>5. RootOf(V, f.key) = e
          BY <1>4, <5>1 DEF RootOf, View
        <5> QED
          BY <4>1, <5>2, <5>4, <5>5
      <4>2. CASE f.op = "Get"
        <5>1. PICK o : o = <<"table", Root>>
          OBVIOUS
        <5>2. PICK e : e = Expected("Get", o, f.key)
          OBVIOUS
        <5>3. PICK h \in BOOLEAN : h <=> Passes("Get", o)
          OBVIOUS
        <5>4. r = [expected |-> e, behind |-> {}, hooked |-> h, answer |-> "none"]
          <6>1. r = Lookup("Get", o, f.key)
            BY <3>4, <4>2, <5>1 DEF RootLookup
          <6>2. o[1] # "instance"
            BY <5>1
          <6>3. h = (\E p \in Along("Get", o) : HasMetaMethod(p))
            BY <5>3, Zenon DEF Passes
          <6> QED
            BY <5>2, <6>1, <6>2, <6>3 DEF Lookup
        <5>5. e \in SUBSET Places
          <6>1. "Get" \in {"Get", "Set"} /\ o \in Kinds \X Nat /\ o[1] \in {"table", "class", "instance", "userdata"}
            BY <3>8, <5>1
          <6>2. SelfOK(o, Len(slots), Len(classes), Len(instances))
            BY <3>8, <5>1 DEF SelfOK
          <6> QED
            BY <1>8, <5>2, <6>1, <6>2, ExpectedPlaces
        <5>6. r \in LookupSet
          BY <5>4, <5>5 DEF LookupSet, Replies
        <5>7. V.expected[<<g.op, g.self, g.key>>] = e
          BY <1>4, <1>7, <3>7, <3>8, <5>1, <5>2 DEF View, ExpectedNow
        <5>8. h => <<g.op, g.self>> \in V.passing
          BY <1>4, <3>7, <3>8, <5>1, <5>3 DEF View
        <5>9. f.key \in Default => e # {}
          <6>1. e = IF Near(Root, f.key) = {} THEN Behind("Get", f.key) ELSE {<<"table", u>> : u \in Near(Root, f.key)}
            BY <1>8, <3>8, <5>1, <5>2, ExpectedTable
          <6>2. f.key \in Default => Behind("Get", f.key) # {}
            BY DEF Behind
          <6> QED
            BY <6>1, <6>2
        <5> QED
          BY <3>7, <4>2, <5>4, <5>6, <5>7, <5>8, <5>9
      <4> QED
        BY <1>7, <4>1, <4>2
    <3>10. IsTurned(gs, fs, "rooted") /\ Underway(V, fs, rt, le, la) /\ n = Len(fs) /\ fs[n].pc = "root" /\ fs[n].root
           /\ g.op = "Get" /\ g.key = fs[n].key /\ ~g.root /\ g.pc = "lookup" /\ g.self[1] = "table" /\ rt \in Results
      BY <1>1, <1>2, <1>6, <1>8, <2>1, <2>3, <3>2, <3>7 DEF IsTurned
    <3>11. InRoot(V, la, r, fs[n].key, gs, g, hs)
      BY <1>2, <1>7, <3>2, <3>5, <3>9 DEF InRoot
    <3>12. r \in LookupSet /\ r.behind = {} /\ r.answer = "none"
      BY <3>9
    <3>13. WalksOK(V, hs, rt, le2, la2)
      BY ONLY <3>6, <3>10, <3>11, <3>12, WalkAsks
    <3> QED
      BY <1>10, <3>2, <3>5, <3>13
  <2> QED
    BY <2>2, <2>3
<1>32. CASE AfterRoot
  <2>1. f.pc = "rooted" /\ n = 1 /\ l.behind = {} /\ ~last.root
    BY <1>7, <1>24, <1>32 DEF AfterRoot
  <2>2. CASE f.op = "Get"
    <3>1. ReturnedOK(ret, l)
      BY <1>5, <2>1, <2>2 DEF TopHas
    <3>2. CASE ret.ok
      <4>1. Return(TRUE, ret.from) /\ UNCHANGED heap
        BY <1>5, <1>32, <2>2, <3>2 DEF AfterRoot
      <4>2. MayReturn(V, frames, last, TRUE, ret.from)
        BY <1>3, <1>7, <3>1, <3>2 DEF MayReturn, ReturnedOK
      <4> QED
        BY <1>11, <1>12, <4>1, <4>2
    <3>3. CASE ~ret.ok
      <4>1. NoMatch
        BY <1>5, <1>32, <2>2, <3>3 DEF AfterRoot
      <4>2. (l.answer = "none" /\ l.expected = {}) \/ (l.answer = "null" /\ l.expected = {})
        BY <1>7, <3>1, <3>3 DEF ReturnedOK
      <4>3. l.answer = "none" => HookedBelow(V, frames, l, n)
        BY <1>23, <2>1
      <4> QED
        BY <1>17, <1>18, <2>1, <4>1, <4>2, <4>3
    <3> QED
      BY <3>2, <3>3
  <2>3. CASE f.op = "Set"
    <3>1. l.answer = "none" /\ l.expected = IF f.key \in slots[Root] THEN {<<"table", Root>>} ELSE {}
      BY <1>5, <2>1, <2>3 DEF TopHas
    <3>2. HookedBelow(V, frames, l, n)
      BY <1>23, <2>1, <3>1
    <3>3. CASE f.key \in slots[Root]
      <4>1. Return(TRUE, <<"table", Root>>) /\ UNCHANGED heap
        BY <1>5, <1>32, <2>3, <3>3 DEF AfterRoot
      <4>2. MayReturn(V, frames, last, TRUE, <<"table", Root>>)
        BY <1>3, <3>1, <3>3 DEF MayReturn
      <4> QED
        BY <1>11, <1>12, <4>1, <4>2
    <3>4. CASE f.key \notin slots[Root]
      <4>1. NoMatch
        BY <1>5, <1>32, <2>3, <3>4 DEF AfterRoot
      <4> QED
        BY <1>17, <1>18, <2>1, <3>1, <3>2, <3>4, <4>1
    <3> QED
      BY <3>3, <3>4
  <2> QED
    BY <1>7, <2>2, <2>3
<1>33. ~Running /\ f.op # "Script"
  BY <1>5, <1>7 DEF Running
<1>34. ~(ScriptReturn \/ ScriptThrow \/ NewSlot \/ DeleteSlot \/ Clone \/ CloneMeta \/ NewSlotA \/ Inherited
         \/ GetConstructor \/ MetaCalled)
  BY <1>7, <1>24 DEF ScriptReturn, ScriptThrow, NewSlot, DeleteSlot, Clone, CloneMeta, NewSlotA, Inherited, GetConstructor, MetaCalled
<1>35. ~(sq_newtable \/ sq_setdelegate \/ sq_rawset \/ sq_rawdeleteslot \/ sq_newclass \/ sq_setclassudsize
         \/ sq_rawnewmember \/ sq_createinstance)
  BY <1>33 DEF sq_newtable, sq_setdelegate, sq_rawset, sq_rawdeleteslot, sq_newclass, sq_setclassudsize,
               sq_rawnewmember, sq_createinstance, Mutation
<1>36. ~(BeginAccess \/ BeginSlot \/ BeginClone \/ BeginMember \/ CLASS_OP \/ CreateClassInstance)
  BY <1>33 DEF BeginAccess, BeginSlot, BeginClone, BeginMember, CLASS_OP, CreateClassInstance, Start, Operand, Begin
<1> QED
  BY <1>25, <1>26, <1>27, <1>28, <1>29, <1>30, <1>31, <1>32, <1>34, <1>35, <1>36 DEF Next
-----------------------------------------------------------------------------
(* What a step does to what is noted of an access.  Only a call of the     *)
(* access itself, or the metamethod that it waits for, changes it.         *)
Untouched ==
  /\ last = NoAccess => last' = NoAccess
  /\ ~Own(Front(frames)) => last' = last
InScript ==
  \/ ScriptReturn \/ ScriptThrow
  \/ last' = last /\ (frames' = frames \/ \E f : frames' = Append(frames, f))
Looking ==
  /\ frames = <<>> /\ UNCHANGED heap
  /\ \E op \in {"Get", "Set"}, o \in Object, k \in Keys, root \in BOOLEAN :
       /\ frames' = Append(frames, Frame(op, o, k, TRUE, root))
       /\ last' = Access(op, o, k, root)
AccessEffect ==
  /\ ret' \in Results
  /\ frames = <<>> => last' = NoAccess \/ Looking
  /\ frames # <<>> => Untouched /\ (Top.op = "Script" => InScript)

LEMMA FrontOwn ==
  ASSUME FramesOK, frames # <<>>
  PROVE (Own(frames) => Own(Front(frames))) /\ (~(Len(frames) > 1) => Own(Front(frames)))
<1>1. PICK k : k = Len(frames) - 1
  OBVIOUS
<1>2. k \in 0 .. Len(frames) /\ frames \in Seq(FrameSet) /\ Len(frames) \in Nat \ {0}
  BY <1>1 DEF FramesOK
<1>3. SubSeq(frames, 1, k) \in Seq(FrameSet) /\ Len(SubSeq(frames, 1, k)) = k
      /\ \A i \in 1 .. k : SubSeq(frames, 1, k)[i] = frames[i]
  BY <1>2, Prefixed
<1>4. Front(frames) = SubSeq(frames, 1, k)
  BY <1>1 DEF Front
<1>5. DOMAIN Front(frames) = 1 .. k /\ \A i \in 1 .. k : Front(frames)[i] = frames[i]
  BY <1>3, <1>4
<1>6. DOMAIN frames = 1 .. Len(frames) /\ \A i \in 1 .. k : i \in 1 .. Len(frames)
  BY <1>2
<1>7. ~(Len(frames) > 1) => \A i \in 1 .. k : FALSE
  BY <1>1, <1>2
<1> QED
  BY <1>5, <1>6, <1>7 DEF Own

(* The steps that all operations are made of. *)
LEMMA AccessMoves ==
  ASSUME FramesOK, ret \in Results, frames # <<>>, Top.op # "Script"
  PROVE /\ last' = last /\ ret' \in Results => AccessEffect
        /\ \A p : Goto(p) => AccessEffect
        /\ \A p, f : Nest(p, f) => AccessEffect
        /\ \A ok \in BOOLEAN, from \in Places : Return(ok, from) => AccessEffect
        /\ \A e : Fail(e) => AccessEffect
        /\ \A a, b : CallMetaMethod(a, b) => AccessEffect
        /\ AskRoot => AccessEffect
<1>1. NoResult \in Results /\ Nowhere \in Places
  BY DEF NoResult, Results, Nowhere, Places
<1>2. Own(frames) => Own(Front(frames))
  BY FrontOwn
<1>3. ~(Len(frames) > 1) => Own(Front(frames))
  BY FrontOwn
<1>4. last' = last /\ ret' \in Results => AccessEffect
  BY DEF AccessEffect, Untouched
<1>5. \A p : Goto(p) => AccessEffect
  BY <1>1, <1>4 DEF Goto
<1>6. \A p, f : Nest(p, f) => AccessEffect
  BY <1>4 DEF Nest
<1>7. ASSUME NEW ok \in BOOLEAN, NEW from \in Places, Return(ok, from) PROVE AccessEffect
  <2>1. PICK r : r = [ok |-> ok, from |-> from]
    OBVIOUS
  <2>2. r \in Results
    BY <2>1 DEF Results
  <2>3. ret' = IF Len(frames) > 1 THEN r ELSE NoResult
    BY <1>7, <2>1 DEF Return, PopFrame
  <2>4. Len(frames) > 1 \/ last = NoAccess => last' = last
    BY <1>7 DEF Return
  <2>5. ret' \in Results
    BY <1>1, <2>2, <2>3
  <2> QED
    BY <1>3, <2>4, <2>5 DEF AccessEffect, Untouched
<1>8. \A e : Fail(e) => AccessEffect
  BY <1>1, <1>7 DEF Fail
<1>9. ASSUME NEW a, NEW b, CallMetaMethod(a, b) PROVE AccessEffect
  <2>1. ret' = NoResult /\ (last = NoAccess \/ ~Own(frames) => last' = last)
    BY <1>9 DEF CallMetaMethod, Answered, Note
  <2> QED
    BY <1>1, <1>2, <2>1 DEF AccessEffect, Untouched
<1>10. ASSUME AskRoot PROVE AccessEffect
  <2>1. ret' = ret /\ (last = NoAccess \/ ~Own(frames) => last' = last)
    BY <1>10 DEF AskRoot, Note
  <2> QED
    BY <1>2, <2>1 DEF AccessEffect, Untouched
<1> QED
  BY <1>4, <1>5, <1>6, <1>7, <1>8, <1>9, <1>10

(* Every step is one of them. *)
LEMMA AccessEffects ==
  ASSUME ObjInv, ret \in Results, Next
  PROVE AccessEffect
<1>1. FramesOK /\ TablesOK
  BY DEF ObjInv
<1>2. NoResult \in Results /\ Nowhere \in Places /\ DefaultDelegate \in Places /\ MetaMethod \in Places
      /\ <<"table", Root>> \in Places /\ ret.ok \in BOOLEAN /\ ret.from \in Places
  BY DEF NoResult, Results, Nowhere, Places, Root, DefaultDelegate, MetaMethod
<1>3. CASE Mutation
  <2>1. ret' = NoResult /\ frames' = frames /\ last' = IF frames = <<>> THEN NoAccess ELSE last
    BY <1>3 DEF Mutation
  <2> QED
    BY <1>2, <2>1 DEF AccessEffect, Untouched, InScript
<1>4. CASE sq_newtable \/ sq_setdelegate \/ sq_rawset \/ sq_rawdeleteslot \/ sq_newclass \/ sq_setclassudsize
           \/ sq_rawnewmember \/ sq_createinstance
  BY <1>3, <1>4 DEF sq_newtable, sq_setdelegate, sq_rawset, sq_rawdeleteslot, sq_newclass, sq_setclassudsize,
                   sq_rawnewmember, sq_createinstance
<1>5. ASSUME NEW op, NEW o, NEW k, NEW root, Begin(op, o, k, root), frames # <<>> \/ op \notin {"Get", "Set"}
      PROVE AccessEffect
  <2>1. /\ frames' = Append(frames, Frame(op, o, k, TRUE, root)) /\ ret' = NoResult
        /\ last' = IF frames = <<>> THEN NoAccess ELSE last
    BY <1>5 DEF Begin
  <2> QED
    BY <1>2, <2>1 DEF AccessEffect, Untouched, InScript
<1>6. CASE BeginAccess
  <2>1. PICK op \in {"Get", "Set"}, o \in Object, k \in {"x"} \union Default, root \in BOOLEAN : Begin(op, o, k, root)
    BY <1>6 DEF BeginAccess, Start
  <2>2. UNCHANGED heap /\ k \in Keys
    BY <1>6 DEF BeginAccess, Start, Keys
  <2>3. CASE frames = <<>>
    <3>1. frames' = Append(frames, Frame(op, o, k, TRUE, root)) /\ ret' = NoResult /\ last' = Access(op, o, k, root)
      BY <2>1, <2>3 DEF Begin
    <3>2. Looking
      BY <2>2, <2>3, <3>1 DEF Looking
    <3> QED
      BY <1>2, <2>3, <3>1, <3>2 DEF AccessEffect
  <2> QED
    BY <1>5, <2>1, <2>3
<1>7. CASE BeginSlot \/ BeginClone \/ BeginMember \/ CLASS_OP \/ CreateClassInstance
  <2>1. ASSUME NEW op \in {"NewSlot", "DeleteSlot", "Clone", "NewMember", "ClassOp", "New"}, NEW o, NEW k,
               Begin(op, o, k, FALSE)
        PROVE AccessEffect
    BY <1>5, <2>1
  <2>2. CASE BeginSlot
    BY <2>1, <2>2 DEF BeginSlot, Operand
  <2>3. CASE BeginClone
    BY <2>1, <2>3 DEF BeginClone
  <2>4. CASE BeginMember
    BY <2>1, <2>4 DEF BeginMember
  <2>5. CASE CLASS_OP
    BY <2>1, <2>5 DEF CLASS_OP
  <2>6. CASE CreateClassInstance
    BY <2>1, <2>6 DEF CreateClassInstance
  <2> QED
    BY <1>7, <2>2, <2>3, <2>4, <2>5, <2>6
<1>8. ASSUME frames # <<>>, Top.op # "Script"
      PROVE /\ last' = last /\ ret' \in Results => AccessEffect
            /\ \A p : Goto(p) => AccessEffect
            /\ \A p, f : Nest(p, f) => AccessEffect
            /\ \A ok \in BOOLEAN, from \in Places : Return(ok, from) => AccessEffect
            /\ \A e : Fail(e) => AccessEffect
            /\ \A a, b : CallMetaMethod(a, b) => AccessEffect
            /\ AskRoot => AccessEffect
            /\ NoMatch => AccessEffect
            /\ Returns(TRUE) => AccessEffect
            /\ Found => AccessEffect
  <2>1. Top.self \in Places
    <3>1. Top.self \in Kinds \X Nat
      BY <1>1, <1>8, TopOK
    <3> QED
      BY <3>1 DEF Kinds, Places
  <2>2. /\ last' = last /\ ret' \in Results => AccessEffect
        /\ \A p : Goto(p) => AccessEffect
        /\ \A p, f : Nest(p, f) => AccessEffect
        /\ \A ok \in BOOLEAN, from \in Places : Return(ok, from) => AccessEffect
        /\ \A e : Fail(e) => AccessEffect
        /\ \A a, b : CallMetaMethod(a, b) => AccessEffect
        /\ AskRoot => AccessEffect
    BY <1>1, <1>8, AccessMoves
  <2> QED
    BY <1>2, <2>1, <2>2 DEF NoMatch, Returns, Found
<1>9. CASE ScriptReturn \/ ScriptThrow
  <2>1. frames # <<>>
    BY <1>9 DEF ScriptReturn, ScriptThrow, At
  <2>2. ~(Len(frames) > 1) => Own(Front(frames))
    BY <1>1, <2>1, FrontOwn
  <2>3. PICK ok \in BOOLEAN, from \in Places : PopFrame(ok, from)
    BY <1>2, <1>9 DEF ScriptReturn, ScriptThrow
  <2>4. ret' \in Results
    <3>1. PICK r : r = [ok |-> ok, from |-> from]
      OBVIOUS
    <3>2. r \in Results
      BY <3>1 DEF Results
    <3>3. ret' = IF Len(frames) > 1 THEN r ELSE NoResult
      BY <2>3, <3>1 DEF PopFrame
    <3> QED
      BY <1>2, <3>2, <3>3
  <2>5. last = NoAccess \/ ~Own(Front(frames)) => last' = last
    BY <1>9 DEF ScriptReturn, ScriptThrow, Answered, Note
  <2> QED
    BY <1>9, <2>1, <2>4, <2>5 DEF AccessEffect, Untouched, InScript
<1>10. \A ops, pc : At(ops, pc) => frames # <<>> /\ Top.op \in ops
  BY DEF At
<1>11. CASE GetLookup \/ SetLookup
  <2>1. frames # <<>> /\ Top.op # "Script"
    BY <1>10, <1>11 DEF GetLookup, SetLookup
  <2>2. Found \/ Fail("error") \/ Goto("meta") \/ Goto("default") \/ \E f : Nest("delegated", f)
    BY <1>11 DEF GetLookup, SetLookup
  <2> QED
    BY <1>8, <2>1, <2>2
<1>12. CASE AfterDelegate \/ AccessMeta
  <2>1. frames # <<>> /\ Top.op # "Script"
    <3>1. /\ AfterDelegate => At({"Get", "Set"}, "delegated")
          /\ AccessMeta => At({"Get", "Set"}, "meta")
      BY DEF AfterDelegate, AccessMeta
    <3> QED
      BY <1>10, <1>12, <3>1
  <2>2. Return(TRUE, ret.from) \/ Goto("meta") \/ Goto("default") \/ Goto("root") \/ \E a, b : CallMetaMethod(a, b)
    BY <1>12 DEF AfterDelegate, AccessMeta
  <2> QED
    BY <1>2, <1>8, <2>1, <2>2
<1>13. CASE AccessCalled
  <2>1. frames # <<>> /\ Top.op # "Script"
    BY <1>10, <1>13 DEF AccessCalled
  <2>2. Return(ret.ok, ret.from) \/ (ret' = NoResult /\ last' = last)
    BY <1>13 DEF AccessCalled
  <2> QED
    BY <1>2, <1>8, <2>1, <2>2
<1>14. CASE InvokeDefaultDelegate \/ RootFallback \/ AfterRoot
  <2>1. frames # <<>> /\ Top.op # "Script"
    <3>1. /\ InvokeDefaultDelegate => At({"Get"}, "default")
          /\ RootFallback => At({"Get", "Set"}, "root")
          /\ AfterRoot => At({"Get", "Set"}, "rooted")
      BY DEF InvokeDefaultDelegate, RootFallback, AfterRoot
    <3> QED
      BY <1>10, <1>14, <3>1
  <2>2. \/ Return(TRUE, DefaultDelegate) \/ Goto("root") \/ NoMatch \/ Return(TRUE, <<"table", Root>>)
        \/ Return(TRUE, ret.from) \/ AskRoot
    BY <1>14 DEF InvokeDefaultDelegate, RootFallback, AfterRoot
  <2> QED
    BY <1>2, <1>8, <2>1, <2>2
<1>15. CASE NewSlot \/ DeleteSlot \/ CloneMeta \/ NewSlotA \/ Inherited \/ GetConstructor
  <2>1. frames # <<>> /\ Top.op # "Script"
    <3>1. /\ NewSlot => At({"NewSlot"}, "lookup")
          /\ DeleteSlot => At({"DeleteSlot"}, "lookup")
          /\ CloneMeta => At({"Clone"}, "cloned")
          /\ NewSlotA => At({"NewMember"}, "lookup")
          /\ Inherited => At({"ClassOp"}, "lookup")
          /\ GetConstructor => At({"New"}, "lookup")
      BY DEF NewSlot, DeleteSlot, CloneMeta, NewSlotA, Inherited, GetConstructor
    <3> QED
      BY <1>10, <1>15, <3>1
  <2>2. (\E a, b : CallMetaMethod(a, b)) \/ Fail("error") \/ Returns(TRUE)
    BY <1>15 DEF NewSlot, DeleteSlot, CloneMeta, NewSlotA, Inherited, GetConstructor
  <2> QED
    BY <1>8, <2>1, <2>2
<1>16. CASE Clone
  <2>1. frames # <<>> /\ Top.op # "Script"
    BY <1>10, <1>16 DEF Clone
  <2>2. last' = last /\ ret' = ret
    BY <1>16 DEF Clone
  <2> QED
    BY <1>8, <2>1, <2>2
<1>17. CASE MetaCalled
  <2>1. frames # <<>> /\ Top.op # "Script"
    BY <1>10, <1>17 DEF MetaCalled
  <2>2. Return(ret.ok, Nowhere)
    BY <1>17 DEF MetaCalled
  <2> QED
    BY <1>2, <1>8, <2>1, <2>2
<1> QED
  BY <1>4, <1>6, <1>7, <1>9, <1>11, <1>12, <1>13, <1>14, <1>15, <1>16, <1>17 DEF Next

(* A step leaves all frames but the one on top as they are. *)
LEMMA FramesStay ==
  ASSUME FramesOK, FrameEffect, frames # <<>>
  PROVE /\ Len(frames) \in Nat /\ Len(frames') \in Nat /\ Len(frames) <= Len(frames') + 1
        /\ \A i \in 1 .. Len(frames) : i # Len(frames) => frames'[i] = frames[i]
<1>1. frames \in Seq(FrameSet) /\ Len(frames) \in Nat \ {0}
  BY DEF FramesOK
<1>2. ASSUME NEW gs \in Seq(FrameSet), NEW f
      PROVE Len(Append(gs, f)) = Len(gs) + 1 /\ \A i \in 1 .. Len(gs) : Append(gs, f)[i] = gs[i]
  OBVIOUS
<1>3. ASSUME NEW p \in Pcs, NEW gs, gs = [frames EXCEPT ![Len(frames)].pc = p]
      PROVE gs \in Seq(FrameSet) /\ Len(gs) = Len(frames) /\ \A i \in 1 .. Len(frames) : i # Len(frames) => gs[i] = frames[i]
  <2>1. IsTurned(gs, frames, p)
    BY <1>3 DEF IsTurned
  <2> QED
    BY <1>1, <2>1, Turned
<1>4. CASE UNCHANGED <<frames, vtop, nmeta>>
  BY <1>1, <1>4
<1>5. CASE Begins
  <2>1. PICK f : frames' = Append(frames, f)
    BY <1>5 DEF Begins
  <2> QED
    BY <1>1, <1>2, <2>1
<1>6. CASE Turns
  <2>1. PICK p \in Pcs : frames' = [frames EXCEPT ![Len(frames)].pc = p]
    BY <1>6 DEF Turns
  <2> QED
    BY <1>1, <1>3, <2>1
<1>7. CASE Calls
  <2>1. PICK p \in Pcs : \E f : frames' = Append([frames EXCEPT ![Len(frames)].pc = p], f)
    BY <1>7 DEF Calls
  <2>5. PICK f : frames' = Append([frames EXCEPT ![Len(frames)].pc = p], f)
    BY <2>1
  <2>2. PICK gs : gs = [frames EXCEPT ![Len(frames)].pc = p]
    OBVIOUS
  <2>3. gs \in Seq(FrameSet) /\ Len(gs) = Len(frames) /\ \A i \in 1 .. Len(frames) : i # Len(frames) => gs[i] = frames[i]
    BY <1>3, <2>2
  <2>4. frames' = Append(gs, f)
    BY <2>2, <2>5
  <2> QED
    BY <1>1, <1>2, <2>3, <2>4
<1>8. CASE Returning
  <2>1. PICK k : k = Len(frames) - 1
    OBVIOUS
  <2>2. k \in 0 .. Len(frames) /\ k \in Nat
    BY <1>1, <2>1
  <2>3. Len(SubSeq(frames, 1, k)) = k /\ \A i \in 1 .. k : SubSeq(frames, 1, k)[i] = frames[i]
    BY <1>1, <2>2, Prefixed
  <2>4. frames' = SubSeq(frames, 1, k)
    BY <1>8, <2>1 DEF Returning, Front
  <2> QED
    BY <1>1, <2>1, <2>2, <2>3, <2>4
<1> QED
  BY <1>4, <1>5, <1>6, <1>7, <1>8 DEF FrameEffect

(* A new access stands before all that it is looking for. *)
LEMMA WalkBegins ==
  ASSUME ObjInv, NEW op \in {"Get", "Set"}, NEW o \in Kinds \X Nat, NEW k \in Keys, NEW root \in BOOLEAN,
         o[1] \in {"table", "class", "instance", "userdata"},
         SelfOK(o, Len(slots), Len(classes), Len(instances)),
         NEW f, f = Frame(op, o, k, TRUE, root), NEW la, la = Access(op, o, k, root),
         NEW fs, fs = <<f>>, NEW rt \in Results, NEW le
  PROVE WalksOK(View, fs, rt, le, la)
<1>1. PICK V : V = View
  OBVIOUS
<1>2. PICK e : e = Expected(op, o, k)
  OBVIOUS
<1>3. PICK b : b = IF op = "Get" /\ o[1] = "instance" /\ k \in Default THEN {DefaultDelegate} ELSE {}
  OBVIOUS
<1>4. PICK h \in BOOLEAN : h <=> Passes(op, o)
  OBVIOUS
<1>5. PICK l : l = Lookup(op, o, k)
  OBVIOUS
<1>6. l = [expected |-> e, behind |-> b, hooked |-> h, answer |-> "none"]
  <2>1. h = (\E p \in Along(op, o) : HasMetaMethod(p))
    BY <1>4, Zenon DEF Passes
  <2> QED
    BY <1>2, <1>3, <1>5, <2>1 DEF Lookup
<1>7. TablesOK
  BY DEF ObjInv
<1>8. e \in SUBSET Places /\ b \in SUBSET Places
  <2>1. e \in SUBSET Places
    BY <1>2, <1>7, ExpectedPlaces
  <2> QED
    BY <1>3, <2>1 DEF DefaultDelegate, Places
<1>9. l \in LookupSet
  BY <1>6, <1>8 DEF LookupSet, Replies
<1>10. NoLookup \in LookupSet /\ NoResult \in Results /\ Missed(NoLookup)
  BY DEF NoLookup, LookupSet, Replies, NoResult, Results, Nowhere, Places, Missed
<1>11. PICK r \in BOOLEAN : r = (root /\ (op = "Set" => o[1] # "class"))
  OBVIOUS
<1>12. la = [op |-> op, lookup |-> l, before |-> NoLookup, root |-> r, ended |-> FALSE, result |-> NoResult]
  BY <1>5, <1>11 DEF Access, NoAccess
<1>13. la \in Accesses
  BY <1>9, <1>10, <1>12 DEF Accesses
<1>14. f.op = op /\ f.self = o /\ f.key = k /\ f.pc = "lookup" /\ f.root = root
  BY DEF Frame
<1>15. Len(fs) = 1 /\ fs[1] = f
  OBVIOUS
<1>16. Base(fs) = 1
  BY <1>14, <1>15 DEF Base
<1>17. op = "Get" /\ k \in Default /\ o[1] \in {"table", "class"} => e # {}
  <2> SUFFICES ASSUME op = "Get", k \in Default, o[1] \in {"table", "class"} PROVE e # {}
    OBVIOUS
  <2>1. Behind(op, k) # {}
    BY DEF Behind
  <2>2. CASE o[1] = "class"
    BY <1>2, <2>2 DEF Expected
  <2>3. CASE o[1] = "table"
    <3>1. PICK t \in 1 .. Len(slots) : o = <<"table", t>>
      BY <2>3 DEF SelfOK
    <3>2. Expected(op, <<"table", t>>, k) = IF Near(t, k) = {} THEN Behind(op, k) ELSE {<<"table", u>> : u \in Near(t, k)}
      BY <1>7, ExpectedTable
    <3>3. e = IF Near(t, k) = {} THEN Behind(op, k) ELSE {<<"table", u>> : u \in Near(t, k)}
      BY <1>2, <3>1, <3>2
    <3> QED
      BY <2>1, <3>3
  <2> QED
    BY <2>2, <2>3
<1>18. OwnFrame(f, 1, 1, 1, f.key, la)
  <2>1. la.op = op /\ la.lookup.expected = e
    BY <1>6, <1>12
  <2>2. ~(1 > 1) /\ ~(1 < 1) /\ f.pc # "cloned" /\ f.pc # "rooted" /\ f.pc # "default"
    BY ONLY <1>14
  <2> QED
    BY <1>14, <1>17, <2>1, <2>2, Zenon DEF OwnFrame
<1>19. Owned(fs, la, 1)
  <2>1. 1 \in 1 .. Len(fs) /\ \A i \in 1 .. 1 : i = 1
    BY ONLY <1>15
  <2>2. la.op = op /\ la.lookup.behind = b /\ la.lookup.answer = "none" /\ la.root = r
    BY <1>6, <1>12
  <2>3. fs[1].pc = "lookup" /\ fs[1].self = o /\ fs[1].key = k /\ (r => fs[1].root)
    BY <1>11, <1>14, <1>15
  <2>4. r => ~(op = "Set" /\ o[1] = "class")
    BY <1>11
  <2>5. \A i \in 1 .. 1 : OwnFrame(fs[i], i, 1, Base(fs), fs[1].key, la)
    BY <1>15, <1>16, <1>18, <2>1
  <2> QED
    BY <1>3, <2>1, <2>2, <2>3, <2>4, <2>5 DEF Owned
<1>20. V.expected[<<op, o, k>>] = e
  BY <1>1, <1>2 DEF View, ExpectedNow
<1>21. h => <<op, o>> \in V.passing
  BY <1>1, <1>4 DEF View
<1>22. Stands(V, fs, rt, le, l, 1)
  <2>1. StillHooked(V, fs, l, 1)
    BY <1>6, <1>14, <1>15, <1>21 DEF StillHooked, HookedBelow
  <2>2. Fresh(V, f, l)
    BY <1>6, <1>14, <1>20 DEF Fresh
  <2>3. \A i \in Base(fs) .. 1 : Fresh(V, fs[i], l)
    <3>1. \A i \in Base(fs) .. 1 : i = 1
      BY <1>16
    <3> QED
      BY <1>15, <2>2, <3>1
  <2> QED
    BY <1>6, <1>14, <1>15, <2>1, <2>3 DEF Stands
<1>23. Walks(V, fs, rt, le, la, 1)
  BY <1>12, <1>15, <1>19, <1>22 DEF Walks
<1>24. 1 \in 1 .. Len(fs)
  BY ONLY <1>15
<1>25. la.op = op /\ la.before = NoLookup /\ ~la.ended
  BY <1>12
<1> QED
  BY <1>1, <1>10, <1>13, <1>23, <1>24, <1>25 DEF WalksOK

(* A metamethod is running for the access, or something that it has begun. *)
LEMMA WalkWaits ==
  ASSUME ObjInv, WalkInv, AccessEffect, FrameEffect, NEW m \in 1 .. Len(frames), m # Len(frames),
         last.op # "none", ~last.ended, Walks(View, frames, ret, lasterror, last, m)
  PROVE WalkInv'
<1>1. PICK V, fs, rt, le, la, n : V = View /\ fs = frames /\ rt = ret /\ le = lasterror /\ la = last /\ n = Len(frames)
  OBVIOUS
<1>2. PICK V2, gs, rt2, le2, la2 : V2 = View' /\ gs = frames' /\ rt2 = ret' /\ le2 = lasterror' /\ la2 = last'
  OBVIOUS
<1>3. FramesOK /\ fs \in Seq(FrameSet) /\ n \in Nat /\ n = Len(fs) /\ m \in Nat \ {0} /\ m < n /\ m + 1 <= n /\ fs # <<>>
  BY <1>1 DEF ObjInv, FramesOK
<1>4. la \in Accesses /\ Missed(la.before) /\ la.op # "none" /\ ~la.ended /\ Walks(V, fs, rt, le, la, m)
  BY <1>1 DEF WalkInv, WalksOK
<1>5. /\ \A i \in 1 .. m : fs[i].op = la.op
      /\ fs[m + 1].op = "Script"
  <2>1. Owned(fs, la, m) /\ Waits(fs, la.lookup, m)
    BY <1>1, <1>4 DEF Walks
  <2> QED
    BY <2>1 DEF Owned, OwnFrame, Waits
<1>6. la # NoAccess /\ la.op \in {"Get", "Set"}
  BY <1>4 DEF NoAccess, Accesses
<1>7. rt2 \in Results
  BY <1>2 DEF AccessEffect
<1>8. /\ Len(gs) \in Nat /\ n <= Len(gs) + 1
      /\ \A i \in 1 .. n : i # n => gs[i] = fs[i]
  BY <1>1, <1>2, <1>3, FramesStay
<1>9. ASSUME la2 = la, m + 1 <= Len(gs), \A i \in 1 .. m + 1 : gs[i] = fs[i]
      PROVE WalkInv'
  <2>1. WalksOK(V2, gs, rt2, le2, la)
    <3>1. m < Len(fs) /\ Len(fs) \in Nat
      BY <1>3
    <3> QED
      BY ONLY <1>3, <1>4, <1>7, <1>8, <1>9, <3>1, WalkAbove
  <2> QED
    BY <1>2, <1>9, <2>1 DEF WalkInv
<1>10. PICK k : k = n - 1
  OBVIOUS
<1>11. k \in 0 .. Len(fs) /\ k \in Nat \ {0}
  BY <1>3, <1>10
<1>12. /\ Front(fs) = SubSeq(fs, 1, k) /\ Len(SubSeq(fs, 1, k)) = k
       /\ \A i \in 1 .. k : SubSeq(fs, 1, k)[i] = fs[i]
  <2>1. Len(SubSeq(fs, 1, k)) = k /\ \A i \in 1 .. k : SubSeq(fs, 1, k)[i] = fs[i]
    BY <1>3, <1>11, Prefixed
  <2> QED
    BY <1>3, <1>10, <2>1 DEF Front
<1>13. DOMAIN Front(fs) = 1 .. k /\ \A i \in 1 .. k : Front(fs)[i] = fs[i]
  <2>1. SubSeq(fs, 1, k) \in Seq(FrameSet)
    BY <1>3, <1>11, Prefixed
  <2> QED
    BY <1>12, <2>1
<1>14. CASE m + 1 # n
  <2>1. m + 1 <= Len(gs) /\ \A i \in 1 .. m + 1 : i \in 1 .. n /\ i # n
    BY <1>3, <1>8, <1>14
  <2>2. m + 1 \in 1 .. k
    BY <1>3, <1>10, <1>14
  <2>3. ~Own(Front(fs))
    BY <1>5, <1>13, <2>2 DEF Own
  <2>4. la2 = la
    BY <1>1, <1>2, <1>3, <2>3 DEF AccessEffect, Untouched
  <2> QED
    BY <1>8, <1>9, <2>1, <2>4
<1>15. CASE m + 1 = n
  <2>1. Top = fs[n] /\ Top.op = "Script"
    BY <1>1, <1>3, <1>5, <1>15 DEF Top, Last
  <2>2. InScript
    BY <1>1, <1>3, <2>1 DEF AccessEffect
  <2>3. k = m
    BY <1>3, <1>10, <1>15
  <2>4. Own(Front(fs))
    BY <1>5, <1>6, <1>13, <2>3 DEF Own
  <2>5. CASE last' = last /\ (frames' = frames \/ \E f : frames' = Append(frames, f))
    <3>1. m + 1 <= Len(gs) /\ \A i \in 1 .. m + 1 : gs[i] = fs[i]
      <4>1. CASE frames' = frames
        BY <1>1, <1>2, <1>3, <4>1
      <4>2. CASE \E f : frames' = Append(frames, f)
        <5>1. PICK f : gs = Append(fs, f)
          BY <1>1, <1>2, <4>2
        <5> QED
          BY <1>3, <5>1
      <4> QED
        BY <2>5, <4>1, <4>2
    <3> QED
      BY <1>1, <1>2, <1>9, <2>5, <3>1
  <2>6. ASSUME NEW ok \in BOOLEAN, NEW from \in Places, NEW a \in Replies, PopFrame(ok, from), Answered(Front(frames), a),
               \/ a = "value" /\ ok /\ from = MetaMethod
               \/ a = "null" /\ ~ok /\ (m = 1 => le2 = "null")
               \/ a = "error" /\ ~ok /\ m = 1 /\ le2 # "null"
        PROVE WalkInv'
    <3>1. PICK r : r = [ok |-> ok, from |-> from]
      OBVIOUS
    <3>2. r \in Results /\ r.from = from /\ (r.ok <=> ok)
      BY <3>1 DEF Results
    <3>3. n > 1
      BY <1>3
    <3>4. gs = Front(fs) /\ rt2 = r
      BY <1>1, <1>2, <2>6, <3>1, <3>3 DEF PopFrame
    <3>5. WithAnswer(la2, la, a)
      BY <1>1, <1>2, <1>6, <2>4, <2>6 DEF Answered, Note, WithAnswer
    <3>6. Len(gs) = m /\ \A i \in 1 .. m : gs[i] = fs[i]
      BY <1>12, <2>3, <3>4
    <3>7. Len(fs) = m + 1
      BY <1>3, <1>15
    <3>8. \/ a = "value" /\ r.ok /\ r.from = MetaMethod
          \/ a = "null" /\ ~r.ok /\ (m = 1 => le2 = "null")
          \/ a = "error" /\ ~r.ok /\ m = 1 /\ le2 # "null"
      BY <2>6, <3>2
    <3>9. WalksOK(V2, gs, r, le2, la2)
      BY ONLY a \in Replies, <1>3, <1>4, <3>2, <3>5, <3>6, <3>7, <3>8, WalkAnswers
    <3> QED
      BY <1>2, <3>4, <3>9 DEF WalkInv
  <2>7. MetaMethod \in Places /\ Nowhere \in Places /\ {"value", "null", "error"} \subseteq Replies
    BY DEF MetaMethod, Nowhere, Places, Replies
  <2>8. CASE ScriptReturn
    <3>1. PopFrame(TRUE, MetaMethod) /\ Answered(Front(frames), "value")
      BY <2>8 DEF ScriptReturn
    <3> QED
      BY <2>6, <2>7, <3>1
  <2>9. CASE ScriptThrow
    <3>1. PICK e \in {"null", "error"} :
            /\ lasterror' = e /\ PopFrame(FALSE, Nowhere)
            /\ Answered(Front(frames), IF Len(frames) = 2 THEN e ELSE "null")
      BY <2>9 DEF ScriptThrow
    <3>2. le2 = e /\ (m = 1 <=> Len(frames) = 2)
      BY <1>1, <1>2, <1>3, <1>15, <3>1
    <3>3. CASE m = 1
      <4>1. Answered(Front(frames), e)
        BY <3>1, <3>2, <3>3
      <4> QED
        BY <2>6, <2>7, <3>1, <3>2, <3>3, <4>1
    <3>4. CASE m # 1
      <4>1. Answered(Front(frames), "null")
        BY <3>1, <3>2, <3>4
      <4> QED
        BY <2>6, <2>7, <3>1, <3>4, <4>1
    <3> QED
      BY <3>3, <3>4
  <2> QED
    BY <2>2, <2>5, <2>8, <2>9 DEF InScript
<1> QED
  BY <1>14, <1>15

(* Where an access stands is an invariant. *)
LEMMA WalkInvAlways ==
  Spec => []WalkInv
<1>1. NoAccess \in Accesses /\ NoAccess.op = "none" /\ ~NoAccess.ended /\ Missed(NoAccess.before) /\ NoResult \in Results
  <2>1. NoLookup \in LookupSet /\ Missed(NoLookup)
    BY DEF NoLookup, LookupSet, Replies, Missed
  <2>2. NoResult \in Results
    BY DEF NoResult, Results, Nowhere, Places
  <2> QED
    BY <2>1, <2>2 DEF NoAccess, Accesses
<1>2. ASSUME NEW V, NEW fs, NEW rt \in Results, NEW le PROVE WalksOK(V, fs, rt, le, NoAccess)
  BY <1>1 DEF WalksOK
<1>3. Init => WalkInv
  BY <1>1, <1>2 DEF Init, WalkInv
<1>4. ASSUME ObjInv, WalkInv, [Next]_vars PROVE WalkInv'
  <2>1. WalksOK(View, frames, ret, lasterror, last)
    BY <1>4 DEF WalkInv
  <2>2. /\ last \in Accesses /\ ret \in Results /\ (last.op = "none" => last = NoAccess) /\ Missed(last.before)
        /\ last.op # "none" /\ ~last.ended => \E m \in 1 .. Len(frames) : Walks(View, frames, ret, lasterror, last, m)
        /\ last.ended => frames = <<>>
    BY <2>1 DEF WalksOK
  <2>3. frames \in Seq(FrameSet)
    BY <1>4 DEF ObjInv, FramesOK
  <2>4. CASE UNCHANGED vars
    <3>1. UNCHANGED heap /\ frames' = frames /\ ret' = ret /\ lasterror' = lasterror /\ last' = last
      BY <2>4 DEF vars
    <3>2. View' = View
      BY <3>1, ViewStays
    <3> QED
      BY <2>1, <3>1, <3>2 DEF WalkInv
  <2>5. CASE Next
    <3>1. AccessEffect /\ FrameEffect
      BY <1>4, <2>2, <2>5, AccessEffects, FrameEffects
    <3>2. ret' \in Results
      BY <3>1 DEF AccessEffect
    <3>3. ASSUME last' = NoAccess PROVE WalkInv'
      BY <1>2, <3>2, <3>3 DEF WalkInv
    <3>4. CASE last.op # "none" /\ ~last.ended
      <4>1. PICK m \in 1 .. Len(frames) : Walks(View, frames, ret, lasterror, last, m)
        BY <2>2, <3>4
      <4>2. CASE m = Len(frames)
        <5>1. frames # <<>>
          BY <2>3, <4>1
        <5>2. Underway(View, frames, ret, lasterror, last)
          BY <2>2, <2>3, <3>4, <4>1, <4>2, <5>1 DEF Underway
        <5> QED
          BY <1>4, <2>5, <5>2, WalkSteps
      <4>3. CASE m # Len(frames)
        BY <1>4, <3>1, <3>4, <4>1, <4>3, WalkWaits
      <4> QED
        BY <4>2, <4>3
    <3>5. CASE ~(last.op # "none" /\ ~last.ended)
      <4>1. frames = <<>> \/ last = NoAccess
        BY <2>2, <3>5
      <4>2. CASE frames # <<>>
        <5>1. last' = NoAccess
          BY <3>1, <4>1, <4>2 DEF AccessEffect, Untouched
        <5> QED
          BY <3>3, <5>1
      <4>3. CASE frames = <<>> /\ Looking
        <5>1. PICK op \in {"Get", "Set"}, o \in Object, k \in Keys, root \in BOOLEAN :
                /\ frames' = Append(frames, Frame(op, o, k, TRUE, root))
                /\ last' = Access(op, o, k, root)
          BY <4>3 DEF Looking
        <5>2. PICK p \in Kinds \X Nat : p = o
          BY <1>4, ObjectOK
        <5>3. p[1] \in {"table", "class", "instance", "userdata"} /\ SelfOK(p, Len(slots), Len(classes), Len(instances))
          BY <1>4, <5>2, ObjectOK
        <5>4. PICK f, fs, la, le : f = Frame(op, p, k, TRUE, root) /\ fs = frames' /\ la = last' /\ le = lasterror'
          OBVIOUS
        <5>5. fs = <<f>> /\ la = Access(op, p, k, root)
          <6>1. fs = Append(<<>>, f)
            BY <4>3, <5>1, <5>2, <5>4
          <6>2. Append(<<>>, f) = <<f>>
            OBVIOUS
          <6>3. la = Access(op, p, k, root)
            BY <5>1, <5>2, <5>4, Zenon
          <6> QED
            BY <6>1, <6>2, <6>3, Zenon
        <5>6. PICK rt \in Results : rt = ret'
          BY <3>2
        <5>7. WalksOK(View, fs, rt, le, la)
          BY <1>4, <5>2, <5>3, <5>4, <5>5, WalkBegins
        <5>8. View' = View
          BY <4>3, ViewStays DEF Looking
        <5> QED
          BY <5>4, <5>6, <5>7, <5>8 DEF WalkInv
      <4> QED
        BY <3>1, <3>3, <4>2, <4>3 DEF AccessEffect
    <3> QED
      BY <3>4, <3>5
  <2> QED
    BY <1>4, <2>4, <2>5
<1> QED
  BY <1>3, <1>4, ObjInvAlways, PTL DEF Spec

(* Whatever the delegates are and whatever metamethods they define, a Get  *)
(* or Set finds the nearest slot along the delegates, without calling a    *)
(* metamethod; where there is none it ends as the last metamethod that it  *)
(* called did; and it fails only when no metamethod on its way, no default *)
(* delegate and, where it may ask it, not the root table has answered.     *)
THEOREM AlwaysNearestSlot ==
  Spec => []NearestSlot
<1>1. WalkInv => NearestSlot
  BY DEF WalkInv, WalksOK, Answers, NearestSlot
<1> QED
  BY <1>1, WalkInvAlways, PTL
=============================================================================

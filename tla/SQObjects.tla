------------------------------- MODULE SQObjects -------------------------------
(***************************************************************************)
(* Slots of tables, userdata, classes and instances (sqvm.cpp, sqclass.cpp,*)
(* sqclass.h, sqobject.cpp, sqapi.cpp): how a key is looked up along the   *)
(* delegates, when a metamethod is called and what becomes of its error,   *)
(* and how a class gives its members their places in its instances.        *)
(*                                                                         *)
(* An operation is a stack of frames, the C++ calls it consists of; a      *)
(* metamethod is a frame too, of a script that may change any object, start*)
(* operations of its own and end with a value, an error, or the "clean     *)
(* failure" throw null.  A value is known only by where it came from.      *)
(***************************************************************************)
EXTENDS Integers, Sequences, FiniteSets, SequencesExt

CONSTANTS
  Worlds,       \* how many tables, classes, instances and nested scripts there may be
  Default,      \* the keys of the default delegates, which no script can define
  MEMBER_MAX_COUNT

ASSUME WorldAssumption ==
  \A w \in Worlds : w.tables \in Nat \ {0} /\ {w.classes, w.instances, w.calls} \subseteq Nat
ASSUME MaxAssumption == MEMBER_MAX_COUNT \in Nat
ASSUME DefaultAssumption == "x" \notin Default

VARIABLES
  world,      \* which of Worlds this is
  slots, delegate,  \* of each table; 0: it has no delegate
  udelegate,  \* the delegate of a userdata
  classes, instances,
  frames,     \* the calls that have not returned
  ret,        \* what the last call returned, and where the value was found
  lasterror,  \* _lasterror
  nmeta,      \* _nmetamethodscall
  vtop,       \* how many values the operations have pushed on the stack of the VM
  last        \* the Get or Set of the program that is running or has just ended, as NearestSlot sees it

heap == <<slots, delegate, udelegate, classes, instances>>
vars == <<world, heap, frames, ret, lasterror, nmeta, vtop, last>>

(* Bound: the names of slots and members, and whether there is a userdata. *)
(* A table that has the slot "mm" defines every metamethod, for the objects *)
(* that it is the delegate of; each operation asks for its own only.       *)
Name == world.names
Member == world.members
Root == 1
Table == DOMAIN slots
Object ==
  (IF Name = {} THEN {} ELSE {"table"} \X Table) \union ({"class"} \X DOMAIN classes) \union ({"instance"} \X DOMAIN instances)
  \union (IF world.userdata THEN {<<"userdata", 0>>} ELSE {})

Nowhere == <<"nowhere", 0>>
DefaultDelegate == <<"default", 0>>
MetaMethod == <<"metamethod", 0>>
NoResult == [ok |-> FALSE, from |-> Nowhere]

(* lookup: the one that is made, with what it must find before it calls a  *)
(* metamethod and what may be found behind, whether it passes an object    *)
(* that defines the metamethod, and how the last one called has answered;  *)
(* before: that of the object itself, when the root table has been asked.  *)
NoLookup == [expected |-> {}, behind |-> {}, hooked |-> FALSE, answer |-> "none"]
NoAccess == [op |-> "none", lookup |-> NoLookup, before |-> NoLookup, root |-> FALSE, ended |-> FALSE, result |-> NoResult]

Init ==
  /\ world \in Worlds
  /\ slots = <<{}>> /\ delegate = <<0>> /\ udelegate = 0
  /\ classes = <<>> /\ instances = <<>>
  /\ frames = <<>> /\ ret = NoResult
  /\ lasterror = "null" /\ nmeta = 0 /\ vtop = 0
  /\ last = NoAccess
-----------------------------------------------------------------------------
(* Classes. *)

(* base: 0, none; members: name -> <<kind, index>>; the fields are those of *)
(* _defaultvalues; meta: it defines the metamethods.                       *)
SQClass(b) ==
  IF b = 0
  THEN [base |-> 0, locked |-> FALSE, ctor |-> -1, udsize |-> 0, meta |-> FALSE, members |-> <<>>,
        fields |-> 0, methods |-> 0]
  ELSE [classes[b] EXCEPT !.base = b, !.locked = FALSE]

IsField(c, k) == k \in DOMAIN c.members /\ c.members[k][1] = "field"
IsMethod(c, k) == k \in DOMAIN c.members /\ c.members[k][1] = "method"

(* Mutant: a locked class refuses no new field. *)
MutNewSlotFails(c, k, closure, static) ==
  ~IsField(c, k) /\ Cardinality(DOMAIN c.members) >= MEMBER_MAX_COUNT

(* SQClass::NewSlot of a closure, or of another value, returns false. *)
NewSlotFails(c, k, closure, static) ==
  \/ c.locked /\ ~closure /\ ~static
  \/ ~IsField(c, k) /\ Cardinality(DOMAIN c.members) >= MEMBER_MAX_COUNT

(* _members->NewSlot: the place of member k. *)
Placed(members, k, place) == [l \in DOMAIN members \union {k} |-> IF l = k THEN place ELSE members[l]]

(* Mutant: a method that is defined again gets a new place. *)
MutWithMember(c, k, closure, static) ==
  IF IsField(c, k) THEN c
  ELSE IF closure /\ k = "mm" THEN [c EXCEPT !.meta = TRUE]
  ELSE IF closure \/ static
  THEN [c EXCEPT !.methods = @ + 1, !.members = Placed(@, k, <<"method", c.methods>>),
                 !.ctor = IF k = "constructor" /\ ~IsMethod(c, k) THEN c.methods ELSE @]
  ELSE [c EXCEPT !.fields = @ + 1, !.members = Placed(@, k, <<"field", c.fields>>)]

(* SQClass::NewSlot: a field is overridden in place, whatever the value is. *)
WithMember(c, k, closure, static) ==
  IF IsField(c, k) THEN c
  ELSE IF closure /\ k = "mm" THEN [c EXCEPT !.meta = TRUE]
  ELSE IF (closure \/ static) /\ IsMethod(c, k) THEN c
  ELSE IF closure \/ static
  THEN [c EXCEPT !.methods = @ + 1, !.members = Placed(@, k, <<"method", c.methods>>),
                 !.ctor = IF k = "constructor" THEN c.methods ELSE @]
  ELSE [c EXCEPT !.fields = @ + 1, !.members = Placed(@, k, <<"field", c.fields>>)]

(* c and the classes it is derived from; a base is older than its class. *)
Bases(c) ==
  LET up[d \in 0 .. c] == IF d = 0 THEN {} ELSE {d} \union up[classes[d].base] IN up[c]

(* What sq_getmemberhandle keeps of a member, and whether that place exists. *)
MemberHandle(c, k) == c.members[k]
HandleExists(c, h) == h[2] \in 0 .. (IF h[1] = "field" THEN c.fields ELSE c.methods) - 1

(* SQClass::Lock locks the bases too. *)
Locked(c) == [d \in DOMAIN classes |-> [classes[d] EXCEPT !.locked = @ \/ d \in Bases(c)]]

(* SQInstance: it has a place for each field that the class has now. *)
SQInstance(c) == [class |-> c, values |-> classes[c].fields, udsize |-> classes[c].udsize]
-----------------------------------------------------------------------------
(* Objects and delegates. *)

DelegateOf(o) ==
  CASE o[1] = "table" -> delegate[o[2]]
    [] o[1] = "userdata" -> udelegate
    [] OTHER -> 0

Has(o, k) ==
  CASE o[1] = "table" -> k \in slots[o[2]]
    [] o[1] = "class" -> k \in DOMAIN classes[o[2]].members
    [] o[1] = "instance" -> k \in DOMAIN classes[instances[o[2]].class].members
    [] OTHER -> FALSE

(* SQInstance::Set: only a field can be set. *)
Reachable(op, o, k) ==
  IF op = "Set" /\ o[1] = "instance" THEN IsField(classes[instances[o[2]].class], k) ELSE Has(o, k)

(* SQDelegable::GetMetaMethod looks into the delegate and no further. *)
HasMetaMethod(o) ==
  IF o[1] = "instance" THEN classes[instances[o[2]].class].meta
  ELSE DelegateOf(o) # 0 /\ "mm" \in slots[DelegateOf(o)]

(* A table and the tables it delegates to. *)
Chain(t) ==
  LET Reach[n \in 0 .. Len(delegate)] == IF n = 0 THEN {t} ELSE Reach[n - 1] \union {delegate[u] : u \in Reach[n - 1] \ {0}}
  IN Reach[Len(delegate)] \ {0}

MakesCycle(t, mt) == mt # 0 /\ t \in Chain(mt)
-----------------------------------------------------------------------------
(* Frames. *)
Scripts == Cardinality({i \in DOMAIN frames : frames[i].op = "Script"})
Frame(op, o, k, raise, root) == [op |-> op, self |-> o, key |-> k, raise |-> raise, root |-> root, pc |-> "lookup"]
Script == Frame("Script", Nowhere, "x", FALSE, FALSE)
Top == Last(frames)
At(ops, pc) == frames # <<>> /\ Top.op \in ops /\ Top.pc = pc

(* The program, or a metamethod, is running. *)
Running == frames # <<>> => Top.op = "Script"

(* The slot that a lookup must find before it calls any metamethod: the    *)
(* nearest one along the delegates and, for Get, that of the default       *)
(* delegate behind the last of them.                                       *)
Expected(op, o, k) ==
  LET start == CASE o[1] = "table" -> o[2] [] o[1] = "userdata" /\ op = "Get" -> udelegate [] OTHER -> 0
      tables == IF start = 0 THEN {} ELSE Chain(start)
      nearest == {u \in tables : k \in slots[u] /\ \A v \in tables : k \in slots[v] => v \in Chain(u)}
      own == IF (o[1] = "instance" \/ (o[1] = "class" /\ op = "Get")) /\ Reachable(op, o, k) THEN {o} ELSE {}
      found == {<<"table", u>> : u \in nearest} \union own
  IN IF found = {} /\ op = "Get" /\ k \in Default /\ (tables # {} \/ o[1] = "class")
     THEN {DefaultDelegate} ELSE found

(* The objects that it asks one after the other, and which may have a      *)
(* metamethod for it; that of an instance comes before its default         *)
(* delegate.                                                               *)
Along(op, o) ==
  IF o[1] = "table" THEN {<<"table", u>> : u \in Chain(o[2])}
  ELSE {o} \union (IF o[1] = "userdata" /\ op = "Get" /\ udelegate # 0 THEN {<<"table", u>> : u \in Chain(udelegate)} ELSE {})

Lookup(op, o, k) ==
  [expected |-> Expected(op, o, k),
   behind |-> IF op = "Get" /\ o[1] = "instance" /\ k \in Default THEN {DefaultDelegate} ELSE {},
   hooked |-> \E p \in Along(op, o) : HasMetaMethod(p),
   answer |-> "none"]

(* Set goes to the root table and not to its delegates.                    *)
RootLookup(op, k) ==
  IF op = "Get" THEN Lookup(op, <<"table", Root>>, k)
  ELSE [NoLookup EXCEPT !.expected = IF k \in slots[Root] THEN {<<"table", Root>>} ELSE {}]

Access(op, o, k, root) ==
  [NoAccess EXCEPT !.op = op, !.lookup = Lookup(op, o, k), !.root = root /\ (op = "Set" => o[1] # "class")]

(* No metamethod is running in these calls: they are the program's own.    *)
Own(calls) == \A i \in DOMAIN calls : calls[i].op # "Script"

(* Bound: a metamethod that is nested too deeply starts no operation. *)
Begin(op, o, k, root) ==
  /\ Running /\ Scripts < world.calls
  /\ frames' = Append(frames, Frame(op, o, k, TRUE, root))
  /\ last' = IF frames = <<>>
             THEN IF op \in {"Get", "Set"} THEN Access(op, o, k, root) ELSE NoAccess
             ELSE last
  /\ ret' = NoResult
  /\ UNCHANGED <<world, lasterror, nmeta, vtop>>

Goto(pc) ==
  /\ frames' = [frames EXCEPT ![Len(frames)].pc = pc]
  /\ ret' = NoResult
  /\ UNCHANGED <<world, heap, lasterror, nmeta, vtop, last>>

Nest(pc, frame) ==
  /\ frames' = Append([frames EXCEPT ![Len(frames)].pc = pc], frame)
  /\ UNCHANGED <<world, heap, ret, lasterror, nmeta, vtop, last>>

(* The call on top returns; the outcome of the program's own is kept. *)
PopFrame(ok, from) ==
  /\ frames' = Front(frames)
  /\ ret' = IF Len(frames) > 1 THEN [ok |-> ok, from |-> from] ELSE NoResult
  /\ UNCHANGED world

Return(ok, from) ==
  /\ PopFrame(ok, from)
  /\ last' = IF Len(frames) > 1 \/ last = NoAccess THEN last
             ELSE [last EXCEPT !.ended = TRUE, !.result = [ok |-> ok, from |-> from]]

Keep == UNCHANGED <<lasterror, nmeta, vtop>>
Fail(error) == lasterror' = error /\ Return(FALSE, Nowhere) /\ UNCHANGED <<heap, nmeta, vtop>>

(* What is noted of the access, for the calls that it makes itself. *)
Note(calls, access) == last' = IF last = NoAccess \/ ~Own(calls) THEN last ELSE access
Answered(calls, answer) == Note(calls, [last EXCEPT !.lookup.answer = answer])

(* The call of a metamethod, with what is pushed for it; it is counted, so *)
(* that the stack is not reallocated meanwhile, but not by CLASS_OP.       *)
CallMetaMethod(pushed, counted) ==
  /\ frames' = Append([frames EXCEPT ![Len(frames)].pc = "called"], Script)
  /\ nmeta' = nmeta + counted
  /\ vtop' = vtop + pushed
  /\ Answered(frames, "awaited")
  /\ ret' = NoResult
  /\ UNCHANGED <<world, heap, lasterror>>

(* Mutant: what was pushed is left there when the metamethod failed. *)
MutCalled(pushed, counted) ==
  nmeta' = nmeta - counted /\ vtop' = IF ret.ok THEN vtop - pushed ELSE vtop
Called(pushed, counted) == nmeta' = nmeta - counted /\ vtop' = vtop - pushed
-----------------------------------------------------------------------------
(* Metamethods, and the operations that need one step. *)
Mutation ==
  /\ Running
  /\ last' = IF frames = <<>> THEN NoAccess ELSE last
  /\ ret' = NoResult
  /\ UNCHANGED <<world, frames, nmeta, vtop>>

ScriptReturn ==
  /\ At({"Script"}, "lookup")
  /\ PopFrame(TRUE, MetaMethod) /\ Answered(Front(frames), "value")
  /\ Keep /\ UNCHANGED heap

(* throw null is the clean failure: as if there were no metamethod.  Of an *)
(* error only that of the object's own metamethod ends the access: what    *)
(* fails in a delegate does not.                                           *)
ScriptThrow ==
  /\ At({"Script"}, "lookup")
  /\ \E e \in {"null", "error"} :
       /\ lasterror' = e
       /\ PopFrame(FALSE, Nowhere) /\ Answered(Front(frames), IF Len(frames) = 2 THEN e ELSE "null")
  /\ UNCHANGED <<heap, nmeta, vtop>>

sq_newtable ==
  /\ Mutation /\ Len(slots) < world.tables
  /\ slots' = Append(slots, {}) /\ delegate' = Append(delegate, 0)
  /\ UNCHANGED <<udelegate, classes, instances, lasterror>>

sq_setdelegate ==
  /\ Mutation
  /\ \/ \E t \in Table, mt \in Table \union {0} :
          /\ delegate' = IF MakesCycle(t, mt) THEN delegate ELSE [delegate EXCEPT ![t] = mt]
          /\ lasterror' = IF MakesCycle(t, mt) THEN "error" ELSE lasterror
          /\ UNCHANGED udelegate
     \/ \E mt \in Table \union {0} : world.userdata /\ udelegate' = mt /\ UNCHANGED <<delegate, lasterror>>
  /\ UNCHANGED <<slots, classes, instances>>

(* SQClass::NewSlot, whose refusal sq_rawset does not report. *)
ClassNewSlot(c, k, closure, static) ==
  classes' = IF NewSlotFails(classes[c], k, closure, static) THEN classes
             ELSE [classes EXCEPT ![c] = WithMember(@, k, closure, static)]

sq_rawset ==
  /\ Mutation
  /\ \/ \E t \in Table, k \in Name : slots' = [slots EXCEPT ![t] = @ \union {k}] /\ UNCHANGED <<classes, lasterror>>
     \/ \E c \in DOMAIN classes, k \in Member, closure \in BOOLEAN :
          ClassNewSlot(c, k, closure, FALSE) /\ UNCHANGED <<slots, lasterror>>
     \/ \E i \in DOMAIN instances, k \in Member :
          /\ lasterror' = IF Reachable("Set", <<"instance", i>>, k) THEN lasterror ELSE "error"
          /\ UNCHANGED <<slots, classes>>
  /\ UNCHANGED <<delegate, udelegate, instances>>

sq_rawdeleteslot ==
  /\ Mutation
  /\ \E t \in Table, k \in Name : slots' = [slots EXCEPT ![t] = @ \ {k}]
  /\ UNCHANGED <<delegate, udelegate, classes, instances, lasterror>>

sq_rawnewmember ==
  /\ Mutation
  /\ \E c \in DOMAIN classes, k \in Member, closure, static \in BOOLEAN :
       /\ ClassNewSlot(c, k, closure, static)
       /\ lasterror' = IF NewSlotFails(classes[c], k, closure, static) THEN "error" ELSE lasterror
  /\ UNCHANGED <<slots, delegate, udelegate, instances>>

sq_newclass ==
  /\ Mutation /\ Len(classes) < world.classes
  /\ \E b \in 0 .. Len(classes) : classes' = Append(classes, SQClass(b))
  /\ UNCHANGED <<slots, delegate, udelegate, instances, lasterror>>

sq_setclassudsize ==
  /\ Mutation
  /\ \E c \in DOMAIN classes :
       /\ classes' = IF classes[c].locked THEN classes ELSE [classes EXCEPT ![c].udsize = 1]
       /\ lasterror' = IF classes[c].locked THEN "error" ELSE lasterror
  /\ UNCHANGED <<slots, delegate, udelegate, instances>>

(* SQClass::CreateInstance locks the class and its bases. *)
CreateInstance(c) ==
  /\ Len(instances) < world.instances
  /\ instances' = Append(instances, SQInstance(c))
  /\ classes' = Locked(c)
  /\ UNCHANGED <<slots, delegate, udelegate>>

sq_createinstance == Mutation /\ UNCHANGED lasterror /\ \E c \in DOMAIN classes : CreateInstance(c)
-----------------------------------------------------------------------------
(* Get and Set. *)
Start(ops) ==
  /\ UNCHANGED heap
  /\ \E op \in ops, o \in Object, k \in {"x"} \union Default, root \in BOOLEAN :
       /\ op = "Set" => k = "x"
       /\ Begin(op, o, k, root)

BeginAccess == Start({"Get", "Set"})

Delegated(op) == Frame(op, <<"table", DelegateOf(Top.self)>>, Top.key, op = "Set", FALSE)

Found == Return(TRUE, Top.self) /\ Keep /\ UNCHANGED heap

(* Mutant: an object's own metamethod is called before its delegate is asked. *)
MutGetLookup ==
  /\ At({"Get"}, "lookup")
  /\ IF Reachable("Get", Top.self, Top.key) THEN Found
     ELSE IF Top.self[1] = "instance" \/ HasMetaMethod(Top.self) THEN Goto("meta")
     ELSE IF DelegateOf(Top.self) = 0 THEN Goto("default")
     ELSE Nest("delegated", Delegated("Get"))

GetLookup ==
  /\ At({"Get"}, "lookup")
  /\ IF Reachable("Get", Top.self, Top.key) THEN Found
     ELSE IF Top.self[1] = "instance" THEN Goto("meta")
     ELSE IF DelegateOf(Top.self) = 0 THEN Goto("default")
     ELSE Nest("delegated", Delegated("Get"))

(* A userdata delegates Get and not Set. *)
SetLookup ==
  /\ At({"Set"}, "lookup")
  /\ IF Top.self[1] = "class" THEN Fail("error")
     ELSE IF Reachable("Set", Top.self, Top.key) THEN Found
     ELSE IF Top.self[1] = "table" /\ DelegateOf(Top.self) # 0 THEN Nest("delegated", Delegated("Set"))
     ELSE Goto("meta")

(* What fails in the delegate, its metamethod's error included, does not   *)
(* keep the object's own metamethod from being called.                     *)
AfterDelegate ==
  /\ At({"Get", "Set"}, "delegated")
  /\ IF ret.ok THEN Return(TRUE, ret.from) /\ Keep /\ UNCHANGED heap ELSE Goto("meta")

AccessMeta ==
  /\ At({"Get", "Set"}, "meta")
  /\ IF HasMetaMethod(Top.self) THEN CallMetaMethod(IF Top.op = "Get" THEN 2 ELSE 3, 1)
     ELSE Goto(IF Top.op = "Get" THEN "default" ELSE "root")

AccessCalled ==
  /\ At({"Get", "Set"}, "called")
  /\ Called(IF Top.op = "Get" THEN 2 ELSE 3, 1)
  /\ UNCHANGED <<heap, lasterror>>
  /\ IF ret.ok \/ lasterror # "null" THEN Return(ret.ok, ret.from)
     ELSE /\ frames' = [frames EXCEPT ![Len(frames)].pc = IF Top.op = "Get" THEN "default" ELSE "root"]
          /\ ret' = NoResult
          /\ UNCHANGED <<world, last>>

InvokeDefaultDelegate ==
  /\ At({"Get"}, "default")
  /\ IF Top.key \in Default /\ Top.self[1] # "userdata" THEN Return(TRUE, DefaultDelegate) /\ Keep /\ UNCHANGED heap
     ELSE Goto("root")

NoMatch ==
  IF Top.raise THEN Fail("error") ELSE Return(FALSE, Nowhere) /\ Keep /\ UNCHANGED heap

(* An access through this, if all else failed, goes to the root table. *)
AskRoot ==
  LET asked == [frames EXCEPT ![Len(frames)].pc = "rooted"]
  IN /\ frames' = IF Top.op = "Set" THEN asked
                  ELSE Append(asked, Frame("Get", <<"table", Root>>, Top.key, TRUE, FALSE))
     /\ Note(frames, [last EXCEPT !.before = last.lookup, !.lookup = RootLookup(Top.op, Top.key), !.root = FALSE])
     /\ UNCHANGED <<world, heap, ret>> /\ Keep

RootFallback == At({"Get", "Set"}, "root") /\ IF Top.root THEN AskRoot ELSE NoMatch

AfterRoot ==
  /\ At({"Get", "Set"}, "rooted")
  /\ IF Top.op = "Get" /\ ret.ok THEN Return(TRUE, ret.from) /\ Keep /\ UNCHANGED heap
     ELSE IF Top.op = "Set" /\ Top.key \in slots[Root] THEN Return(TRUE, <<"table", Root>>) /\ Keep /\ UNCHANGED heap
     ELSE NoMatch
-----------------------------------------------------------------------------
(* New slots, deleted slots, clones, classes and calls of classes. *)
Operand(kinds, ops) ==
  /\ UNCHANGED heap
  /\ \E op \in ops, o \in Object : o[1] \in kinds /\ Begin(op, o, "x", FALSE)

BeginSlot == Operand({"table", "instance"}, {"NewSlot", "DeleteSlot"})
BeginClone ==
  /\ UNCHANGED heap
  /\ \E o \in Object :
       /\ CASE o[1] = "table" -> Len(slots) < world.tables
            [] o[1] = "instance" -> Len(instances) < world.instances
            [] OTHER -> FALSE
       /\ Begin("Clone", o, "x", FALSE)
BeginMember == UNCHANGED heap /\ \E c \in DOMAIN classes, k \in Member : Begin("NewMember", <<"class", c>>, k, FALSE)

Returns(ok) == Return(ok, Nowhere) /\ Keep

(* A table asks its delegate only for a key that it has not. *)
NewSlot ==
  /\ At({"NewSlot"}, "lookup")
  /\ IF HasMetaMethod(Top.self) /\ (Top.self[1] = "table" => ~Has(Top.self, Top.key)) THEN CallMetaMethod(3, 1)
     ELSE IF Top.self[1] = "instance" THEN Fail("error")
     ELSE /\ slots' = [slots EXCEPT ![Top.self[2]] = @ \union {Top.key}]
          /\ Returns(TRUE)
          /\ UNCHANGED <<delegate, udelegate, classes, instances>>

DeleteSlot ==
  /\ At({"DeleteSlot"}, "lookup")
  /\ IF HasMetaMethod(Top.self) THEN CallMetaMethod(2, 1)
     ELSE IF Top.self[1] = "table" /\ Has(Top.self, Top.key)
     THEN /\ slots' = [slots EXCEPT ![Top.self[2]] = @ \ {Top.key}]
          /\ Returns(TRUE)
          /\ UNCHANGED <<delegate, udelegate, classes, instances>>
     ELSE Fail("error")

(* The copy has the delegate of the original, whose _cloned is called. *)
Clone ==
  /\ At({"Clone"}, "lookup")
  /\ IF Top.self[1] = "table"
     THEN /\ slots' = Append(slots, slots[Top.self[2]]) /\ delegate' = Append(delegate, DelegateOf(Top.self))
          /\ UNCHANGED instances
     ELSE /\ instances' = Append(instances, instances[Top.self[2]])
          /\ UNCHANGED <<slots, delegate>>
  /\ frames' = [frames EXCEPT ![Len(frames)].pc = "cloned"]
  /\ UNCHANGED <<world, udelegate, classes, ret, last>> /\ Keep

CloneMeta ==
  /\ At({"Clone"}, "cloned")
  /\ IF HasMetaMethod(Top.self) THEN CallMetaMethod(2, 1) ELSE Returns(TRUE) /\ UNCHANGED heap

(* The metamethod _newmember takes the place of the new member. *)
NewSlotA ==
  /\ At({"NewMember"}, "lookup")
  /\ IF classes[Top.self[2]].meta THEN CallMetaMethod(5, 1)
     ELSE \E closure, static \in BOOLEAN :
          IF NewSlotFails(classes[Top.self[2]], Top.key, closure, static) THEN Fail("error")
          ELSE /\ ClassNewSlot(Top.self[2], Top.key, closure, static)
               /\ Returns(TRUE)
               /\ UNCHANGED <<slots, delegate, udelegate, instances>>

(* CLASS_OP: a derived class inherits the metamethod that is then called. *)
CLASS_OP ==
  /\ Len(classes) < world.classes
  /\ \E b \in 0 .. Len(classes) :
       /\ classes' = Append(classes, SQClass(b))
       /\ Begin("ClassOp", <<"class", Len(classes) + 1>>, "x", FALSE)
  /\ UNCHANGED <<slots, delegate, udelegate, instances>>

Inherited ==
  /\ At({"ClassOp"}, "lookup")
  /\ IF classes[Top.self[2]].meta THEN CallMetaMethod(2, 0) ELSE Returns(TRUE) /\ UNCHANGED heap

(* The call of a class makes an instance and calls the constructor with it. *)
CreateClassInstance ==
  \E c \in DOMAIN classes : CreateInstance(c) /\ Begin("New", <<"instance", Len(instances) + 1>>, "constructor", FALSE)

GetConstructor ==
  /\ At({"New"}, "lookup")
  /\ IF classes[instances[Top.self[2]].class].ctor # -1 THEN CallMetaMethod(0, 0) ELSE Returns(TRUE) /\ UNCHANGED heap

Pushed(op) ==
  CASE op \in {"Set", "NewSlot"} -> 3
    [] op \in {"Get", "DeleteSlot", "Clone", "ClassOp"} -> 2
    [] op = "NewMember" -> 5
    [] OTHER -> 0
Counted(op) == IF op \in {"ClassOp", "New"} THEN 0 ELSE 1

MetaCalled ==
  /\ At({"NewSlot", "DeleteSlot", "Clone", "NewMember", "ClassOp", "New"}, "called")
  /\ Called(Pushed(Top.op), Counted(Top.op))
  /\ Return(ret.ok, Nowhere)
  /\ UNCHANGED <<heap, lasterror>>

Next ==
  \/ ScriptReturn \/ ScriptThrow
  \/ sq_newtable \/ sq_setdelegate \/ sq_rawset \/ sq_rawdeleteslot
  \/ sq_newclass \/ sq_setclassudsize \/ sq_rawnewmember \/ sq_createinstance
  \/ BeginAccess \/ GetLookup \/ SetLookup \/ AfterDelegate \/ AccessMeta \/ AccessCalled
  \/ InvokeDefaultDelegate \/ RootFallback \/ AfterRoot
  \/ BeginSlot \/ NewSlot \/ DeleteSlot \/ BeginClone \/ Clone \/ CloneMeta
  \/ BeginMember \/ NewSlotA \/ CLASS_OP \/ Inherited
  \/ CreateClassInstance \/ GetConstructor \/ MetaCalled

Spec == Init /\ [][Next]_vars
-----------------------------------------------------------------------------
(* sq_getmemberhandle keeps the kind and the place of a member; it is used *)
(* with the class and its instances whenever the host likes, so the place  *)
(* must exist for ever, and stay that of the member: a field never moves,  *)
(* and a method only when a field takes its name.                          *)
HandlesStay ==
  [][\A c \in DOMAIN classes : \A k \in DOMAIN classes[c].members :
       \/ MemberHandle(classes'[c], k) = MemberHandle(classes[c], k)
       \/ IsMethod(classes[c], k) /\ IsField(classes'[c], k) /\ ~classes[c].locked]_vars

(* Every member has a place of its own among the fields or the methods of  *)
(* its class, inherited or not; _constructoridx is a method, that of the   *)
(* name constructor unless a field has taken the name; and an instance has *)
(* the fields and the user data that its class has: locking the class and  *)
(* its bases must keep both as they were when the instance was made.       *)
LayoutSound ==
  /\ \A i \in DOMAIN classes :
       LET c == classes[i]
           places == {MemberHandle(c, k) : k \in DOMAIN c.members}
       IN /\ Cardinality(places) = Cardinality(DOMAIN c.members)
          /\ \A p \in places : HandleExists(c, p)
          /\ c.ctor \in -1 .. c.methods - 1
          /\ IsMethod(c, "constructor") => c.members["constructor"][2] = c.ctor
  /\ \A i \in DOMAIN instances :
       LET c == classes[instances[i].class]
       IN instances[i].values = c.fields /\ instances[i].udsize = c.udsize

(* A lookup that finds nothing has asked every metamethod on its way. *)
Missed(lookup) ==
  /\ lookup.expected = {} /\ lookup.behind = {}
  /\ lookup.answer = "null" \/ (lookup.answer = "none" /\ ~lookup.hooked)

(* A lookup finds the nearest slot along the delegates, whichever of the   *)
(* tables have metamethods, and calls none of them for it; where there is  *)
(* no slot, it ends with the value or the error of the last metamethod it  *)
(* called, or finds what is behind; only when all that has failed the root *)
(* table is asked, where it may be, by the same rules and for the slots    *)
(* that it has by then; and the access fails only when that has failed too.*)
NearestSlot ==
  /\ Missed(last.before)
  /\ last.ended =>
       LET l == last.lookup
           found == last.result.ok
           from == last.result.from
       IN \/ l.expected # {} /\ l.answer = "none" /\ found /\ from \in l.expected
          \/ l.expected = {} /\ l.answer = "value" /\ found /\ from = MetaMethod
          \/ l.expected = {} /\ Missed([l EXCEPT !.behind = {}]) /\ found /\ from \in l.behind
          \/ l.expected = {} /\ l.answer = "error" /\ ~found
          \/ Missed(l) /\ ~last.root /\ ~found

(* The sum of the amounts, one per frame, of the calls that wait for a     *)
(* metamethod.                                                             *)
Awaiting(amount) ==
  LET upTo[n \in 0 .. Len(frames)] ==
        IF n = 0 THEN 0 ELSE upTo[n - 1] + (IF frames[n].pc = "called" THEN amount[n] ELSE 0)
  IN upTo[Len(frames)]

(* Whatever returns or throws, the stack of the VM holds exactly what the  *)
(* operations that wait for a metamethod have pushed, and                  *)
(* _nmetamethodscall counts them.                                          *)
StackHeld ==
  /\ vtop = Awaiting([i \in DOMAIN frames |-> Pushed(frames[i].op)])
  /\ nmeta = Awaiting([i \in DOMAIN frames |-> Counted(frames[i].op)])
=============================================================================

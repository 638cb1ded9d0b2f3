# A TLA+ model of sqnim

sqnim is a Nim binding of the Squirrel scripting language.  The repository holds
Squirrel itself, the compiler, virtual machine and libraries in C++
(`src/src/private/squirrel`), and a thin layer of declarations in Nim.  This
directory models Squirrel: TLC checks the models on small instances and TLAPS
proves the most important facts for every instance.

## The system

| part | state it keeps | operations | what makes it correct |
|---|---|---|---|
| hash table (`sqtable`) | array of nodes (key, val, next), free pointer, counter | Get, Set, NewSlot, Remove, Clear, Clone, Rehash | it is a map; no loop runs off a chain or for ever |
| host references (`sqstate`, `RefTable`) | array of nodes, buckets, free list | AddRef, Release, GetRefCount, Resize | what the host holds is a root of the collector |
| execution core (`sqvm`, `SQGenerator`, `sq_call` ...) | call frames, exception traps, generators, counters, what a suspended VM saved | call, return, yield, resume, throw, metamethod, native, tail call, suspend, wake up | frames, traps and C++ activations agree; an error reaches its handler |
| captured variables (`SQOuter`) | list of open outers that point into the stack | FindOuter, CloseOuters, RelocateOuters | a closure sees its variable, on the stack or after its frame has ended |
| object access (`SQVM::Get`, `Set`, `NewSlot`, `Clone` ...) | what it has pushed, `_nmetamethodscall`, the last error | fall-back to delegates, metamethods, default delegates, root table | the nearest slot is found, and the stack restored, while metamethods change the objects |
| delegates (`SQDelegable`) | one pointer per table or userdata | SetDelegate | no cycle |
| reference counts, weak references, collector (`sqobject`, `sqstate`) | counters, the chain of collectables, marks | AddRef, Release, Mark, CollectGarbage | nothing reachable is freed, cycles are |
| string table (`sqstate`) | buckets of interned strings | Add, Remove, Resize | equal strings are one object |
| classes and instances (`sqclass`) | members, defaults, methods, locked | NewSlot, inheritance, CreateInstance, member handles | an instance has the layout of its class, for ever |
| arrays (`sqarray`, `squtils`, the array functions of `sqbaselib`) | a vector; the locals of map, apply, filter, reduce and sort | append, insert, remove, resize, sort | the functions survive what the function they call does to the array |
| lexer (`sqlexer`) | current character, line, current and previous token | Lex | lines and the end of statements are right; it stops at the end |
| compiler, function state (`sqcompiler`, `sqfuncstate`) | target stack, registers, scopes, traps, unresolved jumps, instructions | statements and expressions; AddInstruction | emitted code keeps registers, traps and jumps balanced |
| serialization (`SQFunctionProto::Save`, `Load`) | a byte stream | write, read | Load gives back what Save wrote |
| embedding API (`sqapi`), base library (`sqbaselib`) | the value stack | push, pop, call, ... | |
| streams, blobs and files (`sqstdstream`, `sqstdblob`, `sqstdio`) | buffers with sizes and positions, handles of files and who owns them, the buffer that feeds the lexer | read, write, seek, close, loadfile | a blob is a string of bytes with a position; each file is closed once |
| regular expressions, strings, maths, system (`sqstdlib`) | compiled regular expressions | match, split, format ... | a match is one |
| Nim binding (`sqnim.nim`, `util.cpp`) | none | declarations | |

The VM runs on one thread.  What is hard about it is reentrancy.  Execute is
called again by metamethods, by natives through `sq_call`, by the error handler
and by the host; frames of script functions live on a stack of their own, so a
script call is no C++ call; a generator takes its frame and traps off the stack
and puts them back elsewhere; a VM can be suspended in the middle of a native
call and continued by another Execute; and an error unwinds all of it.  State
that is kept twice (`traps`, `_etraps`, `ci->_etraps`; `_nnativecalls`; `_root`)
has to be moved on each of these paths.  The second kind of difficulty is in
the data structures: chains threaded through arrays that are reused in place.

`PROJECT.json` lists every part with its source files, and under `hazards` the
places where things can go wrong that a test would hardly reach.

The parts meet in these places.  The compiler pulls characters through the lexer
from a reader that pulls them from a file; what it emits decides when exception
traps are pushed and outers are closed.  The execution core runs its code, calls
metamethods from within object access, and is called back by the array functions
and by natives.  Object access stores in tables, arrays and instances, and every
store changes reference counts.

## Modules

**SQTable** models `sqtable.cpp`.  The fields of `SQTable` are variables of the
same names.  The loops of the code are steps: `pc` says which loop is running
(`walk` is `_Get`, `prev` the search for a colliding node's predecessor,
`rehash` the loop of Rehash, `create` that of the constructor) and `cur` is its
cursor.  So termination is a liveness property and the correctness of a loop
needs an invariant.  `okey, oval, osize, ri` are the locals of Rehash,
`pk, pv` the arguments of the NewSlot that waits for it.  One set of these locals
is enough: a Rehash inside a Rehash would lose the pairs of the outer one, which
ImplementsMap would show.  The loop that corrects `_firstfree` is
one step (Settle).  Clear empties the nodes and rebuilds in one step, because
nothing is reinserted.  Clone rebuilds into a table of the same size and the
model goes on with the clone.  Keys are abstract with a hash each (`Hash`), and
the hash of null is 0, as that of a null pointer.  Values are stored as they
are: weak references (`_realval`) are not modelled.

**SQMap** is what a table promises: a call waits, takes effect at once, and
returns.  `SQTable!ImplementsMap` states that SQTable implements it.  MapOf is
the refinement mapping: while Rehash runs a pair is in the old array, in the new
one, or in the hands of the NewSlot that moves it.

**SQTableProofs** holds the theorems on SQTable: the shape of its array, and that it
implements SQMap.  In the same way **RefTableProofs**, **SQVMProofs**,
**OutersProofs**, **CollectorProofs**, **SQObjectsProofs** and **SQArrayProofs** hold
those on the module of that name, and **LoadFileProofs** those on the lexer, on
files and on blobs.

**RefTable** models the reference table.  Chains are computed from the links
(`Chain`), each API call is one step.  Resize is only called when every node is
in use and is modelled by what its loop computes: node n goes to node n, each
bucket in reverse order.  `held` is what the host has added and not released.
GetRefCount puts an object in the table that nobody holds; Resize asserts that
there is none.  The history `failed` says that this assertion has failed, `unheld`
that the table has grown with such an object, and HeldIsCounted that the two are
the same.  The model
goes on as a build without assertions does.

**SQVM** models the execution core.  `callsstack` is the stack of CallInfo,
`etraps` that of exception traps, `gens` the generators with the traps and
flags they save, `cstack` the C++ activations: an Execute with its locals
`traps` and `raiseerror` and how it was called, or a native function.  The
instructions of a script are those that change any of this; which one a running
function takes is left open.  `mode = "unwind"` is the loop of exception_trap,
one frame per step.  Positions of the value stack are numbers, its contents are
left out; every function has the same stack size and number of arguments
(StackSize, NParams).

A generator is made for scripts, which resume it with `resume`, or for the host
and its natives, which use `sq_resume` (the field `by`); one that is resumed
both ways keeps the flag `_root` of the other, see below.  `ForeachSpec` adds
foreach over a generator, which breaks an assertion of the code.  Natives make
tail calls only when a script has called them.

Left out of SQVM: growth of the value stack and of the call stack, debug hooks,
the run of the error handler itself (that it is called is `reported`), the
C++ class-constructor path of `_OP_CALL` (it is a call of a closure or native
with another target), `_notifyallexceptions`, and `_OP_TAILCALL`, which replaces
the running function in its frame and changes none of the modelled state.

**Outers** models the variables that closures capture.  A frame has a base, the
variables in its registers and its open scopes; an outer has its index, the
allocation of the stack that its `_valptr` points into, and the variable it was
made for.  `openouters` is the list `_openouters`.  What the compiler decides
(which scope a register belongs to, where `_OP_CLOSE` is emitted) is part of the
actions that leave a scope: EndScope, Break (break and continue), Catch.  Break
and Catch leave some captured variables open; the history variable `lost` holds
them.  OuterKeepsVariable says that all other closures see their variable, and
EveryOuterKeepsVariable that all do, which is what the comments on SQOuter say.
The stack is reallocated in two places.  EnterFrame relocates the open outers;
`sq_reservestack`, which a native calls (ReserveStack), does not, and leaves every
open outer pointing into the freed array (the history `reserved`) until EnterFrame
next reallocates.  When FindOuter or CloseOuters compares such a pointer it may stop
anywhere in the list: Stops leaves the outcome open, and `spoiled` says that it
has happened.  The three properties speak of the time before.
Left out: generators, which close their outers when they yield, the reference
counts of outers, and a continue in a for loop whose body is no block, which
closes the variables of the for statement early.

**Collector** models memory: `_uiRef`, weak references, the chain of
collectables and the collector of cycles.  Every SQObjectPtr is a slot, a root
or a field of an object.  An assignment counts up, then down; the Release that
this may cause runs the destructor one field per step, and Releases nest (the
stack `dying`).  CollectGarbage marks, then walks the chain of unreachable
objects one object at a time (Sweep, Finalize, Advance, EndSweep), while the
Releases that it causes remove objects from the same chain.  Marking moves one
object per step (Mark).  ResurrectUnreachable and the
closing of the shared state are modelled too.

Two sets of references are constants.  `Unmarked` are those that are counted and
that Mark does not follow: the `_closure` in the CallInfo of a generator, which Kill
leaves set, and the open outers of a VM.  `Kept` are those that Finalize
does not clear: that same `_closure`, the `_function`, `_base`, `_root` and `_env`
of a closure, the nested functions of a prototype.  So an object can be swept and
stay alive.  EndSweep puts what is left on the chain in `stray`, the lists that
`_gc_chain` no longer leads to, and sets `strayed`.  RemoveFromChain takes an
object without a predecessor for the head of `_gc_chain`: when that is the head of
a stray list, `_gc_chain` becomes the rest of it and what it was is stray.
References that are Kept close no cycle, because each leads to an object of a later
kind (`Level`).  Left out: release hooks, references that C++ locals hold, reading a
reference that is Unmarked after a sweep (a VM does when it closes an outer of its
own), and the loop of `~SQSharedState` that frees by force what its assertion
says is not there.

**SQCompiler** models the one-pass compiler as a pushdown machine.  `todo` is what
the parser has still to do, that is, its C++ stack: parse functions by name,
tokens that it will Expect and operations on the function state.  The grammar is
data (WhileStatement, FactorRule, Choice ...), one sequence for each path of a
parse function, with pushes and pops of targets, scopes and traps at the place
where the code has them.  `fs` are the function states with their registers
(`_vlocals`, of which the model keeps whether they have a name), `_targetstack`,
`_traps`, `_breaktargets`, `_continuetargets` and unresolved jumps; `es` and
`scopes` are the compiler's `_es` and `_scope` with the values that C++ locals
save.  The text is left open.  A token is chosen when the parser first looks at
it, among those that what comes next in the grammar tells apart (NextTokens);
any other is one and the same error.  A part that may follow and does not is
skipped without choosing the token (Pass).  Several tokens of a kind are one
("binary", "unary", "literal", "+="), and the last local variable stands for all
of them: it is the first to go out of scope.  A binary operator may end an operand
or continue it, which stands for all the levels of precedence.  A program that
exceeds a bound is given up like a wrong one.

`Odd` names the constructs that break an assertion of the compiler; the passing
runs leave them out, and compiler_asserts takes them in.  `_es` is not
initialized by the constructor: its type is then "UNSET", and where it is read
(`class x.y {}` as the first statement) both outcomes are possible.

Left out: the instructions, and with them the peephole of AddInstruction and
jump distances; names of variables; literals; line information.

**SQObjects** models object access, delegates and classes together.  `slots` and
`delegate` are the tables, `classes` and `instances` the objects of sqclass.h.
An operation is a stack of C++ calls, `frames`: each has what it works on, its
key, and `pc`, where it goes on when the call above returns with `ret`.  So Get
of a table whose delegate has a delegate is three frames, and each function of
sqvm.cpp (Get, FallBackGet, InvokeDefaultDelegate, the root table at the end) is
an action of its own.  A metamethod is a frame "Script", in which any operation
on any object can happen, nested up to `calls` deep, and which ends with a value,
an error or `throw null`, the way in which a metamethod says that it does not
know.  The slot or member "mm" stands for every metamethod.  `vtop` and `nmeta`
are what has been pushed on the stack of the VM and `_nmetamethodscall`.  A value
is known by where it was found; the history variable `last` keeps of the
program's own Get or Set what it should find before it calls a metamethod and
behind, how the last metamethod has answered, the same of the object itself when the
root table has been asked (`before`), and what it has found.  Members have a kind
and a place in `_defaultvalues` or `_methods`; members in the model are the few
names that a world has, one of them `constructor`.

**SQArray** models the vector (`vals` and `allocated`) and the functions of the
default delegate of arrays.  Those that call nothing are one step.  map, apply,
filter, reduce and sort are loops with a step for each call and each comparison:
`fn` holds their locals, `stack` what their frame of the value stack holds, and
between LoopCalls or SortCalls and the return of the call any function of the
first kind may change the same array, `MaxEdits` times.  What is called is not
assumed: `sq_call` looks for it below as many arguments as it is told (Callee,
This), and map and apply push as many as `__map_array` can.  A function of two to
four parameters is found; with another number the array, the function as its own
`this`, or a slot of the caller ("outside") is called.  What such a call overwrites
in the frame of the caller is not modelled.  The heap sort is
`_hsort_sift_down` as it stands: two comparisons that choose the child, one that
decides.  `consistent` tells a function that returns the order of the numbers from
one that may return anything, and `edited` says that the array was changed under
the sort, after which no order is promised.  `moved` says that the vector has a new
address, which _sort_compare looks at as well as at its size.

**Streams** models blobs and files.  `objects` holds for each instance its user
pointer: none, null (its constructor has not run), a blob (size, position and the
buffer, whose length is `_allocated`), or a file with its handle and `_owns`.
`handles` says which files of the C library are open; the host opens and closes
files of its own, and passes them to scripts.  `misused` is set when a handle is
used, or closed, after it was closed.  **ByteStreams** is what blobs promise, a
string of bytes with a position; Streams maps to it by dropping what is
allocated beyond the size.

**SQLexer** models the lexer one character at a time.  A character stands for its
class, and `at` is the place in Lex, ReadString, ReadNumber or ReadID between two
characters: `lexer.text` is what has been read of an operator, a delimiter or the
type of a number.  Actions with a parameter c take the next character (NEXT),
the others do not.  The histories `newlines` and `between` say what has been
passed in the text.

**LoadFile** composes both: sqstd_loadfile opens a file, looks at its first bytes
and reads the rest through IOBuffer, whose next character is the parameter of the
lexer's actions; then it closes the file on each of its ends.  Its next-state
relation has the steps of scripts and host (Streams) and those of a load, and a
load runs without the others, as it does in the code.  Which character comes next
is open, within the characters of one of `Texts`.

## Runs

| run | checks | instance |
|---|---|---|
| table | TypeOK, LookupSound, PreviousExists, ChainInv, ImplementsMap, and CallsReturn under weak fairness of the running call | 4 keys with hashes 3, 7, 11, 2: three collide in an array of 4, the fourth owns the end of their chain; initial sizes 0 and 5; null and one other value, which at most one key holds at a time (OneValue) |
| reftable | NodesAccounted, HeldIsCounted | five objects, so that the table of four grows; two releases |
| vm | TrapsMatchFrames, TrapsCounted, GeneratorOwnership, FramesNest, StackRestored, HandlerHearsUncaught | one generator, four frames, three nested native calls, one try block per function |
| outers | OpenListSorted, PointersValid, OuterKeepsVariable | three frames of two registers, three variables, two outers, two scopes, two reallocations, a reserve of one; behaviours end when a freed pointer is used (Unspoiled) |
| collector | CountExact, NoDangling, ChainExact, CollectsGarbage, ClosedEmpty | a generator, a closure and a class of two fields, of which Mark skips one and Finalize leaves three; two roots, which are symmetric; one weak reference, of the class, held once (FewWeak) |
| compiler | StatementsBalanced, TempsNest, TrapsExact, JumpsResolved, ScopesMine | six grammars: Statements and Jumps nest statements two and three deep, Assignments, Calls and Tables nest expressions with two expression states saved, Declarations has local variables and functions, parameters, classes and if |
| objects | LayoutSound, NearestSlot, StackHeld, HandlesStay | five worlds: Delegates, three tables; Nested, metamethods in metamethods and a userdata; Derived, two classes and two instances; Hooks, two classes with metamethods; Instances, a class with metamethods and a constructor; classes of at most 3 members |
| arrays | CallsFunction, SortInside, SortSorts, and FunctionsEnd under weak fairness of the library functions | arrays of up to 5 numbers 1 and 2, a smallest vector of 1, functions of 1 to 7 parameters that change the array at most once a call |
| files | FilesOnce, LinesCounted, PrevTokenRight, EndStays, ImplementsByteStreams | two instances, one file, blobs of up to 3 bytes 0 and 1, a buffer of 2 characters, texts of 4 to 6 characters of operators, comments, strings or numbers; instances are symmetric |
| vm_foreach, outers_throw, compiler_asserts | findings | as the runs above; compiler_asserts has a grammar with the odd constructs |

What they show beyond the names: table, that a table is a map whatever the
history of its chains; reftable, that what the host holds stays a root; vm, that
an error reaches its handler and no other, and that a call from the host leaves
nothing behind; collector, that nothing in use is freed, and what of the rest is not;
compiler, that a register is never given up while it is in use and that every
jump takes down exactly the traps that it leaves, which is what the vm run
assumes of a function's code; objects, that lookups find the nearest slot although
a metamethod may rebuild what they walk on, and that an instance fits its class
through inheritance and locking; arrays, that the sort stays inside an array that
its own comparison may resize; files, that the five ends of a load, the release of an
instance and the host never close a file twice or forget it, and that the lexer
ends on every text.

Why the bounds are enough.  A table of four nodes is full with four keys, so
four colliding keys make every branch of NewSlot, growth and shrinking happen;
a fifth key would only lengthen chains.  OneValue keeps the run small: a value
that goes astray is seen with one that is not null as well as with many, for
which key holds it varies.  Four frames hold a root, a call, a
native or metamethod and what it calls; one generator is enough for it to be
moved from one place of the stack to another with a trap in it.  `MaxTop` bounds
`_top` where a native or the host makes a call: a VM that is called while it is
suspended keeps the arguments of each call.  Two outers are enough for a list
with an order, and the second of three frames does not fit the first stack, so
that it moves while a frame below has open outers; a second reallocation lets a frame
relocate what a native has left, or a native follow a frame.  Three objects form a
cycle
with a third that hangs on it, or that the sweep has just left or is about to
reach; and the generator, its closure and the base of that are the shortest path of
references that Mark skips and Finalize leaves.  Functions of one to seven
parameters find each of the things that `sq_call` may find: an eighth only moves
further into the caller.  In the compiler three levels hold a try in a loop in a switch and a
function in any of them; two levels of expressions hold every construct of their
grammar as an operand, argument, key and default value of every other, and the
targets that one leaves behind are seen at the next statement.  Three tables
make a chain of delegates whose middle is taken out while its far end is asked.
Each world of the objects run is small in what the others are large in: classes
meet delegates only through metamethods, which may do the same in any world.  An
array of five elements is a heap of three levels with an element that is its own
child.  A blob of three bytes grows by doubling and by what is missing, and shrinks
below its position; it holds one word of two bytes and none of four, so swap4
leaves it alone.  A handle is opened once and never again, which a second handle
would only repeat.  Texts of six characters hold a comment with a newline and a
star in it between two tokens, or an escape and a verbatim string, and cross the
end of the buffer twice.

Four restrictions leave out what is known to go wrong, listed below: the sort
compares numbers only and so calls no `_cmp` (`sqbaselib.cpp:797`); the constructor
of a stream is called once; a blob is written into itself only where the write
keeps the buffer; and what follows the use of a pointer that sq_reservestack has
left dangling is not followed (Unspoiled).  Others say when something happens and not what: a
script is loaded when no streams exist, and the host gives a file away only when no
instance refers to it.

Fairness.  table assumes weak fairness of Step, that is, that a call which has
begun goes on.  arrays assumes weak fairness of the steps of the library functions
themselves, for the C++ code goes on by itself; that a function which they call
returns is part of Returns and SortReturns, so that FunctionsEnd says: if the
functions that are called end, so does the loop that calls them.  The VM has one
thread, and no loop of sqtable.cpp or of the array functions waits for anything.

Deadlock is checked in every run.

## Findings

Each is a run with a counterexample that TLC finds.

- `vm_foreach`: foreach over a generator with an open try block miscounts traps,
  against `assert(traps==0)`.
- `outers_throw`: catching an error closes none of the try block's captured
  variables, and the catch variable is written over the first.
- `compiler_asserts`: `base++`, `delete base`, `class base {}`, `x.y++ = z`, `++x++`
  and `1 + x = 5` with x of an enclosing function fail the assertion of PopTarget;
  a class slot `</ a = 1 /> [x] = y` with a local x fails that of
  ParseTableOrClass, and `local function f[env]() {}` leaves a target behind.

Also seen while modelling, without a run of its own:

- `t[null] = v` succeeds when the chain of position 0 has an empty node
  (`sqtable.cpp:197`), and fails otherwise.
- NewSlot returns false for a new slot when it had to rebuild the table.
- `sq_getrefcount` inserts a node without references, and nothing takes it out
  until the object is added and released: the next growth of the table fails the
  assertion `t->refs != 0` (`sqstate.cpp:480`).  HeldIsCounted says so.
- A generator that `sq_resume` has run carries `_root` into a later `resume`
  statement, whose yield then ends the Execute of the script; and an error in
  `sq_resume` leaves the null that it pushed.
- A native that `sq_call` has called can make a tail call, which leaves its frame
  behind (`sqvm.cpp:1241`).
- break and continue close the captured variables of the innermost scope only
  (`sqcompiler.cpp:40`).
- `sq_reservestack` moves the stack without RelocateOuters (`sqapi.cpp:1160`); the
  open outers point into the freed array until a frame moves it again
  (PointersValid).
- Mark does not visit the open outers of a VM, nor the closure that the CallInfo of a
  generator holds (`sqobject.cpp:561`, `624`): what only they hold is swept
  while it is counted.  Finalize leaves references of closures, generators and
  prototypes (`sqclosure.h:58`, `135`, `sqfuncproto.h:120`).  What a collection leaves
  behind in these ways is lost from the chain; when it is freed, `_gc_chain` is
  overwritten and other objects are lost to later collections, and the assertion at
  the closing of the state (`sqstate.cpp:198`) may fail.  ChainExact, CollectsGarbage and
  ClosedEmpty say what holds until then and what after.
- ForStatement adds the instructions of its step again through the peephole:
  `for(...; ...; i = c ? 5 : 2)` never assigns i when c holds (`sqcompiler.cpp:1206`).
- `sq_newslot` and `sq_rawset` report success when a class refuses the member
  (`sqapi.cpp:877`, `925`).
- The error of a delegate's metamethod is dropped when the object has a metamethod
  of its own (`sqvm.cpp:1339`), and replaced by another when the root table is asked
  after it (`sqvm.cpp:1303`).
- A method whose name is declared again as a field moves: a member handle taken
  before refers to another place, and `_constructoridx` stays at the method when
  that name is `constructor`.
- CLASS_OP calls `_inherited` with a reference into the value stack and, unlike the
  other metamethods, without counting it in `_nmetamethodscall` (`sqvm.cpp:648`).
- map and apply push at most four arguments (`sqbaselib.cpp:685`).  A function of one
  parameter is never called, the array is; one of five is called once, with
  itself as `this`; one of six is never called; with seven or more `sq_call` reaches into the slots of the
  caller.  CallsFunction says so.
- sort without a function calls `_cmp`, which may resize the array unnoticed
  (`sqbaselib.cpp:797`); map, filter and reduce on an array that the function shrinks
  go on with the previous element (`678`, `735`, `759`).
- A blob that is written into itself hands out the buffer that the write frees
  (`sqstdstream.cpp:105`); readn of a value that is not wholly there loses what there
  is of it (`sqstdstream.cpp:38`).
- A constructor of blob or file that is called twice loses the first stream, and an
  instance of a derived class without one has a null pointer that `_cloned` and
  `sqstd_getblob` follow (`sqstdblob.cpp:142`, `159`).
- SQLexer::Init can call Error before Compile has called setjmp (`sqlexer.cpp:91`);
  `_curtoken` is not initialized when the first token copies it.
- The test at an exponent is never true, so 1e2e3 and 1.2.3 are numbers
  (`sqlexer.cpp:516`); columns are not reset at newlines in comments and verbatim
  strings.
- `_read_two_bytes` reads a wchar_t, which may have four bytes (`sqstdio.cpp:244`).

## Proofs

The theorems hold for every value of the constants that the modules' assumptions
allow.  Each is of one form: an inductive invariant, a lemma per action (or group of
actions) that keeps it, and the property as its consequence.

**SQTableProofs**: TypeCorrect, ShapeCorrect (ChainInv), LookupCorrect (LookupSound)
and PreviousCorrect (PreviousExists).  Assumed: null is neither a key nor a value;
hashes and initial sizes are natural numbers.

LookupSound is not inductive.  The invariant behind it, ChainInv, says that the
free pointer points to an empty node without a link and that no link leads to a
node at or below it (so the node it yields is on no chain); that no two links
lead to the same node; that a key outside its main position sits above the free
pointer in a node that is no key's main position; that each key is on the chain
of its main position; and that the cursor of a running loop is at or before
what the loop looks for.  "On the chain of" is stated without recursion: p is on
the chain of c when every set of nodes that holds c and is closed under links
holds p.  Each step is then a matter of finding the right closed set.

The second part of the module: TableImplementsMap (the refinement ImplementsMap),
UsedNodesExact and RehashAlwaysHasRoom.  MapInv adds to ChainInv that the pairs are divided
between the old array, the NewSlot that moves one of them and the new array, and
that the new array has room for all that are left and for the pair that waits.  The
last part is what makes the refinement true: a Rehash inside the loop of a Rehash
would lose the rest.  It needs `_usednodes` to be exact and the free nodes of an
array that is being filled to be those at or below the free pointer (Compact).

**RefTableProofs**: TypeAlwaysOK, NodesAlwaysAccounted, HeldAlwaysCounted.  Assumed:
null is no object, hashes are natural numbers.  HeldAlwaysCounted includes when the
assertion of Resize fails: the counts are exact, so a node without references is an
object of the table that the host does not hold.  RefInv says that each bucket's list
holds exactly the nodes whose object hashes to it, the free list the others, that no
two links lead to one node, that no object has two nodes, and that the counts are
what the host holds.  A list is the least set of nodes that holds its head and is
closed under links; the module's recursive Chain is shown to be that set once
(IsReach), by counting nodes.

**SQVMProofs**: VMFits, TrapsAreThoseOfFrames (TrapsMatchFrames), TrapsOfExecute
(TrapsCounted), RunningOnce (GeneratorOwnership), FramesNestAsCalls (FramesNest),
HostGetsStackBack (StackRestored), HandlerHears (HandlerHearsUncaught) and
AssertionHolds (TrapsZeroAtReturn).  Assumed: no generator is the null pointer, and the
bounds are natural numbers.  No property of SQVM is inductive alone: that an error is
reported when it should be needs the count of traps, the count needs to know which
frames an Execute runs, and that needs `_root` to be right after a generator or a
suspended VM has carried it elsewhere.  VMInv is their conjunction with what ties them
together.  Fit says of the frames, traps and activations that the frames of an
activation are those from its root on, that a frame with a trap owns its run of
`_etraps`, and that each Execute counts the traps of its own frames; CallsCounted says
who can have called whom; Sleeping, that a suspended VM goes on with the `_root` it had;
Generators, that what a generator saved can be put back at any base, and that one
for scripts never saves a root; HostStack, that the first frame remembers the top that
the host left; Handler, what `reported` is while an error is unwound.  All of it speaks
of sums over the frames (SumTo), about which induction on their number is done with
a well-founded order.  The lemmas *Snoc say what a sum, and so each part of Fit, is
with one frame and one activation more; FitEntry and FitInner are the two cases, a
frame that begins an activation and one that does not, and every action is a push, a pop
or a change of such a frame.  TLC has checked VMInv too, on the states of the run vm.
AssertionHolds is about Spec: the run vm_foreach shows that ForeachSpec breaks the same
assertion, so resuming without counting is all that does.

**OutersProofs**: OpenListAlwaysSorted, PointersAlwaysValid,
OuterAlwaysKeepsVariable.  Assumed: the sizes are natural numbers and the first
frame fits the first stack (RoomAssumption, which EnterFrame establishes before
the first instruction).  OutersInv adds that frames do not overlap and
fit the stack, that a variable is in one place only, that scopes nest, and that
an open outer whose variable is not lost has that variable's register, and that an
outer points into the present array unless `reserved`.  It is
claimed as long as the behaviour is not `spoiled`, and one that is stays so
(SpoiledStays).  All that
ends a scope is shown to be one kind of step, a cut of the frames at a register
(IsCut).

**CollectorProofs**: CountAlwaysExact, NeverDangling, ChainAlwaysExact,
AlwaysCollectsGarbage, ClosedAlwaysEmpty.  Assumed: null, objects, weak references,
roots and fields are different things (DisjointAssumption); `Unmarked` and `Kept` are
any sets of fields and `Level` any order of the objects (KeptAssumption).  CollectorInv is the conjunction of the
counts, with the one reference more of the object that the sweep holds; of where
pointers and weak references may point, fields of dying objects included; of
what is in the lists, of which the collector has one until a sweep leaves objects
behind; that Kept references lead to higher levels (KeptLower); and of what is so in
each phase: marks are closed under the references that Mark follows, and an
object that the sweep has passed has only fields that Finalize leaves.  This last
part is why the sweep may walk on a chain that Releases shorten.  What is alive at the end and not
marked is referred to by something alive; among what is not left behind
by a marked object one of the lowest level has no such referrer, which is why a
collection frees every cycle that it does not leave behind in that way.

**SQObjectsProofs**: LayoutAlwaysSound, HandlesAlwaysStay, StackAlwaysHeld,
AlwaysNearestSlot.  Assumed: a world has a root table, its numbers are natural,
and the key "x" of scripts is no function of the default delegates.  ObjInv
gives each class members in different places below the sizes of its tables, has the
class of every instance locked, with the fields and user data that the instance
has, and every frame refer to objects that exist; the first two theorems follow.  StackHeld is inductive with it.
NearestSlot needs WalkInv: while no metamethod has been called, each frame of an
access looks for what is left of what the access must find, so that the slot that
the top frame finds is the one for the frame at the bottom; after that, the answer
of the last metamethod is the result or the error that the frames pass down, until
what is behind is looked at and then the root table, for which `last` begins anew.  That a walk of as many
steps as there are tables reaches every delegate (Chains) is an argument about
cardinality.

**SQArrayProofs**: SortAlwaysInside, AlwaysCallsFunction.  Assumed: what SQArray
says of its constants: numbers of parameters are positive, and values numbers.  ArrayInv ties the
indexes of the heap sort to the size that it remembers, that size to the array's
except while a comparison runs, and the frame of the value stack to the function
that runs and to the arguments it has pushed.

**LoadFileProofs**: LinesAlwaysCounted, PrevTokenAlwaysRight, EndAlwaysStays,
FilesAlwaysOnce, BlobsStayWithin, BlobsAreByteStreams.  Assumed: no handle is the mark
for none, and zero is a byte.  LexInv adds that the text of a string being read is its
delimiter, never a newline, and what `_curtoken` is between and within calls of
Lex; LoadInv says that the lexer is off unless the load of a text is under way.
FileInv says that an open file belongs to one of the host, an instance or the load
that runs, that what is lent is the host's, and that a load runs alone.

BlobsAreByteStreams is the refinement of ByteStreams, for bytes and sizes of any
kind.  BlobInv is the invariant it needs: of every blob the position is within the
size and the size within the buffer, or the first `_size` bytes of the buffer, which
the mapping takes, would not be there.  ResizeIs, GrowBufOfIs and WriteIs say of the
functions of the buffer which bytes it then holds at which index; ResizeBytes,
SetBytes, WriteBytes and SwapBytes turn that into the sequences of ByteStreams
(Spliced and WordWithin hold the arithmetic); the lemmas DoCreate to DoDrop say when a change of one
stream is a step of ByteStreams, and one lemma per function of a script joins the
two.  A read that makes no blob only moves the position and is shown to be a Seek.
The write of a blob into itself is the one that the model lets through, where the
buffer is neither replaced nor overlaps.

Assumptions that bound the runs only (MaxHeld, MaxSize and their like) ask for
natural numbers, positive ones at most, so the theorems hold for bounds as large as one likes.

Three models became clearer by being proved.  The cases of SQObjects!GetLookup
overlapped for instances, and a CASE of TLA+ may then take either; they are now
in the order of the code.  RoomAssumption was implicit in the run.  The properties of SQVM were stated with sets of
frames and are now sums over the frames, of which there is one definition.

Only checked with TLC: liveness (CallsReturn, FunctionsEnd), which is out of the
prover's reach; SortSorts, whose invariant speaks of an order that recursion
through the heap defines; and the invariants of
SQCompiler, whose stack of things to do is a sequence of items of forty kinds: each
says what it leaves on the stacks of the function state, and an invariant would have
to sum that over the sequences of the whole grammar.

## Not modelled

- The string table: chained buckets like those of the reference table, whose
  correctness lies in when strings die, which the collector leaves out.
- Serialization of closures, regular expressions, the string library: what they
  compute is a function of data, without state between calls.
- Debug interface, memory allocator, maths, system and auxiliary libraries: wrappers
  of the C library and formatting of messages.
- The Nim binding: declarations of the C API.
- The rest of the API and of the base library: accessors that push what they read.
- In modelled parts: the instructions that the compiler emits, and so the peephole;
  addresses, but for those of outers and vectors, and so what goes wrong when
  `_callsstack` or the value stack is reallocated under a C++ reference; what files
  hold; texts in UTF-16; columns and the values of tokens; attributes, type tags
  and release hooks of classes; indexing of arrays and strings, arithmetic and
  comparison metamethods, which are called as those of Get and Set are.

## Plan

What is left is to prove of SQCompiler that statements leave the target stack, the
traps and the jumps as they were (StatementsBalanced, TempsNest, TrapsExact,
JumpsResolved), with an effect for each item of the grammar and sums like those of
SQVMProofs.  Together with SQVMProofs this
would close the gap that the model of the VM leaves, where a function's code is assumed
to push and pop its traps in order.

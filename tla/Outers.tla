------------------------------- MODULE Outers -------------------------------
(***************************************************************************)
(* The variables that closures capture: SQOuter of squirrel/sqclosure.h,   *)
(* FindOuter, CloseOuters and RelocateOuters of sqvm.cpp, and the scopes   *)
(* of sqcompiler.cpp that decide when a variable is closed.                *)
(*                                                                         *)
(* While the scope of a captured variable runs, its outer is open: it is   *)
(* on the list _openouters and its _valptr points into the value stack.    *)
(* When the scope or the function ends CloseOuters moves the value into    *)
(* the outer.  The stack may be reallocated in the meantime: by EnterFrame,*)
(* which relocates the open outers, and by sq_reservestack, which does not.*)
(*                                                                         *)
(* A variable is a number, given when it is declared; values are left out: *)
(* closures see the right ones if every outer is where its variable is.    *)
(***************************************************************************)
EXTENDS Integers, Sequences, SequencesExt

CONSTANTS
  FrameSize,           \* _stacksize of every function
  MIN_STACK_OVERHEAD,  \* what EnterFrame keeps free above a frame
  InitialSize,         \* the size of the stack at first
  MaxFrames, MaxVars, MaxOuters,  \* bounds of the model
  MaxScopes,           \* bound: how many scopes are open, in all frames
  MaxAllocs,           \* bound: how often the stack is reallocated
  MaxReserve           \* bound: how much a native makes the stack grow

ASSUME SizeAssumption ==
  {FrameSize, MIN_STACK_OVERHEAD, InitialSize, MaxFrames, MaxScopes, MaxVars,
   MaxOuters, MaxAllocs, MaxReserve} \subseteq Nat

(* The function that runs at first has been entered: EnterFrame has made   *)
(* the stack large enough for its frame.                                   *)
ASSUME RoomAssumption == FrameSize + MIN_STACK_OVERHEAD <= InitialSize

VARIABLES
  frames,     \* the call frames: base, variables in registers, open scopes
  nvars,      \* how many variables have been declared
  captured,   \* the variables that a closure uses
  lost,       \* history: captured variables whose scope ended without a close
  outers,     \* the outers created so far: open, index, array pointed into, variable
  openouters, \* _openouters: the open outers by number, the list head first
  alloc, stacksize, \* the array _stack._vals: which allocation, and its size
  reserved,   \* history: sq_reservestack has moved the stack under open outers
  spoiled     \* history: a loop over the open outers has used a freed pointer

vars == <<frames, nvars, captured, lost, outers, openouters, alloc, stacksize, reserved, spoiled>>

top == Last(frames)
N == Len(frames)

(* The address of register r (from 0) of the running function. *)
STK(r) == top.base + r

Init ==
  /\ frames = <<[base |-> 0, locals |-> <<>>, scopes |-> <<>>]>>
  /\ nvars = 0 /\ captured = {} /\ lost = {}
  /\ outers = <<>> /\ openouters = <<>>
  /\ alloc = 0 /\ stacksize = InitialSize /\ reserved = FALSE /\ spoiled = FALSE
-----------------------------------------------------------------------------
(* How many outers at the head of the list point at or above idx: where    *)
(* the loops of FindOuter and CloseOuters stop.                            *)
Above(idx) ==
  LET all(n) == \A i \in 1 .. n : outers[openouters[i]].idx >= idx
  IN CHOOSE n \in 0 .. Len(openouters) :
       all(n) /\ \A m \in 0 .. Len(openouters) : all(m) => m <= n

(* An open outer points into an array that has been freed. *)
Dangling == \E i \in DOMAIN openouters : outers[openouters[i]].alloc # alloc

(* Where the loops may stop: comparing a pointer into a freed array gives  *)
(* any outcome, and the program is spoiled from there on.                  *)
Stops(idx) == IF Dangling THEN 0 .. Len(openouters) ELSE {Above(idx)}
Scan == spoiled' = (spoiled \/ Dangling)

(* The first n outers of the list are closed. *)
CloseFirst(n) ==
  /\ openouters' = SubSeq(openouters, n + 1, Len(openouters))
  /\ outers' = [o \in DOMAIN outers |->
       [outers[o] EXCEPT !.open = @ /\ \A i \in 1 .. n : openouters[i] # o]]

CloseOuters(idx) == Scan /\ \E n \in Stops(idx) : CloseFirst(n)

(* A new outer for register r comes after the first n of the list. *)
AddOuter(r, n) ==
  /\ Len(outers) < MaxOuters
  /\ outers' = Append(outers, [open |-> TRUE, idx |-> STK(r), alloc |-> alloc,
                               var |-> top.locals[r + 1]])
  /\ openouters' = InsertAt(openouters, n + 1, Len(outers) + 1)

(* Mutant: a new outer always goes to the head of the list. *)
MutFindOuter(r) ==
  /\ Scan
  /\ IF \E i \in DOMAIN openouters : outers[openouters[i]].idx = STK(r)
     THEN UNCHANGED <<outers, openouters>>
     ELSE AddOuter(r, 0)

(* FindOuter: use the outer that points at the register, or put a new one  *)
(* in its place on the list.                                               *)
FindOuter(r) ==
  /\ Scan
  /\ \E n \in Stops(STK(r)) :
       IF \E i \in 1 .. n : outers[openouters[i]].idx = STK(r)
       THEN UNCHANGED <<outers, openouters>>
       ELSE AddOuter(r, n)

(* Mutant: the open outers still point into the array that was freed. *)
MutRelocateOuters == UNCHANGED outers

RelocateOuters ==
  outers' = [o \in DOMAIN outers |->
    IF o \in Range(openouters) THEN [outers[o] EXCEPT !.alloc = alloc'] ELSE outers[o]]
-----------------------------------------------------------------------------
(* EnterFrame makes the stack grow if the frame does not fit. *)
EnterFrame(newbase) ==
  /\ frames' = Append(frames, [base |-> newbase, locals |-> <<>>, scopes |-> <<>>])
  /\ LET newtop == newbase + FrameSize IN
     IF newtop + MIN_STACK_OVERHEAD > stacksize
     THEN /\ alloc < MaxAllocs
          /\ alloc' = alloc + 1
          /\ stacksize' = newtop + 4 * MIN_STACK_OVERHEAD
          /\ RelocateOuters
          /\ reserved' = FALSE
     ELSE UNCHANGED <<alloc, stacksize, reserved, outers>>

(* sq_reservestack, called by a native that the running function has       *)
(* called: a larger array, but no RelocateOuters.                          *)
ReserveStack ==
  /\ alloc < MaxAllocs
  /\ alloc' = alloc + 1
  /\ stacksize' \in stacksize + 1 .. stacksize + MaxReserve
  /\ reserved' = (openouters # <<>>)
  /\ UNCHANGED <<frames, nvars, captured, lost, outers, openouters, spoiled>>

(* _OP_CALL: the closure is in the register after the variables, and the   *)
(* frame of the callee begins at the next one, where the arguments are.    *)
Call ==
  /\ N < MaxFrames
  /\ EnterFrame(STK(Len(top.locals)) + 1)
  /\ UNCHANGED <<nvars, captured, lost, openouters, spoiled>>

(* Return: LeaveFrame closes what the function has left open. *)
Return ==
  /\ N > 1
  /\ CloseOuters(top.base)
  /\ frames' = Front(frames)
  /\ UNCHANGED <<nvars, captured, lost, alloc, stacksize, reserved>>

(* _OP_TAILCALL: another function takes over the frame. *)
TailCall ==
  /\ CloseOuters(top.base)
  /\ frames' = [frames EXCEPT ![N].locals = <<>>, ![N].scopes = <<>>]
  /\ UNCHANGED <<nvars, captured, lost, alloc, stacksize, reserved>>

(* A local variable is declared, in the next register. *)
Declare ==
  /\ Len(top.locals) < FrameSize /\ nvars < MaxVars
  /\ nvars' = nvars + 1
  /\ frames' = [frames EXCEPT ![N].locals = Append(@, nvars + 1)]
  /\ UNCHANGED <<captured, lost, outers, openouters, spoiled, alloc, stacksize, reserved>>

(* _OP_CLOSURE of a function that uses the variable in register r. *)
Capture(r) ==
  /\ FindOuter(r)
  /\ captured' = captured \union {top.locals[r + 1]}
  /\ UNCHANGED <<frames, nvars, lost, alloc, stacksize, reserved>>
-----------------------------------------------------------------------------
(* BEGIN_SCOPE of a block, of the body of a loop, or of a try statement. *)
BeginScope(kind) ==
  /\ SumFunction([f \in 1 .. N |-> Len(frames[f].scopes)]) < MaxScopes
  /\ frames' = [frames EXCEPT ![N].scopes = Append(@, [kind |-> kind, start |-> Len(top.locals)])]
  /\ UNCHANGED <<nvars, captured, lost, outers, openouters, spoiled, alloc, stacksize, reserved>>

(* Whether _OP_CLOSE is emitted for the variables from register start on   *)
(* is decided by the text: it is if one of them has been captured, and it  *)
(* may be if none has, for a closure that was not created this time.       *)
CloseScope(start) ==
  \/ start < Len(top.locals) /\ CloseOuters(STK(start))
  \/ /\ \A r \in start + 1 .. Len(top.locals) : top.locals[r] \notin captured
     /\ UNCHANGED <<outers, openouters, spoiled>>

(* Control leaves the scopes from the k-th on. *)
Leave(k) ==
  frames' = [frames EXCEPT ![N].locals = SubSeq(@, 1, top.scopes[k].start),
                           ![N].scopes = SubSeq(@, 1, k - 1)]

(* Mutant: END_SCOPE_NO_CLOSE where END_SCOPE is due. *)
MutEndScope ==
  /\ top.scopes # <<>>
  /\ Leave(Len(top.scopes))
  /\ UNCHANGED <<nvars, captured, lost, outers, openouters, spoiled, alloc, stacksize, reserved>>

(* END_SCOPE. *)
EndScope ==
  /\ top.scopes # <<>>
  /\ CloseScope(Last(top.scopes).start)
  /\ Leave(Len(top.scopes))
  /\ UNCHANGED <<nvars, captured, lost, alloc, stacksize, reserved>>

(* The scope that break and continue leave. *)
InnermostLoop(k) ==
  /\ top.scopes[k].kind = "loop"
  /\ \A j \in k + 1 .. Len(top.scopes) : top.scopes[j].kind # "loop"

(* break, and continue, which only differs in that the next iteration      *)
(* follows: RESOLVE_OUTERS closes the variables of the innermost scope,    *)
(* then control leaves the scopes of the loop.                             *)
Break ==
  \E k \in DOMAIN top.scopes :
    /\ InnermostLoop(k)
    /\ CloseScope(Last(top.scopes).start)
    /\ Leave(k)
    /\ lost' = lost \union
         (captured \cap Range(SubSeq(top.locals, top.scopes[k].start + 1, Last(top.scopes).start)))
    /\ UNCHANGED <<nvars, captured, alloc, stacksize, reserved>>

(* An error is caught in frame f, k the scope of its innermost try         *)
(* statement: the frames above end, and the catch block begins with the    *)
(* error in the first register of the scope.                               *)
Catch(f, k) ==
  /\ nvars < MaxVars
  /\ frames[f].scopes[k].kind = "try"
  /\ \A j \in k + 1 .. Len(frames[f].scopes) : frames[f].scopes[j].kind # "try"
  /\ \A g \in f + 1 .. N, s \in 1 .. MaxScopes :
       s \in DOMAIN frames[g].scopes => frames[g].scopes[s].kind # "try"
  /\ LET start == frames[f].scopes[k].start IN
     /\ start < FrameSize
     /\ lost' = lost \union
          (captured \cap Range(SubSeq(frames[f].locals, start + 1, Len(frames[f].locals))))
     /\ frames' = Append(SubSeq(frames, 1, f - 1),
          [base |-> frames[f].base,
           locals |-> Append(SubSeq(frames[f].locals, 1, start), nvars + 1),
           scopes |-> Append(SubSeq(frames[f].scopes, 1, k - 1),
                             [kind |-> "block", start |-> start])])
  /\ nvars' = nvars + 1
  /\ IF f = N THEN UNCHANGED <<outers, openouters, spoiled>> ELSE CloseOuters(frames[f + 1].base)
  /\ UNCHANGED <<captured, alloc, stacksize, reserved>>

Throw == \E f \in 1 .. N : \E k \in DOMAIN frames[f].scopes : Catch(f, k)

-----------------------------------------------------------------------------
Step ==
  \/ Call \/ Return \/ TailCall \/ Declare \/ EndScope
  \/ \E r \in 0 .. Len(top.locals) - 1 : Capture(r)
  \/ \E kind \in {"block", "loop", "try"} : BeginScope(kind)

Spec == Init /\ [][Step \/ Break \/ Throw \/ ReserveStack]_vars

(* Bound of the runs: behaviours are not followed past a use of a freed    *)
(* pointer, as no property says anything of them.                          *)
Unspoiled == ~spoiled

(* Programs without break and continue, and natives that leave the size of *)
(* the stack alone.                                                        *)
ThrowSpec == Init /\ [][Step \/ Throw]_vars
-----------------------------------------------------------------------------
(* The fields have the types of their declarations, and the registers of   *)
(* a callee do not overlap the variables of its caller.                    *)
TypeOK ==
  /\ \A f \in 1 .. N :
       /\ frames[f].base \in Nat
       /\ f < N => frames[f + 1].base > frames[f].base + Len(frames[f].locals)
       /\ Len(frames[f].locals) <= FrameSize
       /\ Range(frames[f].locals) \subseteq 1 .. nvars
       /\ \A k \in DOMAIN frames[f].scopes : frames[f].scopes[k].start \in 0 .. Len(frames[f].locals)
  /\ N >= 1 /\ lost \subseteq captured /\ captured \subseteq 1 .. nvars
  /\ \A o \in DOMAIN outers : outers[o].open \in BOOLEAN /\ outers[o].var \in 1 .. nvars
  /\ Range(openouters) \subseteq DOMAIN outers
  /\ alloc \in 0 .. MaxAllocs /\ stacksize \in Nat /\ {reserved, spoiled} \subseteq BOOLEAN

(* The list holds the open outers in descending order of the stack, so     *)
(* that the loops of FindOuter and CloseOuters may stop at the first one   *)
(* below, and none twice: a variable never gets a second outer.            *)
ListSorted ==
  /\ Range(openouters) = {o \in DOMAIN outers : outers[o].open}
  /\ \A i, j \in DOMAIN openouters :
       i < j => outers[openouters[i]].idx > outers[openouters[j]].idx

(* The list is sorted and complete as long as the loops have not compared  *)
(* pointers that sq_reservestack has left in a freed array.                *)
OpenListSorted == ~spoiled => ListSorted

(* An open outer is at a register of a function that still runs, however   *)
(* the functions above have ended.  It points into the array that _stack   *)
(* has now, whatever frames have made the stack grow; but when a native    *)
(* has made it grow by sq_reservestack, every outer that was open then     *)
(* points into the freed array, until a frame makes the stack grow again.  *)
PointersValid ==
  ~spoiled =>
    \A o \in DOMAIN outers : outers[o].open =>
      /\ outers[o].alloc = alloc <=> ~reserved
      /\ outers[o].idx < top.base + FrameSize
      /\ outers[o].idx < stacksize

(* The slot of a variable that is in scope. *)
IsAt(x, idx) ==
  \E f \in 1 .. N : \E i \in DOMAIN frames[f].locals :
    frames[f].locals[i] = x /\ idx = frames[f].base + i - 1
InScope(x) == \E f \in 1 .. N : x \in Range(frames[f].locals)

KeepsVariable(o) ==
  /\ outers[o].open = InScope(outers[o].var)
  /\ outers[o].open => IsAt(outers[o].var, outers[o].idx)

(* A closure sees its own variable: the outer points to the place of the   *)
(* variable on the stack as long as it has one, and keeps its value itself *)
(* once its scope has ended, when the register serves another variable.    *)
(* This is so of every variable that no break and no caught error has left *)
(* open, and what these do to one variable harms no other.                 *)
VariablesKept ==
  \A o \in DOMAIN outers : outers[o].var \notin lost => KeepsVariable(o)

(* As long as the loops have not compared pointers into a freed array.     *)
OuterKeepsVariable == ~spoiled => VariablesKept

(* As the comments on SQOuter say, this is so for every variable. *)
EveryOuterKeepsVariable == \A o \in DOMAIN outers : KeepsVariable(o)
=============================================================================

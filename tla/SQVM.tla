-------------------------------- MODULE SQVM --------------------------------
(***************************************************************************)
(* The execution core of the Squirrel VM: how SQVM::Execute,               *)
(* SQVM::CallNative and the calls of sqapi.cpp push and pop call frames,   *)
(* exception traps and generators (squirrel/sqvm.cpp, sqobject.cpp,        *)
(* sqapi.cpp).                                                             *)
(*                                                                         *)
(* Two stacks run side by side.  callsstack holds the frames (CallInfo) of *)
(* script and native functions.  cstack holds the C++ activations: one for *)
(* every Execute, with its local variables, and one for every native       *)
(* function that is running; it is empty when the host is in control.  A   *)
(* script call inside Execute pushes a frame only.  Exception traps are on *)
(* a third stack, etraps, and are counted twice: in the frame that set     *)
(* them and in the local variable traps of the Execute that runs it.       *)
(*                                                                         *)
(* What a script does is left open: a running function may take any        *)
(* instruction that the compiler can emit there.                           *)
(***************************************************************************)
EXTENDS Integers, Sequences, SequencesExt

CONSTANTS
  Gen,               \* the generators a run may create
  NoGen,             \* a null SQGenerator pointer
  MAX_NATIVE_CALLS,  \* the limit that sqvm.h sets
  MaxFrames,         \* bound: the depth of callsstack
  MaxTry,            \* bound: how deep try blocks nest in a function
  MaxTop             \* bound: _top when a native or the host makes a call

ASSUME GenAssumption == NoGen \notin Gen
ASSUME LimitAssumption == {MAX_NATIVE_CALLS, MaxFrames, MaxTry, MaxTop} \subseteq Nat

VARIABLES
  callsstack, stackbase, top, etraps,  \* fields of SQVM
  gens,          \* the generators; by is who will resume one: "script" or "host"
  nnativecalls, nmetamethodscall,      \* fields of SQVM
  suspended, suspendedRoot, suspendedTraps,
  cstack,        \* the C++ activations
  mode,          \* "run", or "unwind" in the exception_trap of the last Execute
  reported       \* the error being unwound was given to the error handler

frameVars == <<callsstack, stackbase, top>>
suspendVars == <<suspended, suspendedRoot, suspendedTraps>>
countVars == <<nnativecalls, nmetamethodscall>>
vars == <<frameVars, etraps, gens, countVars, suspendVars, cstack, mode, reported>>

StackSize == 3   \* _stacksize of every function
Arg2 == 2        \* the register of a frame where the arguments of a call start
NParams == 1     \* the arguments of every call

ci == Last(callsstack)
act == Last(cstack)

InExecute == mode = "run" /\ cstack # <<>> /\ act.kind = "exec"
InNative == cstack # <<>> /\ act.kind = "native"
InHost == cstack = <<>>

Init ==
  /\ callsstack = <<>> /\ stackbase = 0 /\ top = 0
  /\ etraps = <<>>
  /\ gens \in [Gen -> [state : {"none"}, by : {"script", "host"}]]
  /\ nnativecalls = 0 /\ nmetamethodscall = 0
  /\ suspended = FALSE /\ suspendedRoot = FALSE /\ suspendedTraps = -1
  /\ cstack = <<>>
  /\ mode = "run"
  /\ reported = FALSE
-----------------------------------------------------------------------------
(* EnterFrame; kind is that of ci->_closure.  t is _top before. *)
EnterFrame(kind, newbase, newtop, t, root, g, n) ==
  /\ callsstack' = Append(callsstack,
       [kind |-> kind, gen |-> g, etraps |-> n, root |-> root,
        prevstkbase |-> newbase - stackbase, prevtop |-> t - stackbase])
  /\ stackbase' = newbase
  /\ top' = newtop

(* LeaveFrame, after which pop more values are popped off the stack. *)
LeaveFrame(pop) ==
  /\ callsstack' = Front(callsstack)
  /\ stackbase' = stackbase - ci.prevstkbase
  /\ top' = stackbase - ci.prevstkbase + ci.prevtop - pop

RoomForFrame == Len(callsstack) < MaxFrames

(* The test that Execute and CallNative begin with. *)
NativeOverflow == nnativecalls + 1 > MAX_NATIVE_CALLS

(* A native or the host may make a call through the API. *)
CanCall == (InNative \/ InHost) /\ ~NativeOverflow /\ top < MaxTop

SetTraps(n) == cstack' = [cstack EXCEPT ![Len(cstack)].traps = n]

(* Mutant: the handler is called even if a trap will catch the error. *)
MutThrowIn(stack) ==
  /\ mode' = "unwind"
  /\ reported' = Last(stack).raiseerror
  /\ cstack' = stack

(* exception_trap: the handler hears of the error if this Execute has no   *)
(* trap that could catch it.                                               *)
ThrowIn(stack) ==
  /\ mode' = "unwind"
  /\ reported' = (Last(stack).traps = 0 /\ Last(stack).raiseerror)
  /\ cstack' = stack

(* Execute begins, for how it was called. *)
PushExecute(how, n, raiseerror) ==
  /\ cstack' = Append(cstack, [kind |-> "exec", how |-> how, traps |-> n,
                               raiseerror |-> raiseerror])
  /\ nnativecalls' = nnativecalls + 1
-----------------------------------------------------------------------------
(* Mutant: sq_call does not pop the arguments. *)
MutPopCount(frames) ==
  IF act.how = "wake" /\ frames = <<>> THEN ci.prevtop
  ELSE IF act.how \in {"wake", "call"} THEN 0
  ELSE 1

(* Who called an Execute decides how many values are popped when it        *)
(* returns: sq_call and CallMetaMethod pop the arguments, sq_call only if  *)
(* the VM is not suspended, and so does the host pop the result that       *)
(* sq_resume pushed; thread_wakeup empties the stack of a VM that is idle. *)
PopCount(frames) ==
  IF act.how = "call" /\ suspended THEN 0
  ELSE IF act.how = "wake" /\ frames = <<>> THEN ci.prevtop
  ELSE IF act.how = "wake" THEN 0
  ELSE 1

(* The root frame of the last Execute ends, with no error. *)
ExecuteReturns ==
  /\ LeaveFrame(PopCount(Front(callsstack)))
  /\ cstack' = Front(cstack)
  /\ nnativecalls' = nnativecalls - 1
  /\ nmetamethodscall' = IF act.how = "meta" THEN nmetamethodscall - 1 ELSE nmetamethodscall
  /\ UNCHANGED <<mode, reported>>

(* The root frame of the last Execute ends with an error.  Natives and the *)
(* host are told and go on.  The instruction that called a metamethod      *)
(* throws the error again, or goes on: _OP_MOD does not look at the result *)
(* of ARITH_OP.                                                            *)
ExecuteFails(rethrow) ==
  /\ LeaveFrame(CASE act.how = "wake" -> IF Len(callsstack) = 1 THEN ci.prevtop ELSE 0
                  [] act.how = "resume" -> 0
                  [] OTHER -> 1)
  /\ nnativecalls' = nnativecalls - 1
  /\ nmetamethodscall' = IF act.how = "meta" THEN nmetamethodscall - 1 ELSE nmetamethodscall
  /\ IF act.how = "meta" /\ rethrow
     THEN ThrowIn(Front(cstack))
     ELSE cstack' = Front(cstack) /\ mode' = "run" /\ reported' = FALSE

(* Return: a root frame ends its Execute. *)
ReturnFrom(traps) ==
  IF ci.root
  THEN ExecuteReturns
  ELSE /\ LeaveFrame(0)
       /\ SetTraps(traps)
       /\ UNCHANGED <<countVars, mode, reported>>
-----------------------------------------------------------------------------
(* The instructions of a script function. *)

(* _OP_PUSHTRAP: a try block begins. *)
PushTrap ==
  /\ InExecute /\ ci.etraps < MaxTry
  /\ etraps' = Append(etraps, [stackbase |-> stackbase, stacksize |-> top])
  /\ callsstack' = [callsstack EXCEPT ![Len(callsstack)].etraps = @ + 1]
  /\ SetTraps(act.traps + 1)
  /\ UNCHANGED <<stackbase, top, gens, countVars, suspendVars, mode, reported>>

(* _OP_POPTRAP: a try block ends. *)
PopTrap ==
  /\ InExecute /\ ci.etraps > 0
  /\ etraps' = Front(etraps)
  /\ callsstack' = [callsstack EXCEPT ![Len(callsstack)].etraps = @ - 1]
  /\ SetTraps(act.traps - 1)
  /\ UNCHANGED <<stackbase, top, gens, countVars, suspendVars, mode, reported>>

(* _OP_CALL of a closure. *)
CallClosure ==
  /\ InExecute /\ RoomForFrame
  /\ LET base == stackbase + Arg2 IN
     EnterFrame("closure", base, base + StackSize, top, FALSE, NoGen, 0)
  /\ UNCHANGED <<etraps, gens, countVars, suspendVars, cstack, mode, reported>>

(* StartCall of a function that contains yield: its frame is entered, put  *)
(* away in a new generator and left.                                       *)
NewGenerator(g) ==
  /\ gens[g].state = "none"
  /\ gens' = [gens EXCEPT ![g] =
       [state |-> "suspended", size |-> StackSize, etraps |-> 0, root |-> FALSE, traps |-> <<>>,
        by |-> @.by]]

(* _OP_CALL of such a function. *)
CallGeneratorFunction(g) ==
  /\ InExecute
  /\ NewGenerator(g)
  /\ UNCHANGED <<frameVars, etraps, countVars, suspendVars, cstack, mode, reported>>

(* _OP_CALL of a native closure. *)
CallNative ==
  /\ InExecute /\ RoomForFrame /\ ~NativeOverflow
  /\ LET base == stackbase + Arg2 IN
     EnterFrame("native", base, base + NParams, top, FALSE, NoGen, 0)
  /\ cstack' = Append(cstack, [kind |-> "native", how |-> "op"])
  /\ nnativecalls' = nnativecalls + 1
  /\ UNCHANGED <<etraps, gens, nmetamethodscall, suspendVars, mode, reported>>

(* CallMetaMethod of a closure: the arguments are pushed, then Execute. *)
CallMetaMethod ==
  /\ InExecute /\ RoomForFrame /\ ~NativeOverflow
  /\ EnterFrame("closure", top, top + StackSize, top + NParams, TRUE, NoGen, 0)
  /\ PushExecute("meta", 0, FALSE)
  /\ nmetamethodscall' = nmetamethodscall + 1
  /\ UNCHANGED <<etraps, gens, suspendVars, mode, reported>>

(* CallMetaMethod of a native closure. *)
CallMetaMethodNative ==
  /\ InExecute /\ RoomForFrame /\ ~NativeOverflow
  /\ EnterFrame("native", top, top + NParams, top + NParams, FALSE, NoGen, 0)
  /\ cstack' = Append(cstack, [kind |-> "native", how |-> "meta"])
  /\ nnativecalls' = nnativecalls + 1
  /\ nmetamethodscall' = nmetamethodscall + 1
  /\ UNCHANGED <<etraps, gens, suspendVars, mode, reported>>

(* _OP_RETURN.  The compiler pops the traps of the function before it, and *)
(* a function that ends by itself has left its try blocks.                 *)
Return ==
  /\ InExecute /\ ci.etraps = 0
  /\ gens' = IF ci.gen = NoGen THEN gens ELSE [gens EXCEPT ![ci.gen].state = "dead"]
  /\ ReturnFrom(act.traps)
  /\ UNCHANGED <<etraps, suspendVars>>

(* Mutant: the traps that go with the generator are not subtracted. *)
MutYield ==
  /\ InExecute /\ ci.gen # NoGen
  /\ LET n == ci.etraps
         own == SubSeq(etraps, Len(etraps) - n + 1, Len(etraps))
         relative == [i \in 1 .. n |-> [stackbase |-> own[i].stackbase - stackbase,
                                        stacksize |-> own[i].stacksize - stackbase]]
     IN /\ etraps' = SubSeq(etraps, 1, Len(etraps) - n)
        /\ gens' = [gens EXCEPT ![ci.gen] =
             [state |-> "suspended", size |-> top - stackbase, etraps |-> n,
              root |-> ci.root, traps |-> Reverse(relative), by |-> @.by]]
        /\ ReturnFrom(act.traps)
  /\ UNCHANGED suspendVars

(* _OP_YIELD in a generator: SQGenerator::Yield moves the frame's traps,   *)
(* the last one first, relative to the base of the frame, and copies ci.   *)
Yield ==
  /\ InExecute /\ ci.gen # NoGen
  /\ LET n == ci.etraps
         own == SubSeq(etraps, Len(etraps) - n + 1, Len(etraps))
         relative == [i \in 1 .. n |-> [stackbase |-> own[i].stackbase - stackbase,
                                        stacksize |-> own[i].stacksize - stackbase]]
     IN /\ etraps' = SubSeq(etraps, 1, Len(etraps) - n)
        /\ gens' = [gens EXCEPT ![ci.gen] =
             [state |-> "suspended", size |-> top - stackbase, etraps |-> n,
              root |-> ci.root, traps |-> Reverse(relative), by |-> @.by]]
        /\ ReturnFrom(act.traps - n)
  /\ UNCHANGED suspendVars

(* Mutant: the traps are restored where they were first set. *)
MutResumeFrame(g, t, root) ==
  /\ gens[g].state = "suspended"
  /\ EnterFrame("closure", t, t + gens[g].size, t, root, g, gens[g].etraps)
  /\ etraps' = etraps \o Reverse(gens[g].traps)
  /\ gens' = [gens EXCEPT ![g] = [state |-> "running", by |-> @.by]]

(* SQGenerator::Resume of a suspended generator; t is _top before. *)
ResumeFrame(g, t, root) ==
  LET s == gens[g]
      absolute == [i \in 1 .. s.etraps |->
                     [stackbase |-> s.traps[i].stackbase + t, stacksize |-> s.traps[i].stacksize + t]]
  IN /\ s.state = "suspended"
     /\ EnterFrame("closure", t, t + s.size, t, root, g, s.etraps)
     /\ etraps' = etraps \o Reverse(absolute)
     /\ gens' = [gens EXCEPT ![g] = [state |-> "running", by |-> @.by]]

(* _OP_RESUME of a suspended generator. *)
Resume(g) ==
  /\ InExecute /\ RoomForFrame
  /\ ResumeFrame(g, top, gens[g].root)
  /\ SetTraps(act.traps + gens[g].etraps)
  /\ UNCHANGED <<countVars, suspendVars, mode, reported>>

(* _OP_FOREACH over a suspended generator: FOREACH_OP resumes it, and the  *)
(* traps of the generator are not added to those of this Execute.          *)
ForeachGenerator(g) ==
  /\ InExecute /\ RoomForFrame
  /\ ResumeFrame(g, top, gens[g].root)
  /\ UNCHANGED <<countVars, suspendVars, cstack, mode, reported>>

(* _OP_THROW, or any instruction that fails: a wrong call, the resumption  *)
(* of a generator that is running or dead, the yield of a function that is *)
(* no generator, a native stack overflow.                                  *)
Throw ==
  /\ InExecute
  /\ ThrowIn(cstack)
  /\ UNCHANGED <<frameVars, etraps, gens, countVars, suspendVars>>
-----------------------------------------------------------------------------
(* The loop of exception_trap. *)

(* The frame has a trap: go on in its catch block. *)
Catch ==
  /\ mode = "unwind" /\ ci.etraps > 0
  /\ stackbase' = Last(etraps).stackbase
  /\ top' = Last(etraps).stacksize
  /\ etraps' = Front(etraps)
  /\ callsstack' = [callsstack EXCEPT ![Len(callsstack)].etraps = @ - 1]
  /\ SetTraps(act.traps - 1)
  /\ mode' = "run" /\ reported' = FALSE
  /\ UNCHANGED <<gens, countVars, suspendVars>>

(* Mutant: an error leaves the frame of a generator without killing it. *)
MutUnwind(rethrow) ==
  /\ mode = "unwind" /\ ci.etraps = 0
  /\ IF ci.root \/ Len(callsstack) = 1
     THEN ExecuteFails(rethrow)
     ELSE LeaveFrame(0) /\ UNCHANGED <<cstack, countVars, mode, reported>>
  /\ UNCHANGED <<gens, etraps, suspendVars>>

(* It has none: leave it, and end this Execute if it was its root. *)
Unwind(rethrow) ==
  /\ mode = "unwind" /\ ci.etraps = 0
  /\ gens' = IF ci.gen = NoGen THEN gens ELSE [gens EXCEPT ![ci.gen].state = "dead"]
  /\ IF ci.root \/ Len(callsstack) = 1
     THEN ExecuteFails(rethrow)
     ELSE LeaveFrame(0) /\ UNCHANGED <<cstack, countVars, mode, reported>>
  /\ UNCHANGED <<etraps, suspendVars>>
-----------------------------------------------------------------------------
(* A native function, or the host. *)

(* CallNative leaves the frame; CallMetaMethod and sq_call pop the         *)
(* arguments, the latter not when a call ends well in a suspended VM.      *)
EndNative(fails) ==
  /\ LeaveFrame(IF act.how = "op" \/ (act.how = "call" /\ suspended /\ ~fails) THEN 0 ELSE 1)
  /\ nnativecalls' = nnativecalls - 1
  /\ nmetamethodscall' = IF act.how = "meta" THEN nmetamethodscall - 1 ELSE nmetamethodscall
  /\ UNCHANGED <<etraps, gens, suspendVars>>

NativeReturn ==
  /\ InNative
  /\ EndNative(FALSE)
  /\ cstack' = Front(cstack)
  /\ UNCHANGED <<mode, reported>>

(* The native function reports an error, which the instruction that called *)
(* it throws.                                                              *)
NativeThrow ==
  /\ InNative /\ act.how # "call"
  /\ EndNative(TRUE)
  /\ ThrowIn(Front(cstack))

(* The same, when sq_call called it: its caller is told and goes on. *)
SqCallNativeFails ==
  /\ InNative /\ act.how = "call"
  /\ EndNative(TRUE)
  /\ cstack' = Front(cstack)
  /\ UNCHANGED <<mode, reported>>

(* Mutant: a VM may be suspended through native calls and metamethods. *)
MutSuspend ==
  /\ InNative /\ act.how = "op"
  /\ ~suspended
  /\ LeaveFrame(0)
  /\ nnativecalls' = nnativecalls - 2
  /\ suspended' = TRUE
  /\ suspendedRoot' = callsstack[Len(callsstack) - 1].root
  /\ suspendedTraps' = cstack[Len(cstack) - 1].traps
  /\ cstack' = SubSeq(cstack, 1, Len(cstack) - 2)
  /\ UNCHANGED <<etraps, gens, nmetamethodscall, mode, reported>>

(* sq_suspendvm in a native function that a script called.  Execute saves  *)
(* its locals in the VM and returns to the host.                           *)
Suspend ==
  /\ InNative /\ act.how = "op"
  /\ ~suspended /\ nnativecalls = 2
  /\ LeaveFrame(0)
  /\ nnativecalls' = nnativecalls - 2
  /\ suspended' = TRUE
  /\ suspendedRoot' = callsstack[Len(callsstack) - 1].root
  /\ suspendedTraps' = cstack[Len(cstack) - 1].traps
  /\ cstack' = SubSeq(cstack, 1, Len(cstack) - 2)
  /\ UNCHANGED <<etraps, gens, nmetamethodscall, mode, reported>>

(* sq_tailcall from a native function that a script called: its frame      *)
(* becomes that of the closure.  The test of ci->_root in TailCall looks   *)
(* at this frame, and so lets natives that sq_call has called pass too;    *)
(* those callers are assumed not to make tail calls.                       *)
TailCall ==
  /\ InNative /\ act.how = "op" /\ ~ci.root
  /\ callsstack' = [callsstack EXCEPT ![Len(callsstack)].kind = "closure"]
  /\ top' = IF top >= stackbase + StackSize THEN top ELSE stackbase + StackSize
  /\ nnativecalls' = nnativecalls - 1
  /\ cstack' = Front(cstack)
  /\ UNCHANGED <<stackbase, etraps, gens, nmetamethodscall, suspendVars, mode, reported>>

(* sq_call of a closure. *)
SqCall(raiseerror) ==
  /\ CanCall /\ RoomForFrame
  /\ EnterFrame("closure", top, top + StackSize, top + NParams, TRUE, NoGen, 0)
  /\ PushExecute("call", 0, raiseerror)
  /\ UNCHANGED <<etraps, gens, nmetamethodscall, suspendVars, mode, reported>>

(* sq_call of a function that contains yield: it leaves the argument on    *)
(* the stack of a suspended VM.                                            *)
SqCallGeneratorFunction(g) ==
  /\ CanCall
  /\ NewGenerator(g)
  /\ top' = IF suspended THEN top + NParams ELSE top
  /\ UNCHANGED <<callsstack, stackbase, etraps, countVars, suspendVars, cstack, mode, reported>>

(* sq_call of a native closure. *)
SqCallNative ==
  /\ CanCall /\ RoomForFrame
  /\ EnterFrame("native", top, top + NParams, top + NParams, FALSE, NoGen, 0)
  /\ cstack' = Append(cstack, [kind |-> "native", how |-> "call"])
  /\ nnativecalls' = nnativecalls + 1
  /\ UNCHANGED <<etraps, gens, nmetamethodscall, suspendVars, mode, reported>>

(* sq_resume of a suspended generator: a null for the result is pushed and *)
(* Execute makes the resumed frame its root.  Callers must not pass a dead *)
(* or running generator: Execute does not look at the result of Resume.    *)
SqResume(g, raiseerror) ==
  /\ CanCall /\ RoomForFrame
  /\ ResumeFrame(g, top + 1, TRUE)
  /\ PushExecute("resume", gens[g].etraps, raiseerror)
  /\ UNCHANGED <<nmetamethodscall, suspendVars, mode, reported>>

(* sq_wakeupvm of a suspended VM, in which the host may throw an error. *)
WakeUp(throw) ==
  /\ InHost /\ suspended
  /\ LET stack == Append(cstack, [kind |-> "exec", how |-> "wake", traps |-> suspendedTraps,
                                  raiseerror |-> TRUE])
     IN IF throw THEN ThrowIn(stack) ELSE cstack' = stack /\ UNCHANGED <<mode, reported>>
  /\ nnativecalls' = nnativecalls + 1
  /\ callsstack' = [callsstack EXCEPT ![Len(callsstack)].root = suspendedRoot]
  /\ suspended' = FALSE
  /\ UNCHANGED <<stackbase, top, etraps, gens, nmetamethodscall, suspendedRoot, suspendedTraps>>
-----------------------------------------------------------------------------
Instruction ==
  \/ PushTrap \/ PopTrap \/ CallClosure \/ CallNative \/ CallMetaMethod \/ CallMetaMethodNative
  \/ Return \/ Yield \/ Throw
  \/ \E g \in Gen : CallGeneratorFunction(g)

ExceptionTrap == Catch \/ \E rethrow \in BOOLEAN : Unwind(rethrow)

Native ==
  \/ NativeReturn \/ NativeThrow \/ Suspend \/ TailCall
  \/ SqCallNative \/ SqCallNativeFails
  \/ \E r \in BOOLEAN : SqCall(r) \/ WakeUp(r)
  \/ \E g \in Gen : SqCallGeneratorFunction(g)

Common == Instruction \/ ExceptionTrap \/ Native

(* Every generator is resumed in one way only, by scripts with resume or   *)
(* by the host and its natives with sq_resume.                             *)
Next ==
  \/ Common
  \/ \E g \in Gen :
       \/ gens[g].by = "script" /\ Resume(g)
       \/ gens[g].by = "host" /\ \E r \in BOOLEAN : SqResume(g, r)
Spec == Init /\ [][Next]_vars

(* Scripts iterate over generators with foreach. *)
ForeachSpec == Init /\ [][Next \/ \E g \in Gen : ForeachGenerator(g)]_vars
-----------------------------------------------------------------------------
(* The sum of the first n of some numbers. *)
SumTo(s, n) ==
  LET sum[k \in 0 .. n] == IF k = 0 THEN 0 ELSE sum[k - 1] + s[k]
  IN sum[n]

(* The activations with frames on callsstack: a suspended Execute has left *)
(* the C++ stack and its frames are below the others.                      *)
Activations ==
  (IF suspended THEN <<[kind |-> "exec", how |-> "wake", traps |-> suspendedTraps]>> ELSE <<>>)
    \o cstack

(* An activation begins with a root frame or that of a native; ActivationOf*)
(* is the activation that frame i of frames then belongs to.               *)
IsEntry(frame) == frame.root \/ frame.kind = "native"
ActivationOf(frames, i) == SumTo([j \in DOMAIN frames |-> IF IsEntry(frames[j]) THEN 1 ELSE 0], i)

(* The base of frame i, the traps of the first i frames, and those of all  *)
(* frames of the k-th activation.                                          *)
BaseOf(frames, i) == SumTo([j \in DOMAIN frames |-> frames[j].prevstkbase], i)
TrapsUpTo(frames, i) == SumTo([j \in DOMAIN frames |-> frames[j].etraps], i)
TrapsOf(frames, k) ==
  SumTo([j \in DOMAIN frames |-> IF ActivationOf(frames, j) = k THEN frames[j].etraps ELSE 0], Len(frames))

(* Every frame owns a contiguous run of _etraps, as long as its _etraps    *)
(* says, in the order of the frames, and a trap restores the base of the   *)
(* frame that owns it and a top above that base, wherever a yield and a    *)
(* resume have moved the frame in the meantime.                            *)
TrapsMatchFrames ==
  /\ Len(etraps) = TrapsUpTo(callsstack, Len(callsstack))
  /\ stackbase = BaseOf(callsstack, Len(callsstack))
  /\ \A i \in DOMAIN callsstack :
       \A t \in TrapsUpTo(callsstack, i - 1) + 1 .. TrapsUpTo(callsstack, i) :
         /\ etraps[t].stackbase = BaseOf(callsstack, i)
         /\ etraps[t].stacksize >= BaseOf(callsstack, i)

(* The local variable traps of each Execute, also of one that is suspended *)
(* or waits for a native that it called, is the number of traps of the     *)
(* frames it runs, through calls, yields, resumes, throws and wake-ups.    *)
TrapsCounted ==
  \A k \in DOMAIN Activations :
    Activations[k].kind = "exec" => Activations[k].traps = TrapsOf(callsstack, k)

(* A generator is running exactly when one frame runs it: no return, yield *)
(* or error leaves one marked as running for ever, and none runs twice.    *)
GeneratorOwnership ==
  \A g \in Gen :
    LET frames == {i \in DOMAIN callsstack : callsstack[i].gen = g} IN
    IF gens[g].state = "running" THEN \E i \in DOMAIN callsstack : frames = {i} ELSE frames = {}

(* The root and native frames are those of the activations, in order, and  *)
(* the other frames are those of script functions that an Execute runs, so *)
(* that a Return or an unwinding ends the Execute that entered the frame   *)
(* and no other, and the VM's counters of native calls and metamethods     *)
(* agree with the C++ stack.                                               *)
FramesNest ==
  /\ ActivationOf(callsstack, Len(callsstack)) = Len(Activations)
  /\ \A i \in DOMAIN callsstack :
       (callsstack[i].kind = "native") = (Activations[ActivationOf(callsstack, i)].kind = "native")
  /\ callsstack # <<>> => IsEntry(Head(callsstack))
  /\ InNative => ci.kind = "native"
  /\ nnativecalls = Len(cstack)
  /\ nmetamethodscall = SumTo([k \in DOMAIN cstack |-> IF cstack[k].how = "meta" THEN 1 ELSE 0], Len(cstack))

(* Once a call from the host has ended, by return or by error, no frame,   *)
(* trap or value of it is left on the stacks of the VM, save that an error *)
(* in sq_resume leaves the null that it pushed for the result.             *)
StackRestored ==
  InHost /\ ~suspended =>
    /\ callsstack = <<>> /\ etraps = <<>> /\ stackbase = 0
    /\ (\A g \in Gen : gens[g].by = "script") => top = 0

(* The error handler is called exactly for the errors that no try block of *)
(* the Execute that meets them catches: exception_trap decides it from the *)
(* variable traps before it looks at the frames.                           *)
HandlerHearsUncaught ==
  mode = "unwind" =>
    (reported <=> act.raiseerror /\ TrapsOf(callsstack, Len(Activations)) = 0)

(* What the assertions traps == 0 of _OP_RETURN and _OP_YIELD see when a   *)
(* root frame returns, after its own traps are popped.                     *)
TrapsZeroAtReturn == InExecute /\ ci.root => act.traps = ci.etraps
=============================================================================

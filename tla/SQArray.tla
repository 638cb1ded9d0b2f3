------------------------------- MODULE SQArray -------------------------------
(***************************************************************************)
(* Arrays (squtils.h, sqarray.h, sqapi.cpp, sqbaselib.cpp): the vector that*)
(* holds the elements, and the library functions, some of which call back  *)
(* into scripts that may change the very array that is being worked on.    *)
(***************************************************************************)
EXTENDS Integers, Sequences, FiniteSets, SequencesExt, TLC

CONSTANTS
  Value, Null,  \* the values, numbers, that are stored, and null
  MinSize,    \* the smallest vector: 4 in the code
  Params,     \* the numbers of parameters of the functions passed to map and apply: this is one
  MaxLen,     \* bound: the longest array
  MaxEdits    \* bound: the changes that one call of a passed function makes

ASSUME ArrayAssumption ==
  /\ Value \subseteq Int /\ Null \notin Value /\ {MinSize, MaxLen} \subseteq Nat \ {0} /\ MaxEdits \in Nat
  /\ Params \subseteq Nat \ {0}

VARIABLES
  vals,       \* the elements; C++ counts them from 0
  allocated,  \* _allocated
  fn,         \* the library function that is running a passed function
  stack,      \* what its frame of the stack of the VM holds
  out         \* what the last function returned

vars == <<vals, allocated, fn, stack, out>>

Idle == [name |-> "none"]
size == Len(vals)
Init == vals = <<>> /\ allocated = MinSize /\ fn = Idle /\ stack = <<>> /\ out = "none"
-----------------------------------------------------------------------------
(* sqvector: each gives the elements and the allocated size. *)
Vector(v, n) == [vals |-> v, allocated |-> n]

Realloc(n) == IF n > 0 THEN n ELSE MinSize

push_back(v) == Vector(Append(vals, v), IF allocated <= size THEN Realloc(size * 2) ELSE allocated)

resize(n, fill) ==
  Vector([i \in 1 .. n |-> IF i <= size THEN vals[i] ELSE fill], IF n > allocated THEN Realloc(n) ELSE allocated)

insert(idx, v) ==
  LET grown == resize(size + 1, Null)
  IN [grown EXCEPT !.vals = [i \in DOMAIN grown.vals |->
        CASE i - 1 > idx -> vals[i - 1] [] i - 1 = idx -> v [] OTHER -> vals[i]]]

remove(idx) == Vector([i \in 1 .. size - 1 |-> IF i - 1 < idx THEN vals[i] ELSE vals[i + 1]], allocated)

(* SQArray::ShrinkIfNeeded and sqvector::shrinktofit. *)
ShrinkIfNeeded(v) ==
  IF Len(v.vals) <= v.allocated \div 4 /\ Len(v.vals) > MinSize THEN [v EXCEPT !.allocated = Len(v.vals)] ELSE v

Valid(idx) == idx \in 0 .. size - 1
ElementOr(idx, stale) == IF Valid(idx) THEN vals[idx + 1] ELSE stale
-----------------------------------------------------------------------------
(* The functions that call nothing: of the program, or of a function that  *)
(* has been passed to one of those that do.                                *)
Index == -1 .. MaxLen

Called == fn # Idle /\ fn.pc = "called"
MayEdit == fn # Idle => fn.pc = "called" /\ fn.edits < MaxEdits

(* A vector that is reallocated may move. *)
Become(v) ==
  /\ vals' = v.vals /\ allocated' = v.allocated
  /\ IF fn = Idle THEN fn' = fn
     ELSE \E moved \in IF v.allocated = allocated THEN {fn.moved} ELSE {fn.moved, TRUE} :
            fn' = [fn EXCEPT !.edits = @ + 1, !.moved = moved]

Answer(what) == out' = (IF fn = Idle THEN what ELSE out) /\ UNCHANGED stack
Refuse == Answer("error") /\ UNCHANGED <<vals, allocated, fn>>

array_append == MayEdit /\ size < MaxLen /\ \E v \in Value : Become(push_back(v)) /\ Answer("array")

(* What push_back makes of _allocated when n elements are added. *)
Grown(n) ==
  LET After[k \in Nat] ==
        IF k = 0 THEN allocated
        ELSE IF After[k - 1] <= size + k - 1 THEN Realloc((size + k - 1) * 2) ELSE After[k - 1]
  IN After[n]

(* The length is taken once, so that an array can be extended by itself. *)
array_extend ==
  /\ MayEdit
  /\ \E other \in {vals} \union {<<v>> : v \in Value} :
       size + Len(other) <= MaxLen /\ Become(Vector(vals \o other, Grown(Len(other))))
  /\ Answer("array")

array_reverse ==
  /\ MayEdit
  /\ Become(Vector([i \in 1 .. size |-> vals[size + 1 - i]], allocated)) /\ Answer("array")

array_pop ==
  /\ MayEdit
  /\ IF size > 0 THEN Become(ShrinkIfNeeded(Vector(Front(vals), allocated))) /\ Answer("value") ELSE Refuse

array_insert ==
  /\ MayEdit /\ size < MaxLen
  /\ \E idx \in Index, v \in Value :
       IF idx \in 0 .. size THEN Become(insert(idx, v)) /\ Answer("array") ELSE Refuse

array_remove ==
  /\ MayEdit
  /\ \E idx \in Index : IF Valid(idx) THEN Become(ShrinkIfNeeded(remove(idx))) /\ Answer("value") ELSE Refuse

array_resize ==
  /\ MayEdit
  /\ \E n \in Index, fill \in Value :
       IF n >= 0 THEN Become(ShrinkIfNeeded(resize(n, fill))) /\ Answer("array") ELSE Refuse

Set(idx, v) ==
  IF Valid(idx) THEN Become(Vector([vals EXCEPT ![idx + 1] = v], allocated)) /\ Answer("value") ELSE Refuse

array_set == MayEdit /\ \E idx \in Index, v \in Value : Set(idx, v)

(* get_slice_params, array_slice: bounds below 0 count from the end. *)
Bound(n) == IF n < 0 THEN size + n ELSE n

SliceRefused(from, to) == Bound(to) < Bound(from) \/ Bound(to) > size \/ Bound(from) < 0

Slice(from, to) == [i \in 1 .. Bound(to) - Bound(from) |-> ElementOr(Bound(from) + i - 1, Null)]
Bounds == -MaxLen - 1 .. MaxLen + 1

array_slice ==
  /\ fn = Idle
  /\ \E from, to \in Bounds : out' = IF SliceRefused(from, to) THEN "error" ELSE "result"
  /\ UNCHANGED <<vals, allocated, fn, stack>>
-----------------------------------------------------------------------------
(* Functions that call a function which they are passed. *)
Fn(name, nargs, n) ==
  [name |-> name, pc |-> "loop", nargs |-> nargs, n |-> n, size |-> size, edits |-> 0, moved |-> FALSE, edited |-> FALSE]

Begin(f, s) == fn = Idle /\ fn' = f /\ stack' = s /\ out' = "none" /\ UNCHANGED <<vals, allocated>>

(* __map_array calls with as many arguments as the function has parameters,*)
(* of which it pushes from two to four.                                    *)
array_map ==
  \E name \in {"map", "apply"}, nparameters \in Params :
    Begin(Fn(name, nparameters, 0), <<"array", "closure", "closure">>)

array_filter == Begin(Fn("filter", 3, 0), <<"array", "closure">>)

array_reduce ==
  \E initial \in BOOLEAN :
    LET args == IF initial THEN <<"array", "closure", "value">> ELSE <<"array", "closure">>
        start == IF initial THEN 0 ELSE 1
    IN IF ~initial /\ size = 0 THEN fn = Idle /\ out' = "null" /\ UNCHANGED <<vals, allocated, fn, stack>>
       ELSE Begin(Fn("reduce", 3, start), IF size > start THEN Append(args, "closure") ELSE args)

(* Mutant: the index is passed, and the array is not. *)
MutMapArguments(nargs) ==
  <<"array", "value">> \o (IF nargs >= 3 THEN <<"index">> ELSE <<>>)

MapArguments(nargs) ==
  <<"array", "value">> \o (IF nargs >= 3 THEN <<"index">> ELSE <<>>) \o (IF nargs >= 4 THEN <<"array">> ELSE <<>>)

Arguments ==
  CASE fn.name \in {"map", "apply"} -> MapArguments(fn.nargs)
    [] fn.name = "filter" -> <<"array", "index", "value">>
    [] fn.name = "reduce" -> <<"array", "value", "value">>
    [] fn.name = "sort" -> <<"closure", "roottable", "value", "value">>

(* sq_call takes the function from below as many slots as it has arguments,*)
(* and the first of them as this.  Below the frame are those of the caller. *)
Slot(s, i) == IF i \in DOMAIN s THEN s[i] ELSE "outside"
Callee(s) == Slot(s, Len(s) - fn.nargs)
This(s) == Slot(s, Len(s) - fn.nargs + 1)

CallBack ==
  /\ stack' = stack \o Arguments
  /\ fn' = [fn EXCEPT !.pc = "called", !.edits = 0, !.moved = FALSE]
  /\ UNCHANGED <<vals, allocated, out>>

Looping == fn # Idle /\ fn.pc = "loop" /\ fn.name # "sort"
(* The frame of the function is left with the value on top, or with an error. *)
Finish(top) == fn' = Idle /\ stack' = <<>> /\ out' = top

(* An array is no function. *)
LoopCalls ==
  /\ Looping /\ fn.n < fn.size
  /\ IF Callee(stack \o Arguments) = "array" THEN Finish("error") /\ UNCHANGED <<vals, allocated>> ELSE CallBack

Truncated(n) == SubSeq(stack, 1, Len(stack) - n)
Top(s) == Slot(s, Len(s))

LoopEnds ==
  /\ Looping /\ fn.n >= fn.size
  /\ Finish(CASE fn.name = "map" -> "result"
              [] fn.name = "apply" -> Top(Truncated(2))
              [] fn.name = "filter" -> "result"
              [] fn.name = "reduce" -> "value")
  /\ UNCHANGED <<vals, allocated>>

(* sq_call has taken the arguments away and pushed the result; what apply  *)
(* gets is stored if the array still has the place.                        *)
Returns ==
  /\ Called /\ fn.name # "sort"
  /\ stack' = Truncated(fn.nargs)
  /\ fn' = [fn EXCEPT !.pc = "loop", !.n = @ + 1, !.edited = @ \/ fn.edits > 0, !.edits = 0, !.moved = FALSE]
  /\ \E v \in Value : vals' = IF fn.name = "apply" /\ Valid(fn.n) THEN [vals EXCEPT ![fn.n + 1] = v] ELSE vals
  /\ UNCHANGED <<allocated, out>>

Fails == Called /\ Finish("error") /\ UNCHANGED <<vals, allocated>>
-----------------------------------------------------------------------------
(* array_sort: a heap sort.  Without a function it compares numbers; a     *)
(* function may return anything, or the order of the numbers (consistent). *)
Sort(func, consistent) ==
  [name |-> "sort", pc |-> "sift", nargs |-> 3, func |-> func, consistent |-> consistent, size |-> size,
   building |-> TRUE, i |-> size \div 2, root |-> size \div 2, bottom |-> size - 1, child |-> -1,
   edits |-> 0, moved |-> FALSE, edited |-> FALSE]

array_sort ==
  \E func, consistent \in BOOLEAN :
    /\ ~func => consistent
    /\ IF size > 1 THEN Begin(Sort(func, consistent), IF func THEN <<"array", "closure">> ELSE <<"array">>)
       ELSE Answer("array") /\ fn = Idle /\ UNCHANGED <<vals, allocated, fn>>

Swapped(a, b) ==
  IF Valid(a) /\ Valid(b) THEN [vals EXCEPT ![a + 1] = vals[b + 1], ![b + 1] = vals[a + 1]] ELSE vals

(* _hsort: the next element to sift down. *)
NextSift ==
  CASE fn.building /\ fn.i > 0 -> fn' = [fn EXCEPT !.pc = "sift", !.i = @ - 1, !.root = fn.i - 1] /\ UNCHANGED <<vals, stack, out>>
    [] (fn.building /\ fn.i = 0) \/ (~fn.building /\ fn.i > 1) ->
         LET i == IF fn.building THEN fn.size - 1 ELSE fn.i - 1
         IN /\ vals' = Swapped(0, i)
            /\ fn' = [fn EXCEPT !.pc = "sift", !.building = FALSE, !.i = i, !.root = 0, !.bottom = i - 1]
            /\ UNCHANGED <<stack, out>>
    [] OTHER -> Finish("array") /\ UNCHANGED vals

(* _hsort_sift_down *)
Sorting(pc) == fn.name = "sort" /\ fn.pc = pc

SiftDown ==
  /\ Sorting("sift") /\ UNCHANGED allocated
  /\ IF fn.root * 2 > fn.bottom THEN NextSift
     ELSE /\ fn' = [fn EXCEPT !.pc = "compare", !.child = IF fn.root * 2 = fn.bottom THEN fn.bottom ELSE -1]
          /\ UNCHANGED <<vals, stack, out>>

Compared == IF fn.child = -1 THEN <<fn.root * 2, fn.root * 2 + 1>> ELSE <<fn.root, fn.child>>
Sign(n) == IF n < 0 THEN -1 ELSE IF n > 0 THEN 1 ELSE 0
Order == Sign(ElementOr(Compared[1], Null) - ElementOr(Compared[2], Null))

Chosen(child) == fn' = [fn EXCEPT !.pc = "compare", !.child = child] /\ UNCHANGED <<vals, stack, out>>
SwapDown ==
  /\ vals' = Swapped(fn.root, fn.child)
  /\ fn' = [fn EXCEPT !.pc = "sift", !.root = fn.child]
  /\ UNCHANGED <<stack, out>>

(* Mutant: the larger child is not looked for. *)
MutDecide(ret) ==
  CASE fn.child = -1 -> Chosen(fn.root * 2)
    [] ret < 0 /\ fn.child = fn.root -> Finish("error") /\ UNCHANGED vals
    [] ret < 0 /\ fn.child \notin {-1, fn.root} -> SwapDown
    [] OTHER -> NextSift

(* Mutant: an element that is less than itself is sifted down. *)
MutDecideSelf(ret) ==
  CASE fn.child = -1 -> Chosen(IF ret > 0 THEN fn.root * 2 ELSE fn.root * 2 + 1)
    [] ret < 0 /\ fn.child # -1 -> SwapDown
    [] OTHER -> NextSift

(* What a comparison that gave ret leads to; the 0th element is among its  *)
(* own children, and must not be less than itself.                         *)
Decide(ret) ==
  CASE fn.child = -1 -> Chosen(IF ret > 0 THEN fn.root * 2 ELSE fn.root * 2 + 1)
    [] ret < 0 /\ fn.child = fn.root -> Finish("error") /\ UNCHANGED vals
    [] ret < 0 /\ fn.child \notin {-1, fn.root} -> SwapDown
    [] OTHER -> NextSift

SortCompares == Sorting("compare") /\ ~fn.func /\ Decide(Order) /\ UNCHANGED allocated
SortCalls == Sorting("compare") /\ fn.func /\ CallBack

(* Mutant: an array that has been resized goes unnoticed. *)
MutResized == FALSE

(* _sort_compare sees whether the function has resized the array. *)
Resized == size # fn.size \/ fn.moved

(* What the function returns is looked at only if it is a number. *)
SortReturns ==
  /\ Called /\ fn.name = "sort" /\ UNCHANGED allocated
  /\ IF Resized THEN Finish("error") /\ UNCHANGED vals
     ELSE /\ stack' = Truncated(4)
          /\ fn' = [fn EXCEPT !.pc = "decide", !.edited = @ \/ fn.edits > 0, !.edits = 0]
          /\ UNCHANGED <<vals, out>>

SortDecides ==
  /\ Sorting("decide") /\ UNCHANGED allocated
  /\ \E ret \in IF fn.consistent /\ ~fn.edited THEN {Order} ELSE {-1, 0, 1} : Decide(ret)

Next ==
  \/ array_append \/ array_extend \/ array_reverse \/ array_pop \/ array_insert \/ array_remove \/ array_resize
  \/ array_set \/ array_slice
  \/ array_map \/ array_filter \/ array_reduce \/ LoopCalls \/ LoopEnds \/ Returns \/ Fails
  \/ array_sort \/ SiftDown \/ SortCompares \/ SortCalls \/ SortReturns \/ SortDecides

Spec == Init /\ [][Next]_vars /\ WF_vars(LoopCalls \/ LoopEnds \/ Returns \/ SiftDown \/ SortCompares \/ SortCalls \/ SortReturns \/ SortDecides)
-----------------------------------------------------------------------------
(* The passed function is what is called, with the array as this (sort:    *)
(* the root table), exactly when it has from two to four parameters: these *)
(* are the arguments that __map_array can push.  A function of one or of   *)
(* six is never called; one of five is called for the first element only,  *)
(* with itself as this; for one of more a slot of the caller is called.    *)
(* What the library function returns is never the passed function.         *)
CallsFunction ==
  /\ out # "closure"
  /\ Called =>
       /\ Callee(stack) = "closure" /\ This(stack) = (IF fn.name = "sort" THEN "roottable" ELSE "array")
            <=> fn.nargs \in 2 .. 4
       /\ fn.nargs \notin {1, 6}
       /\ fn.nargs = 5 => fn.n = 0 /\ Callee(stack) = "closure" /\ This(stack) = "closure"
       /\ fn.nargs > 6 => Callee(stack) = "outside"

(* The heap sort reads and swaps inside the array only, although a function*)
(* that it calls may resize the array.                                     *)
SortInside ==
  fn.name = "sort" /\ fn.pc # "called" => size = fn.size /\ fn.root < size /\ (fn.pc = "compare" => Valid(Compared[2]))

Bag(s) == [v \in Value \union {Null} |-> Cardinality({i \in DOMAIN s : s[i] = v})]

(* Sorting only moves elements, whatever the function returns or throws,   *)
(* and leaves them in order when the comparison is one of the numbers.     *)
SortSorts ==
  [][/\ fn.name = "sort" /\ fn.pc # "called" => Bag(vals') = Bag(vals)
     /\ fn.name = "sort" /\ fn' = Idle /\ fn.consistent /\ ~fn.edited /\ fn.pc # "called" =>
          out' = "array" /\ \A i, j \in 1 .. size : i < j => vals'[i] <= vals'[j]]_vars

(* Every function comes to its end, although a comparison may be           *)
(* inconsistent and an array may grow while it is worked on.               *)
FunctionsEnd == (fn # Idle) ~> (fn = Idle)
=============================================================================

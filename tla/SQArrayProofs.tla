---------------------------- MODULE SQArrayProofs ----------------------------
(* Theorems on arrays: the bounds of the heap sort, and the frames of the   *)
(* functions that call back.                                               *)
EXTENDS SQArray, SequenceTheorems, TLAPS

Element == Value \union {Null}
IsVector(v) == v.vals \in Seq(Element) /\ v = Vector(v.vals, v.allocated)

(* What the functions that call nothing make of the elements. *)
LEMMA FunctionIsSeq ==
  ASSUME NEW S, NEW n \in Nat, NEW s, s \in [1 .. n -> S]
  PROVE s \in Seq(S) /\ Len(s) = n
BY SeqDef

LEMMA Vectors ==
  ASSUME vals \in Seq(Element)
  PROVE /\ \A v \in Value : IsVector(push_back(v))
        /\ \A n \in Nat, fill \in Element : IsVector(resize(n, fill)) /\ Len(resize(n, fill).vals) = n
        /\ \A idx \in 0 .. size, v \in Value : IsVector(insert(idx, v))
        /\ \A idx \in Int : Valid(idx) => IsVector(remove(idx))
        /\ \A v : IsVector(v) => IsVector(ShrinkIfNeeded(v))
<1>0. size \in Nat /\ \A i \in 1 .. size : vals[i] \in Element BY DEF size
<1>1. \A s, n : Vector(s, n).vals = s /\ (s \in Seq(Element) => IsVector(Vector(s, n))) BY DEF Vector, IsVector
<1>2. \A v \in Value : IsVector(push_back(v)) 
  <2>1. \A v \in Value : Append(vals, v) \in Seq(Element) BY DEF Element
  <2>2. QED BY <1>1, <2>1 DEF push_back
<1>3. ASSUME NEW n \in Nat, NEW fill \in Element PROVE IsVector(resize(n, fill)) /\ Len(resize(n, fill).vals) = n
  <2>1. [i \in 1 .. n |-> IF i <= size THEN vals[i] ELSE fill] \in [1 .. n -> Element] BY <1>0
  <2>2. QED BY <1>1, <2>1, FunctionIsSeq DEF resize
<1>4. ASSUME NEW idx \in 0 .. size, NEW v \in Value PROVE IsVector(insert(idx, v))
  <2> DEFINE grown == resize(size + 1, Null)
             s == [i \in DOMAIN grown.vals |-> CASE i - 1 > idx -> vals[i - 1] [] i - 1 = idx -> v [] OTHER -> vals[i]]
  <2>1. grown.vals \in Seq(Element) /\ Len(grown.vals) = size + 1 /\ grown = Vector(grown.vals, grown.allocated)
    BY <1>0, <1>3 DEF IsVector, Element
  <2>2. DOMAIN grown.vals = 1 .. size + 1 BY <2>1
  <2>3. \A i \in 1 .. size + 1 : s[i] \in Element
    <3> HIDE DEF grown
    <3>1. ASSUME NEW i \in 1 .. size + 1 PROVE s[i] \in Element
      <4>1. CASE i - 1 > idx BY <1>0, <2>2, <4>1
      <4>2. CASE i - 1 = idx BY <1>0, <2>2, <4>2 DEF Element
      <4>3. CASE i - 1 < idx BY <1>0, <2>2, <4>3
      <4>4. QED BY <1>0, <4>1, <4>2, <4>3
    <3>2. QED BY <3>1
  <2>4. s \in Seq(Element)
    <3> HIDE DEF grown
    <3>1. s \in [1 .. size + 1 -> Element] BY <2>2, <2>3
    <3> HIDE DEF s
    <3>2. QED BY <1>0, <3>1, FunctionIsSeq
  <2>5. insert(idx, v) = Vector(s, grown.allocated)
    <3> HIDE DEF s
    <3>1. insert(idx, v) = [grown EXCEPT !.vals = s] BY Zenon DEF insert, s
    <3> HIDE DEF grown
    <3>2. QED BY <2>1, <3>1 DEF Vector
  <2>6. QED BY <1>1, <2>4, <2>5
<1>5. ASSUME NEW idx \in Int, Valid(idx) PROVE IsVector(remove(idx))
  <2>1. [i \in 1 .. size - 1 |-> IF i - 1 < idx THEN vals[i] ELSE vals[i + 1]] \in [1 .. size - 1 -> Element] BY <1>0
  <2>2. size - 1 \in Nat BY <1>0, <1>5 DEF Valid
  <2>3. QED BY <1>1, <2>1, <2>2, FunctionIsSeq DEF remove
<1>6. \A v : IsVector(v) => IsVector(ShrinkIfNeeded(v))
  <2> TAKE v
  <2> HAVE IsVector(v)
  <2>1. [v EXCEPT !.allocated = Len(v.vals)] = Vector(v.vals, Len(v.vals)) BY DEF IsVector, Vector
  <2>2. QED BY <1>1, <2>1 DEF IsVector, ShrinkIfNeeded
<1>7. QED BY <1>2, <1>3, <1>4, <1>5, <1>6
-----------------------------------------------------------------------------
(* The state of the heap sort: what is sifted lies inside the array, and is *)
(* compared with children that do.                                         *)
LoopFields == {"name", "pc", "nargs", "n", "size", "edits", "moved", "edited"}
SortFields ==
  {"name", "pc", "nargs", "func", "consistent", "size", "building", "i", "root", "bottom", "child", "edits", "moved", "edited"}

SortRecord(f) ==
  /\ f.name = "sort"
  /\ f = [x \in SortFields |-> f[x]] /\ f.nargs = 3
  /\ f.pc \in {"sift", "compare", "called", "decide"}
  /\ f.size \in Nat \ {0, 1} /\ f.i \in Nat /\ f.root \in Nat /\ f.bottom \in Int /\ f.child \in Int
  /\ f.root < f.size
  /\ \/ f.building /\ f.i < f.size /\ f.bottom = f.size - 1
     \/ ~f.building /\ 0 < f.i /\ f.i < f.size /\ f.bottom = f.i - 1
  /\ f.pc # "sift" =>
       \/ f.child = -1 /\ f.root * 2 < f.bottom
       \/ f.child \in {f.root * 2, f.root * 2 + 1} /\ f.child <= f.bottom

LoopRecord(f) ==
  /\ f.name \in {"map", "apply", "filter", "reduce"}
  /\ f = [x \in LoopFields |-> f[x]]
  /\ f.pc \in {"loop", "called"}
  /\ f.nargs \in Nat \ {0} /\ (f.name \in {"filter", "reduce"} => f.nargs = 3)
  /\ f.n \in Nat /\ f.size \in Nat /\ (f.nargs = 6 => f.n = 0)

(* What the frame of the function holds when it calls nothing: sq_call     *)
(* takes away one slot too many when the function has five parameters, and *)
(* the whole frame when it has more.                                       *)
Bases(f) ==
  CASE f.name = "sort" -> {<<"array">>, <<"array", "closure">>}
    [] f.name = "filter" -> {<<"array", "closure">>}
    [] f.name \in {"map", "apply"} ->
         IF f.nargs <= 4 \/ f.n = 0 THEN {<<"array", "closure", "closure">>}
         ELSE IF f.nargs = 5 THEN {<<"array", "closure">>} ELSE {<<>>}
    [] f.name = "reduce" ->
         {<<"array", "closure", "closure">>, <<"array", "closure", "value", "closure">>}
           \union IF f.n >= f.size THEN {<<"array", "closure">>, <<"array", "closure", "value">>} ELSE {}

(* An array is called, and the function fails, at once or at the second    *)
(* element.                                                                *)
MayCall(f) == f.nargs \notin {1, 6} /\ (f.nargs = 5 => f.n = 0)

FrameRight ==
  /\ out # "closure"
  /\ fn # Idle /\ fn.pc # "called" => stack \in Bases(fn)
  /\ Called => \E s \in Bases(fn) : stack = s \o Arguments /\ (fn.name # "sort" => fn.n < fn.size)
  /\ Called => MayCall(fn)

SameSize == fn.name = "sort" /\ fn.pc # "called" => size = fn.size

ArrayInv ==
  /\ vals \in Seq(Element)
  /\ fn = Idle \/ LoopRecord(fn) \/ SortRecord(fn)
  /\ SameSize /\ FrameRight
-----------------------------------------------------------------------------
(* Arguments are pushed on a frame and taken off again. *)
Word == {"array", "closure", "value", "index", "roottable"}

LEMMA Pushed ==
  ASSUME NEW s \in Seq(Word), NEW t \in Seq(Word)
  PROVE /\ Len(s \o t) = Len(s) + Len(t)
        /\ \A i \in 1 .. Len(t) : (s \o t)[Len(s) + i] = t[i]
        /\ SubSeq(s \o t, 1, Len(s \o t) - Len(t)) = s
<1>1. /\ s \o t \in Seq(Word) /\ Len(s \o t) = Len(s) + Len(t)
      /\ \A i \in 1 .. Len(s) + Len(t) : (s \o t)[i] = IF i <= Len(s) THEN s[i] ELSE t[i - Len(s)]
  BY ConcatProperties
<1>2. Len(s) \in Nat /\ Len(t) \in Nat OBVIOUS
<1>3. \A i \in 1 .. Len(t) : (s \o t)[Len(s) + i] = t[i] BY <1>1, <1>2
<1>4. \A i \in 1 .. Len(s) : (s \o t)[i] = s[i] /\ (s \o t)[i] \in Word BY <1>1, <1>2
<1>5. /\ SubSeq(s \o t, 1, Len(s)) \in Seq(Word) /\ Len(SubSeq(s \o t, 1, Len(s))) = Len(s)
      /\ \A i \in 1 .. Len(s) : SubSeq(s \o t, 1, Len(s))[i] = s[i]
  <2> DEFINE c == s \o t
  <2> HIDE DEF c
  <2>1. /\ SubSeq(c, 1, Len(s)) \in Seq(Word)
        /\ Len(SubSeq(c, 1, Len(s))) = IF 1 <= Len(s) THEN Len(s) - 1 + 1 ELSE 0
        /\ \A i \in 1 .. Len(s) - 1 + 1 : SubSeq(c, 1, Len(s))[i] = c[1 + i - 1]
    BY <1>2, <1>4, SubSeqProperties DEF c
  <2>2. QED BY <2>1, <1>2, <1>4 DEF c
<1>6. SubSeq(s \o t, 1, Len(s)) = s BY <1>5, SeqEqual
<1>7. Len(s \o t) - Len(t) = Len(s) BY <1>1, <1>2
<1>8. QED BY <1>1, <1>3, <1>6, <1>7

LEMMA AppendWord ==
  ASSUME NEW s \in Seq(Word), NEW t \in Seq(Word), NEW w \in Word, Len(t) = Len(s) + 1,
         \A i \in 1 .. Len(s) : t[i] = s[i], t[Len(t)] = w
  PROVE Append(s, w) = t
<1>1. Append(s, w) \in Seq(Word) /\ Len(Append(s, w)) = Len(t) OBVIOUS
<1>2. \A i \in 1 .. Len(t) : Append(s, w)[i] = t[i] OBVIOUS
<1>3. QED BY <1>1, <1>2, SeqEqual

PushedFor(nargs) == IF nargs <= 2 THEN 2 ELSE IF nargs = 3 THEN 3 ELSE 4

LEMMA Arguments_ ==
  ASSUME LoopRecord(fn) \/ SortRecord(fn)
  PROVE /\ Arguments \in Seq(Word)
        /\ fn.name = "sort" => Arguments = <<"closure", "roottable", "value", "value">>
        /\ fn.name # "sort" => Arguments[1] = "array" /\ Len(Arguments) = PushedFor(fn.nargs)
<1>1. CASE fn.name \in {"map", "apply"}
  <2>1. fn.nargs \in Nat BY <1>1 DEF LoopRecord, SortRecord
  <2>2. Arguments = MapArguments(fn.nargs) BY <1>1 DEF Arguments
  <2>3. /\ <<>> \in Seq(Word) /\ <<"array", "value">> \in Seq(Word) /\ <<"index">> \in Seq(Word) /\ <<"array">> \in Seq(Word)
        /\ Len(<<"array", "value">>) = 2 /\ <<"array", "value">>[1] = "array" /\ Len(<<"index">>) = 1 /\ Len(<<"array">>) = 1
    BY DEF Word
  <2>4. \A s \in Seq(Word), t \in Seq(Word) :
          s \o t \in Seq(Word) /\ Len(s \o t) = Len(s) + Len(t) /\ (Len(s) > 0 => (s \o t)[1] = s[1])
    <3>1. ASSUME NEW s \in Seq(Word), NEW t \in Seq(Word)
          PROVE s \o t \in Seq(Word) /\ Len(s \o t) = Len(s) + Len(t) /\ (Len(s) > 0 => (s \o t)[1] = s[1])
      BY ConcatProperties
    <3>2. QED BY <3>1
  <2> DEFINE pair == <<"array", "value">>
             index == IF fn.nargs >= 3 THEN <<"index">> ELSE <<>>
             array == IF fn.nargs >= 4 THEN <<"array">> ELSE <<>>
  <2>5. Arguments = (pair \o index) \o array BY <2>2, Zenon DEF MapArguments
  <2>6. index \in Seq(Word) /\ Len(index) = (IF fn.nargs >= 3 THEN 1 ELSE 0) BY <2>3
  <2>7. array \in Seq(Word) /\ Len(array) = (IF fn.nargs >= 4 THEN 1 ELSE 0) BY <2>3
  <2>8. pair \in Seq(Word) /\ Len(pair) = 2 /\ pair[1] = "array" BY <2>3
  <2> HIDE DEF pair, index, array
  <2>9. pair \o index \in Seq(Word) /\ Len(pair \o index) = 2 + Len(index) /\ (pair \o index)[1] = "array"
    <3>1. pair \o index \in Seq(Word) /\ Len(pair \o index) = Len(pair) + Len(index) BY <2>4, <2>6, <2>8
    <3>2. (pair \o index)[1] = pair[1]
      <4>1. Len(pair) > 0 BY <2>8
      <4>2. QED BY <2>4, <2>6, <2>8, <4>1, Zenon
    <3>3. QED BY <2>8, <3>1, <3>2
  <2>10. Arguments \in Seq(Word) /\ Arguments[1] = "array" BY <2>4, <2>5, <2>7, <2>9
  <2>11. Len(Arguments) = 2 + Len(index) + Len(array) BY <2>4, <2>5, <2>7, <2>9
  <2>12. Len(Arguments) = PushedFor(fn.nargs) BY <2>1, <2>6, <2>7, <2>11 DEF PushedFor
  <2>13. QED BY <1>1, <2>10, <2>12
<1>2. CASE fn.name = "filter" BY <1>2 DEF Arguments, LoopRecord, SortRecord, Word, PushedFor
<1>3. CASE fn.name = "reduce" BY <1>3 DEF Arguments, LoopRecord, SortRecord, Word, PushedFor
<1>4. CASE fn.name = "sort" BY <1>4 DEF Arguments, Word
<1>5. QED BY <1>1, <1>2, <1>3, <1>4 DEF LoopRecord, SortRecord

LEMMA BasesAreSeq ==
  ASSUME LoopRecord(fn) \/ SortRecord(fn), NEW s \in Bases(fn)
  PROVE s \in Seq(Word) /\ Len(s) \in Nat
        /\ (fn.name # "sort" /\ fn.n < fn.size /\ (fn.nargs <= 4 \/ fn.n = 0) => Len(s) > 0 /\ s[Len(s)] = "closure")
        /\ (fn.name \in {"map", "apply"} /\ fn.nargs > 4 /\ fn.n = 0 => s = <<"array", "closure", "closure">>)
<1>2. CASE fn.name \in {"map", "apply"}
  <2>1. CASE s = <<"array", "closure", "closure">> BY <1>2, <2>1 DEF Word
  <2>2. CASE fn.nargs > 4 /\ fn.n # 0 /\ s \in {<<"array", "closure">>, <<>>}
    <3>1. fn.nargs \in Nat BY <1>2 DEF LoopRecord, SortRecord
    <3>2. CASE s = <<>> BY <2>2, <3>1, <3>2
    <3>3. CASE s = <<"array", "closure">> BY <2>2, <3>1, <3>3 DEF Word
    <3>4. QED BY <2>2, <3>2, <3>3
  <2>3. (fn.nargs <= 4 \/ fn.n = 0) => s = <<"array", "closure", "closure">> BY <1>2 DEF Bases
  <2>4. ~(fn.nargs <= 4 \/ fn.n = 0) => fn.nargs > 4 /\ fn.n # 0 /\ s \in {<<"array", "closure">>, <<>>}
    BY <1>2 DEF Bases, LoopRecord, SortRecord
  <2>5. QED BY <2>1, <2>2, <2>3, <2>4
<1>3. CASE fn.name = "filter"
  <2>1. s = <<"array", "closure">> BY <1>3 DEF Bases
  <2>2. QED BY <1>3, <2>1 DEF Word
<1>4. CASE fn.name = "sort"
  <2>1. CASE s = <<"array">> BY <1>4, <2>1 DEF Word
  <2>2. CASE s = <<"array", "closure">> BY <1>4, <2>2 DEF Word
  <2>3. QED BY <1>4, <2>1, <2>2 DEF Bases
<1>5. CASE fn.name = "reduce"
  <2>1. CASE s = <<"array", "closure">> BY <1>5, <2>1 DEF Word, Bases
  <2>2. CASE s = <<"array", "closure", "value">>
    <3>1. s # <<"array", "closure", "closure">> /\ s # <<"array", "closure", "value", "closure">> BY <2>2
    <3>2. fn.n >= fn.size BY <1>5, <3>1 DEF Bases
    <3>3. ~(fn.n < fn.size) BY <1>5, <3>2 DEF LoopRecord, SortRecord
    <3>4. QED BY <1>5, <2>2, <3>3 DEF Word
  <2>3. CASE s = <<"array", "closure", "closure">> BY <1>5, <2>3 DEF Word
  <2>4. CASE s = <<"array", "closure", "value", "closure">> BY <1>5, <2>4 DEF Word
  <2>5. QED BY <1>5, <2>1, <2>2, <2>3, <2>4 DEF Bases
<1>6. QED BY <1>2, <1>3, <1>4, <1>5 DEF LoopRecord, SortRecord
-----------------------------------------------------------------------------
(* A change of the array, by the program or by a function that was passed.  *)
LEMMA SameRecord ==
  ASSUME NEW f, NEW g, LoopRecord(f) \/ SortRecord(f), \E e, m : g = [f EXCEPT !.edits = e, !.moved = m]
  PROVE /\ LoopRecord(f) <=> LoopRecord(g)
        /\ SortRecord(f) <=> SortRecord(g)
        /\ g.name = f.name /\ g.pc = f.pc /\ g.nargs = f.nargs /\ g.size = f.size
        /\ f.name # "sort" => g.n = f.n
        /\ Bases(g) = Bases(f)
<1>1. PICK e, m : g = [f EXCEPT !.edits = e, !.moved = m] OBVIOUS
<1>2. CASE LoopRecord(f)
  <2>1. g = [x \in LoopFields |-> g[x]] /\ g.name = f.name /\ g.pc = f.pc /\ g.nargs = f.nargs /\ g.size = f.size /\ g.n = f.n
    BY <1>1, <1>2 DEF LoopRecord, LoopFields
  <2>2. LoopRecord(g) BY <1>2, <2>1 DEF LoopRecord
  <2>3. f.name # "sort" BY <1>2 DEF LoopRecord
  <2>4. QED BY <1>2, <2>1, <2>2, <2>3 DEF SortRecord, Bases
<1>3. CASE SortRecord(f)
  <2>1. /\ g = [x \in SortFields |-> g[x]] /\ g.name = f.name /\ g.pc = f.pc /\ g.nargs = f.nargs /\ g.size = f.size
        /\ g.building = f.building /\ g.i = f.i /\ g.root = f.root /\ g.bottom = f.bottom /\ g.child = f.child
    BY <1>1, <1>3 DEF SortRecord, SortFields
  <2>2. SortRecord(g) BY <1>3, <2>1 DEF SortRecord
  <2>3. f.name = "sort" BY <1>3 DEF SortRecord
  <2>4. QED BY <1>3, <2>1, <2>2, <2>3 DEF LoopRecord, Bases
<1>4. QED BY <1>2, <1>3

LEMMA EditInv ==
  ASSUME ArrayInv, NEW v, IsVector(v), Become(v), MayEdit, UNCHANGED stack, out' # "closure"
  PROVE ArrayInv'
<1>1. vals' \in Seq(Element) BY DEF Become, IsVector
<1>2. CASE fn = Idle
  <2>1. fn' = Idle BY <1>2 DEF Become
  <2>2. Idle.name = "none" BY DEF Idle
  <2>3. QED BY <1>1, <2>1, <2>2 DEF ArrayInv, SameSize, FrameRight, Called
<1>3. CASE fn # Idle
  <2>1. PICK m : fn' = [fn EXCEPT !.edits = @ + 1, !.moved = m] BY <1>3 DEF Become
  <2>2. fn.pc = "called" /\ (LoopRecord(fn) \/ SortRecord(fn)) BY <1>3 DEF MayEdit, ArrayInv
  <2> DEFINE g == fn'
  <2> HIDE DEF g
  <2>4. \E e, n : g = [fn EXCEPT !.edits = e, !.moved = n] BY <2>1 DEF g
  <2>5. /\ LoopRecord(g) \/ SortRecord(g)
        /\ g.name = fn.name /\ g.pc = "called" /\ g.nargs = fn.nargs /\ g.size = fn.size /\ (fn.name # "sort" => g.n = fn.n)
        /\ Bases(g) = Bases(fn)
    BY <2>2, <2>4, SameRecord
  <2>6. g # Idle
    <3>1. Idle.name = "none" BY DEF Idle
    <3>2. QED BY <2>5, <3>1 DEF LoopRecord, SortRecord
  <2>7. Called BY <1>3, <2>2 DEF Called
  <2>8. PICK s \in Bases(fn) : stack = s \o Arguments /\ (fn.name # "sort" => fn.n < fn.size)
    BY <2>7 DEF ArrayInv, FrameRight
  <2>9. Arguments' = Arguments BY <2>5 DEF Arguments, g
  <2>12. MayCall(g)
    <3>1. MayCall(fn) BY <2>7 DEF ArrayInv, FrameRight
    <3>2. fn.nargs = 5 => fn.name # "sort" BY <2>2 DEF SortRecord, LoopRecord
    <3>3. QED BY <2>5, <3>1, <3>2 DEF MayCall
  <2>10. FrameRight' BY <2>5, <2>6, <2>8, <2>9, <2>12 DEF FrameRight, Called, g
  <2>11. QED BY <1>1, <2>5, <2>10 DEF ArrayInv, SameSize, g
<1>4. QED BY <1>2, <1>3

(* The functions that call nothing. *)
LEMMA EditsInv ==
  ASSUME ArrayInv,
         \/ array_append \/ array_extend \/ array_reverse \/ array_pop \/ array_insert \/ array_remove \/ array_resize
         \/ array_set \/ array_slice
  PROVE ArrayInv'
<1>0. vals \in Seq(Element) /\ size \in Nat BY DEF ArrayInv, size
<1>1. ASSUME NEW v, IsVector(v), MayEdit, Become(v), NEW what \in {"array", "value"}, Answer(what) PROVE ArrayInv'
  BY <1>1, EditInv DEF Answer, ArrayInv, FrameRight
<1>2. ASSUME UNCHANGED <<vals, fn, stack>>, out' # "closure" PROVE ArrayInv'
  BY <1>2 DEF ArrayInv, SameSize, FrameRight, Called, Arguments, size, MayCall
<1>3. ASSUME Refuse PROVE ArrayInv' BY <1>2, <1>3 DEF Refuse, Answer, ArrayInv, FrameRight
<1>4. \A s, n : s \in Seq(Element) => IsVector(Vector(s, n)) BY DEF IsVector, Vector
<1>5. Value \subseteq Element BY DEF Element
<1>6. CASE array_append BY <1>0, <1>1, <1>6, Vectors DEF array_append
<1>7. CASE array_extend
  <2>1. PICK other \in {vals} \union {<<v>> : v \in Value} : Become(Vector(vals \o other, Grown(Len(other))))
    BY <1>7 DEF array_extend
  <2>2. other \in Seq(Element)
    <3>1. \A v \in Value : <<v>> \in Seq(Element) BY <1>5
    <3>2. QED BY <1>0, <3>1
  <2>3. vals \o other \in Seq(Element) BY <1>0, <2>2
  <2>4. QED BY <1>1, <1>4, <1>7, <2>1, <2>3 DEF array_extend
<1>8. CASE array_reverse
  <2> DEFINE s == [i \in 1 .. size |-> vals[size + 1 - i]]
  <2>1. s \in [1 .. size -> Element] BY <1>0 DEF size
  <2> HIDE DEF s
  <2>2. s \in Seq(Element) BY <1>0, <2>1, FunctionIsSeq
  <2>3. Become(Vector(s, allocated)) /\ MayEdit /\ Answer("array") BY <1>8, Zenon DEF array_reverse, s
  <2>4. QED BY <1>1, <1>4, <2>2, <2>3
<1>9. CASE array_pop
  <2>1. size > 0 => Front(vals) \in Seq(Element)
    <3>1. Front(vals) = SubSeq(vals, 1, size - 1) BY DEF Front, size
    <3>2. \A i \in 1 .. size - 1 : vals[i] \in Element BY <1>0 DEF size
    <3>3. QED BY <1>0, <3>1, <3>2, SubSeqProperties
  <2>2. QED BY <1>1, <1>3, <1>4, <1>9, <2>1, <1>0, Vectors DEF array_pop
<1>10. CASE array_insert BY <1>0, <1>1, <1>3, <1>10, Vectors DEF array_insert
<1>11. CASE array_remove BY <1>0, <1>1, <1>3, <1>11, Vectors, ArrayAssumption DEF array_remove, Index
<1>12. CASE array_resize BY <1>0, <1>1, <1>3, <1>5, <1>12, Vectors, ArrayAssumption DEF array_resize, Index
<1>13. CASE array_set
  <2>1. PICK idx \in Int, v \in Value : Set(idx, v) /\ MayEdit BY <1>13, ArrayAssumption DEF array_set, Index
  <2>2. Valid(idx) => [vals EXCEPT ![idx + 1] = v] \in Seq(Element)
    <3>1. Valid(idx) => idx + 1 \in 1 .. Len(vals) BY <1>0 DEF Valid, size
    <3>2. QED BY <1>0, <1>5, <3>1, ExceptSeq
  <2>3. QED BY <1>1, <1>3, <1>4, <2>1, <2>2 DEF Set
<1>14. CASE array_slice
  <2>1. UNCHANGED <<vals, fn, stack>> /\ out' # "closure" BY <1>14 DEF array_slice
  <2>2. QED BY <1>2, <2>1
<1>15. QED BY <1>6, <1>7, <1>8, <1>9, <1>10, <1>11, <1>12, <1>13, <1>14
-----------------------------------------------------------------------------
(* The functions that call back. *)
LEMMA BeginInv ==
  ASSUME ArrayInv, NEW f, NEW s, Begin(f, s), LoopRecord(f) \/ SortRecord(f), f.pc # "called", s \in Bases(f),
         f.name = "sort" => size = f.size
  PROVE ArrayInv'
<1> DEFINE g == fn'
<1>1. g = f /\ vals' = vals /\ stack' = s /\ out' = "none" BY DEF Begin
<1> HIDE DEF g
<1>2. QED BY <1>1 DEF ArrayInv, SameSize, FrameRight, Called, size, g

LEMMA Starts ==
  ASSUME ArrayInv, array_map \/ array_filter \/ array_reduce \/ array_sort
  PROVE ArrayInv'
<1>0. size \in Nat BY DEF ArrayInv, size
<1>1. ASSUME NEW name \in {"map", "apply", "filter", "reduce"}, NEW nargs \in Nat \ {0}, NEW n \in Nat,
             name \in {"filter", "reduce"} => nargs = 3, nargs = 6 => n = 0
      PROVE LoopRecord(Fn(name, nargs, n)) /\ Fn(name, nargs, n).pc = "loop" /\ Fn(name, nargs, n).name = name
            /\ Fn(name, nargs, n).n = n /\ Fn(name, nargs, n).size = size
  <2> DEFINE f == Fn(name, nargs, n)
  <2>1. /\ f = [x \in LoopFields |-> f[x]] /\ f.name = name /\ f.pc = "loop" /\ f.nargs = nargs /\ f.n = n /\ f.size = size
    BY DEF Fn, LoopFields
  <2> HIDE DEF f
  <2>2. LoopRecord(f) BY <1>0, <1>1, <2>1 DEF LoopRecord
  <2>3. QED BY <2>1, <2>2 DEF f
<1>2. CASE array_map
  <2>1. PICK name \in {"map", "apply"}, nargs \in Params :
          Begin(Fn(name, nargs, 0), <<"array", "closure", "closure">>)
    BY <1>2 DEF array_map
  <2>2. nargs \in Nat \ {0} BY ArrayAssumption
  <2>3. <<"array", "closure", "closure">> \in Bases(Fn(name, nargs, 0)) BY <1>1, <2>2 DEF Bases
  <2>4. QED BY <1>1, <2>1, <2>2, <2>3, BeginInv
<1>3. CASE array_filter
  <2>2. Fn("filter", 3, 0).name = "filter" /\ LoopRecord(Fn("filter", 3, 0)) /\ Fn("filter", 3, 0).pc = "loop"
    <3>1. 3 \in Nat \ {0} /\ 0 \in Nat OBVIOUS
    <3>2. QED BY <1>1, <3>1
  <2>1. <<"array", "closure">> \in Bases(Fn("filter", 3, 0))
    <3> DEFINE f == Fn("filter", 3, 0)
    <3>1. f.name = "filter" BY <2>2
    <3> HIDE DEF f
    <3>2. QED BY <3>1 DEF Bases, f
  <2>3. QED
    <3> DEFINE f == Fn("filter", 3, 0)
               st == <<"array", "closure">>
    <3>1. Begin(f, st) BY <1>3 DEF array_filter
    <3>2. f.name = "filter" /\ LoopRecord(f) /\ f.pc = "loop" /\ st \in Bases(f) BY <2>1, <2>2
    <3> HIDE DEF f, st
    <3>3. QED BY <3>1, <3>2, BeginInv
<1>4. CASE array_reduce
  <2>1. PICK initial \in BOOLEAN :
          LET args == IF initial THEN <<"array", "closure", "value">> ELSE <<"array", "closure">>
              start == IF initial THEN 0 ELSE 1
          IN IF ~initial /\ size = 0 THEN fn = Idle /\ out' = "null" /\ UNCHANGED <<vals, allocated, fn, stack>>
             ELSE Begin(Fn("reduce", 3, start), IF size > start THEN Append(args, "closure") ELSE args)
    BY <1>4 DEF array_reduce
  <2>2. CASE ~initial /\ size = 0
    <3>1. fn = Idle /\ UNCHANGED <<vals, fn, stack>> /\ out' = "null" BY <2>1, <2>2
    <3>2. QED BY <3>1 DEF ArrayInv, SameSize, FrameRight, Called, Idle
  <2>3. CASE ~(~initial /\ size = 0)
    <3> DEFINE args == IF initial THEN <<"array", "closure", "value">> ELSE <<"array", "closure">>
               start == IF initial THEN 0 ELSE 1
               s == IF size > start THEN Append(args, "closure") ELSE args
               f == Fn("reduce", 3, start)
    <3>1. Begin(f, s) BY <2>1, <2>3, Zenon
    <3>2. start \in Nat OBVIOUS
    <3>3. f.name = "reduce" /\ LoopRecord(f) /\ f.pc = "loop" /\ f.n = start /\ f.size = size BY <1>1, <3>2
    <3>4. \/ s \in {<<"array", "closure", "closure">>, <<"array", "closure", "value", "closure">>}
          \/ ~(size > start) /\ s \in {<<"array", "closure">>, <<"array", "closure", "value">>}
      <4>1. Append(<<"array", "closure">>, "closure") = <<"array", "closure", "closure">>
        <5> DEFINE short == <<"array", "closure">>
                   long == <<"array", "closure", "closure">>
        <5>1. short \in Seq(Word) /\ long \in Seq(Word) BY DEF Word
        <5>2. Len(short) = 2 /\ Len(long) = 3 /\ short[1] = long[1] /\ short[2] = long[2] /\ long[3] = "closure" OBVIOUS
        <5> HIDE DEF short, long
        <5>3. \A i \in 1 .. Len(short) : short[i] = long[i]
          <6>1. \A i \in 1 .. Len(short) : i = 1 \/ i = 2 BY <5>2
          <6>2. QED BY <5>2, <6>1
        <5>4. "closure" \in Word /\ Len(long) = Len(short) + 1 /\ long[Len(long)] = "closure" BY <5>2 DEF Word
        <5>5. Append(short, "closure") = long BY <5>1, <5>3, <5>4, AppendWord
        <5>6. QED BY <5>5 DEF short, long
      <4>2. Append(<<"array", "closure", "value">>, "closure") = <<"array", "closure", "value", "closure">>
        <5> DEFINE short == <<"array", "closure", "value">>
                   long == <<"array", "closure", "value", "closure">>
        <5>1. short \in Seq(Word) /\ long \in Seq(Word) BY DEF Word
        <5>2. /\ Len(short) = 3 /\ Len(long) = 4 /\ short[1] = long[1] /\ short[2] = long[2] /\ short[3] = long[3]
              /\ long[4] = "closure"
          OBVIOUS
        <5> HIDE DEF short, long
        <5>3. \A i \in 1 .. Len(short) : short[i] = long[i]
          <6>1. \A i \in 1 .. Len(short) : i = 1 \/ i = 2 \/ i = 3 BY <5>2
          <6>2. QED BY <5>2, <6>1
        <5>4. "closure" \in Word /\ Len(long) = Len(short) + 1 /\ long[Len(long)] = "closure" BY <5>2 DEF Word
        <5>5. Append(short, "closure") = long BY <5>1, <5>3, <5>4, AppendWord
        <5>6. QED BY <5>5 DEF short, long
      <4>3. QED BY <4>1, <4>2
    <3> HIDE DEF f, s, start
    <3>5. s \in Bases(f) BY <1>0, <3>2, <3>3, <3>4 DEF Bases
    <3>6. QED BY <3>1, <3>3, <3>5, BeginInv
  <2>4. QED BY <2>2, <2>3
<1>5. CASE array_sort
  <2>1. PICK func \in BOOLEAN, consistent \in BOOLEAN :
          IF size > 1 THEN Begin(Sort(func, consistent), IF func THEN <<"array", "closure">> ELSE <<"array">>)
          ELSE Answer("array") /\ fn = Idle /\ UNCHANGED <<vals, allocated, fn>>
    BY <1>5 DEF array_sort
  <2>2. CASE size > 1
    <3> DEFINE f == Sort(func, consistent)
               s == IF func THEN <<"array", "closure">> ELSE <<"array">>
    <3>1. Begin(f, s) BY <2>1, <2>2, Zenon
    <3>2. /\ f = [x \in SortFields |-> f[x]] /\ f.name = "sort" /\ f.pc = "sift" /\ f.nargs = 3 /\ f.size = size /\ f.building = TRUE
          /\ f.i = size \div 2 /\ f.root = size \div 2 /\ f.bottom = size - 1 /\ f.child = -1
      BY DEF Sort, SortFields
    <3>3. s \in {<<"array">>, <<"array", "closure">>} OBVIOUS
    <3> HIDE DEF f, s
    <3>4. size \div 2 \in Nat /\ size \div 2 < size BY <1>0, <2>2
    <3>5. SortRecord(f) BY <1>0, <2>2, <3>2, <3>4 DEF SortRecord
    <3>6. s \in Bases(f) BY <3>2, <3>3 DEF Bases
    <3>7. QED BY <3>1, <3>2, <3>5, <3>6, BeginInv
  <2>3. CASE ~(size > 1)
    <3>1. fn = Idle /\ UNCHANGED <<vals, fn, stack>> /\ out' = "array" BY <2>1, <2>3 DEF Answer
    <3>2. QED BY <3>1 DEF ArrayInv, SameSize, FrameRight, Called, Idle
  <2>4. QED BY <2>2, <2>3
<1>6. QED BY <1>2, <1>3, <1>4, <1>5

LEMMA CallBackInv ==
  ASSUME ArrayInv, CallBack, fn # Idle, fn.pc \in {"loop", "compare"}, fn.name # "sort" => fn.n < fn.size /\ MayCall(fn)
  PROVE ArrayInv'
<1> DEFINE g == fn'
<1>1. LoopRecord(fn) \/ SortRecord(fn) BY DEF ArrayInv
<1>2. g = [fn EXCEPT !.pc = "called", !.edits = 0, !.moved = FALSE] BY DEF CallBack
<1>3. stack' = stack \o Arguments /\ vals' = vals /\ out' = out BY DEF CallBack
<1> HIDE DEF g
<1>4. /\ LoopRecord(g) \/ SortRecord(g)
      /\ g.name = fn.name /\ g.pc = "called" /\ g.nargs = fn.nargs /\ g.size = fn.size /\ (fn.name # "sort" => g.n = fn.n)
  <2>1. CASE LoopRecord(fn)
    <3>1. /\ g = [x \in LoopFields |-> g[x]] /\ g.name = fn.name /\ g.pc = "called" /\ g.nargs = fn.nargs /\ g.n = fn.n
          /\ g.size = fn.size
      BY <1>2, <2>1 DEF LoopRecord, LoopFields
    <3>2. LoopRecord(g) BY <2>1, <3>1 DEF LoopRecord
    <3>3. QED BY <3>1, <3>2
  <2>2. CASE SortRecord(fn)
    <3>1. /\ g = [x \in SortFields |-> g[x]] /\ g.name = fn.name /\ g.pc = "called" /\ g.nargs = fn.nargs /\ g.size = fn.size
          /\ g.building = fn.building /\ g.i = fn.i /\ g.root = fn.root /\ g.bottom = fn.bottom /\ g.child = fn.child
      BY <1>2, <2>2 DEF SortRecord, SortFields
    <3>2. fn.pc # "sift" OBVIOUS
    <3>3. SortRecord(g) BY <2>2, <3>1, <3>2 DEF SortRecord
    <3>4. fn.name = "sort" BY <2>2 DEF SortRecord
    <3>5. QED BY <3>1, <3>3, <3>4
  <2>3. QED BY <1>1, <2>1, <2>2
<1>5. Bases(g) = Bases(fn) BY <1>1, <1>4 DEF Bases, LoopRecord, SortRecord
<1>6. Arguments' = Arguments BY <1>4 DEF Arguments, g
<1>7. stack \in Bases(fn) /\ out # "closure" BY DEF ArrayInv, FrameRight
<1>8. FrameRight'
  <2>1. out' # "closure" BY <1>3, <1>7
  <2>2. fn'.pc = "called" BY <1>4 DEF g
  <2>3. stack \in Bases(fn)' /\ stack' = stack \o Arguments' /\ (fn'.name # "sort" => fn'.n < fn'.size)
    BY <1>3, <1>4, <1>5, <1>6, <1>7 DEF g
  <2>4. MayCall(fn')
    <3>1. fn.name = "sort" => MayCall(g) BY <1>1, <1>4 DEF MayCall, LoopRecord, SortRecord
    <3>2. fn.name # "sort" => MayCall(g) BY <1>4 DEF MayCall
    <3>3. QED BY <3>1, <3>2 DEF g
  <2>5. QED BY <2>1, <2>2, <2>3, <2>4 DEF FrameRight, MayCall
<1>9. QED BY <1>3, <1>4, <1>8 DEF ArrayInv, SameSize, g

(* sq_call takes away what was pushed for it. *)
LEMMA TakenAway ==
  ASSUME LoopRecord(fn) \/ SortRecord(fn), NEW s \in Bases(fn), stack = s \o Arguments
  PROVE /\ Truncated(Len(Arguments)) = s
        /\ Len(Arguments) = IF fn.name = "sort" THEN 4 ELSE PushedFor(fn.nargs)
        /\ Len(stack) = Len(s) + Len(Arguments)
        /\ \A i \in 1 .. Len(Arguments) : stack[Len(s) + i] = Arguments[i]
<1>1. s \in Seq(Word) /\ Arguments \in Seq(Word) BY BasesAreSeq, Arguments_
<1>2. Len(Arguments) = IF fn.name = "sort" THEN 4 ELSE PushedFor(fn.nargs)
  <2>1. Len(<<"closure", "roottable", "value", "value">>) = 4 OBVIOUS
  <2>2. QED BY <2>1, Arguments_
<1> DEFINE t == Arguments
<1> HIDE DEF t
<1>3. QED BY <1>1, <1>2, Pushed DEF Truncated, t

(* A function that has come to its end leaves nothing to be said of it. *)
LEMMA FinishInv ==
  ASSUME ArrayInv, NEW top, Finish(top), top # "closure", vals' \in Seq(Element)
  PROVE ArrayInv'
<1>1. fn' = Idle /\ out' = top BY DEF Finish
<1>2. Idle.name = "none" BY DEF Idle
<1>3. QED BY <1>1, <1>2 DEF ArrayInv, SameSize, FrameRight, Called

(* What sq_call finds below as many slots as it has arguments. *)
LEMMA Callees ==
  ASSUME LoopRecord(fn) \/ SortRecord(fn), NEW s \in Bases(fn), fn.name # "sort", fn.n < fn.size
  PROVE /\ ~MayCall(fn) => Callee(s \o Arguments) = "array"
        /\ fn.nargs \in 2 .. 4 => Callee(s \o Arguments) = "closure" /\ This(s \o Arguments) = "array"
        /\ MayCall(fn) /\ fn.nargs = 5 => Callee(s \o Arguments) = "closure" /\ This(s \o Arguments) = "closure"
        /\ fn.nargs > 6 => Callee(s \o Arguments) = "outside"
<1> DEFINE t == Arguments
           st == s \o t
<1>1. LoopRecord(fn) BY DEF SortRecord
<1>2. t \in Seq(Word) /\ t[1] = "array" /\ Len(t) = PushedFor(fn.nargs) BY Arguments_
<1>3. s \in Seq(Word) /\ Len(s) \in Nat BY BasesAreSeq
<1>4. fn.nargs \in Nat \ {0} /\ fn.n \in Nat BY <1>1 DEF LoopRecord
<1>5. /\ fn.nargs <= 4 \/ fn.n = 0 => Len(s) > 0 /\ s[Len(s)] = "closure"
      /\ fn.nargs > 4 /\ fn.n = 0 => s = <<"array", "closure", "closure">>
  <2>1. fn.nargs > 4 => fn.name \in {"map", "apply"} BY <1>1 DEF LoopRecord
  <2>2. QED BY <2>1, BasesAreSeq
<1> HIDE DEF t
<1>6. /\ st \in Seq(Word) /\ Len(st) = Len(s) + Len(t)
      /\ \A i \in 1 .. Len(s) + Len(t) : st[i] = IF i <= Len(s) THEN s[i] ELSE t[i - Len(s)]
  BY <1>2, <1>3, ConcatProperties
<1> HIDE DEF st
<1>7. Len(t) \in Nat /\ DOMAIN st = 1 .. Len(s) + Len(t) BY <1>2, <1>6
<1>8. CASE fn.nargs \in 1 .. 4
  <2>1. Len(s) > 0 /\ s[Len(s)] = "closure" BY <1>5, <1>8
  <2>2. Len(t) >= 2 BY <1>2, <1>8 DEF PushedFor
  <2>3. st[Len(s)] = "closure" /\ st[Len(s) + 1] = "array" BY <1>2, <1>3, <1>6, <1>7, <2>1, <2>2
  <2>4. CASE fn.nargs = 1
    <3>1. Len(st) - fn.nargs = Len(s) + 1 BY <1>2, <1>3, <1>6, <2>4 DEF PushedFor
    <3>2. Callee(st) = "array" BY <1>3, <1>7, <2>2, <2>3, <3>1 DEF Callee, Slot
    <3>3. QED BY <2>4, <3>2 DEF st, t, MayCall
  <2>5. CASE fn.nargs \in 2 .. 4
    <3>1. Len(st) - fn.nargs = Len(s) BY <1>2, <1>3, <1>6, <2>5 DEF PushedFor
    <3>2. Callee(st) = "closure" BY <1>3, <1>7, <2>1, <2>3, <3>1 DEF Callee, Slot
    <3>3. This(st) = "array" BY <1>3, <1>7, <2>2, <2>3, <3>1 DEF This, Slot
    <3>4. MayCall(fn) BY <2>5 DEF MayCall
    <3>5. QED BY <2>5, <3>2, <3>3, <3>4 DEF st, t
  <2>6. QED BY <1>8, <2>4, <2>5
<1>9. CASE fn.nargs > 4
  <2>1. Len(t) = 4 /\ fn.name \in {"map", "apply"} BY <1>1, <1>2, <1>4, <1>9 DEF PushedFor, LoopRecord
  <2>2. fn.n = 0 => Len(s) = 3 /\ s[1] = "array" /\ s[2] = "closure" /\ s[3] = "closure" BY <1>5, <1>9
  <2>3. fn.n # 0 /\ fn.nargs = 5 => Len(s) = 2 /\ s[1] = "array"
    <3> SUFFICES ASSUME fn.n # 0, fn.nargs = 5 PROVE Len(s) = 2 /\ s[1] = "array" OBVIOUS
    <3>1. s = <<"array", "closure">> BY <1>4, <2>1 DEF Bases
    <3>2. QED BY <3>1
  <2>4. fn.n # 0 /\ fn.nargs > 5 => Len(s) = 0
    <3> SUFFICES ASSUME fn.n # 0, fn.nargs > 5 PROVE Len(s) = 0 OBVIOUS
    <3>1. s = <<>> BY <1>4, <2>1 DEF Bases
    <3>2. QED BY <3>1
  <2>5. fn.nargs = 6 => fn.n = 0 BY <1>1 DEF LoopRecord
  <2>6. CASE fn.nargs = 5 /\ fn.n = 0
    <3>1. Len(st) - fn.nargs = 2 BY <1>6, <2>1, <2>2, <2>6
    <3>6. Len(s) = 3 /\ Len(t) = 4 /\ s[2] = "closure" /\ s[3] = "closure" BY <2>1, <2>2, <2>6
    <3>7. DOMAIN st = 1 .. 7 BY <1>7, <3>6
    <3>8. \A i \in 1 .. 7 : st[i] = IF i <= 3 THEN s[i] ELSE t[i - 3] BY <1>6, <3>6
    <3>2. st[2] = "closure" /\ st[3] = "closure" /\ DOMAIN st = 1 .. 7 BY <3>6, <3>7, <3>8
    <3>3. Callee(st) = "closure" /\ This(st) = "closure" BY <3>1, <3>2 DEF Callee, This, Slot
    <3>4. MayCall(fn) BY <2>6 DEF MayCall
    <3>5. QED BY <2>6, <3>3, <3>4 DEF st, t
  <2>7. CASE fn.nargs = 5 /\ fn.n # 0
    <3>1. Len(st) - fn.nargs = 1 BY <1>6, <2>1, <2>3, <2>7
    <3>6. Len(s) = 2 /\ Len(t) = 4 /\ s[1] = "array" BY <2>1, <2>3, <2>7
    <3>7. DOMAIN st = 1 .. 6 BY <1>7, <3>6
    <3>8. \A i \in 1 .. 6 : st[i] = IF i <= 2 THEN s[i] ELSE t[i - 2] BY <1>6, <3>6
    <3>2. st[1] = "array" /\ DOMAIN st = 1 .. 6 BY <3>6, <3>7, <3>8
    <3>3. Callee(st) = "array" BY <3>1, <3>2 DEF Callee, Slot
    <3>4. ~MayCall(fn) BY <2>7 DEF MayCall
    <3>5. QED BY <2>7, <3>3, <3>4 DEF st, t
  <2>8. CASE fn.nargs = 6
    <3>1. Len(st) - fn.nargs = 1 BY <1>6, <2>1, <2>2, <2>5, <2>8
    <3>2. st[1] = "array" /\ DOMAIN st = 1 .. 7 BY <1>6, <1>7, <2>1, <2>2, <2>5, <2>8
    <3>3. Callee(st) = "array" BY <3>1, <3>2 DEF Callee, Slot
    <3>4. ~MayCall(fn) BY <2>8 DEF MayCall
    <3>5. QED BY <2>8, <3>3, <3>4 DEF st, t
  <2>9. CASE fn.nargs > 6
    <3>1. Len(st) - fn.nargs \in Int /\ Len(st) - fn.nargs < 1
      <4>1. Len(s) <= 3
        <5>1. fn.nargs > 5 BY <1>4, <2>9
        <5>2. CASE fn.n = 0
          <6>1. Len(s) = 3 BY <2>2, <5>2
          <6>2. QED BY <6>1
        <5>3. CASE fn.n # 0 BY <2>4, <5>1, <5>3
        <5>4. QED BY <5>2, <5>3
      <4>2. QED BY <1>3, <1>4, <1>6, <2>1, <2>9, <4>1
    <3>2. Len(st) - fn.nargs \notin DOMAIN st BY <1>7, <3>1
    <3>3. Callee(st) = "outside" BY <3>2 DEF Callee, Slot
    <3>4. MayCall(fn) BY <2>9, <1>4 DEF MayCall
    <3>5. QED BY <2>9, <1>4, <3>3, <3>4 DEF st, t
  <2>10. QED BY <1>4, <1>9, <2>6, <2>7, <2>8, <2>9
<1>10. QED BY <1>4, <1>8, <1>9

LEMMA LoopCallsInv == ArrayInv /\ LoopCalls => ArrayInv'
<1> SUFFICES ASSUME ArrayInv, LoopCalls PROVE ArrayInv' OBVIOUS
<1>1. fn # Idle /\ fn.pc = "loop" /\ fn.name # "sort" /\ fn.n < fn.size BY DEF LoopCalls, Looping
<1>2. (LoopRecord(fn) \/ SortRecord(fn)) /\ stack \in Bases(fn) /\ vals \in Seq(Element)
  BY <1>1 DEF ArrayInv, FrameRight
<1>3. CASE Callee(stack \o Arguments) = "array"
  <2>1. Finish("error") /\ vals' = vals BY <1>3 DEF LoopCalls
  <2>2. QED BY <1>2, <2>1, FinishInv
<1>4. CASE Callee(stack \o Arguments) # "array"
  <2>1. CallBack BY <1>4 DEF LoopCalls
  <2>2. MayCall(fn) BY <1>1, <1>2, <1>4, Callees
  <2>3. QED BY <1>1, <2>1, <2>2, CallBackInv
<1>5. QED BY <1>3, <1>4

LEMMA LoopEndsInv == ArrayInv /\ LoopEnds => ArrayInv'
<1> SUFFICES ASSUME ArrayInv, LoopEnds PROVE ArrayInv' OBVIOUS
<1>1. LoopRecord(fn) /\ stack \in Bases(fn) /\ vals' = vals
  BY DEF LoopEnds, Looping, ArrayInv, FrameRight, SortRecord
<1> DEFINE top == CASE fn.name = "map" -> "result"
                    [] fn.name = "apply" -> Top(Truncated(2))
                    [] fn.name = "filter" -> "result"
                    [] fn.name = "reduce" -> "value"
<1>2. fn.name = "apply" => Top(Truncated(2)) # "closure"
  <2> SUFFICES ASSUME fn.name = "apply" PROVE Top(Truncated(2)) # "closure" OBVIOUS
  <2>1. stack \in {<<"array", "closure", "closure">>, <<"array", "closure">>, <<>>} BY <1>1 DEF Bases
  <2>2. stack \in Seq(Word) /\ Len(stack) \in 0 .. 3 /\ (Len(stack) = 3 => stack[1] = "array")
    <3>1. CASE stack = <<"array", "closure", "closure">> BY <3>1 DEF Word
    <3>2. CASE stack = <<"array", "closure">> BY <3>2 DEF Word
    <3>3. CASE stack = <<>> BY <3>3
    <3>4. QED BY <2>1, <3>1, <3>2, <3>3
  <2> DEFINE rest == Truncated(2)
  <2>3. rest = SubSeq(stack, 1, Len(stack) - 2) BY DEF Truncated
  <2> HIDE DEF rest
  <2>4. CASE Len(stack) = 3
    <3>1. rest = SubSeq(stack, 1, 1) BY <2>3, <2>4
    <3>2. Len(rest) = 1 /\ rest[1] = "array" /\ DOMAIN rest = 1 .. 1 BY <2>2, <2>4, <3>1
    <3>3. Top(rest) = "array" BY <3>2 DEF Top, Slot
    <3>4. QED BY <3>3 DEF rest
  <2>5. CASE Len(stack) # 3
    <3> DEFINE n == Len(stack) - 2
    <3>7. \A m \in 0 .. 3 : m # 3 => m - 2 \in Int /\ m - 2 < 1 OBVIOUS
    <3>5. n \in Int /\ n < 1 BY <2>2, <2>5, <3>7
    <3>6. rest = SubSeq(stack, 1, n) BY <2>3
    <3> HIDE DEF n
    <3>1. rest \in Seq(Word) /\ Len(rest) = 0 BY <2>2, <3>5, <3>6, SubSeqProperties
    <3>2. DOMAIN rest = {} BY <3>1
    <3>3. Top(rest) = "outside" BY <3>1, <3>2 DEF Top, Slot
    <3>4. QED BY <3>3 DEF rest
  <2>6. QED BY <2>4, <2>5
<1>3. top # "closure" BY <1>1, <1>2 DEF LoopRecord
<1>4. Finish(top) BY DEF LoopEnds
<1> HIDE DEF top
<1>5. QED BY <1>1, <1>3, <1>4, FinishInv DEF ArrayInv

LEMMA ReturnsInv == ArrayInv /\ Returns => ArrayInv'
<1> SUFFICES ASSUME ArrayInv, Returns PROVE ArrayInv' OBVIOUS
<1> DEFINE g == fn'
<1>1. LoopRecord(fn) /\ Called /\ fn.name # "sort" BY DEF Returns, ArrayInv, SortRecord, Called
<1>2. g = [fn EXCEPT !.pc = "loop", !.n = @ + 1, !.edited = @ \/ fn.edits > 0, !.edits = 0, !.moved = FALSE]
  BY DEF Returns
<1>3. PICK v \in Value : vals' = IF fn.name = "apply" /\ Valid(fn.n) THEN [vals EXCEPT ![fn.n + 1] = v] ELSE vals
  BY DEF Returns
<1>4. stack' = Truncated(fn.nargs) /\ out' = out BY DEF Returns
<1> HIDE DEF g
<1>5. /\ g = [x \in LoopFields |-> g[x]] /\ g.name = fn.name /\ g.pc = "loop" /\ g.nargs = fn.nargs /\ g.n = fn.n + 1
      /\ g.size = fn.size
  BY <1>1, <1>2 DEF LoopRecord, LoopFields
<1>0. MayCall(fn) /\ fn.nargs \in Nat \ {0} /\ fn.n \in Nat BY <1>1 DEF ArrayInv, FrameRight, LoopRecord
<1>6. LoopRecord(g)
  <2>1. fn.nargs # 6 BY <1>0 DEF MayCall
  <2>2. QED BY <1>1, <1>5, <2>1 DEF LoopRecord
<1>8. PICK s \in Bases(fn) : stack = s \o Arguments BY <1>1 DEF ArrayInv, FrameRight
<1>9. stack' \in Bases(g)
  <2>1. CASE fn.nargs <= 4
    <3>1. Bases(fn) \subseteq Bases(g)
      <4>1. fn.n >= fn.size => g.n >= g.size BY <1>1, <1>5 DEF LoopRecord
      <4>2. QED BY <1>1, <1>5, <2>1, <4>1 DEF Bases, LoopRecord
    <3>2. fn.nargs \in 2 .. 4 BY <1>0, <2>1 DEF MayCall
    <3>6. Len(Arguments) = PushedFor(fn.nargs) BY <1>1, Arguments_
    <3>3. Len(Arguments) = fn.nargs BY <3>2, <3>6 DEF PushedFor
    <3>4. stack' = s BY <1>1, <1>4, <1>8, <3>3, TakenAway
    <3>5. QED BY <3>1, <3>4
  <2>2. CASE fn.nargs > 4
    <3>1. fn.name \in {"map", "apply"} BY <1>1, <2>2 DEF LoopRecord
    <3>7. Len(Arguments) = PushedFor(fn.nargs) BY <1>1, Arguments_
    <3>8. Len(stack) = Len(s) + Len(Arguments) BY <1>1, <1>8, TakenAway
    <3>2. Len(Arguments) = 4 /\ Len(stack) = Len(s) + 4 BY <1>0, <2>2, <3>7, <3>8 DEF PushedFor
    <3>3. s \in Seq(Word) /\ Arguments \in Seq(Word) BY <1>1, BasesAreSeq, Arguments_
    <3>4. CASE fn.nargs = 5
      <4>1. s = <<"array", "closure", "closure">> BY <1>0, <1>1, <3>1, <3>4, BasesAreSeq DEF MayCall
      <4>2. Len(s) = 3 /\ s[1] = "array" /\ s[2] = "closure" BY <4>1
      <4>3. stack[1] = "array" /\ stack[2] = "closure" /\ stack \in Seq(Word)
        BY <1>8, <3>2, <3>3, <4>2, ConcatProperties
      <4> DEFINE pair == <<"array", "closure">>
                 rest == SubSeq(stack, 1, 2)
      <4>4. Truncated(fn.nargs) = rest BY <3>2, <3>4, <4>2 DEF Truncated
      <4>5. pair \in Seq(Word) /\ Len(pair) = 2 /\ pair[1] = "array" /\ pair[2] = "closure" BY DEF Word
      <4>6. Len(stack) = 7 BY <3>2, <4>2
      <4>7. rest \in Seq(Word) /\ Len(rest) = 2 /\ rest[1] = "array" /\ rest[2] = "closure"
        BY <4>3, <4>6, SubSeqProperties
      <4> HIDE DEF pair, rest
      <4>8. \A i \in 1 .. 2 : rest[i] = pair[i]
        <5>1. \A i \in 1 .. 2 : i = 1 \/ i = 2 OBVIOUS
        <5>2. QED BY <4>5, <4>7, <5>1
      <4>9. rest = pair BY <4>5, <4>7, <4>8, SeqEqual
      <4>10. g.nargs = 5 /\ g.n # 0 /\ g.name \in {"map", "apply"} BY <1>0, <1>5, <3>1, <3>4
      <4>11. Bases(g) = {pair} BY <4>10 DEF Bases, pair
      <4>12. QED BY <1>4, <4>4, <4>9, <4>11
    <3>5. CASE fn.nargs # 5
      <4>1. fn.nargs > 6 BY <1>0, <2>2, <3>5 DEF MayCall
      <4>2. Len(s) <= 3
        <5>1. fn.n = 0 => s = <<"array", "closure", "closure">> BY <1>0, <1>1, <2>2, <3>1, BasesAreSeq
        <5>2. fn.n # 0 => s = <<>> BY <1>0, <3>1, <4>1 DEF Bases
        <5>3. CASE fn.n = 0
          <6>1. s = <<"array", "closure", "closure">> BY <5>1, <5>3
          <6>2. QED BY <6>1
        <5>4. CASE fn.n # 0
          <6>1. s = <<>> BY <5>2, <5>4
          <6>2. QED BY <6>1
        <5>5. QED BY <5>3, <5>4
      <4>3. stack \in Seq(Word) BY <1>8, <3>3
      <4>4. Len(stack) - fn.nargs \in Int /\ Len(stack) - fn.nargs < 1 BY <1>0, <3>2, <3>3, <4>1, <4>2
      <4>5. Truncated(fn.nargs) \in Seq(Word) /\ Len(Truncated(fn.nargs)) = 0
        <5> DEFINE n == Len(stack) - fn.nargs
        <5>1. n \in Int /\ n < 1 BY <4>4
        <5>2. Truncated(fn.nargs) = SubSeq(stack, 1, n) BY DEF Truncated
        <5> HIDE DEF n
        <5>3. SubSeq(stack, 1, n) \in Seq(Word) /\ Len(SubSeq(stack, 1, n)) = 0 BY <4>3, <5>1, SubSeqProperties
        <5>4. QED BY <5>2, <5>3
      <4>6. Truncated(fn.nargs) = <<>> BY <4>5
      <4>7. g.nargs > 6 /\ g.nargs \in Nat /\ g.n \in Nat /\ g.n # 0 /\ g.name \in {"map", "apply"} BY <1>0, <1>5, <3>1, <4>1
      <4>8. Bases(g) = {<<>>} BY <4>7 DEF Bases
      <4>9. QED BY <1>4, <4>6, <4>8
    <3>6. QED BY <3>4, <3>5
  <2>3. QED BY <1>0, <2>1, <2>2
<1>10. vals' \in Seq(Element)
  <2>1. vals \in Seq(Element) /\ v \in Element BY DEF ArrayInv, Element
  <2>2. Valid(fn.n) => fn.n + 1 \in 1 .. Len(vals) BY <1>1 DEF Valid, size, LoopRecord
  <2>3. QED BY <1>3, <2>1, <2>2, ExceptSeq
<1>11. FrameRight'
  <2>1. stack' \in Bases(fn)' BY <1>9 DEF g
  <2>2. fn'.pc = "loop" /\ out' # "closure" BY <1>4, <1>5 DEF g, ArrayInv, FrameRight
  <2>3. QED BY <2>1, <2>2 DEF FrameRight, Called
<1>12. fn'.name # "sort" BY <1>1, <1>5 DEF g
<1>13. QED BY <1>6, <1>10, <1>11, <1>12 DEF ArrayInv, SameSize, g

LEMMA FailsInv == ArrayInv /\ Fails => ArrayInv'
BY FinishInv DEF Fails, ArrayInv
-----------------------------------------------------------------------------
(* The heap sort. *)
LEMMA SwapKeeps ==
  ASSUME vals \in Seq(Element), NEW a \in Int, NEW b \in Int
  PROVE Swapped(a, b) \in Seq(Element) /\ Len(Swapped(a, b)) = size
<1>1. CASE Valid(a) /\ Valid(b)
  <2>1. a + 1 \in 1 .. Len(vals) /\ b + 1 \in 1 .. Len(vals) BY <1>1 DEF Valid, size
  <2>2. vals[a + 1] \in Element /\ vals[b + 1] \in Element BY <2>1
  <2> DEFINE s == [vals EXCEPT ![a + 1] = vals[b + 1]]
  <2>3. s \in Seq(Element) /\ Len(s) = Len(vals) BY <2>1, <2>2, ExceptSeq
  <2> HIDE DEF s
  <2>4. [s EXCEPT ![b + 1] = vals[a + 1]] \in Seq(Element) /\ Len([s EXCEPT ![b + 1] = vals[a + 1]]) = Len(vals)
    BY <2>1, <2>2, <2>3, ExceptSeq
  <2>5. Swapped(a, b) = [s EXCEPT ![b + 1] = vals[a + 1]] BY <1>1 DEF Swapped, s
  <2>6. QED BY <2>4, <2>5 DEF size
<1>2. CASE ~(Valid(a) /\ Valid(b)) BY <1>2 DEF Swapped, size
<1>3. QED BY <1>1, <1>2

LEMMA SortStep ==
  ASSUME ArrayInv, SortRecord(fn), fn.pc # "called", UNCHANGED <<stack, out>>,
         SortRecord(fn'), fn'.pc # "called", fn'.size = fn.size, vals' \in Seq(Element), Len(vals') = size
  PROVE ArrayInv'
<1> DEFINE g == fn'
<1> HIDE DEF g
<1>1. SortRecord(g) /\ g.pc # "called" /\ g.size = fn.size BY DEF g
<1>2. fn.name = "sort" /\ g.name = "sort" BY <1>1 DEF SortRecord
<1>3. size = fn.size BY <1>2 DEF ArrayInv, SameSize
<1>4. fn # Idle BY <1>2 DEF Idle
<1>5. stack' \in Bases(g) /\ out' # "closure" BY <1>2, <1>4 DEF ArrayInv, FrameRight, Bases
<1>6. SameSize' BY <1>1, <1>3 DEF SameSize, size, g
<1>7. FrameRight' BY <1>1, <1>5 DEF FrameRight, Called, g
<1>8. QED BY <1>1, <1>6, <1>7 DEF ArrayInv, g

LEMMA NextSiftInv ==
  ASSUME ArrayInv, SortRecord(fn), fn.pc # "called", NextSift
  PROVE ArrayInv'
<1> DEFINE g == fn'
<1>0. vals \in Seq(Element) /\ size \in Nat /\ fn.size \in Nat /\ fn.i \in Nat BY DEF ArrayInv, size, SortRecord
<1>1. CASE fn.building /\ fn.i > 0
  <2>1. g = [fn EXCEPT !.pc = "sift", !.i = @ - 1, !.root = fn.i - 1] /\ UNCHANGED <<vals, stack, out>>
    BY <1>1 DEF NextSift
  <2> HIDE DEF g
  <2>2. /\ g = [x \in SortFields |-> g[x]] /\ g.name = fn.name /\ g.pc = "sift" /\ g.nargs = fn.nargs /\ g.size = fn.size
        /\ g.building = fn.building /\ g.i = fn.i - 1 /\ g.root = fn.i - 1 /\ g.bottom = fn.bottom /\ g.child = fn.child
    BY <2>1 DEF SortRecord, SortFields
  <2>3. fn.i < fn.size /\ fn.bottom = fn.size - 1 BY <1>1 DEF SortRecord
  <2>4. g.i \in Nat /\ g.root \in Nat /\ g.root < g.size /\ g.i < g.size /\ g.bottom = g.size - 1
    BY <1>0, <1>1, <2>2, <2>3
  <2>5. SortRecord(g)
    <3>1. g.building BY <1>1, <2>2, Zenon
    <3>2. g.nargs = 3 /\ g.size \in Nat \ {0, 1} /\ g.child \in Int BY <2>2 DEF SortRecord
    <3>3. QED BY <2>2, <2>4, <3>1, <3>2 DEF SortRecord
  <2>6. QED BY <1>0, <2>1, <2>2, <2>5, SortStep DEF g, size
<1>2. CASE (fn.building /\ fn.i = 0) \/ (~fn.building /\ fn.i > 1)
  <2> DEFINE i == IF fn.building THEN fn.size - 1 ELSE fn.i - 1
  <2>1. ~(fn.building /\ fn.i > 0) BY <1>0, <1>2
  <2>2. /\ vals' = Swapped(0, i)
        /\ g = [fn EXCEPT !.pc = "sift", !.building = FALSE, !.i = i, !.root = 0, !.bottom = i - 1]
        /\ UNCHANGED <<stack, out>>
    BY <1>2, <2>1, Zenon DEF NextSift
  <2> HIDE DEF g
  <2>3. i \in Nat /\ 0 < i /\ i < fn.size BY <1>0, <1>2 DEF SortRecord
  <2> HIDE DEF i
  <2>4. /\ g = [x \in SortFields |-> g[x]] /\ g.name = fn.name /\ g.pc = "sift" /\ g.nargs = fn.nargs /\ g.size = fn.size
        /\ g.building = FALSE /\ g.i = i /\ g.root = 0 /\ g.bottom = i - 1 /\ g.child = fn.child
    BY <2>2 DEF SortRecord, SortFields
  <2>5. SortRecord(g)
    <3>1. ~g.building /\ 0 < g.i /\ g.i < g.size /\ g.bottom = g.i - 1 /\ g.root < g.size BY <1>0, <2>3, <2>4
    <3>2. g.nargs = 3 /\ g.size \in Nat \ {0, 1} /\ g.child \in Int BY <2>4 DEF SortRecord
    <3>3. g.i \in Nat /\ g.root \in Nat /\ g.bottom \in Int BY <2>3, <2>4
    <3>4. QED BY <2>4, <3>1, <3>2, <3>3 DEF SortRecord
  <2>6. vals' \in Seq(Element) /\ Len(vals') = size BY <1>0, <2>2, <2>3, SwapKeeps
  <2>7. QED BY <2>2, <2>4, <2>5, <2>6, SortStep DEF g
<1>3. CASE ~(fn.building /\ fn.i > 0) /\ ~((fn.building /\ fn.i = 0) \/ (~fn.building /\ fn.i > 1))
  <2>1. Finish("array") /\ vals' = vals BY <1>3 DEF NextSift
  <2>2. QED BY <1>0, <2>1, FinishInv
<1>4. QED BY <1>1, <1>2, <1>3

LEMMA SiftDownInv == ArrayInv /\ SiftDown => ArrayInv'
<1> SUFFICES ASSUME ArrayInv, SiftDown PROVE ArrayInv' OBVIOUS
<1> DEFINE g == fn'
<1>1. Idle.name = "none" BY DEF Idle
<1>2. SortRecord(fn) /\ fn.pc = "sift" BY <1>1 DEF ArrayInv, SiftDown, Sorting, LoopRecord
<1>3. CASE fn.root * 2 > fn.bottom BY <1>2, <1>3, NextSiftInv DEF SiftDown
<1>4. CASE ~(fn.root * 2 > fn.bottom)
  <2>1. g = [fn EXCEPT !.pc = "compare", !.child = IF fn.root * 2 = fn.bottom THEN fn.bottom ELSE -1] /\ UNCHANGED <<vals, stack, out>>
    BY <1>4 DEF SiftDown
  <2> HIDE DEF g
  <2>2. /\ g = [x \in SortFields |-> g[x]] /\ g.name = fn.name /\ g.pc = "compare" /\ g.nargs = fn.nargs /\ g.size = fn.size
        /\ g.building = fn.building /\ g.i = fn.i /\ g.root = fn.root /\ g.bottom = fn.bottom
        /\ g.child = IF fn.root * 2 = fn.bottom THEN fn.bottom ELSE -1
    BY <1>2, <2>1 DEF SortRecord, SortFields
  <2>3. SortRecord(g) BY <1>2, <1>4, <2>2 DEF SortRecord
  <2>4. QED BY <1>2, <2>1, <2>2, <2>3, SortStep DEF g, size, ArrayInv
<1>5. QED BY <1>3, <1>4

LEMMA DecideInv ==
  ASSUME ArrayInv, SortRecord(fn), fn.pc \in {"compare", "decide"}, NEW ret, Decide(ret)
  PROVE ArrayInv'
<1> DEFINE g == fn'
<1>0. vals \in Seq(Element) /\ Len(vals) = size BY DEF ArrayInv, size
<1>1. CASE fn.child = -1
  <2>1. PICK child \in {fn.root * 2, fn.root * 2 + 1} : Chosen(child)
    <3>0. Chosen(IF ret > 0 THEN fn.root * 2 ELSE fn.root * 2 + 1)
      <4>1. fn.root # -1 BY DEF SortRecord
      <4>2. QED BY <1>1, <4>1 DEF Decide
    <3> DEFINE child == IF ret > 0 THEN fn.root * 2 ELSE fn.root * 2 + 1
    <3>1. child \in {fn.root * 2, fn.root * 2 + 1} OBVIOUS
    <3>2. Chosen(child) BY <3>0
    <3> HIDE DEF child
    <3>3. QED BY <3>1, <3>2, Zenon
  <2>2. g = [fn EXCEPT !.pc = "compare", !.child = child] /\ UNCHANGED <<vals, stack, out>> BY <2>1 DEF Chosen
  <2> HIDE DEF g
  <2>3. /\ g = [x \in SortFields |-> g[x]] /\ g.name = fn.name /\ g.pc = "compare" /\ g.nargs = fn.nargs /\ g.size = fn.size
        /\ g.building = fn.building /\ g.i = fn.i /\ g.root = fn.root /\ g.bottom = fn.bottom /\ g.child = child
    BY <2>2 DEF SortRecord, SortFields
  <2>4. SortRecord(g) BY <1>1, <2>3 DEF SortRecord
  <2>5. QED BY <1>0, <2>2, <2>3, <2>4, SortStep DEF g
<1>2. CASE SwapDown /\ fn.child # -1
  <2>1. vals' = Swapped(fn.root, fn.child) /\ g = [fn EXCEPT !.pc = "sift", !.root = fn.child] /\ UNCHANGED <<stack, out>>
    BY <1>2 DEF SwapDown
  <2> HIDE DEF g
  <2>2. /\ g = [x \in SortFields |-> g[x]] /\ g.name = fn.name /\ g.pc = "sift" /\ g.nargs = fn.nargs /\ g.size = fn.size
        /\ g.building = fn.building /\ g.i = fn.i /\ g.root = fn.child /\ g.bottom = fn.bottom /\ g.child = fn.child
    BY <2>1 DEF SortRecord, SortFields
  <2>3. fn.child \in Nat /\ fn.child <= fn.bottom /\ fn.bottom < fn.size BY <1>2 DEF SortRecord
  <2>4. SortRecord(g) BY <2>2, <2>3 DEF SortRecord
  <2>5. vals' \in Seq(Element) /\ Len(vals') = size BY <1>0, <2>1, SwapKeeps DEF SortRecord
  <2>6. QED BY <2>1, <2>2, <2>4, <2>5, SortStep DEF g
<1>3. CASE Finish("error") /\ vals' = vals BY <1>0, <1>3, FinishInv
<1>4. CASE NextSift BY <1>4, NextSiftInv
<1>5. QED
  <2>1. CASE fn.child = -1 BY <1>1, <2>1
  <2>2. CASE fn.child # -1 /\ ret < 0 /\ fn.child = fn.root BY <1>3, <2>2 DEF Decide
  <2>3. CASE fn.child # -1 /\ ret < 0 /\ fn.child # fn.root BY <1>2, <2>3 DEF Decide
  <2>4. CASE fn.child # -1 /\ ~(ret < 0) BY <1>4, <2>4 DEF Decide
  <2>5. QED BY <2>1, <2>2, <2>3, <2>4

LEMMA SortReturnsInv == ArrayInv /\ SortReturns => ArrayInv'
<1> SUFFICES ASSUME ArrayInv, SortReturns PROVE ArrayInv' OBVIOUS
<1> DEFINE g == fn'
<1>1. SortRecord(fn) /\ Called /\ fn.name = "sort" BY DEF ArrayInv, SortReturns, Called, LoopRecord
<1>2. CASE Resized BY <1>2, FinishInv DEF SortReturns, ArrayInv
<1>3. CASE ~Resized
  <2>1. /\ g = [fn EXCEPT !.pc = "decide", !.edited = @ \/ fn.edits > 0, !.edits = 0]
        /\ stack' = Truncated(4) /\ UNCHANGED <<vals, out>>
    BY <1>3 DEF SortReturns
  <2> HIDE DEF g
  <2>2. /\ g = [x \in SortFields |-> g[x]] /\ g.name = fn.name /\ g.pc = "decide" /\ g.nargs = fn.nargs /\ g.size = fn.size
        /\ g.building = fn.building /\ g.i = fn.i /\ g.root = fn.root /\ g.bottom = fn.bottom /\ g.child = fn.child
    BY <1>1, <2>1 DEF SortRecord, SortFields
  <2>3. SortRecord(g) BY <1>1, <2>2 DEF SortRecord, Called
  <2>4. PICK s \in Bases(fn) : stack = s \o Arguments BY <1>1 DEF ArrayInv, FrameRight
  <2>5. stack' = s
    <3>1. Len(Arguments) = 4 BY <1>1, <2>4, TakenAway
    <3>2. QED BY <1>1, <2>1, <2>4, <3>1, TakenAway
  <2>6. stack' \in Bases(g) /\ out' # "closure" BY <1>1, <2>1, <2>2, <2>5 DEF Bases, ArrayInv, FrameRight
  <2>7. FrameRight' BY <2>2, <2>6 DEF FrameRight, Called, g
  <2>8. SameSize' BY <1>3, <2>1, <2>2 DEF SameSize, Resized, size, g
  <2>9. QED BY <2>1, <2>3, <2>7, <2>8 DEF ArrayInv, g
<1>4. QED BY <1>2, <1>3

LEMMA SortsInv == ArrayInv /\ (SortCompares \/ SortCalls \/ SortDecides) => ArrayInv'
<1>1. Idle.name = "none" BY DEF Idle
<1>2. ArrayInv /\ SortCompares => ArrayInv'
  BY <1>1, DecideInv DEF ArrayInv, SortCompares, Sorting, LoopRecord
<1>3. ArrayInv /\ SortDecides => ArrayInv'
  BY <1>1, DecideInv DEF ArrayInv, SortDecides, Sorting, LoopRecord
<1>4. ArrayInv /\ SortCalls => ArrayInv'
  BY <1>1, CallBackInv DEF SortCalls, Sorting, ArrayInv
<1>5. QED BY <1>2, <1>3, <1>4
-----------------------------------------------------------------------------
LEMMA ArrayInvInit == Init => ArrayInv
BY DEF Init, ArrayInv, Element, Idle, SameSize, FrameRight, Called

LEMMA ArrayInvNext == ArrayInv /\ [Next]_vars => ArrayInv'
<1>1. ArrayInv /\ UNCHANGED vars => ArrayInv'
  BY DEF vars, ArrayInv, SameSize, FrameRight, Called, Arguments, size, MayCall
<1>2. ArrayInv /\ Next => ArrayInv'
  BY EditsInv, Starts, LoopCallsInv, LoopEndsInv, ReturnsInv, FailsInv, SiftDownInv, SortReturnsInv, SortsInv DEF Next
<1>3. QED BY <1>1, <1>2

LEMMA ArrayInvAlways == Spec => []ArrayInv
BY ArrayInvInit, ArrayInvNext, PTL DEF Spec

(* The heap sort stays inside the array: _hsort_sift_down and _hsort only  *)
(* read and swap elements that the array has, whatever the function that   *)
(* _sort_compare calls returns, and although it may resize the array: the  *)
(* element that is sifted, and the children that are compared with it.     *)
THEOREM SortAlwaysInside == Spec => []SortInside
<1>1. ArrayInv => SortInside
  <2> SUFFICES ASSUME ArrayInv, fn.name = "sort", fn.pc # "called"
               PROVE size = fn.size /\ fn.root < size /\ (fn.pc = "compare" => Valid(Compared[2]))
    BY DEF SortInside
  <2>1. Idle.name = "none" BY DEF Idle
  <2>2. SortRecord(fn) /\ size = fn.size BY <2>1 DEF ArrayInv, SameSize, LoopRecord
  <2>3. fn.root < size BY <2>2 DEF SortRecord
  <2>4. fn.bottom < size BY <2>2 DEF SortRecord
  <2>5. ASSUME fn.pc = "compare" PROVE Valid(Compared[2])
    <3>1. CASE fn.child = -1
      <4>1. Compared[2] = fn.root * 2 + 1 BY <3>1 DEF Compared
      <4>2. QED BY <2>2, <2>4, <2>5, <3>1, <4>1 DEF Valid, SortRecord
    <3>2. CASE fn.child # -1
      <4>1. Compared[2] = fn.child BY <3>2 DEF Compared
      <4>2. QED BY <2>2, <2>4, <2>5, <3>2, <4>1 DEF Valid, SortRecord
    <3>3. QED BY <3>1, <3>2
  <2>6. QED BY <2>2, <2>3, <2>5
<1>2. QED BY <1>1, ArrayInvAlways, PTL

(* The functions that call back push the function and what it is called    *)
(* with, and sq_call finds the function below as many arguments as it is   *)
(* called with.  The passed function is called with the array, or with the *)
(* root table when it sorts, as this exactly when it has from two to four  *)
(* parameters; with one or six it is not called, with five only for the    *)
(* first element and with itself as this, and with more a slot of the      *)
(* caller is called.  What is on top in the end is never the function.     *)
THEOREM AlwaysCallsFunction == Spec => []CallsFunction
<1>1. ArrayInv => CallsFunction
  <2> SUFFICES ASSUME ArrayInv, Called
               PROVE /\ (Callee(stack) = "closure" /\ This(stack) = (IF fn.name = "sort" THEN "roottable" ELSE "array"))
                          <=> fn.nargs \in 2 .. 4
                     /\ fn.nargs \notin {1, 6}
                     /\ fn.nargs = 5 => fn.n = 0 /\ Callee(stack) = "closure" /\ This(stack) = "closure"
                     /\ fn.nargs > 6 => Callee(stack) = "outside"
    BY DEF CallsFunction, ArrayInv, FrameRight
  <2>1. (LoopRecord(fn) \/ SortRecord(fn)) /\ MayCall(fn) BY DEF ArrayInv, Called, FrameRight
  <2>2. PICK s \in Bases(fn) : stack = s \o Arguments /\ (fn.name # "sort" => fn.n < fn.size)
    BY DEF ArrayInv, FrameRight
  <2>4. CASE fn.name = "sort"
    <3>1. fn.nargs = 3 BY <2>1, <2>4 DEF LoopRecord, SortRecord
    <3>2. s \in Seq(Word) /\ Len(s) \in Nat /\ Arguments \in Seq(Word) BY <2>1, BasesAreSeq, Arguments_
    <3>3. /\ Len(Arguments) = 4 /\ Len(stack) = Len(s) + 4
          /\ \A i \in 1 .. 4 : stack[Len(s) + i] = Arguments[i]
      BY <2>1, <2>2, <2>4, TakenAway
    <3>4. Arguments[1] = "closure" /\ Arguments[2] = "roottable" BY <2>4 DEF Arguments
    <3>5. stack[Len(s) + 1] = "closure" /\ stack[Len(s) + 2] = "roottable" BY <3>3, <3>4
    <3>6. DOMAIN stack = 1 .. Len(s) + 4
      <4>1. stack \in Seq(Word) BY <2>2, <3>2
      <4>2. QED BY <3>3, <4>1
    <3>7. Callee(stack) = "closure" BY <3>1, <3>2, <3>3, <3>5, <3>6 DEF Callee, Slot
    <3>8. This(stack) = "roottable" BY <3>1, <3>2, <3>3, <3>5, <3>6 DEF This, Slot
    <3>9. QED BY <2>4, <3>1, <3>7, <3>8
  <2>5. CASE fn.name # "sort"
    <3>1. /\ fn.nargs \in 2 .. 4 => Callee(stack) = "closure" /\ This(stack) = "array"
          /\ fn.nargs = 5 => Callee(stack) = "closure" /\ This(stack) = "closure"
          /\ fn.nargs > 6 => Callee(stack) = "outside"
      BY <2>1, <2>2, <2>5, Callees
    <3>2. fn.nargs \in Nat \ {0} BY <2>1, <2>5 DEF LoopRecord, SortRecord
    <3>3. fn.nargs \notin {1, 6} /\ (fn.nargs = 5 => fn.n = 0) BY <2>1 DEF MayCall
    <3>4. fn.nargs \in 2 .. 4 \/ fn.nargs = 5 \/ fn.nargs > 6 BY <3>2, <3>3
    <3>5. CASE fn.nargs \in 2 .. 4 BY <2>5, <3>1, <3>5
    <3>6. CASE fn.nargs = 5 BY <2>5, <3>1, <3>3, <3>6
    <3>7. CASE fn.nargs > 6 BY <2>5, <3>1, <3>2, <3>7
    <3>8. QED BY <3>4, <3>5, <3>6, <3>7
  <2>6. QED BY <2>4, <2>5
<1>2. QED BY <1>1, ArrayInvAlways, PTL
=============================================================================

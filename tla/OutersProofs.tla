---------------------------- MODULE OutersProofs ----------------------------
(* Theorems on captured variables: the list of open outers, where they      *)
(* point, and that they follow their variables.                            *)
EXTENDS Outers, SequenceTheorems, WellFoundedInduction, TLAPS

Scope == [kind : {"block", "loop", "try"}, start : Nat]
Frame == [base : Nat, locals : Seq(Nat), scopes : Seq(Scope)]
Outer == [open : BOOLEAN, idx : Nat, alloc : Nat, var : Nat]

(* The numbers of variables and of open scopes of a frame. *)
Width(fr) == Len(fr.locals)
Depth(fr) == Len(fr.scopes)

(* The registers of a callee lie above the variables of its caller. *)
Apart(fs) == \A f, g \in 1 .. Len(fs) : f < g => fs[f].base + Width(fs[f]) < fs[g].base

(* A variable has one place. *)
OnePlace(fs) ==
  \A f, g \in 1 .. Len(fs) : \A i \in 1 .. Width(fs[f]), j \in 1 .. Width(fs[g]) :
    fs[f].locals[i] = fs[g].locals[j] => f = g /\ i = j

(* Variables are numbered up to n, and scopes are nested. *)
FrameOK(fr, n) ==
  /\ Width(fr) <= FrameSize
  /\ \A i \in 1 .. Width(fr) : fr.locals[i] \in 1 .. n
  /\ \A k \in 1 .. Depth(fr) : fr.scopes[k].start <= Width(fr)
  /\ \A j, k \in 1 .. Depth(fr) : j <= k => fr.scopes[j].start <= fr.scopes[k].start

FramesOK(fs, n) ==
  /\ fs \in Seq(Frame) /\ Len(fs) >= 1 /\ Apart(fs) /\ OnePlace(fs)
  /\ \A f \in 1 .. Len(fs) : FrameOK(fs[f], n)

(* Variable x is in the slot idx of the stack: IsAt for any frames. *)
At(fs, x, idx) ==
  \E f \in 1 .. Len(fs) : \E i \in 1 .. Width(fs[f]) :
    fs[f].locals[i] = x /\ idx = fs[f].base + i - 1

OutersTyped == outers \in Seq(Outer) /\ openouters \in Seq(Nat)
Numbers ==
  /\ nvars \in Nat /\ alloc \in Nat /\ stacksize \in Nat
  /\ captured \subseteq 1 .. nvars /\ lost \subseteq captured
Room == \A f \in 1 .. N : frames[f].base + FrameSize <= stacksize

(* Where outer o points: to a register of a frame, and of the one below it *)
(* when it is not one of that frame.                                       *)
Below(fs, idx) ==
  \A f \in 1 .. Len(fs) :
    (f = Len(fs) \/ idx < fs[f + 1].base) => idx < fs[f].base + FrameSize

OuterOK(o) ==
  /\ outers[o].var \in captured
  /\ outers[o].open =>
       /\ outers[o].alloc <= alloc /\ (outers[o].alloc = alloc <=> ~ reserved)
       /\ Below(frames, outers[o].idx)

FramesGood == FramesOK(frames, nvars)

(* What holds until a loop over the open outers uses a freed pointer. *)
OutersInv ==
  /\ FramesGood /\ Numbers /\ OutersTyped /\ Room
  /\ reserved => openouters # <<>>
  /\ \A o \in DOMAIN outers : OuterOK(o)
  /\ ListSorted /\ VariablesKept
-----------------------------------------------------------------------------
LEMMA Shape ==
  ASSUME NEW fs \in Seq(Frame), NEW f \in 1 .. Len(fs)
  PROVE /\ fs[f] \in Frame /\ fs[f].base \in Nat
        /\ fs[f].locals \in Seq(Nat) /\ Width(fs[f]) \in Nat
        /\ fs[f].scopes \in Seq(Scope) /\ Depth(fs[f]) \in Nat
        /\ \A k \in 1 .. Depth(fs[f]) : fs[f].scopes[k] \in Scope /\ fs[f].scopes[k].start \in Nat
<1>1. fs[f] \in Frame OBVIOUS
<1>2. fs[f].base \in Nat /\ fs[f].locals \in Seq(Nat) /\ fs[f].scopes \in Seq(Scope) BY <1>1 DEF Frame
<1> HIDE DEF Frame
<1>3. \A k \in 1 .. Depth(fs[f]) : fs[f].scopes[k] \in Scope BY <1>2 DEF Depth
<1>4. \A sc \in Scope : sc.start \in Nat BY DEF Scope
<1>5. QED BY <1>1, <1>2, <1>3, <1>4 DEF Width, Depth

(* A prefix of a sequence. *)
LEMMA Prefix_ ==
  ASSUME NEW S, NEW s \in Seq(S), NEW k \in 0 .. Len(s)
  PROVE /\ SubSeq(s, 1, k) \in Seq(S) /\ Len(SubSeq(s, 1, k)) = k
        /\ \A i \in 1 .. k : SubSeq(s, 1, k)[i] = s[i]
OBVIOUS

(* Control goes back to frame m, which keeps s variables and k scopes. *)
IsCut(fs, gs, m, s, k) ==
  /\ m \in 1 .. Len(fs) /\ s \in 0 .. Width(fs[m]) /\ k \in 0 .. Depth(fs[m])
  /\ gs \in Seq(Frame) /\ Len(gs) = m /\ \A f \in 1 .. m - 1 : gs[f] = fs[f]
  /\ gs[m].base = fs[m].base
  /\ gs[m].locals = SubSeq(fs[m].locals, 1, s)
  /\ gs[m].scopes = SubSeq(fs[m].scopes, 1, k)
  /\ \A j \in 1 .. k : fs[m].scopes[j].start <= s

LEMMA CutLocals ==
  ASSUME NEW n \in Nat, NEW fs, NEW gs, NEW m, NEW s, NEW k, FramesOK(fs, n), IsCut(fs, gs, m, s, k)
  PROVE /\ m \in 1 .. Len(fs) /\ Len(gs) = m /\ Width(gs[m]) = s
        /\ \A f \in 1 .. m :
             /\ gs[f].base = fs[f].base /\ Width(gs[f]) <= Width(fs[f])
             /\ Width(gs[f]) \in Nat /\ Width(fs[f]) \in Nat /\ fs[f].base \in Nat
             /\ \A i \in 1 .. Width(gs[f]) : gs[f].locals[i] = fs[f].locals[i]
             /\ f < m => gs[f] = fs[f]
<1>1. fs \in Seq(Frame) BY DEF FramesOK
<1>2. m \in 1 .. Len(fs) /\ Len(gs) = m BY DEF IsCut
<1>3. fs[m].locals \in Seq(Nat) BY <1>1, <1>2, Shape
<1>4. Width(gs[m]) = s /\ \A i \in 1 .. s : gs[m].locals[i] = fs[m].locals[i]
  BY <1>3, Prefix_ DEF IsCut, Width
<1>5. \A f \in 1 .. m : Width(fs[f]) \in Nat /\ fs[f].base \in Nat BY <1>1, <1>2, Shape
<1>6. s \in 0 .. Width(fs[m]) BY DEF IsCut
<1>7. ASSUME NEW f \in 1 .. m, f < m PROVE gs[f] = fs[f] BY <1>2, <1>7 DEF IsCut
<1>8. gs[m].base = fs[m].base BY DEF IsCut
<1>9. ASSUME NEW f \in 1 .. m PROVE
             /\ gs[f].base = fs[f].base /\ Width(gs[f]) <= Width(fs[f])
             /\ Width(gs[f]) \in Nat /\ Width(fs[f]) \in Nat /\ fs[f].base \in Nat
             /\ \A i \in 1 .. Width(gs[f]) : gs[f].locals[i] = fs[f].locals[i]
             /\ f < m => gs[f] = fs[f]
  <2>1. CASE f = m BY <2>1, <1>4, <1>5, <1>6, <1>8
  <2>2. CASE f < m BY <2>2, <1>5, <1>7
  <2>3. QED BY <1>2, <2>1, <2>2
<1>10. QED BY <1>2, <1>4, <1>9

LEMMA CutOK ==
  ASSUME NEW n \in Nat, NEW fs, NEW gs, NEW m, NEW s, NEW k, FramesOK(fs, n), IsCut(fs, gs, m, s, k)
  PROVE FramesOK(gs, n)
<1>1. /\ m \in 1 .. Len(fs) /\ Len(gs) = m /\ Width(gs[m]) = s
      /\ \A f \in 1 .. m :
             /\ gs[f].base = fs[f].base /\ Width(gs[f]) <= Width(fs[f])
             /\ Width(gs[f]) \in Nat /\ Width(fs[f]) \in Nat /\ fs[f].base \in Nat
             /\ \A i \in 1 .. Width(gs[f]) : gs[f].locals[i] = fs[f].locals[i]
             /\ f < m => gs[f] = fs[f]
  BY CutLocals
<1>2. fs \in Seq(Frame) /\ Apart(fs) /\ OnePlace(fs) /\ \A f \in 1 .. Len(fs) : FrameOK(fs[f], n)
  BY DEF FramesOK
<1> DEFINE l == Len(fs)
<1>3. l \in Nat BY <1>2
<1> HIDE DEF l
<1>4. Apart(gs)
  <2>1. SUFFICES ASSUME NEW f \in 1 .. m, NEW g \in 1 .. m, f < g
                 PROVE gs[f].base + Width(gs[f]) < gs[g].base
    BY <1>1 DEF Apart
  <2>2. f \in 1 .. l /\ g \in 1 .. l BY <1>1, <1>3 DEF l
  <2>3. fs[f].base + Width(fs[f]) < fs[g].base BY <1>2, <2>1, <2>2 DEF Apart, l
  <2>4. gs[f].base = fs[f].base /\ Width(gs[f]) <= Width(fs[f]) /\ gs[g].base = fs[g].base
        /\ Width(gs[f]) \in Nat /\ Width(fs[f]) \in Nat /\ fs[f].base \in Nat /\ fs[g].base \in Nat
    BY <1>1
  <2>5. QED BY <2>3, <2>4
<1>5. OnePlace(gs)
  <2>1. SUFFICES ASSUME NEW f \in 1 .. m, NEW g \in 1 .. m, NEW i \in 1 .. Width(gs[f]),
                        NEW j \in 1 .. Width(gs[g]), gs[f].locals[i] = gs[g].locals[j]
                 PROVE f = g /\ i = j
    BY <1>1 DEF OnePlace
  <2>2. f \in 1 .. l /\ g \in 1 .. l BY <1>1, <1>3 DEF l
  <2>3. i \in 1 .. Width(fs[f]) /\ j \in 1 .. Width(fs[g])
    <3>1. Width(gs[f]) <= Width(fs[f]) /\ Width(gs[g]) <= Width(fs[g])
          /\ Width(gs[f]) \in Nat /\ Width(fs[f]) \in Nat
          /\ Width(gs[g]) \in Nat /\ Width(fs[g]) \in Nat
      BY <1>1
    <3>2. QED BY <3>1
  <2>4. fs[f].locals[i] = fs[g].locals[j] BY <1>1, <2>1
  <2>5. QED BY <1>2, <2>2, <2>3, <2>4 DEF OnePlace, l
<1>6. ASSUME NEW f \in 1 .. m PROVE FrameOK(gs[f], n)
  <2>1. f \in 1 .. l BY <1>1, <1>3 DEF l
  <2>2. FrameOK(fs[f], n) BY <1>2, <2>1 DEF l
  <2>3. CASE f < m BY <1>1, <2>2, <2>3
  <2>4. CASE f = m
    <3>1. fs[m].scopes \in Seq(Scope) /\ k \in 0 .. Depth(fs[m]) BY <1>1, <1>2, Shape DEF IsCut
    <3>2. Depth(gs[m]) = k /\ \A j \in 1 .. k : gs[m].scopes[j] = fs[m].scopes[j]
      BY <3>1, Prefix_ DEF IsCut, Depth
    <3>3. \A j \in 1 .. k : fs[m].scopes[j].start <= s BY DEF IsCut
    <3>4. Depth(fs[m]) \in Nat BY <1>1, <1>2, Shape
    <3>5. Width(gs[m]) <= FrameSize BY <1>1, <2>2, <2>4, SizeAssumption DEF FrameOK
    <3>6. \A i \in 1 .. Width(gs[m]) : gs[m].locals[i] \in 1 .. n
      BY <1>1, <2>2, <2>4 DEF FrameOK
    <3>7. \A j \in 1 .. Depth(gs[m]) : gs[m].scopes[j].start <= Width(gs[m])
      BY <1>1, <3>2, <3>3
    <3>8. \A i, j \in 1 .. Depth(gs[m]) : i <= j => gs[m].scopes[i].start <= gs[m].scopes[j].start
      <4>1. \A i, j \in 1 .. Depth(fs[m]) : i <= j => fs[m].scopes[i].start <= fs[m].scopes[j].start
        BY <2>2, <2>4 DEF FrameOK
      <4> DEFINE l2 == Depth(fs[m])
      <4>2. l2 \in Nat /\ k \in 0 .. l2 /\ \A i, j \in 1 .. l2 : i <= j => fs[m].scopes[i].start <= fs[m].scopes[j].start
        BY <3>1, <3>4, <4>1
      <4> HIDE DEF l2
      <4>3. \A i \in 1 .. k : i \in 1 .. l2 BY <4>2
      <4>4. QED BY <3>2, <4>2, <4>3
    <3>9. QED BY <2>4, <3>5, <3>6, <3>7, <3>8 DEF FrameOK
  <2>5. QED BY <1>1, <2>3, <2>4
<1>7. gs \in Seq(Frame) /\ Len(gs) >= 1 BY <1>1 DEF IsCut
<1>8. QED BY <1>1, <1>4, <1>5, <1>6, <1>7 DEF FramesOK

(* What stays in scope is what is below the first register given up. *)
LEMMA CutAt ==
  ASSUME NEW n \in Nat, NEW fs, NEW gs, NEW m, NEW s, NEW k, FramesOK(fs, n), IsCut(fs, gs, m, s, k),
         NEW x, NEW idx
  PROVE At(gs, x, idx) <=> At(fs, x, idx) /\ idx < fs[m].base + s
<1>1. /\ m \in 1 .. Len(fs) /\ Len(gs) = m /\ Width(gs[m]) = s
      /\ \A f \in 1 .. m :
             /\ gs[f].base = fs[f].base /\ Width(gs[f]) <= Width(fs[f])
             /\ Width(gs[f]) \in Nat /\ Width(fs[f]) \in Nat /\ fs[f].base \in Nat
             /\ \A i \in 1 .. Width(gs[f]) : gs[f].locals[i] = fs[f].locals[i]
             /\ f < m => gs[f] = fs[f]
  BY CutLocals
<1>2. fs \in Seq(Frame) /\ Apart(fs) BY DEF FramesOK
<1> DEFINE l == Len(fs)
<1>3. l \in Nat BY <1>2
<1> HIDE DEF l
<1>4. \A f \in 1 .. l : fs[f].base \in Nat /\ Width(fs[f]) \in Nat BY <1>2, Shape DEF l
<1>5. \A f, g \in 1 .. l : f < g => fs[f].base + Width(fs[f]) < fs[g].base BY <1>2 DEF Apart, l
<1>6. m \in 1 .. l /\ s \in Nat BY <1>1 DEF l
<1>7. ASSUME At(gs, x, idx) PROVE At(fs, x, idx) /\ idx < fs[m].base + s
  <2>1. PICK f \in 1 .. m : \E i \in 1 .. Width(gs[f]) : gs[f].locals[i] = x /\ idx = gs[f].base + i - 1
    BY <1>1, <1>7 DEF At
  <2>2. PICK i \in 1 .. Width(gs[f]) : gs[f].locals[i] = x /\ idx = gs[f].base + i - 1 BY <2>1
  <2>3. f \in 1 .. l /\ i \in 1 .. Width(fs[f]) BY <1>1, <1>3, <1>6
  <2>4. fs[f].locals[i] = x /\ idx = fs[f].base + i - 1 BY <1>1, <2>2
  <2>5. At(fs, x, idx) BY <2>3, <2>4 DEF At, l
  <2>6. CASE f = m BY <1>1, <2>4, <2>5, <2>6
  <2>7. CASE f < m
    <3>1. fs[f].base + Width(fs[f]) < fs[m].base BY <1>5, <1>6, <2>3, <2>7
    <3>2. fs[f].base \in Nat /\ Width(fs[f]) \in Nat /\ fs[m].base \in Nat BY <1>4, <1>6, <2>3
    <3>3. i \in 1 .. Width(fs[f]) BY <2>3
    <3>4. QED BY <1>6, <2>4, <2>5, <3>1, <3>2, <3>3
  <2>8. QED BY <1>6, <2>6, <2>7
<1>8. ASSUME At(fs, x, idx), idx < fs[m].base + s PROVE At(gs, x, idx)
  <2>1. PICK f \in 1 .. l : \E i \in 1 .. Width(fs[f]) : fs[f].locals[i] = x /\ idx = fs[f].base + i - 1
    BY <1>8 DEF At, l
  <2>2. PICK i \in 1 .. Width(fs[f]) : fs[f].locals[i] = x /\ idx = fs[f].base + i - 1 BY <2>1
  <2>3. s <= Width(fs[m]) BY <1>1, <1>6
  <2>4. f <= m
    <3>1. SUFFICES ASSUME m < f PROVE FALSE BY <1>6
    <3>2. fs[m].base + Width(fs[m]) < fs[f].base BY <1>5, <1>6, <3>1
    <3>3. fs[f].base \in Nat /\ Width(fs[m]) \in Nat /\ fs[m].base \in Nat BY <1>4, <1>6
    <3>4. idx = fs[f].base + i - 1 /\ i >= 1 /\ i \in Int BY <2>2
    <3>5. QED BY <1>6, <1>8, <2>3, <3>2, <3>3, <3>4
  <2>5. i \in 1 .. Width(gs[f])
    <3>1. CASE f = m BY <1>1, <1>4, <1>6, <1>8, <2>2, <3>1
    <3>2. CASE f < m BY <1>1, <1>6, <2>4, <3>2
    <3>3. QED BY <1>6, <2>4, <3>1, <3>2
  <2>6. f \in 1 .. m BY <1>6, <2>4
  <2>7. gs[f].locals[i] = x /\ idx = gs[f].base + i - 1 BY <1>1, <2>2, <2>5, <2>6
  <2>8. QED BY <1>1, <2>5, <2>6, <2>7 DEF At
<1>9. QED BY <1>7, <1>8

(* The running function declares variable x. *)
IsDeclare(fs, gs, x) ==
  LET m == Len(fs) IN
  /\ gs \in Seq(Frame) /\ Len(gs) = m /\ \A f \in 1 .. m - 1 : gs[f] = fs[f]
  /\ gs[m].base = fs[m].base /\ gs[m].scopes = fs[m].scopes
  /\ gs[m].locals = Append(fs[m].locals, x)

Declared(fs, gs, n, m) ==
  /\ m \in Nat \ {0} /\ Len(gs) = m
  /\ Width(gs[m]) = Width(fs[m]) + 1 /\ gs[m].locals[Width(fs[m]) + 1] = n + 1
  /\ \A f \in 1 .. m :
       /\ gs[f].base = fs[f].base /\ Width(fs[f]) \in Nat /\ fs[f].base \in Nat
       /\ \A i \in 1 .. Width(fs[f]) : gs[f].locals[i] = fs[f].locals[i]
       /\ f < m => gs[f] = fs[f] /\ Width(gs[f]) = Width(fs[f])

LEMMA DeclareLocals ==
  ASSUME NEW n \in Nat, NEW fs, NEW gs, FramesOK(fs, n), IsDeclare(fs, gs, n + 1), NEW m, m = Len(fs)
  PROVE Declared(fs, gs, n, m)
<1>1. fs \in Seq(Frame) /\ Len(fs) >= 1 BY DEF FramesOK
<1>2. m \in Nat \ {0} /\ Len(gs) = m /\ m \in 1 .. m BY <1>1 DEF IsDeclare
<1>3. \A f \in 1 .. m : Width(fs[f]) \in Nat /\ fs[f].base \in Nat BY <1>1, Shape
<1>4. fs[m].locals \in Seq(Nat) BY <1>1, <1>2, Shape
<1>5. gs[m].locals = Append(fs[m].locals, n + 1) BY DEF IsDeclare
<1>6. Width(gs[m]) = Width(fs[m]) + 1 /\ gs[m].locals[Width(fs[m]) + 1] = n + 1
      /\ \A i \in 1 .. Width(fs[m]) : gs[m].locals[i] = fs[m].locals[i]
  BY <1>4, <1>5 DEF Width
<1>7. \A f \in 1 .. m : f < m => gs[f] = fs[f] BY <1>2 DEF IsDeclare
<1>8. gs[m].base = fs[m].base BY DEF IsDeclare
<1>9. ASSUME NEW f \in 1 .. m
      PROVE  /\ gs[f].base = fs[f].base /\ Width(fs[f]) \in Nat /\ fs[f].base \in Nat
             /\ \A i \in 1 .. Width(fs[f]) : gs[f].locals[i] = fs[f].locals[i]
             /\ f < m => gs[f] = fs[f] /\ Width(gs[f]) = Width(fs[f])
  <2>1. CASE f = m BY <1>2, <1>3, <1>6, <1>8, <2>1
  <2>2. CASE f < m BY <1>3, <1>7, <2>2
  <2>3. QED BY <1>2, <2>1, <2>2
<1>10. QED BY <1>2, <1>6, <1>9 DEF Declared

LEMMA DeclareOK ==
  ASSUME NEW n \in Nat, NEW fs, NEW gs, FramesOK(fs, n), IsDeclare(fs, gs, n + 1),
         Width(fs[Len(fs)]) < FrameSize
  PROVE FramesOK(gs, n + 1)
<1> DEFINE m == Len(fs)
<1>0. m = Len(fs) OBVIOUS
<1> HIDE DEF m
<1>1. /\ m \in Nat \ {0} /\ Len(gs) = m /\ Width(gs[m]) = Width(fs[m]) + 1 /\ gs[m].locals[Width(fs[m]) + 1] = n + 1
      /\ \A f \in 1 .. m :
           /\ gs[f].base = fs[f].base /\ Width(fs[f]) \in Nat /\ fs[f].base \in Nat
           /\ \A i \in 1 .. Width(fs[f]) : gs[f].locals[i] = fs[f].locals[i]
           /\ f < m => gs[f] = fs[f] /\ Width(gs[f]) = Width(fs[f])
  <2>1. Declared(fs, gs, n, m) BY <1>0, DeclareLocals
  <2>2. QED BY <2>1 DEF Declared
<1>2. fs \in Seq(Frame) /\ Apart(fs) /\ OnePlace(fs) /\ \A f \in 1 .. m : FrameOK(fs[f], n)
  BY <1>0 DEF FramesOK
<1>3. Apart(gs)
  <2>1. SUFFICES ASSUME NEW f \in 1 .. m, NEW g \in 1 .. m, f < g
                 PROVE gs[f].base + Width(gs[f]) < gs[g].base
    BY <1>1 DEF Apart
  <2>2. fs[f].base + Width(fs[f]) < fs[g].base BY <1>0, <1>2, <2>1 DEF Apart
  <2>3. f < m BY <1>1, <2>1
  <2>4. QED BY <1>1, <2>2, <2>3
<1>4. OnePlace(gs)
  <2>1. SUFFICES ASSUME NEW f \in 1 .. m, NEW g \in 1 .. m, NEW i \in 1 .. Width(gs[f]),
                        NEW j \in 1 .. Width(gs[g]), gs[f].locals[i] = gs[g].locals[j]
                 PROVE f = g /\ i = j
    BY <1>1 DEF OnePlace
  <2>2. \A h \in 1 .. m : \A q \in 1 .. Width(gs[h]) :
          \/ q \in 1 .. Width(fs[h]) /\ gs[h].locals[q] = fs[h].locals[q] /\ gs[h].locals[q] \in 1 .. n
          \/ h = m /\ q = Width(fs[m]) + 1 /\ gs[h].locals[q] = n + 1
    <3> TAKE h \in 1 .. m
    <3> TAKE q \in 1 .. Width(gs[h])
    <3>1. FrameOK(fs[h], n) BY <1>2
    <3>2. Width(fs[h]) \in Nat BY <1>1
    <3>3. CASE q \in 1 .. Width(fs[h])
      <4>1. gs[h].locals[q] = fs[h].locals[q] BY <1>1, <3>3
      <4>2. QED BY <3>1, <3>3, <4>1 DEF FrameOK
    <3>4. CASE q \notin 1 .. Width(fs[h])
      <4>1. h = m
        <5>1. SUFFICES ASSUME h < m PROVE FALSE BY <1>1
        <5>2. Width(gs[h]) = Width(fs[h]) BY <1>1, <5>1
        <5>3. QED BY <3>4, <5>2
      <4>2. q \in 1 .. Width(fs[m]) + 1 /\ q \notin 1 .. Width(fs[m]) /\ Width(fs[m]) \in Nat BY <1>1, <3>2, <3>4, <4>1
      <4>3. q = Width(fs[m]) + 1 BY <4>2
      <4>4. QED BY <1>1, <4>1, <4>3
    <3>5. QED BY <3>3, <3>4
  <2>3. n + 1 \notin 1 .. n OBVIOUS
  <2>4. CASE i \in 1 .. Width(fs[f]) /\ gs[f].locals[i] = fs[f].locals[i] /\ gs[f].locals[i] \in 1 .. n
    <3>1. j \in 1 .. Width(fs[g]) /\ gs[g].locals[j] = fs[g].locals[j] BY <2>1, <2>2, <2>3, <2>4
    <3>2. fs[f].locals[i] = fs[g].locals[j] /\ i \in 1 .. Width(fs[f]) BY <2>1, <2>4, <3>1
    <3>3. QED BY <1>0, <1>2, <3>1, <3>2 DEF OnePlace
  <2>5. CASE f = m /\ i = Width(fs[m]) + 1 /\ gs[f].locals[i] = n + 1
    <3>1. g = m /\ j = Width(fs[m]) + 1 BY <2>1, <2>2, <2>3, <2>5
    <3>2. QED BY <2>5, <3>1
  <2>6. QED BY <2>2, <2>4, <2>5
<1>5. ASSUME NEW f \in 1 .. m PROVE FrameOK(gs[f], n + 1)
  <2>1. FrameOK(fs[f], n) BY <1>2
  <2>2. CASE f < m
    <3>1. gs[f] = fs[f] BY <1>1, <2>2
    <3>2. QED BY <2>1, <3>1 DEF FrameOK
  <2>3. CASE f = m
    <3>1. gs[m].scopes = fs[m].scopes /\ Depth(gs[m]) = Depth(fs[m]) BY <1>0 DEF IsDeclare, Depth
    <3>2. Width(gs[m]) <= FrameSize BY <1>0, <1>1, SizeAssumption
    <3>3. \A i \in 1 .. Width(gs[m]) : gs[m].locals[i] \in 1 .. n + 1
      <4> TAKE i \in 1 .. Width(gs[m])
      <4>1. CASE i \in 1 .. Width(fs[m])
        <5>1. gs[m].locals[i] = fs[m].locals[i] BY <1>1, <4>1
        <5>2. QED BY <2>1, <2>3, <4>1, <5>1 DEF FrameOK
      <4>2. CASE i \notin 1 .. Width(fs[m])
        <5>1. i = Width(fs[m]) + 1 BY <1>1, <4>2
        <5>2. QED BY <1>1, <5>1
      <4>3. QED BY <4>1, <4>2
    <3>4. \A k \in 1 .. Depth(gs[m]) : gs[m].scopes[k].start <= Width(gs[m])
      <4> TAKE k \in 1 .. Depth(gs[m])
      <4>1. fs[m].scopes[k].start <= Width(fs[m]) BY <2>1, <2>3, <3>1 DEF FrameOK
      <4>2. fs[m].scopes[k].start \in Nat
        <5>1. m \in 1 .. Len(fs) /\ k \in 1 .. Depth(fs[m]) BY <1>0, <1>1, <3>1
        <5>2. QED BY <1>2, <5>1, Shape
      <4>3. QED BY <1>1, <3>1, <4>1, <4>2
    <3>5. QED BY <2>1, <2>3, <3>1, <3>2, <3>3, <3>4 DEF FrameOK
  <2>4. QED BY <1>1, <2>2, <2>3
<1>6. gs \in Seq(Frame) BY DEF IsDeclare
<1>7. QED BY <1>1, <1>3, <1>4, <1>5, <1>6 DEF FramesOK

LEMMA DeclareAt ==
  ASSUME NEW n \in Nat, NEW fs, NEW gs, FramesOK(fs, n), IsDeclare(fs, gs, n + 1), NEW x, x # n + 1, NEW idx
  PROVE At(gs, x, idx) <=> At(fs, x, idx)
<1> DEFINE m == Len(fs)
<1>0. m = Len(fs) OBVIOUS
<1> HIDE DEF m
<1>1. /\ m \in Nat \ {0} /\ Len(gs) = m /\ Width(gs[m]) = Width(fs[m]) + 1 /\ gs[m].locals[Width(fs[m]) + 1] = n + 1
      /\ \A f \in 1 .. m :
           /\ gs[f].base = fs[f].base /\ Width(fs[f]) \in Nat /\ fs[f].base \in Nat
           /\ \A i \in 1 .. Width(fs[f]) : gs[f].locals[i] = fs[f].locals[i]
           /\ f < m => gs[f] = fs[f] /\ Width(gs[f]) = Width(fs[f])
  <2>1. Declared(fs, gs, n, m) BY <1>0, DeclareLocals
  <2>2. QED BY <2>1 DEF Declared
<1>2. ASSUME NEW f \in 1 .. m, NEW i
      PROVE (i \in 1 .. Width(gs[f]) /\ gs[f].locals[i] = x) <=> (i \in 1 .. Width(fs[f]) /\ fs[f].locals[i] = x)
  <2>1. CASE f < m BY <1>1, <2>1
  <2>2. CASE f = m
    <3>1. Width(gs[m]) = Width(fs[m]) + 1 /\ gs[m].locals[Width(fs[m]) + 1] # x /\ Width(fs[m]) \in Nat BY <1>1, <2>2
    <3>2. \A j \in 1 .. Width(fs[m]) : gs[m].locals[j] = fs[m].locals[j] BY <1>1, <2>2
    <3>3. i \in 1 .. Width(gs[m]) <=> i \in 1 .. Width(fs[m]) \/ i = Width(fs[m]) + 1 BY <3>1
    <3>4. QED BY <2>2, <3>1, <3>2, <3>3
  <2>3. QED BY <1>1, <2>1, <2>2
<1>3. \A f \in 1 .. m : gs[f].base = fs[f].base BY <1>1
<1>4. Len(gs) = Len(fs) /\ m = Len(fs) BY <1>0, <1>1
<1>5. ASSUME At(gs, x, idx) PROVE At(fs, x, idx)
  <2>1. PICK f \in 1 .. m : \E i \in 1 .. Width(gs[f]) : gs[f].locals[i] = x /\ idx = gs[f].base + i - 1
    BY <1>4, <1>5 DEF At
  <2>2. QED BY <1>2, <1>3, <1>4, <2>1 DEF At
<1>6. ASSUME At(fs, x, idx) PROVE At(gs, x, idx)
  <2>1. PICK f \in 1 .. m : \E i \in 1 .. Width(fs[f]) : fs[f].locals[i] = x /\ idx = fs[f].base + i - 1
    BY <1>4, <1>6 DEF At
  <2>2. QED BY <1>2, <1>3, <1>4, <2>1 DEF At
<1>7. QED BY <1>5, <1>6

(* A scope begins. *)
IsBegin(fs, gs) ==
  LET m == Len(fs) IN
  /\ gs \in Seq(Frame) /\ Len(gs) = m /\ \A f \in 1 .. m - 1 : gs[f] = fs[f]
  /\ gs[m].base = fs[m].base /\ gs[m].locals = fs[m].locals
  /\ \E sc \in Scope : gs[m].scopes = Append(fs[m].scopes, sc) /\ sc.start = Width(fs[m])

LEMMA BeginOK ==
  ASSUME NEW n \in Nat, NEW fs, NEW gs, FramesOK(fs, n), IsBegin(fs, gs)
  PROVE FramesOK(gs, n) /\ Len(gs) = Len(fs) /\ (\A f \in 1 .. Len(fs) : gs[f].base = fs[f].base /\ Width(gs[f]) = Width(fs[f]))
        /\ \A x, idx : At(gs, x, idx) <=> At(fs, x, idx)
<1> DEFINE m == Len(fs)
<1>1. fs \in Seq(Frame) /\ m \in Nat \ {0} /\ \A f \in 1 .. m : FrameOK(fs[f], n) BY DEF FramesOK
<1>0. m = Len(fs) OBVIOUS
<1> HIDE DEF m
<1>2. Len(gs) = m /\ gs \in Seq(Frame) BY <1>0 DEF IsBegin
<1>3. \A f \in 1 .. m : gs[f].base = fs[f].base /\ gs[f].locals = fs[f].locals /\ Width(gs[f]) = Width(fs[f])
  <2> TAKE f \in 1 .. m
  <2>1. CASE f = m BY <1>0, <2>1 DEF IsBegin, Width
  <2>2. CASE f < m
    <3>1. f \in 1 .. m - 1 BY <1>1, <2>2
    <3>2. QED BY <1>0, <3>1 DEF IsBegin, Width
  <2>3. QED BY <1>1, <2>1, <2>2
<1>4. Apart(gs) /\ OnePlace(gs)
  BY <1>0, <1>2, <1>3 DEF FramesOK, Apart, OnePlace
<1>5. ASSUME NEW f \in 1 .. m PROVE FrameOK(gs[f], n)
  <2>1. FrameOK(fs[f], n) BY <1>1
  <2>2. CASE f < m
    <3>1. f \in 1 .. m - 1 BY <1>1, <2>2
    <3>2. QED BY <1>0, <2>1, <3>1 DEF IsBegin
  <2>3. CASE f = m
    <3>1. PICK sc \in Scope : gs[m].scopes = Append(fs[m].scopes, sc) /\ sc.start = Width(fs[m]) BY <1>0 DEF IsBegin
    <3>2. m \in 1 .. m BY <1>1
    <3>3. fs[m].scopes \in Seq(Scope) /\ Depth(fs[m]) \in Nat /\ Width(fs[m]) \in Nat
          /\ \A k \in 1 .. Depth(fs[m]) : fs[m].scopes[k].start \in Nat
      BY <1>0, <1>1, <3>2, Shape
    <3>4. Depth(gs[m]) = Depth(fs[m]) + 1 /\ gs[m].scopes[Depth(fs[m]) + 1] = sc
          /\ \A k \in 1 .. Depth(fs[m]) : gs[m].scopes[k] = fs[m].scopes[k]
      BY <3>1, <3>3 DEF Depth
    <3>5. gs[m].locals = fs[m].locals /\ Width(gs[m]) = Width(fs[m]) BY <1>3, <3>2
    <3>6. \A k \in 1 .. Depth(fs[m]) : fs[m].scopes[k].start <= Width(fs[m]) BY <2>1, <2>3 DEF FrameOK
    <3>7. \A k \in 1 .. Depth(gs[m]) : (k \in 1 .. Depth(fs[m]) /\ gs[m].scopes[k] = fs[m].scopes[k]) \/ (k = Depth(gs[m]) /\ gs[m].scopes[k].start = Width(fs[m]))
      <4> TAKE k \in 1 .. Depth(gs[m])
      <4>1. k \in 1 .. Depth(fs[m]) \/ k = Depth(fs[m]) + 1 BY <3>3, <3>4
      <4>2. QED BY <3>1, <3>4, <4>1
    <3>8. \A k \in 1 .. Depth(gs[m]) : gs[m].scopes[k].start <= Width(gs[m]) BY <3>3, <3>5, <3>6, <3>7
    <3>9. \A j, k \in 1 .. Depth(gs[m]) : j <= k => gs[m].scopes[j].start <= gs[m].scopes[k].start
      <4> TAKE j, k \in 1 .. Depth(gs[m])
      <4> HAVE j <= k
      <4>1. CASE k = Depth(gs[m]) /\ gs[m].scopes[k].start = Width(fs[m]) BY <3>5, <3>8, <4>1
      <4>2. CASE k \in 1 .. Depth(fs[m])
        <5>1. j \in 1 .. Depth(fs[m]) BY <3>3, <3>4, <4>2
        <5>2. QED BY <2>1, <2>3, <3>4, <4>2, <5>1 DEF FrameOK
      <4>3. QED BY <3>7, <4>1, <4>2
    <3>10. QED BY <2>1, <2>3, <3>5, <3>8, <3>9 DEF FrameOK
  <2>4. QED BY <1>1, <2>2, <2>3
<1>6. FramesOK(gs, n) BY <1>1, <1>2, <1>4, <1>5 DEF FramesOK
<1>7. \A x, idx : At(gs, x, idx) <=> At(fs, x, idx) BY <1>0, <1>2, <1>3 DEF At
<1>8. QED BY <1>0, <1>2, <1>3, <1>6, <1>7

(* A function is entered: its registers begin above the variables. *)
IsEnter(fs, gs) ==
  gs = Append(fs, [base |-> fs[Len(fs)].base + Width(fs[Len(fs)]) + 1, locals |-> <<>>, scopes |-> <<>>])

LEMMA EnterOK ==
  ASSUME NEW n \in Nat, NEW fs, FramesOK(fs, n), NEW gs, IsEnter(fs, gs)
  PROVE FramesOK(gs, n) /\ \A x, idx : At(gs, x, idx) <=> At(fs, x, idx)
<1> DEFINE m == Len(fs)
<1>1. fs \in Seq(Frame) /\ m \in Nat \ {0} /\ Apart(fs) /\ OnePlace(fs) /\ \A f \in 1 .. m : FrameOK(fs[f], n) BY DEF FramesOK
<1>0. m = Len(fs) OBVIOUS
<1> HIDE DEF m
<1>2. m \in 1 .. m BY <1>1
<1>3. \A f \in 1 .. m : fs[f].base \in Nat /\ Width(fs[f]) \in Nat BY <1>0, <1>1, Shape
<1> DEFINE b == fs[m].base + Width(fs[m]) + 1
<1>4. b = fs[m].base + Width(fs[m]) + 1 /\ b \in Nat BY <1>2, <1>3
<1> HIDE DEF b
<1> DEFINE new == [base |-> b, locals |-> <<>>, scopes |-> <<>>]
<1>5. new \in Frame /\ new.base = b /\ Width(new) = 0 /\ Depth(new) = 0 BY <1>4 DEF Frame, Width, Depth
<1> HIDE DEF new
<1>6. gs \in Seq(Frame) /\ Len(gs) = m + 1 /\ gs[m + 1] = new /\ \A f \in 1 .. m : gs[f] = fs[f]
  <2>1. gs = Append(fs, new) BY <1>0 DEF new, b, IsEnter
  <2>2. QED BY <1>0, <1>1, <1>5, <2>1
<1>7. \A f \in 1 .. m + 1 : f \in 1 .. m \/ f = m + 1 BY <1>1
<1>8. Apart(gs)
  <2>1. SUFFICES ASSUME NEW f \in 1 .. m + 1, NEW g \in 1 .. m + 1, f < g
                 PROVE gs[f].base + Width(gs[f]) < gs[g].base
    BY <1>6 DEF Apart
  <2>2. f \in 1 .. m /\ gs[f] = fs[f] BY <1>1, <1>6, <2>1
  <2>3. CASE g \in 1 .. m BY <1>0, <1>1, <1>6, <2>1, <2>2, <2>3 DEF Apart
  <2>4. CASE g = m + 1
    <3>1. fs[f].base + Width(fs[f]) < fs[m].base \/ f = m BY <1>0, <1>1, <1>2, <2>2 DEF Apart
    <3>2. fs[f].base \in Nat /\ Width(fs[f]) \in Nat /\ fs[m].base \in Nat /\ Width(fs[m]) \in Nat BY <1>2, <1>3, <2>2
    <3>3. gs[g].base = fs[m].base + Width(fs[m]) + 1 BY <1>4, <1>5, <1>6, <2>4
    <3>4. fs[f].base + Width(fs[f]) < gs[g].base
      <4>1. CASE f = m BY <3>2, <3>3, <4>1
      <4>2. CASE fs[f].base + Width(fs[f]) < fs[m].base BY <3>2, <3>3, <4>2
      <4>3. QED BY <3>1, <4>1, <4>2
    <3>5. QED BY <2>2, <3>4
  <2>5. QED BY <1>7, <2>3, <2>4
<1>9. \A f \in 1 .. m + 1 : \A i \in 1 .. Width(gs[f]) : f \in 1 .. m /\ gs[f] = fs[f]
  BY <1>5, <1>6, <1>7
<1>10. OnePlace(gs)
  <2>1. SUFFICES ASSUME NEW f \in 1 .. Len(gs), NEW g \in 1 .. Len(gs), NEW i \in 1 .. Width(gs[f]),
                        NEW j \in 1 .. Width(gs[g]), gs[f].locals[i] = gs[g].locals[j]
                 PROVE f = g /\ i = j
    BY DEF OnePlace
  <2>2. f \in 1 .. m /\ gs[f] = fs[f] /\ g \in 1 .. m /\ gs[g] = fs[g] BY <1>6, <1>9
  <2>3. QED BY <1>0, <1>1, <2>1, <2>2 DEF OnePlace
<1>11. ASSUME NEW f \in 1 .. m + 1 PROVE FrameOK(gs[f], n)
  <2>1. FrameOK(new, n) BY <1>5, SizeAssumption DEF FrameOK
  <2>2. QED BY <1>1, <1>6, <1>7, <2>1
<1>12. FramesOK(gs, n) BY <1>1, <1>6, <1>8, <1>10, <1>11 DEF FramesOK
<1>13. ASSUME NEW x, NEW idx PROVE At(gs, x, idx) <=> At(fs, x, idx)
  <2>1. At(gs, x, idx) => At(fs, x, idx) BY <1>0, <1>6, <1>9 DEF At
  <2>2. \A f \in 1 .. m : f \in 1 .. m + 1 BY <1>1
  <2>3. At(fs, x, idx) => At(gs, x, idx) BY <1>0, <1>6, <2>2 DEF At
  <2>4. QED BY <2>1, <2>3
<1>14. QED BY <1>12, <1>13
-----------------------------------------------------------------------------
(* The list of open outers. *)
LEMMA FunctionIsSeq ==
  ASSUME NEW S, NEW n \in Nat, NEW s, s \in [1 .. n -> S]
  PROVE s \in Seq(S) /\ Len(s) = n
BY SeqDef

LEMMA Suffix_ ==
  ASSUME NEW S, NEW s \in Seq(S), NEW n, n = Len(s), NEW k \in 0 .. n
  PROVE /\ SubSeq(s, k + 1, n) \in Seq(S) /\ Len(SubSeq(s, k + 1, n)) = n - k
        /\ \A i \in 1 .. n - k : SubSeq(s, k + 1, n)[i] = s[k + i]
<1>1. n \in Nat OBVIOUS
<1>2. SubSeq(s, k + 1, n) = [i \in 1 .. (1 + n - (k + 1)) |-> s[(k + 1) + i - 1]] BY <1>1
<1>3. (1 + n - (k + 1)) = n - k /\ n - k \in Nat BY <1>1
<1>4. \A i \in 1 .. n - k : (k + 1) + i - 1 = k + i /\ k + i \in 1 .. n BY <1>1
<1> DEFINE d == n - k
           u == SubSeq(s, k + 1, n)
<1>5. d \in Nat /\ u = [i \in 1 .. d |-> s[(k + 1) + i - 1]] BY <1>2, <1>3
<1>6. \A i \in 1 .. d : (k + 1) + i - 1 = k + i /\ s[k + i] \in S BY <1>4
<1> HIDE DEF d, u
<1>7. u \in [1 .. d -> S] /\ \A i \in 1 .. d : u[i] = s[k + i] BY <1>5, <1>6
<1>8. u \in Seq(S) /\ Len(u) = d BY <1>5, <1>7, FunctionIsSeq
<1>9. QED BY <1>7, <1>8 DEF d, u

LEMMA NatLess ==
  \E R : IsWellFoundedOn(R, Nat) /\ \A x, y \in Nat : y < x => <<y, x>> \in R
<1>1. \A x, y \in Nat : y < x => <<y, x>> \in OpToRel(<, Nat) BY Zenon DEF OpToRel
<1>2. QED BY <1>1, NatLessThanWellFounded, Zenon

LEMMA NatMin ==
  ASSUME NEW T \in SUBSET Nat, T # {}
  PROVE \E x \in T : \A y \in T : x <= y
<1>1. PICK R : IsWellFoundedOn(R, Nat) /\ \A x, y \in Nat : y < x => <<y, x>> \in R
  BY NatLess
<1>2. \E x \in T : \A y \in T : ~(<<y, x>> \in R) BY <1>1, WFMin, Zenon
<1>3. \A x, y \in Nat : y < x => <<y, x>> \in R BY <1>1
<1>4. \E x \in T : \A y \in T : ~(y < x) BY <1>2, <1>3, Zenon
<1>5. QED BY <1>4

(* Where the loops over the list stop: at the first outer below. *)
LEMMA AboveStops ==
  ASSUME OutersTyped, ListSorted, NEW c \in Nat
  PROVE /\ Above(c) \in 0 .. Len(openouters)
        /\ \A i \in 1 .. Len(openouters) : i <= Above(c) <=> outers[openouters[i]].idx >= c
<1> DEFINE l == Len(openouters)
           all(n) == \A i \in 1 .. n : outers[openouters[i]].idx >= c
           T == {n \in 0 .. l : all(n)}
           U == {d \in Nat : d <= l /\ all(l - d)}
<1>1. l \in Nat /\ DOMAIN openouters = 1 .. l BY DEF OutersTyped
<1>2. \A i \in 1 .. l : outers[openouters[i]].idx \in Nat
  <2> TAKE i \in 1 .. l
  <2>1. openouters[i] \in DOMAIN outers BY <1>1 DEF ListSorted, Range
  <2>2. outers[openouters[i]] \in Outer BY <2>1 DEF OutersTyped
  <2>3. QED BY <2>2 DEF Outer
<1>0. l = Len(openouters) OBVIOUS
<1> HIDE DEF l
<1>3. \E n \in 0 .. l : all(n) /\ \A m \in 0 .. l : all(m) => m <= n
  <2>1. l \in U BY <1>1
  <2>2. PICK d \in U : \A e \in U : d <= e BY <2>1, NatMin
  <2>3. l - d \in 0 .. l /\ all(l - d) BY <1>1, <2>2
  <2>4. ASSUME NEW m \in 0 .. l, all(m) PROVE m <= l - d
    <3>1. l - m \in Nat /\ l - m <= l /\ l - (l - m) = m BY <1>1
    <3>2. l - m \in U BY <2>4, <3>1
    <3>3. QED BY <1>1, <2>2, <3>2
  <2>5. QED BY <2>3, <2>4
<1>4. Above(c) = CHOOSE n \in 0 .. l : all(n) /\ \A m \in 0 .. l : all(m) => m <= n
  BY <1>0, Zenon DEF Above
<1> DEFINE a == Above(c)
<1>5. a \in 0 .. l /\ all(a) /\ \A m \in 0 .. l : all(m) => m <= a BY <1>3, <1>4
<1> HIDE DEF a
<1>6. ASSUME NEW i \in 1 .. l, i > a PROVE ~ (outers[openouters[i]].idx >= c)
  <2>1. a + 1 \in 0 .. l /\ ~ (a + 1 <= a) BY <1>1, <1>5, <1>6
  <2>2. ~ all(a + 1) BY <1>5, <2>1
  <2>3. ~ (outers[openouters[a + 1]].idx >= c)
    <3>1. \A j \in 1 .. a + 1 : j \in 1 .. a \/ j = a + 1 BY <1>1, <1>5
    <3>2. QED BY <1>5, <2>2, <3>1
  <2>4. CASE i = a + 1 BY <2>3, <2>4
  <2>5. CASE i > a + 1
    <3>1. a + 1 \in 1 .. l BY <1>1, <1>5, <1>6
    <3>2. outers[openouters[a + 1]].idx > outers[openouters[i]].idx BY <1>1, <2>5, <3>1 DEF ListSorted
    <3>3. QED BY <1>2, <2>3, <3>1, <3>2
  <2>6. QED BY <1>1, <1>5, <1>6, <2>4, <2>5
<1>7. \A i \in 1 .. l : i <= a => outers[openouters[i]].idx >= c BY <1>1, <1>5
<1>8. \A i \in 1 .. l : i <= a <=> outers[openouters[i]].idx >= c BY <1>1, <1>5, <1>6, <1>7
<1>9. QED BY <1>0, <1>5, <1>8 DEF a

(* CloseOuters takes the outers at or above c off the list, and no other. *)
Closed(c) ==
  /\ DOMAIN outers' = DOMAIN outers
  /\ \A o \in DOMAIN outers :
       /\ outers'[o].idx = outers[o].idx /\ outers'[o].var = outers[o].var
       /\ outers'[o].open <=> outers[o].open /\ outers[o].idx < c
SameAlloc ==
  /\ \A o \in DOMAIN outers : outers'[o].alloc = outers[o].alloc
  /\ reserved => openouters' # <<>>

LEMMA OuterTypes ==
  ASSUME OutersTyped
  PROVE /\ Len(outers) \in Nat /\ DOMAIN outers = 1 .. Len(outers)
        /\ \A o \in DOMAIN outers : outers[o] \in Outer /\ outers[o].idx \in Nat /\ outers[o].var \in Nat
              /\ outers[o].alloc \in Nat /\ outers[o].open \in BOOLEAN
<1>1. Len(outers) \in Nat /\ DOMAIN outers = 1 .. Len(outers) /\ \A o \in DOMAIN outers : outers[o] \in Outer
  BY DEF OutersTyped
<1>2. \A r \in Outer : r.idx \in Nat /\ r.var \in Nat /\ r.alloc \in Nat /\ r.open \in BOOLEAN BY DEF Outer
<1>3. QED BY <1>1, <1>2

(* When sq_reservestack has moved the stack a loop would use a freed       *)
(* pointer: one that does not finds all of them right.                     *)
LEMMA ScanClean ==
  ASSUME OutersInv, Scan, ~ spoiled'
  PROVE ~ Dangling /\ ~ reserved
<1>1. ~ Dangling BY DEF Scan
<1>2. ASSUME reserved PROVE Dangling
  <2>1. openouters # <<>> /\ openouters \in Seq(Nat) BY <1>2 DEF OutersInv, OutersTyped
  <2>2. 1 \in DOMAIN openouters BY <2>1
  <2>3. openouters[1] \in DOMAIN outers /\ outers[openouters[1]].open BY <2>2 DEF OutersInv, ListSorted, Range
  <2>4. OuterOK(openouters[1]) BY <2>3 DEF OutersInv
  <2>5. outers[openouters[1]].alloc # alloc BY <1>2, <2>3, <2>4 DEF OuterOK
  <2>6. QED BY <2>2, <2>5 DEF Dangling
<1>3. QED BY <1>1, <1>2

LEMMA CloseOutersFacts ==
  ASSUME OutersInv, ~ spoiled', NEW c \in Nat, CloseOuters(c)
  PROVE OutersTyped' /\ ListSorted' /\ Closed(c) /\ SameAlloc
<1> DEFINE l == Len(openouters)
           a == Above(c)
           os == outers
           op == openouters
<1>0. OutersTyped /\ ListSorted /\ ~ reserved /\ CloseFirst(a)
  <2>1. ~ Dangling /\ ~ reserved BY ScanClean DEF CloseOuters
  <2>2. QED BY <2>1 DEF OutersInv, CloseOuters, Stops
<1>1. /\ Len(os) \in Nat /\ DOMAIN os = 1 .. Len(os)
      /\ \A o \in DOMAIN os : os[o] \in Outer /\ os[o].idx \in Nat /\ os[o].var \in Nat
              /\ os[o].alloc \in Nat /\ os[o].open \in BOOLEAN
  BY <1>0, OuterTypes
<1>2. l \in Nat /\ op \in Seq(Nat) /\ DOMAIN op = 1 .. l BY <1>0 DEF OutersTyped
<1>3. a \in 0 .. l /\ \A i \in 1 .. l : i <= a <=> os[op[i]].idx >= c BY <1>0, AboveStops
<1>4. /\ \A o \in DOMAIN os : os[o].open <=> \E i \in 1 .. l : op[i] = o
      /\ \A i \in 1 .. l : op[i] \in DOMAIN os
      /\ \A i, j \in 1 .. l : i < j => os[op[i]].idx > os[op[j]].idx
  BY <1>0, <1>2 DEF ListSorted, Range
<1>5. openouters' = SubSeq(op, a + 1, l) BY <1>0 DEF CloseFirst
<1>6. outers' = [o \in DOMAIN os |-> [os[o] EXCEPT !.open = @ /\ \A i \in 1 .. a : op[i] # o]]
  BY <1>0, Zenon DEF CloseFirst
<1>7. l = Len(op) OBVIOUS
<1> HIDE DEF l, a
<1>8. openouters' \in Seq(Nat) /\ Len(openouters') = l - a
      /\ \A i \in 1 .. l - a : openouters'[i] = op[a + i]
  <2> HIDE DEF op
  <2>1. SubSeq(op, a + 1, l) \in Seq(Nat) /\ Len(SubSeq(op, a + 1, l)) = l - a
        /\ \A i \in 1 .. l - a : SubSeq(op, a + 1, l)[i] = op[a + i]
    <3> HIDE DEF os
    <3>1. op \in Seq(Nat) /\ l = Len(op) /\ a \in 0 .. l BY <1>2, <1>3, <1>7
    <3>2. SubSeq(op, a + 1, l) \in Seq(Nat) BY <3>1, Suffix_
    <3>3. Len(SubSeq(op, a + 1, l)) = l - a BY <3>1, Suffix_
    <3>4. \A i \in 1 .. l - a : SubSeq(op, a + 1, l)[i] = op[a + i] BY <3>1, Suffix_
    <3>5. QED BY <3>2, <3>3, <3>4
  <2>2. QED BY <1>5, <2>1
<1>9. ASSUME NEW o \in DOMAIN os
      PROVE /\ outers'[o] \in Outer /\ outers'[o].idx = os[o].idx /\ outers'[o].var = os[o].var /\ outers'[o].alloc = os[o].alloc
            /\ outers'[o].open <=> os[o].open /\ os[o].idx < c
  <2> DEFINE P == \A i \in 1 .. a : op[i] # o
  <2>1. outers'[o] = [os[o] EXCEPT !.open = @ /\ P] BY <1>6
  <2>2. P \in BOOLEAN OBVIOUS
  <2>3. os[o].open => (P <=> os[o].idx < c)
    <3>1. SUFFICES ASSUME os[o].open PROVE P <=> os[o].idx < c OBVIOUS
    <3>2. PICK i \in 1 .. l : op[i] = o BY <1>4, <3>1
    <3>3. ASSUME P PROVE os[o].idx < c
      <4>1. ~ (i <= a) BY <1>3, <3>2, <3>3
      <4>2. ~ (os[o].idx >= c) BY <1>3, <3>2, <4>1
      <4>3. QED BY <1>1, <4>2
    <3>4. ASSUME os[o].idx < c, NEW j \in 1 .. a PROVE op[j] # o
      <4>1. j \in 1 .. l /\ j <= a BY <1>2, <1>3
      <4>2. os[op[j]].idx >= c BY <1>3, <4>1
      <4>3. QED BY <1>1, <3>4, <4>2
    <3>5. QED BY <3>3, <3>4
  <2> HIDE DEF P
  <2>4. os[o] \in Outer BY <1>1
  <2>5. outers'[o] \in Outer /\ outers'[o].idx = os[o].idx /\ outers'[o].var = os[o].var /\ outers'[o].alloc = os[o].alloc
        /\ outers'[o].open = (os[o].open /\ P)
    <3> HIDE DEF os
    <3>1. QED BY <2>1, <2>2, <2>4 DEF Outer
  <2>6. QED BY <2>3, <2>5
<1>10. DOMAIN outers' = DOMAIN os BY <1>6
<1>11. Closed(c) /\ SameAlloc BY <1>0, <1>9, <1>10 DEF Closed, SameAlloc
<1>12. outers' \in Seq(Outer)
  <2> DEFINE n == Len(os)
  <2>1. n \in Nat /\ DOMAIN os = 1 .. n BY <1>1
  <2> HIDE DEF n
  <2>2. outers' = [i \in 1 .. n |-> outers'[i]] BY <1>6, <2>1
  <2>3. \A i \in 1 .. n : outers'[i] \in Outer BY <1>9, <2>1
  <2>4. outers' \in [1 .. n -> Outer] BY <2>2, <2>3
  <2>5. QED BY <2>1, <2>4, SeqDef
<1>13. OutersTyped' BY <1>8, <1>12 DEF OutersTyped
<1>14. ListSorted'
  <2>1. DOMAIN openouters' = 1 .. l - a BY <1>8
  <2>2. ASSUME NEW i \in 1 .. l - a PROVE a + i \in 1 .. l /\ openouters'[i] \in DOMAIN os
    <3>1. a + i \in 1 .. l BY <1>2, <1>3
    <3>2. QED BY <1>4, <1>8, <3>1
  <2>3. \A i, j \in 1 .. l - a : i < j => outers'[openouters'[i]].idx > outers'[openouters'[j]].idx
    <3> TAKE i, j \in 1 .. l - a
    <3> HAVE i < j
    <3>1. a + i < a + j /\ a + i \in 1 .. l /\ a + j \in 1 .. l BY <1>2, <1>3, <2>2
    <3>2. os[op[a + i]].idx > os[op[a + j]].idx BY <1>4, <3>1
    <3>3. QED BY <1>8, <1>9, <2>2, <3>2
  <2>4. ASSUME NEW o \in DOMAIN os PROVE outers'[o].open <=> \E i \in 1 .. l - a : openouters'[i] = o
    <3>1. ASSUME outers'[o].open PROVE \E i \in 1 .. l - a : openouters'[i] = o
      <4>1. os[o].open /\ os[o].idx < c BY <1>9, <3>1
      <4>2. PICK i \in 1 .. l : op[i] = o BY <1>4, <4>1
      <4>3. ~ (i <= a) BY <1>1, <1>3, <4>1, <4>2
      <4>4. i - a \in 1 .. l - a /\ a + (i - a) = i BY <1>2, <1>3, <4>3
      <4>5. QED BY <1>8, <4>2, <4>4
    <3>2. ASSUME NEW i \in 1 .. l - a, openouters'[i] = o PROVE outers'[o].open
      <4>1. a + i \in 1 .. l /\ op[a + i] = o BY <1>8, <2>2, <3>2
      <4>2. ~ (a + i <= a) BY <1>2, <1>3
      <4>3. os[o].open /\ ~ (os[o].idx >= c) BY <1>3, <1>4, <4>1, <4>2
      <4>4. QED BY <1>1, <1>9, <4>3
    <3>3. QED BY <3>1, <3>2
  <2>5. Range(openouters') = {o \in DOMAIN outers' : outers'[o].open}
    <3>1. Range(openouters') = {openouters'[i] : i \in 1 .. l - a} BY <2>1 DEF Range
    <3>2. QED BY <1>10, <2>2, <2>4, <3>1
  <2>6. QED BY <2>1, <2>3, <2>5 DEF ListSorted
<1>15. QED BY <1>11, <1>13, <1>14

(* w is s with e inserted behind its first k of n elements. *)
IsInserted(S, s, n, k, e, w) ==
  /\ w \in Seq(S) /\ Len(w) = n + 1 /\ w[k + 1] = e
  /\ \A i \in 1 .. k : w[i] = s[i]
  /\ \A i \in k + 2 .. n + 1 : w[i] = s[i - 1]

LEMMA InsertedFacts ==
  ASSUME NEW S, NEW s \in Seq(S), NEW n, n = Len(s), NEW k \in 0 .. n, NEW e \in S, NEW w, w = InsertAt(s, k + 1, e)
  PROVE IsInserted(S, s, n, k, e, w)
<1> DEFINE u == SubSeq(s, 1, k)
           v == SubSeq(s, k + 1, n)
<1>0. n \in Nat OBVIOUS
<1>1. u \in Seq(S) /\ Len(u) = k /\ \A i \in 1 .. k : u[i] = s[i] BY Prefix_
<1>2. v \in Seq(S) BY Suffix_
<1>3. Len(v) = n - k BY Suffix_
<1>4. \A i \in 1 .. n - k : v[i] = s[k + i] BY Suffix_
<1>5. w = (u \o <<e>>) \o v
  <2>1. w = SubSeq(s, 1, (k + 1) - 1) \o <<e>> \o SubSeq(s, k + 1, Len(s)) BY Zenon DEF InsertAt
  <2>2. (k + 1) - 1 = k BY <1>0
  <2>3. QED BY <2>1, <2>2, Zenon
<1> HIDE DEF u, v
<1> DEFINE p == u \o <<e>>
<1>6. p \in Seq(S) /\ Len(p) = k + 1 /\ p[k + 1] = e /\ \A i \in 1 .. k : p[i] = u[i] BY <1>0, <1>1
<1> HIDE DEF p
<1>7. w = p \o v BY <1>5 DEF p
<1> DEFINE t == p \o v
<1>8. /\ t \in Seq(S) /\ Len(t) = Len(p) + Len(v)
      /\ \A i \in 1 .. Len(p) + Len(v) : t[i] = IF i <= Len(p) THEN p[i] ELSE v[i - Len(p)]
  BY <1>2, <1>6, ConcatProperties
<1>9. w = t BY <1>7
<1> HIDE DEF t
<1>10. (k + 1) + (n - k) = n + 1 BY <1>0
<1>11. w \in Seq(S) /\ Len(w) = n + 1 BY <1>3, <1>6, <1>8, <1>9, <1>10
<1>12. \A i \in 1 .. n + 1 : w[i] = IF i <= k + 1 THEN p[i] ELSE v[i - (k + 1)] BY <1>3, <1>6, <1>8, <1>9, <1>10
<1>13. \A i \in 1 .. k + 1 : w[i] = p[i] BY <1>0, <1>12
<1>14. \A i \in k + 2 .. n + 1 : w[i] = v[i - (k + 1)] BY <1>0, <1>12
<1>15. \A i \in k + 2 .. n + 1 : i - (k + 1) \in 1 .. n - k /\ k + (i - (k + 1)) = i - 1 BY <1>0
<1>16. \A i \in k + 2 .. n + 1 : w[i] = s[i - 1] BY <1>4, <1>14, <1>15
<1>17. \A i \in 1 .. k : w[i] = s[i]
  <2> TAKE i \in 1 .. k
  <2>1. i \in 1 .. k + 1 BY <1>0
  <2>2. QED BY <1>1, <1>6, <1>13, <2>1
<1>18. w[k + 1] = e
  <2>1. k + 1 \in 1 .. k + 1 BY <1>0
  <2>2. QED BY <1>6, <1>13, <2>1
<1>19. QED BY <1>11, <1>16, <1>17, <1>18 DEF IsInserted

LEMMA Inserted ==
  \A S, s, n, k, e, w : s \in Seq(S) /\ n = Len(s) /\ k \in 0 .. n /\ e \in S /\ w = InsertAt(s, k + 1, e)
    => IsInserted(S, s, n, k, e, w)
BY InsertedFacts, Zenon

(* FindOuter keeps the list in order, and makes a new outer for a register *)
(* that none on the list points at.                                        *)
NewOuter(r) == [open |-> TRUE, idx |-> STK(r), alloc |-> alloc, var |-> top.locals[r + 1]]
Found(r) == outers' = outers \/ outers' = Append(outers, NewOuter(r))

LEMMA FindOuterFacts ==
  ASSUME OutersTyped, ListSorted, ~ Dangling, NEW r, NewOuter(r) \in Outer, FindOuter(r)
  PROVE OutersTyped' /\ ListSorted' /\ Found(r)
<1> DEFINE x == STK(r)
           l == Len(openouters)
           m == Len(outers)
           a == Above(x)
           op == openouters
           os == outers
           new == NewOuter(r)
<1>1. x \in Nat /\ new.idx = x /\ new.open = TRUE BY DEF NewOuter, Outer
<1>2. CASE UNCHANGED <<outers, openouters>> BY <1>2 DEF OutersTyped, ListSorted, Found
<1>3. CASE /\ \A i \in 1 .. a : os[op[i]].idx # x
           /\ outers' = Append(outers, new) /\ openouters' = InsertAt(openouters, a + 1, m + 1)
  <2>1. m \in Nat /\ DOMAIN os = 1 .. m /\ \A o \in 1 .. m : os[o] \in Outer /\ os[o].idx \in Nat /\ os[o].open \in BOOLEAN
    BY OuterTypes
  <2>2. l \in Nat /\ op \in Seq(Nat) /\ DOMAIN op = 1 .. l /\ l = Len(op) BY DEF OutersTyped
  <2>3. a \in 0 .. l /\ \A i \in 1 .. l : i <= a <=> os[op[i]].idx >= x BY <1>1, AboveStops
  <2>4. /\ \A o \in 1 .. m : os[o].open <=> \E i \in 1 .. l : op[i] = o
        /\ \A i \in 1 .. l : op[i] \in 1 .. m
        /\ \A i, j \in 1 .. l : i < j => os[op[i]].idx > os[op[j]].idx
    BY <2>1, <2>2 DEF ListSorted, Range
  <2>5. new \in Outer /\ os \in Seq(Outer) BY DEF OutersTyped
  <2>6. outers' \in Seq(Outer) /\ DOMAIN outers' = 1 .. m + 1 /\ outers'[m + 1] = new /\ \A o \in 1 .. m : outers'[o] = os[o]
    <3> HIDE DEF new
    <3>1. QED BY <1>3, <2>1, <2>5
  <2> HIDE DEF x, l, a, new, m
  <2> DEFINE w == openouters'
             e == m + 1
  <2>7. e \in Nat /\ op \in Seq(Nat) /\ l = Len(op) /\ a \in 0 .. l /\ w = InsertAt(op, a + 1, e)
    BY <1>3, <2>1, <2>2, <2>3
  <2> HIDE DEF w, e, op
  <2>20. IsInserted(Nat, op, l, a, e, w) BY <2>7, Inserted
  <2>8. w \in Seq(Nat) /\ Len(w) = l + 1 BY <2>20 DEF IsInserted
  <2>9. w[a + 1] = e BY <2>20 DEF IsInserted
  <2>10. \A i \in 1 .. a : w[i] = op[i] BY <2>20 DEF IsInserted
  <2>19. \A i \in a + 2 .. l + 1 : w[i] = op[i - 1] BY <2>20 DEF IsInserted
  <2> USE DEF w, e, op
  <2>11. OutersTyped' BY <2>6, <2>8 DEF OutersTyped
  <2>12. ASSUME NEW i \in 1 .. l + 1
         PROVE \/ i <= a /\ i \in 1 .. l /\ openouters'[i] = op[i] /\ outers'[openouters'[i]].idx = os[op[i]].idx /\ os[op[i]].idx > x
               \/ i = a + 1 /\ openouters'[i] = m + 1 /\ outers'[openouters'[i]].idx = x
               \/ i > a + 1 /\ i - 1 \in 1 .. l /\ openouters'[i] = op[i - 1] /\ outers'[openouters'[i]].idx = os[op[i - 1]].idx /\ os[op[i - 1]].idx < x
    <3>1. CASE i <= a
      <4>1. i \in 1 .. a /\ i \in 1 .. l BY <2>2, <2>3, <3>1
      <4>2. os[op[i]].idx >= x /\ os[op[i]].idx # x BY <1>3, <2>3, <3>1, <4>1
      <4>3. op[i] \in 1 .. m BY <2>4, <4>1
      <4>4. os[op[i]].idx \in Nat BY <2>1, <4>3
      <4>5. os[op[i]].idx > x BY <1>1, <4>2, <4>4
      <4>6. openouters'[i] = op[i] /\ outers'[op[i]] = os[op[i]] BY <2>6, <2>10, <4>1, <4>3
      <4>7. QED BY <3>1, <4>1, <4>5, <4>6
    <3>2. CASE i = a + 1 BY <1>1, <2>6, <2>9, <3>2
    <3>3. CASE i > a + 1
      <4>1. i \in a + 2 .. l + 1 /\ i - 1 \in 1 .. l /\ ~ (i - 1 <= a) BY <2>2, <2>3, <3>3
      <4>2. ~ (os[op[i - 1]].idx >= x) BY <2>3, <4>1
      <4>3. op[i - 1] \in 1 .. m BY <2>4, <4>1
      <4>4. os[op[i - 1]].idx \in Nat BY <2>1, <4>3
      <4>5. os[op[i - 1]].idx < x BY <1>1, <4>2, <4>4
      <4>6. openouters'[i] = op[i - 1] /\ outers'[op[i - 1]] = os[op[i - 1]] BY <2>6, <2>19, <4>1, <4>3
      <4>7. QED BY <3>3, <4>1, <4>5, <4>6
    <3>4. QED BY <2>2, <2>3, <3>1, <3>2, <3>3
  <2>13. DOMAIN openouters' = 1 .. l + 1 BY <2>2, <2>8
  <2>14. \A i, j \in 1 .. l + 1 : i < j => outers'[openouters'[i]].idx > outers'[openouters'[j]].idx
    <3>1. SUFFICES ASSUME NEW i \in 1 .. l + 1, NEW j \in 1 .. l + 1, i < j
                   PROVE outers'[openouters'[i]].idx > outers'[openouters'[j]].idx
      OBVIOUS
    <3>2. \A k \in 1 .. l : os[op[k]].idx \in Nat BY <2>1, <2>4
    <3>3. CASE i <= a
      <4>1. i \in 1 .. l /\ outers'[openouters'[i]].idx = os[op[i]].idx /\ os[op[i]].idx > x BY <2>2, <2>3, <2>12, <3>3
      <4>2. CASE j <= a
        <5>1. j \in 1 .. l /\ outers'[openouters'[j]].idx = os[op[j]].idx BY <2>2, <2>3, <2>12, <4>2
        <5>2. QED BY <2>4, <3>1, <4>1, <5>1
      <4>3. CASE j = a + 1 BY <2>2, <2>3, <2>12, <4>1, <4>3
      <4>4. CASE j > a + 1
        <5>1. j - 1 \in 1 .. l /\ outers'[openouters'[j]].idx = os[op[j - 1]].idx /\ os[op[j - 1]].idx < x BY <2>2, <2>3, <2>12, <4>4
        <5>2. QED BY <1>1, <3>2, <4>1, <5>1
      <4>5. QED BY <2>2, <2>3, <4>2, <4>3, <4>4
    <3>4. CASE i = a + 1
      <4>1. outers'[openouters'[i]].idx = x BY <2>2, <2>3, <2>12, <3>4
      <4>2. j > a + 1 BY <2>2, <2>3, <3>1, <3>4
      <4>3. outers'[openouters'[j]].idx = os[op[j - 1]].idx /\ os[op[j - 1]].idx < x BY <2>2, <2>3, <2>12, <4>2
      <4>4. j - 1 \in 1 .. l BY <2>2, <2>3, <2>12, <4>2
      <4>5. QED BY <1>1, <3>2, <4>1, <4>3, <4>4
    <3>5. CASE i > a + 1
      <4>1. j > a + 1 BY <2>2, <2>3, <3>1, <3>5
      <4>2. i - 1 \in 1 .. l /\ outers'[openouters'[i]].idx = os[op[i - 1]].idx BY <2>2, <2>3, <2>12, <3>5
      <4>3. j - 1 \in 1 .. l /\ outers'[openouters'[j]].idx = os[op[j - 1]].idx BY <2>2, <2>3, <2>12, <4>1
      <4>4. i - 1 < j - 1 BY <2>2, <3>1
      <4>5. QED BY <2>4, <4>2, <4>3, <4>4
    <3>6. QED BY <2>2, <2>3, <3>3, <3>4, <3>5
  <2>15. \A i \in 1 .. l + 1 : openouters'[i] \in 1 .. m + 1 /\ outers'[openouters'[i]].open
    <3> TAKE i \in 1 .. l + 1
    <3>1. ASSUME NEW k \in 1 .. l PROVE op[k] \in 1 .. m + 1 /\ outers'[op[k]].open
      <4>1. op[k] \in 1 .. m /\ os[op[k]].open BY <2>4
      <4>2. QED BY <2>1, <2>6, <4>1
    <3>2. m + 1 \in 1 .. m + 1 /\ outers'[m + 1].open BY <1>1, <2>1, <2>6
    <3>3. QED BY <2>12, <3>1, <3>2
  <2>16. \A o \in 1 .. m + 1 : outers'[o].open => \E i \in 1 .. l + 1 : openouters'[i] = o
    <3>1. SUFFICES ASSUME NEW o \in 1 .. m + 1, outers'[o].open PROVE \E i \in 1 .. l + 1 : openouters'[i] = o
      OBVIOUS
    <3>2. CASE o = m + 1
      <4>1. a + 1 \in 1 .. l + 1 BY <2>2, <2>3
      <4>2. QED BY <2>9, <3>2, <4>1
    <3>3. CASE o \in 1 .. m
      <4>1. PICK k \in 1 .. l : op[k] = o BY <2>4, <2>6, <3>1, <3>3
      <4>2. CASE k <= a
        <5>1. k \in 1 .. a /\ k \in 1 .. l + 1 BY <2>2, <2>3, <4>2
        <5>2. QED BY <2>10, <4>1, <5>1
      <4>3. CASE k > a
        <5>1. k + 1 \in a + 2 .. l + 1 /\ k + 1 \in 1 .. l + 1 /\ (k + 1) - 1 = k BY <2>2, <2>3, <4>3
        <5>2. QED BY <2>19, <4>1, <5>1
      <4>4. QED BY <2>2, <2>3, <4>2, <4>3
    <3>4. QED BY <2>1, <3>2, <3>3
  <2>17. ListSorted'
    <3>1. Range(openouters') = {openouters'[i] : i \in 1 .. l + 1} BY <2>13 DEF Range
    <3>2. Range(openouters') = {o \in DOMAIN outers' : outers'[o].open} BY <2>6, <2>15, <2>16, <3>1
    <3>3. QED BY <2>13, <2>14, <3>2 DEF ListSorted
  <2>18. QED BY <1>3, <2>11, <2>17 DEF Found, new
<1>4. QED
  <2>0. IF \E i \in 1 .. a : os[op[i]].idx = x
        THEN UNCHANGED <<outers, openouters>>
        ELSE AddOuter(r, a)
    BY Zenon DEF FindOuter, Stops
  <2>1. CASE \E i \in 1 .. a : os[op[i]].idx = x BY <1>2, <2>0, <2>1
  <2>2. CASE \A i \in 1 .. a : os[op[i]].idx # x BY <1>3, <2>0, <2>2 DEF AddOuter, NewOuter
  <2>3. QED BY <2>1, <2>2
-----------------------------------------------------------------------------
(* Places of variables. *)
Places ==
  \A x : /\ \A idx : IsAt(x, idx) <=> At(frames, x, idx)
         /\ InScope(x) <=> \E idx \in Nat : At(frames, x, idx)

LEMMA PlacesKnown == FramesGood => Places
<1> SUFFICES ASSUME FramesGood PROVE Places OBVIOUS
<1>1. frames \in Seq(Frame) BY DEF FramesGood, FramesOK
<1>2. \A f \in 1 .. N : /\ frames[f].base \in Nat /\ Width(frames[f]) \in Nat
                        /\ DOMAIN frames[f].locals = 1 .. Width(frames[f])
  <2> TAKE f \in 1 .. N
  <2>1. frames[f].base \in Nat /\ frames[f].locals \in Seq(Nat) BY <1>1, Shape DEF N
  <2>2. QED BY <2>1 DEF Width
<1>3. ASSUME NEW x, NEW idx PROVE IsAt(x, idx) <=> At(frames, x, idx) BY <1>2 DEF IsAt, At, N
<1>4. ASSUME NEW x PROVE InScope(x) <=> \E idx \in Nat : At(frames, x, idx)
  <2>1. ASSUME InScope(x) PROVE \E idx \in Nat : At(frames, x, idx)
    <3>1. PICK f \in 1 .. N : x \in Range(frames[f].locals) BY <2>1 DEF InScope
    <3>2. PICK i \in 1 .. Width(frames[f]) : frames[f].locals[i] = x BY <1>2, <3>1 DEF Range
    <3>3. frames[f].base + i - 1 \in Nat BY <1>2
    <3>4. At(frames, x, frames[f].base + i - 1) BY <3>2 DEF At, N
    <3>5. QED BY <3>3, <3>4
  <2>2. ASSUME NEW idx \in Nat, At(frames, x, idx) PROVE InScope(x)
    <3>1. PICK f \in 1 .. N : \E i \in 1 .. Width(frames[f]) : frames[f].locals[i] = x BY <2>2 DEF At, N
    <3>2. QED BY <1>2, <3>1 DEF InScope, Range
  <2>3. QED BY <2>1, <2>2
<1>5. QED BY <1>3, <1>4 DEF Places

(* A variable has one place, and that is below what the stack holds. *)
LEMMA PlaceUnique ==
  ASSUME NEW n \in Nat, NEW fs, FramesOK(fs, n), NEW x, NEW i, NEW j, At(fs, x, i), At(fs, x, j)
  PROVE i = j /\ i \in Nat /\ i < fs[Len(fs)].base + FrameSize
<1> DEFINE m == Len(fs)
<1>1. fs \in Seq(Frame) /\ m \in Nat \ {0} /\ OnePlace(fs) /\ Apart(fs) /\ \A f \in 1 .. m : FrameOK(fs[f], n) BY DEF FramesOK
<1>2. \A f \in 1 .. m : fs[f].base \in Nat /\ Width(fs[f]) \in Nat BY <1>1, Shape
<1>12. PICK f \in 1 .. m : \E p \in 1 .. Width(fs[f]) : fs[f].locals[p] = x /\ i = fs[f].base + p - 1 BY DEF At
<1>13. PICK g \in 1 .. m : \E q \in 1 .. Width(fs[g]) : fs[g].locals[q] = x /\ j = fs[g].base + q - 1 BY DEF At
<1>3. PICK p \in 1 .. Width(fs[f]) : fs[f].locals[p] = x /\ i = fs[f].base + p - 1 BY <1>12
<1>4. PICK q \in 1 .. Width(fs[g]) : fs[g].locals[q] = x /\ j = fs[g].base + q - 1 BY <1>13
<1>5. f = g /\ p = q BY <1>1, <1>3, <1>4 DEF OnePlace
<1>0. m = Len(fs) OBVIOUS
<1> HIDE DEF m
<1>6. i \in Nat BY <1>2, <1>3
<1>7. m \in 1 .. m BY <1>1
<1>8. fs[f].base <= fs[m].base
  <2>1. CASE f = m BY <1>2, <1>7, <2>1
  <2>2. CASE f < m
    <3>1. fs[f].base + Width(fs[f]) < fs[m].base BY <1>0, <1>1, <1>7, <2>2 DEF Apart
    <3>2. fs[f].base \in Nat /\ Width(fs[f]) \in Nat /\ fs[m].base \in Nat BY <1>2, <1>7
    <3>3. QED BY <3>1, <3>2
  <2>3. QED BY <1>1, <2>1, <2>2
<1>9. p <= FrameSize
  <2>1. Width(fs[f]) <= FrameSize BY <1>1 DEF FrameOK
  <2>2. QED BY <1>2, <2>1, SizeAssumption
<1>10. i < fs[m].base + FrameSize
  <2>1. fs[f].base \in Nat /\ fs[m].base \in Nat /\ p \in Int BY <1>2, <1>7
  <2>2. QED BY <1>3, <1>8, <1>9, <2>1, SizeAssumption
<1>11. QED BY <1>0, <1>3, <1>4, <1>5, <1>6, <1>10
-----------------------------------------------------------------------------
(* What most steps do: control is in frame m, the variables at or above c  *)
(* are gone and the outers at or above d are closed; what is between was   *)
(* not captured or is lost.                                                *)
CutStep(m, c, d) ==
  /\ m \in 1 .. N /\ c \in Nat /\ d \in Nat /\ c <= d
  /\ Closed(d) /\ SameAlloc /\ OutersTyped' /\ ListSorted'
  /\ Len(frames') = m /\ \A f \in 1 .. m : frames'[f].base = frames[f].base
  /\ m < N => d <= frames[m + 1].base
  /\ FramesGood' /\ nvars' \in Nat /\ nvars <= nvars'
  /\ captured' = captured /\ lost \subseteq lost' /\ lost' \subseteq captured
  /\ alloc' = alloc /\ stacksize' = stacksize /\ reserved' = reserved
  /\ \A x \in captured : \A i : At(frames', x, i) <=> At(frames, x, i) /\ i < c
  /\ \A x \in captured : \A i \in Nat : At(frames, x, i) /\ c <= i /\ i < d => x \in lost'

LEMMA CutStepKeeps ==
  ASSUME OutersInv, NEW m, NEW c, NEW d, CutStep(m, c, d)
  PROVE VariablesKept'
<1>1. FramesGood /\ Numbers /\ OutersTyped /\ VariablesKept /\ (\A o \in DOMAIN outers : OuterOK(o)) BY DEF OutersInv
<1>2. /\ c \in Nat /\ d \in Nat /\ c <= d /\ Closed(d) /\ FramesGood' /\ OutersTyped'
      /\ captured' = captured /\ lost \subseteq lost' BY DEF CutStep
<1>3. /\ \A x \in captured : \A i : At(frames', x, i) <=> At(frames, x, i) /\ i < c
      /\ \A x \in captured : \A i \in Nat : At(frames, x, i) /\ c <= i /\ i < d => x \in lost'
  BY DEF CutStep
<1>4. Places BY <1>1, PlacesKnown
<1>5. Places' BY <1>2, PlacesKnown, PTL
<1>6. SUFFICES ASSUME NEW o \in DOMAIN outers', outers'[o].var \notin lost' PROVE KeepsVariable(o)'
  BY DEF VariablesKept
<1>18. PICK x : x = outers[o].var OBVIOUS
<1>19. PICK i : i = outers[o].idx OBVIOUS
<1>7. o \in DOMAIN outers /\ outers'[o].var = x /\ outers'[o].idx = i /\ (outers'[o].open <=> outers[o].open /\ i < d)
  BY <1>2, <1>6, <1>18, <1>19 DEF Closed
<1>8. i \in Nat /\ outers[o].open \in BOOLEAN BY <1>1, <1>7, <1>19, OuterTypes
<1>9. outers'[o].open \in BOOLEAN
  <2>1. outers'[o] \in Outer BY <1>2, <1>6 DEF OutersTyped
  <2>2. QED BY <2>1 DEF Outer
<1>10. x \in captured BY <1>1, <1>7, <1>18 DEF OuterOK
<1>11. x \notin lost /\ x \notin lost' BY <1>2, <1>6, <1>7
<1>12. KeepsVariable(o) BY <1>1, <1>7, <1>11, <1>18 DEF VariablesKept
<1>13. (outers[o].open <=> \E j \in Nat : At(frames, x, j)) /\ (outers[o].open => At(frames, x, i))
  BY <1>4, <1>8, <1>12, <1>18, <1>19 DEF KeepsVariable, Places
<1>14. nvars \in Nat /\ FramesOK(frames, nvars) BY <1>1 DEF Numbers, FramesGood
<1>15. CASE outers'[o].open
  <2>1. At(frames, x, i) /\ i < d BY <1>7, <1>13, <1>15
  <2>2. ~ (c <= i) BY <1>3, <1>8, <1>10, <1>11, <2>1
  <2>3. At(frames', x, i) BY <1>2, <1>3, <1>8, <1>10, <2>1, <2>2
  <2>4. IsAt(x, i)' /\ InScope(x)' BY <1>5, <1>8, <2>3 DEF Places
  <2>5. QED BY <1>7, <1>9, <1>15, <2>4 DEF KeepsVariable
<1>16. CASE ~ outers'[o].open
  <2>1. ASSUME NEW j \in Nat, At(frames', x, j) PROVE FALSE
    <3>1. At(frames, x, j) /\ j < c BY <1>3, <1>10, <2>1
    <3>2. outers[o].open /\ At(frames, x, i) BY <1>13, <3>1
    <3>3. ~ (i < d) BY <1>7, <1>16, <3>2
    <3>4. i = j BY <1>14, <3>1, <3>2, PlaceUnique
    <3>5. QED BY <1>2, <1>8, <3>1, <3>3, <3>4
  <2>2. ~ InScope(x)' BY <1>5, <2>1 DEF Places
  <2>3. outers'[o].open = FALSE BY <1>9, <1>16
  <2>4. InScope(x)' = FALSE BY <2>2 DEF InScope
  <2>5. QED BY <1>7, <2>3, <2>4 DEF KeepsVariable
<1>17. QED BY <1>15, <1>16

LEMMA CutStepInv ==
  ASSUME OutersInv, NEW m, NEW c, NEW d, CutStep(m, c, d)
  PROVE OutersInv'
<1>1. FramesGood /\ Numbers /\ OutersTyped /\ Room /\ (\A o \in DOMAIN outers : OuterOK(o)) BY DEF OutersInv
<1>2. /\ m \in 1 .. N /\ c \in Nat /\ d \in Nat /\ c <= d /\ Closed(d) /\ SameAlloc /\ ListSorted' /\ FramesGood' /\ OutersTyped'
      /\ Len(frames') = m /\ (\A f \in 1 .. m : frames'[f].base = frames[f].base)
      /\ (m < N => d <= frames[m + 1].base)
  BY DEF CutStep
<1>3. /\ nvars' \in Nat /\ nvars <= nvars' /\ captured' = captured /\ lost' \subseteq captured /\ alloc' = alloc /\ stacksize' = stacksize /\ reserved' = reserved
  BY DEF CutStep
<1>4. Numbers' BY <1>1, <1>3 DEF Numbers
<1>5. N \in Nat /\ frames \in Seq(Frame) BY <1>1 DEF FramesGood, FramesOK, N
<1>6. Room' BY <1>1, <1>2, <1>3, <1>5 DEF Room, N
<1>7. ASSUME NEW o \in DOMAIN outers' PROVE OuterOK(o)'
  <2>1. o \in DOMAIN outers /\ outers'[o].var = outers[o].var /\ outers'[o].idx = outers[o].idx /\ outers'[o].alloc = outers[o].alloc
        /\ (outers'[o].open <=> outers[o].open /\ outers[o].idx < d)
    BY <1>2, <1>7 DEF Closed, SameAlloc
  <2>2. OuterOK(o) BY <1>1, <2>1
  <2>3. outers'[o].var \in captured' BY <1>3, <2>1, <2>2 DEF OuterOK
  <2>4. ASSUME outers'[o].open PROVE Below(frames', outers'[o].idx)
    <3>1. Below(frames, outers[o].idx) /\ outers[o].idx < d BY <2>1, <2>2, <2>4 DEF OuterOK
    <3>2. outers[o].idx \in Nat BY <1>1, <2>1, OuterTypes
    <3> DEFINE i == outers[o].idx
    <3> HIDE DEF i
    <3>3. SUFFICES ASSUME NEW f \in 1 .. m, f = m \/ i < frames'[f + 1].base
                   PROVE i < frames'[f].base + FrameSize
      BY <1>2, <2>1 DEF Below, i
    <3>4. f = N \/ i < frames[f + 1].base
      <4>1. CASE f = m
        <5>1. CASE m = N BY <4>1, <5>1
        <5>2. CASE m < N
          <6>1. m + 1 \in 1 .. N BY <1>2, <1>5, <5>2
          <6>2. frames[m + 1].base \in Nat BY <1>5, <6>1, Shape DEF N
          <6>3. QED BY <1>2, <3>1, <3>2, <4>1, <5>2, <6>2 DEF i
        <5>3. QED BY <1>2, <1>5, <5>1, <5>2
      <4>2. CASE f < m
        <5>1. f + 1 \in 1 .. m BY <1>2, <1>5, <4>2
        <5>2. QED BY <1>2, <1>5, <3>3, <4>2, <5>1
      <4>3. QED BY <1>2, <1>5, <4>1, <4>2
    <3>5. f \in 1 .. N BY <1>2, <1>5
    <3>6. i < frames[f].base + FrameSize BY <3>1, <3>4, <3>5 DEF Below, i, N
    <3>7. QED BY <1>2, <3>6
  <2>5. outers'[o].open => outers'[o].alloc <= alloc' /\ (outers'[o].alloc = alloc' <=> ~ reserved') BY <1>3, <2>1, <2>2 DEF OuterOK
  <2>6. QED BY <2>3, <2>4, <2>5 DEF OuterOK
<1>8. VariablesKept' BY CutStepKeeps
<1>10. reserved' => openouters' # <<>> BY <1>2, <1>3 DEF SameAlloc
<1>9. QED BY <1>2, <1>4, <1>6, <1>7, <1>8, <1>10 DEF OutersInv
-----------------------------------------------------------------------------
LEMMA TopFrame ==
  ASSUME OutersInv
  PROVE /\ N \in Nat \ {0} /\ N \in 1 .. N /\ N = Len(frames) /\ frames \in Seq(Frame) /\ top = frames[N]
        /\ top.base \in Nat /\ top.base = frames[Len(frames)].base /\ Width(top) \in Nat /\ Depth(top) \in Nat
        /\ top.locals \in Seq(Nat) /\ top.scopes \in Seq(Scope) /\ top \in Frame /\ FrameOK(top, nvars)
        /\ \A k \in 1 .. Depth(top) : top.scopes[k] \in Scope /\ top.scopes[k].start \in Nat
        /\ nvars \in Nat /\ FramesOK(frames, nvars)
<1>1. FramesOK(frames, nvars) /\ nvars \in Nat BY DEF OutersInv, FramesGood, Numbers
<1>2. frames \in Seq(Frame) /\ Len(frames) >= 1 /\ \A f \in 1 .. Len(frames) : FrameOK(frames[f], nvars) BY <1>1 DEF FramesOK
<1>3. N \in Nat \ {0} /\ N \in 1 .. N /\ N = Len(frames) BY <1>2 DEF N
<1>4. top = frames[N] BY DEF top, N, Last
<1>5. QED BY <1>1, <1>2, <1>3, <1>4, Shape

LEMMA StayClosed ==
  ASSUME OutersInv, outers' = outers, openouters' = openouters
  PROVE Closed(top.base + FrameSize) /\ SameAlloc /\ OutersTyped' /\ ListSorted'
<1>1. OutersTyped /\ ListSorted /\ \A o \in DOMAIN outers : OuterOK(o) BY DEF OutersInv
<1>2. ASSUME NEW o \in DOMAIN outers, outers[o].open PROVE outers[o].idx < top.base + FrameSize
  <2>1. Below(frames, outers[o].idx) BY <1>1, <1>2 DEF OuterOK
  <2>2. N \in 1 .. Len(frames) /\ N = Len(frames) /\ top = frames[N] BY TopFrame
  <2>3. QED BY <2>1, <2>2 DEF Below
<1>4. reserved => openouters' # <<>> BY DEF OutersInv
<1>3. QED BY <1>1, <1>2, <1>4 DEF Closed, SameAlloc, OutersTyped, ListSorted

(* Frames that differ in the running function only. *)
LEMMA Replaced ==
  ASSUME NEW fs \in Seq(Frame), NEW m, m = Len(fs), m >= 1, NEW fr \in Frame, NEW gs, gs = [fs EXCEPT ![m] = fr]
  PROVE gs \in Seq(Frame) /\ Len(gs) = m /\ gs[m] = fr /\ \A f \in 1 .. m - 1 : gs[f] = fs[f]
OBVIOUS

LEMMA DeclareInv ==
  ASSUME OutersInv, Declare
  PROVE OutersInv'
<1>1. /\ N \in Nat \ {0} /\ N \in 1 .. N /\ N = Len(frames) /\ frames \in Seq(Frame) /\ top = frames[N]
      /\ top.base \in Nat /\ Width(top) \in Nat /\ top \in Frame /\ top.locals \in Seq(Nat) /\ nvars \in Nat /\ FramesOK(frames, nvars)
  BY TopFrame
<1> DEFINE l == Append(top.locals, nvars + 1)
           fr == [top EXCEPT !.locals = l]
<1>2. fr \in Frame /\ fr.base = top.base /\ fr.scopes = top.scopes /\ fr.locals = Append(top.locals, nvars + 1)
  <2>1. l \in Seq(Nat) /\ l = Append(top.locals, nvars + 1) BY <1>1
  <2> HIDE DEF l
  <2>2. top \in Frame BY <1>1
  <2>3. QED BY <2>1, <2>2 DEF Frame
<1>3. frames' = [frames EXCEPT ![N] = fr] BY <1>1 DEF Declare
<1> HIDE DEF fr
<1>4. frames' \in Seq(Frame) /\ Len(frames') = N /\ frames'[N] = fr /\ \A f \in 1 .. N - 1 : frames'[f] = frames[f]
  BY <1>1, <1>2, <1>3, Replaced
<1>5. IsDeclare(frames, frames', nvars + 1) BY <1>1, <1>2, <1>4 DEF IsDeclare
<1>6. Width(top) < FrameSize BY DEF Declare, Width
<1>7. FramesOK(frames', nvars + 1) BY <1>1, <1>5, <1>6, DeclareOK
<1>8. \A x, i : x # nvars + 1 => (At(frames', x, i) <=> At(frames, x, i)) BY <1>1, <1>5, DeclareAt
<1>9. nvars' = nvars + 1 /\ UNCHANGED <<captured, lost, outers, openouters, alloc, stacksize, reserved>> BY DEF Declare
<1> DEFINE d == top.base + FrameSize
<1>10. d \in Nat
  <2>1. top.base \in Nat BY <1>1
  <2>2. FrameSize \in Nat BY SizeAssumption
  <2>3. QED BY <2>1, <2>2
<1>11. Closed(d) /\ SameAlloc /\ OutersTyped' /\ ListSorted' BY <1>9, StayClosed
<1>12. captured \subseteq 1 .. nvars /\ lost \subseteq captured BY DEF OutersInv, Numbers
<1>13. \A x \in captured : x # nvars + 1 BY <1>1, <1>12
<1>14. ASSUME NEW x, NEW i, At(frames, x, i) PROVE i < d BY <1>1, <1>14, PlaceUnique
<1> HIDE DEF d
<1>15. \A x \in captured : \A i : At(frames', x, i) <=> At(frames, x, i) /\ i < d BY <1>8, <1>13, <1>14
<1>16. \A f \in 1 .. N : frames'[f].base = frames[f].base BY <1>1, <1>2, <1>4
<1>17. \A x \in captured : \A i \in Nat : At(frames, x, i) /\ d <= i /\ i < d => x \in lost' BY <1>10
<1>18. CutStep(N, d, d)
  <2>1. FramesGood' BY <1>7, <1>9 DEF FramesGood
  <2>2. nvars' \in Nat /\ nvars <= nvars' /\ d <= d /\ ~ (N < N) BY <1>1, <1>9, <1>10
  <2>3. QED BY <1>1, <1>4, <1>9, <1>10, <1>11, <1>12, <1>15, <1>16, <1>17, <2>1, <2>2 DEF CutStep
<1>19. QED BY <1>18, CutStepInv

LEMMA BeginScopeInv ==
  ASSUME OutersInv, NEW kind \in {"block", "loop", "try"}, BeginScope(kind)
  PROVE OutersInv'
<1>1. /\ N \in Nat \ {0} /\ N \in 1 .. N /\ N = Len(frames) /\ frames \in Seq(Frame) /\ top = frames[N]
      /\ top.base \in Nat /\ Width(top) \in Nat /\ top \in Frame /\ top.scopes \in Seq(Scope) /\ nvars \in Nat /\ FramesOK(frames, nvars)
  BY TopFrame
<1> DEFINE sc == [kind |-> kind, start |-> Len(top.locals)]
           l == Append(top.scopes, sc)
           fr == [top EXCEPT !.scopes = l]
<1>2. sc \in Scope /\ sc.start = Width(top) BY <1>1 DEF Scope, Width
<1>3. frames' = [frames EXCEPT ![N] = fr] BY <1>1 DEF BeginScope
<1> HIDE DEF sc
<1>4. fr \in Frame /\ fr.base = top.base /\ fr.locals = top.locals /\ fr.scopes = Append(top.scopes, sc)
  <2>1. l \in Seq(Scope) /\ l = Append(top.scopes, sc) BY <1>1, <1>2
  <2> HIDE DEF l
  <2>2. top \in Frame BY <1>1
  <2>3. QED BY <2>1, <2>2 DEF Frame
<1> HIDE DEF fr
<1>5. frames' \in Seq(Frame) /\ Len(frames') = N /\ frames'[N] = fr /\ \A f \in 1 .. N - 1 : frames'[f] = frames[f]
  BY <1>1, <1>4, <1>3, Replaced
<1>6. IsBegin(frames, frames') BY <1>1, <1>2, <1>4, <1>5 DEF IsBegin
<1>7. FramesOK(frames', nvars) /\ \A x, i : At(frames', x, i) <=> At(frames, x, i) BY <1>1, <1>6, BeginOK
<1>9. UNCHANGED <<nvars, captured, lost, outers, openouters, alloc, stacksize, reserved>> BY DEF BeginScope
<1> DEFINE d == top.base + FrameSize
<1>10. d \in Nat
  <2>1. top.base \in Nat BY <1>1
  <2>2. FrameSize \in Nat BY SizeAssumption
  <2>3. QED BY <2>1, <2>2
<1>11. Closed(d) /\ SameAlloc /\ OutersTyped' /\ ListSorted' BY <1>9, StayClosed
<1>12. captured \subseteq 1 .. nvars /\ lost \subseteq captured BY DEF OutersInv, Numbers
<1>14. ASSUME NEW x, NEW i, At(frames, x, i) PROVE i < d BY <1>1, <1>14, PlaceUnique
<1> HIDE DEF d
<1>15. \A x \in captured : \A i : At(frames', x, i) <=> At(frames, x, i) /\ i < d BY <1>7, <1>14
<1>16. \A f \in 1 .. N : frames'[f].base = frames[f].base
  <2> TAKE f \in 1 .. N
  <2>1. f = N \/ f \in 1 .. N - 1 BY <1>1
  <2>2. QED BY <1>1, <1>4, <1>5, <2>1
<1>17. \A x \in captured : \A i \in Nat : At(frames, x, i) /\ d <= i /\ i < d => x \in lost' BY <1>10
<1>18. CutStep(N, d, d)
  <2>1. FramesGood' BY <1>7, <1>9 DEF FramesGood
  <2>2. nvars' \in Nat /\ nvars <= nvars' /\ d <= d /\ ~ (N < N) BY <1>1, <1>9, <1>10
  <2>3. QED BY <1>1, <1>5, <1>9, <1>10, <1>11, <1>12, <1>15, <1>16, <1>17, <2>1, <2>2 DEF CutStep
<1>19. QED BY <1>18, CutStepInv

(* Control leaves scopes or functions. *)
LEMMA CutsInv ==
  ASSUME OutersInv, NEW m, NEW s, NEW k, NEW d, IsCut(frames, frames', m, s, k),
         d \in Nat, frames[m].base + s <= d, m < N => d <= frames[m + 1].base,
         Closed(d), SameAlloc, OutersTyped', ListSorted',
         UNCHANGED <<nvars, captured, alloc, stacksize, reserved>>, lost \subseteq lost', lost' \subseteq captured,
         \A x \in captured : \A i \in Nat : At(frames, x, i) /\ frames[m].base + s <= i /\ i < d => x \in lost'
  PROVE OutersInv'
<1>1. FramesOK(frames, nvars) /\ nvars \in Nat /\ N = Len(frames) BY TopFrame
<1>2. m \in 1 .. N /\ Len(frames') = m /\ Width(frames'[m]) = s /\ Width(frames'[m]) \in Nat /\ frames[m].base \in Nat
      /\ \A f \in 1 .. m : frames'[f].base = frames[f].base
  <2>1. /\ m \in 1 .. Len(frames) /\ Len(frames') = m /\ Width(frames'[m]) = s
        /\ \A f \in 1 .. m :
             /\ frames'[f].base = frames[f].base /\ Width(frames'[f]) <= Width(frames[f])
             /\ Width(frames'[f]) \in Nat /\ Width(frames[f]) \in Nat /\ frames[f].base \in Nat
             /\ \A i \in 1 .. Width(frames'[f]) : frames'[f].locals[i] = frames[f].locals[i]
             /\ f < m => frames'[f] = frames[f]
    <3>1. nvars \in Nat /\ FramesOK(frames, nvars) /\ IsCut(frames, frames', m, s, k) BY <1>1
    <3>2. QED BY ONLY <3>1, CutLocals
  <2>2. m \in 1 .. m BY <1>1, <2>1
  <2>3. QED BY <1>1, <2>1, <2>2
<1>3. FramesOK(frames', nvars) BY <1>1, CutOK
<1>4. \A x, i : At(frames', x, i) <=> At(frames, x, i) /\ i < frames[m].base + s BY <1>1, CutAt
<1> DEFINE c == frames[m].base + s
<1>5. c \in Nat BY <1>2
<1>6. CutStep(m, c, d)
  <2>1. FramesGood' BY <1>3 DEF FramesGood
  <2>2. nvars' \in Nat /\ nvars <= nvars' BY <1>1
  <2>3. QED BY <1>2, <1>4, <1>5, <2>1, <2>2 DEF CutStep
<1>7. QED BY <1>6, CutStepInv

(* A variable at or above a frame, and not in one above that, is one of its own. *)
LEMMA AtFrom ==
  ASSUME NEW n \in Nat, NEW fs, FramesOK(fs, n), NEW m \in 1 .. Len(fs), NEW x, NEW idx \in Nat, At(fs, x, idx),
         fs[m].base <= idx, m < Len(fs) => idx < fs[m + 1].base
  PROVE \E j \in 1 .. Width(fs[m]) : fs[m].locals[j] = x /\ idx = fs[m].base + j - 1
<1> DEFINE l == Len(fs)
<1>0. l = Len(fs) OBVIOUS
<1>1. fs \in Seq(Frame) /\ l \in Nat \ {0} /\ Apart(fs) BY DEF FramesOK
<1>2. \A f \in 1 .. l : fs[f].base \in Nat /\ Width(fs[f]) \in Nat BY <1>1, Shape
<1>3. PICK f \in 1 .. l : \E p \in 1 .. Width(fs[f]) : fs[f].locals[p] = x /\ idx = fs[f].base + p - 1 BY DEF At
<1>4. PICK p \in 1 .. Width(fs[f]) : fs[f].locals[p] = x /\ idx = fs[f].base + p - 1 BY <1>3
<1>5. \A g, h \in 1 .. l : g < h => fs[g].base + Width(fs[g]) < fs[h].base BY <1>1 DEF Apart
<1>6. m \in 1 .. l OBVIOUS
<1> HIDE DEF l
<1>7. ~ (f < m)
  <2>1. SUFFICES ASSUME f < m PROVE FALSE OBVIOUS
  <2>2. fs[f].base + Width(fs[f]) < fs[m].base BY <1>5, <1>6, <2>1
  <2>3. fs[f].base \in Nat /\ Width(fs[f]) \in Nat /\ fs[m].base \in Nat /\ p <= Width(fs[f]) /\ p \in Int BY <1>2, <1>6
  <2>4. QED BY <1>4, <2>2, <2>3
<1>8. ~ (m < f)
  <2>1. SUFFICES ASSUME m < f PROVE FALSE OBVIOUS
  <2>2. m + 1 \in 1 .. l /\ m < l BY <1>1, <1>6, <2>1
  <2>3. fs[m + 1].base \in Nat /\ fs[f].base \in Nat /\ Width(fs[m + 1]) \in Nat BY <1>2, <2>2
  <2>4. fs[m + 1].base <= fs[f].base
    <3>1. CASE f = m + 1 BY <2>3, <3>1
    <3>2. CASE m + 1 < f
      <4>1. fs[m + 1].base + Width(fs[m + 1]) < fs[f].base BY <1>5, <2>2, <3>2
      <4>2. QED BY <2>3, <4>1
    <3>3. QED BY <1>6, <2>1, <3>1, <3>2
  <2>5. idx < fs[m + 1].base BY <1>0, <2>2
  <2>6. p >= 1 /\ p \in Int BY <1>2
  <2>7. QED BY <1>4, <2>3, <2>4, <2>5, <2>6
<1>9. f = m BY <1>6, <1>7, <1>8
<1>10. QED BY <1>4, <1>9

LEMMA ReturnInv ==
  ASSUME OutersInv, ~ spoiled', Return
  PROVE OutersInv'
<1>1. /\ N \in Nat \ {0} /\ N \in 1 .. N /\ N = Len(frames) /\ frames \in Seq(Frame) /\ top = frames[N]
      /\ top.base \in Nat /\ nvars \in Nat /\ FramesOK(frames, nvars)
  BY TopFrame
<1>2. N > 1 /\ CloseOuters(top.base) /\ frames' = Front(frames) /\ UNCHANGED <<nvars, captured, lost, alloc, stacksize, reserved>>
  BY DEF Return
<1> DEFINE m == N - 1
<1>3. m \in 1 .. N /\ m < N /\ m + 1 = N BY <1>1, <1>2
<1>4. frames' = SubSeq(frames, 1, m) BY <1>1, <1>2 DEF Front
<1> HIDE DEF m
<1>5. m \in 0 .. Len(frames) BY <1>1, <1>3
<1>6. frames' \in Seq(Frame) /\ Len(frames') = m /\ \A f \in 1 .. m : frames'[f] = frames[f] BY <1>1, <1>4, <1>5, Prefix_
<1>7. frames[m].locals \in Seq(Nat) /\ frames[m].scopes \in Seq(Scope) /\ Width(frames[m]) \in Nat /\ Depth(frames[m]) \in Nat
      /\ frames[m].base \in Nat
  BY <1>1, <1>3, Shape
<1> DEFINE s == Width(frames[m])
           k == Depth(frames[m])
<1>8. frames[m].locals = SubSeq(frames[m].locals, 1, s) /\ frames[m].scopes = SubSeq(frames[m].scopes, 1, k)
  BY <1>7 DEF Width, Depth
<1>9. FrameOK(frames[m], nvars) /\ Apart(frames) BY <1>1, <1>3 DEF FramesOK
<1>10. \A j \in 1 .. k : frames[m].scopes[j].start <= s BY <1>9 DEF FrameOK
<1>11. s \in 0 .. Width(frames[m]) /\ k \in 0 .. Depth(frames[m]) /\ m \in 1 .. m BY <1>3, <1>7
<1>12. frames'[m] = frames[m] /\ \A f \in 1 .. m - 1 : frames'[f] = frames[f] BY <1>3, <1>6, <1>11
<1> HIDE DEF s, k
<1>13. IsCut(frames, frames', m, s, k) BY <1>1, <1>3, <1>6, <1>8, <1>10, <1>11, <1>12 DEF IsCut
<1>14. frames[m].base + s < frames[N].base BY <1>1, <1>3, <1>9 DEF Apart, s
<1>15. OutersTyped /\ ListSorted BY DEF OutersInv
<1> DEFINE d == top.base
<1>16. Closed(d) /\ SameAlloc /\ OutersTyped' /\ ListSorted' BY <1>1, <1>2, <1>15, CloseOutersFacts
<1>17. frames[m].base + s <= d /\ d <= frames[m + 1].base /\ d \in Nat BY <1>1, <1>3, <1>7, <1>14 DEF s
<1>18. lost \subseteq lost' /\ lost' \subseteq captured BY <1>2 DEF OutersInv, Numbers
<1>19. ASSUME NEW x, NEW i \in Nat, At(frames, x, i), frames[m].base + s <= i, i < d PROVE FALSE
  <2>1. frames[m].base <= i /\ i < frames[m + 1].base BY <1>1, <1>3, <1>7, <1>19 DEF s
  <2>2. PICK j \in 1 .. Width(frames[m]) : i = frames[m].base + j - 1 BY <1>1, <1>3, <1>19, <2>1, AtFrom
  <2>3. QED BY <1>7, <1>19, <2>2 DEF s
<1> HIDE DEF d
<1>20. QED BY <1>2, <1>13, <1>16, <1>17, <1>18, <1>19, CutsInv

LEMMA InSubSeq ==
  ASSUME NEW l \in Seq(Nat), NEW a \in Nat, NEW b \in Nat, b <= Len(l), NEW j \in a + 1 .. b
  PROVE l[j] \in Range(SubSeq(l, a + 1, b))
<1> DEFINE u == SubSeq(l, a + 1, b)
<1>1. b - a \in Nat /\ j - a \in 1 .. b - a /\ a + (j - a) = j OBVIOUS
<1>2. u = [i \in 1 .. (1 + b - (a + 1)) |-> l[(a + 1) + i - 1]] OBVIOUS
<1>3. 1 + b - (a + 1) = b - a /\ (a + 1) + (j - a) - 1 = j OBVIOUS
<1> HIDE DEF u
<1>4. j - a \in DOMAIN u /\ u[j - a] = l[j] BY <1>1, <1>2, <1>3
<1>5. QED BY <1>4 DEF Range, u

(* The frames with s variables and k scopes of the running function. *)
CutTop(s, k) == [frames EXCEPT ![N].locals = SubSeq(@, 1, s), ![N].scopes = SubSeq(@, 1, k)]

LEMMA TopCut ==
  ASSUME OutersInv, NEW s \in 0 .. Width(top), NEW k \in 0 .. Depth(top), \A j \in 1 .. k : top.scopes[j].start <= s,
         NEW gs, gs = CutTop(s, k)
  PROVE IsCut(frames, gs, N, s, k)
<1>1. /\ N \in Nat \ {0} /\ N \in 1 .. N /\ N = Len(frames) /\ frames \in Seq(Frame) /\ top = frames[N]
      /\ top.locals \in Seq(Nat) /\ top.scopes \in Seq(Scope)
  BY TopFrame
<1>2. top \in Frame BY TopFrame
<1> DEFINE l == SubSeq(top.locals, 1, s)
           c == SubSeq(top.scopes, 1, k)
           fr == [top EXCEPT !.locals = l, !.scopes = c]
<1>3. l \in Seq(Nat) /\ l = SubSeq(top.locals, 1, s) BY <1>1, Prefix_ DEF Width
<1>4. c \in Seq(Scope) /\ c = SubSeq(top.scopes, 1, k) BY <1>1, Prefix_ DEF Depth
<1>5. gs = [frames EXCEPT ![N] = fr] BY <1>1 DEF CutTop
<1> HIDE DEF l, c
<1>6. fr \in Frame /\ fr.base = top.base /\ fr.locals = l /\ fr.scopes = c BY <1>2, <1>3, <1>4 DEF Frame
<1> HIDE DEF fr
<1>7. gs \in Seq(Frame) /\ Len(gs) = N /\ gs[N] = fr /\ \A f \in 1 .. N - 1 : gs[f] = frames[f]
  <2>1. N >= 1 BY <1>1
  <2>2. QED BY <1>1, <1>5, <1>6, <2>1, Replaced
<1>8. QED BY <1>1, <1>3, <1>4, <1>6, <1>7 DEF IsCut

LEMMA TailCallInv ==
  ASSUME OutersInv, ~ spoiled', TailCall
  PROVE OutersInv'
<1>1. /\ N \in Nat \ {0} /\ N \in 1 .. N /\ N = Len(frames) /\ frames \in Seq(Frame) /\ top = frames[N]
      /\ top.locals \in Seq(Nat) /\ top.scopes \in Seq(Scope) /\ top.base \in Nat /\ Width(top) \in Nat /\ Depth(top) \in Nat
  BY TopFrame
<1>2. CloseOuters(top.base) /\ UNCHANGED <<nvars, captured, lost, alloc, stacksize, reserved>> BY DEF TailCall
<1>3. SubSeq(top.locals, 1, 0) = <<>> /\ SubSeq(top.scopes, 1, 0) = <<>> BY <1>1
<1>4. frames' = CutTop(0, 0) BY <1>1, <1>3 DEF TailCall, CutTop
<1>5. 0 \in 0 .. Width(top) /\ 0 \in 0 .. Depth(top) /\ \A j \in 1 .. 0 : top.scopes[j].start <= 0 BY <1>1
<1>6. IsCut(frames, frames', N, 0, 0) BY <1>4, <1>5, TopCut
<1>7. OutersTyped /\ ListSorted BY DEF OutersInv
<1> DEFINE d == top.base
<1>8. Closed(d) /\ SameAlloc /\ OutersTyped' /\ ListSorted' BY <1>1, <1>2, <1>7, CloseOutersFacts
<1>9. d \in Nat /\ frames[N].base + 0 <= d /\ frames[N].base + 0 = d /\ ~ (N < N) BY <1>1
<1>10. lost \subseteq lost' /\ lost' \subseteq captured BY <1>2 DEF OutersInv, Numbers
<1>11. \A i \in Nat : ~ (frames[N].base + 0 <= i /\ i < d) BY <1>9
<1> HIDE DEF d
<1>12. QED BY <1>2, <1>6, <1>8, <1>9, <1>10, <1>11, CutsInv

(* What CloseScope does to the variables of a scope that begins at start. *)
ScopeClosed(start, d) ==
  /\ d \in Nat /\ top.base + start <= d /\ Closed(d) /\ SameAlloc /\ OutersTyped' /\ ListSorted'
  /\ \A x \in captured : \A i \in Nat : At(frames, x, i) /\ top.base + start <= i => ~ (i < d)

LEMMA CloseScopeFacts ==
  ASSUME OutersInv, ~ spoiled', NEW start \in 0 .. Width(top), CloseScope(start)
  PROVE \E d \in Nat : ScopeClosed(start, d)
<1>1. /\ N \in Nat \ {0} /\ N \in 1 .. N /\ N = Len(frames) /\ top = frames[N] /\ top.base \in Nat /\ Width(top) \in Nat
      /\ FrameOK(top, nvars) /\ nvars \in Nat /\ FramesOK(frames, nvars)
  BY TopFrame
<1>2. OutersTyped /\ ListSorted BY DEF OutersInv
<1>3. start \in Nat /\ top.base + start \in Nat BY <1>1
<1>4. CASE CloseOuters(STK(start))
  <2> DEFINE d == top.base + start
  <2>1. d \in Nat /\ CloseOuters(d) BY <1>3, <1>4 DEF STK
  <2>2. Closed(d) /\ SameAlloc /\ OutersTyped' /\ ListSorted' BY <1>2, <2>1, CloseOutersFacts
  <2>3. \A i \in Nat : ~ (d <= i /\ i < d) /\ d <= d BY <2>1
  <2>4. ScopeClosed(start, d) BY <2>1, <2>2, <2>3 DEF ScopeClosed
  <2>5. QED BY <2>1, <2>4
<1>5. CASE /\ \A r \in start + 1 .. Len(top.locals) : top.locals[r] \notin captured
           /\ UNCHANGED <<outers, openouters>>
  <2> DEFINE d == top.base + FrameSize
  <2>1. Closed(d) /\ SameAlloc /\ OutersTyped' /\ ListSorted' BY <1>5, StayClosed
  <2>2. Width(top) <= FrameSize BY <1>1 DEF FrameOK
  <2>7. start <= FrameSize /\ FrameSize \in Nat BY <1>1, <2>2, SizeAssumption
  <2>3. d \in Nat /\ top.base + start <= d BY <1>1, <1>3, <2>7
  <2>4. ASSUME NEW x \in captured, NEW i \in Nat, At(frames, x, i), top.base + start <= i PROVE FALSE
    <3>1. top.base <= i BY <1>1, <1>3, <2>4
    <3>5. /\ ~ (N < Len(frames)) /\ nvars \in Nat /\ FramesOK(frames, nvars) /\ N \in 1 .. Len(frames)
          /\ frames[N].base <= i /\ At(frames, x, i)
      BY <1>1, <2>4, <3>1
    <3>6. \E j \in 1 .. Width(frames[N]) : frames[N].locals[j] = x /\ i = frames[N].base + j - 1 BY <3>5, AtFrom
    <3>2. PICK j \in 1 .. Width(top) : top.locals[j] = x /\ i = top.base + j - 1 BY <1>1, <3>6
    <3>3. j \in start + 1 .. Width(top) BY <1>1, <1>3, <2>4, <3>2
    <3>4. QED BY <1>5, <2>4, <3>2, <3>3 DEF Width
  <2> HIDE DEF d
  <2>5. ScopeClosed(start, d) BY <2>1, <2>3, <2>4 DEF ScopeClosed
  <2>6. QED BY <2>3, <2>5
<1>6. QED BY <1>4, <1>5 DEF CloseScope

LEMMA LeaveCut ==
  ASSUME OutersInv, NEW k \in 1 .. Depth(top), Leave(k)
  PROVE IsCut(frames, frames', N, top.scopes[k].start, k - 1) /\ top.scopes[k].start \in 0 .. Width(top)
<1>1. Depth(top) \in Nat /\ Width(top) \in Nat /\ FrameOK(top, nvars) /\ top.scopes[k].start \in Nat BY TopFrame
<1> DEFINE s == top.scopes[k].start
<1>2. s \in 0 .. Width(top) BY <1>1 DEF FrameOK
<1>3. k - 1 \in 0 .. Depth(top) /\ \A j \in 1 .. k - 1 : j \in 1 .. Depth(top) /\ j <= k BY <1>1
<1>4. \A j \in 1 .. k - 1 : top.scopes[j].start <= s BY <1>1, <1>3 DEF FrameOK
<1>5. frames' = CutTop(s, k - 1) BY DEF Leave, CutTop
<1> HIDE DEF s
<1>6. IsCut(frames, frames', N, s, k - 1) BY <1>2, <1>3, <1>4, <1>5, TopCut
<1>7. QED BY <1>2, <1>6 DEF s

LEMMA EndScopeInv ==
  ASSUME OutersInv, ~ spoiled', EndScope
  PROVE OutersInv'
<1>1. /\ N \in Nat \ {0} /\ N \in 1 .. N /\ top = frames[N] /\ top.scopes \in Seq(Scope) /\ top.base \in Nat /\ Depth(top) \in Nat
  BY TopFrame
<1> DEFINE k == Depth(top)
           s == top.scopes[k].start
<1>2. k \in 1 .. Depth(top)
  <2>1. top.scopes # <<>> BY DEF EndScope
  <2>2. Len(top.scopes) # 0 BY <1>1, <2>1
  <2>3. QED BY <1>1, <2>2 DEF Depth
<1>3. CloseScope(s) /\ Leave(k) /\ UNCHANGED <<nvars, captured, lost, alloc, stacksize, reserved>> BY DEF EndScope, Last, Depth
<1> HIDE DEF k
<1>4. IsCut(frames, frames', N, s, k - 1) /\ s \in 0 .. Width(top) BY <1>2, <1>3, LeaveCut
<1> HIDE DEF s
<1>5. PICK d \in Nat : ScopeClosed(s, d) BY <1>3, <1>4, CloseScopeFacts
<1>6. /\ top.base + s <= d /\ Closed(d) /\ SameAlloc /\ OutersTyped' /\ ListSorted'
      /\ \A x \in captured : \A i \in Nat : At(frames, x, i) /\ top.base + s <= i => ~ (i < d)
  BY <1>5 DEF ScopeClosed
<1>7. lost \subseteq lost' /\ lost' \subseteq captured BY <1>3 DEF OutersInv, Numbers
<1>8. ~ (N < N) BY <1>1
<1>9. QED BY <1>1, <1>3, <1>4, <1>6, <1>7, <1>8, CutsInv

LEMMA BreakInv ==
  ASSUME OutersInv, ~ spoiled', Break
  PROVE OutersInv'
<1>1. /\ N \in Nat \ {0} /\ N \in 1 .. N /\ N = Len(frames) /\ top = frames[N] /\ top.scopes \in Seq(Scope) /\ top.base \in Nat
      /\ Depth(top) \in Nat /\ Width(top) \in Nat /\ FrameOK(top, nvars) /\ nvars \in Nat /\ FramesOK(frames, nvars)
      /\ top.locals \in Seq(Nat)
  BY TopFrame
<1>2. PICK k \in DOMAIN top.scopes :
        /\ CloseScope(Last(top.scopes).start) /\ Leave(k)
        /\ lost' = lost \union
             (captured \cap Range(SubSeq(top.locals, top.scopes[k].start + 1, Last(top.scopes).start)))
        /\ UNCHANGED <<nvars, captured, alloc, stacksize, reserved>>
  BY DEF Break
<1> DEFINE z == Depth(top)
           s == top.scopes[k].start
           e == top.scopes[z].start
<1>3. k \in 1 .. z /\ z \in 1 .. z /\ z = Depth(top) BY <1>1, <1>2 DEF Depth
<1>4. Last(top.scopes).start = e BY DEF Last, Depth
<1> HIDE DEF z
<1>5. IsCut(frames, frames', N, s, k - 1) /\ s \in 0 .. Width(top) BY <1>2, <1>3, LeaveCut
<1>6. e \in Nat /\ e <= Width(top) /\ s <= e
  <2>1. e \in Nat BY <1>3, TopFrame
  <2>2. QED BY <1>1, <1>3, <2>1 DEF FrameOK
<1>7. CloseScope(e) /\ lost' = lost \union (captured \cap Range(SubSeq(top.locals, s + 1, e)))
      /\ UNCHANGED <<nvars, captured, alloc, stacksize, reserved>>
  BY <1>2, <1>4
<1> HIDE DEF s, e
<1>8. e \in 0 .. Width(top) BY <1>1, <1>6
<1>9. PICK d \in Nat : ScopeClosed(e, d) BY <1>7, <1>8, CloseScopeFacts
<1>10. /\ top.base + e <= d /\ Closed(d) /\ SameAlloc /\ OutersTyped' /\ ListSorted'
       /\ \A x \in captured : \A i \in Nat : At(frames, x, i) /\ top.base + e <= i => ~ (i < d)
  BY <1>9 DEF ScopeClosed
<1>11. top.base + s <= d BY <1>1, <1>5, <1>6, <1>10
<1>12. lost \subseteq lost' /\ lost' \subseteq captured BY <1>7 DEF OutersInv, Numbers
<1>13. ASSUME NEW x \in captured, NEW i \in Nat, At(frames, x, i), top.base + s <= i, i < d PROVE x \in lost'
  <2>1. i < top.base + e
    <3>1. ~ (top.base + e <= i) BY <1>10, <1>13
    <3>2. QED BY <1>1, <1>6, <3>1
  <2>2. top.base <= i BY <1>1, <1>5, <1>13
  <2>3. PICK j \in 1 .. Width(top) : top.locals[j] = x /\ i = top.base + j - 1
    <3>1. /\ ~ (N < Len(frames)) /\ nvars \in Nat /\ FramesOK(frames, nvars) /\ N \in 1 .. Len(frames) /\ frames[N].base <= i
          /\ At(frames, x, i)
      BY <1>1, <1>13, <2>2
    <3>2. \E j \in 1 .. Width(frames[N]) : frames[N].locals[j] = x /\ i = frames[N].base + j - 1 BY <3>1, AtFrom
    <3>3. QED BY <1>1, <3>2
  <2>4. j \in s + 1 .. e BY <1>1, <1>5, <1>6, <1>13, <2>1, <2>3
  <2>5. top.locals[j] \in Range(SubSeq(top.locals, s + 1, e)) BY <1>1, <1>5, <1>6, <2>4, InSubSeq DEF Width
  <2>6. QED BY <1>7, <1>13, <2>3, <2>5
<1>14. ~ (N < N) BY <1>1
<1>15. QED BY <1>1, <1>5, <1>7, <1>10, <1>11, <1>12, <1>13, <1>14, CutsInv

LEMMA Stacked ==
  ASSUME NEW fs \in Seq(Frame), NEW f \in 1 .. Len(fs), NEW fr \in Frame, NEW gs, gs = Append(SubSeq(fs, 1, f - 1), fr)
  PROVE gs \in Seq(Frame) /\ Len(gs) = f /\ gs[f] = fr /\ \A h \in 1 .. f - 1 : gs[h] = fs[h]
<1> DEFINE m == f - 1
           u == SubSeq(fs, 1, m)
<1>1. m \in 0 .. Len(fs) /\ m + 1 = f OBVIOUS
<1> HIDE DEF m
<1>2. u \in Seq(Frame) /\ Len(u) = m /\ \A i \in 1 .. m : u[i] = fs[i] BY <1>1, Prefix_
<1>3. gs = Append(u, fr) BY DEF m
<1> HIDE DEF u
<1>4. gs \in Seq(Frame) /\ Len(gs) = m + 1 /\ gs[m + 1] = fr /\ \A i \in 1 .. m : gs[i] = u[i] BY <1>2, <1>3
<1>5. QED BY <1>1, <1>2, <1>4 DEF m

(* The frames when the catch block begins. *)
Caught(f, k, start, x) ==
  Append(SubSeq(frames, 1, f - 1),
    [base |-> frames[f].base,
     locals |-> Append(SubSeq(frames[f].locals, 1, start), x),
     scopes |-> Append(SubSeq(frames[f].scopes, 1, k - 1), [kind |-> "block", start |-> start])])

LEMMA CaughtOK ==
  ASSUME OutersInv, NEW f \in 1 .. N, NEW k \in 1 .. Depth(frames[f]), NEW start, start = frames[f].scopes[k].start,
         start < FrameSize, NEW gs, gs = Caught(f, k, start, nvars + 1)
  PROVE /\ start \in 0 .. Width(frames[f])
        /\ FramesOK(gs, nvars + 1) /\ Len(gs) = f /\ \A h \in 1 .. f : gs[h].base = frames[h].base
        /\ \A x \in 1 .. nvars : \A i : At(gs, x, i) <=> At(frames, x, i) /\ i < frames[f].base + start
<1>1. N = Len(frames) /\ frames \in Seq(Frame) /\ nvars \in Nat /\ FramesOK(frames, nvars) /\ N \in Nat \ {0} BY TopFrame
<1>2. /\ frames[f].base \in Nat /\ frames[f].locals \in Seq(Nat) /\ Width(frames[f]) \in Nat
      /\ frames[f].scopes \in Seq(Scope) /\ Depth(frames[f]) \in Nat /\ start \in Nat
  BY <1>1, Shape
<1>3. FrameOK(frames[f], nvars) BY <1>1 DEF FramesOK
<1>4. start \in 0 .. Width(frames[f]) BY <1>2, <1>3 DEF FrameOK
<1> DEFINE b == frames[f].base
           l == SubSeq(frames[f].locals, 1, start)
           c == SubSeq(frames[f].scopes, 1, k - 1)
           sc == [kind |-> "block", start |-> start]
           r1 == [base |-> b, locals |-> l, scopes |-> c]
           r2 == [base |-> b, locals |-> l, scopes |-> Append(c, sc)]
           r3 == [base |-> b, locals |-> Append(l, nvars + 1), scopes |-> Append(c, sc)]
           g1 == Append(SubSeq(frames, 1, f - 1), r1)
           g2 == Append(SubSeq(frames, 1, f - 1), r2)
<1>5. l \in Seq(Nat) /\ Len(l) = start BY <1>2, <1>4, Prefix_ DEF Width
<1>6. k - 1 \in 0 .. Depth(frames[f]) /\ \A j \in 1 .. k - 1 : j \in 1 .. Depth(frames[f]) /\ j <= k BY <1>2
<1>7. c \in Seq(Scope) BY <1>2, <1>6, Prefix_ DEF Depth
<1>8. sc \in Scope /\ sc.start = start BY <1>2 DEF Scope
<1>9. gs = Append(SubSeq(frames, 1, f - 1), r3) BY DEF Caught
<1>10. b \in Nat BY <1>2
<1> HIDE DEF b, l, c, sc
<1>11. Append(c, sc) \in Seq(Scope) /\ Append(l, nvars + 1) \in Seq(Nat) BY <1>1, <1>5, <1>7, <1>8
<1>12. r1 \in Frame /\ r2 \in Frame /\ r3 \in Frame BY <1>5, <1>7, <1>10, <1>11 DEF Frame
<1>13. /\ r1.base = b /\ r1.locals = l /\ r1.scopes = c /\ r2.base = b /\ r2.locals = l /\ r2.scopes = Append(c, sc)
       /\ r3.base = b /\ r3.locals = Append(l, nvars + 1) /\ r3.scopes = Append(c, sc)
  OBVIOUS
<1> HIDE DEF r1, r2, r3
<1>14. f \in 1 .. Len(frames) /\ frames \in Seq(Frame) BY <1>1
<1>15. g1 \in Seq(Frame) /\ Len(g1) = f /\ g1[f] = r1 /\ \A h \in 1 .. f - 1 : g1[h] = frames[h] BY <1>12, <1>14, Stacked
<1>16. g2 \in Seq(Frame) /\ Len(g2) = f /\ g2[f] = r2 /\ \A h \in 1 .. f - 1 : g2[h] = frames[h] BY <1>12, <1>14, Stacked
<1>17. gs \in Seq(Frame) /\ Len(gs) = f /\ gs[f] = r3 /\ \A h \in 1 .. f - 1 : gs[h] = frames[h] BY <1>9, <1>12, <1>14, Stacked
<1> HIDE DEF g1, g2
<1>18. IsCut(frames, g1, f, start, k - 1)
  <2>1. \A j \in 1 .. k - 1 : frames[f].scopes[j].start <= start BY <1>3, <1>6 DEF FrameOK
  <2>2. QED BY <1>4, <1>6, <1>13, <1>14, <1>15, <2>1 DEF IsCut, b, l, c
<1>19. FramesOK(g1, nvars) BY <1>1, <1>18, CutOK
<1>20. IsBegin(g1, g2)
  <2>1. Width(g1[f]) = start BY <1>5, <1>13, <1>15 DEF Width
  <2>2. g2[f].scopes = Append(g1[f].scopes, sc) /\ sc.start = Width(g1[f]) BY <1>8, <1>13, <1>15, <1>16, <2>1
  <2>3. QED BY <1>8, <1>13, <1>15, <1>16, <2>2 DEF IsBegin
<1>21. FramesOK(g2, nvars) /\ \A x, i : At(g2, x, i) <=> At(g1, x, i) BY <1>1, <1>19, <1>20, BeginOK
<1>22. IsDeclare(g2, gs, nvars + 1) BY <1>13, <1>16, <1>17 DEF IsDeclare
<1>23. Width(g2[Len(g2)]) < FrameSize BY <1>5, <1>13, <1>16 DEF Width
<1>24. FramesOK(gs, nvars + 1) BY <1>1, <1>21, <1>22, <1>23, DeclareOK
<1>25. ASSUME NEW x \in 1 .. nvars, NEW i PROVE At(gs, x, i) <=> At(frames, x, i) /\ i < frames[f].base + start
  <2>1. x # nvars + 1 BY <1>1
  <2>2. At(gs, x, i) <=> At(g2, x, i) BY <1>1, <1>21, <1>22, <2>1, DeclareAt
  <2>3. At(g1, x, i) <=> At(frames, x, i) /\ i < frames[f].base + start BY <1>1, <1>18, CutAt
  <2>4. QED BY <1>21, <2>2, <2>3
<1>26. ASSUME NEW h \in 1 .. f PROVE gs[h].base = frames[h].base
  <2>1. h = f \/ h \in 1 .. f - 1 BY <1>1
  <2>2. QED BY <1>13, <1>17, <2>1 DEF b
<1>27. QED BY <1>4, <1>17, <1>24, <1>25, <1>26

LEMMA CatchInv ==
  ASSUME OutersInv, ~ spoiled', NEW f \in 1 .. N, NEW k \in DOMAIN frames[f].scopes, Catch(f, k)
  PROVE OutersInv'
<1>1. N = Len(frames) /\ frames \in Seq(Frame) /\ nvars \in Nat /\ FramesOK(frames, nvars) /\ N \in Nat \ {0} /\ top = frames[N] BY TopFrame
<1>2. /\ frames[f].base \in Nat /\ frames[f].locals \in Seq(Nat) /\ Width(frames[f]) \in Nat /\ Depth(frames[f]) \in Nat
      /\ frames[f].scopes \in Seq(Scope)
  BY <1>1, Shape
<1>3. k \in 1 .. Depth(frames[f]) BY <1>2 DEF Depth
<1> DEFINE start == frames[f].scopes[k].start
           ls == frames[f].locals
<1>4. /\ start < FrameSize /\ frames' = Caught(f, k, start, nvars + 1) /\ nvars' = nvars + 1
      /\ lost' = lost \union (captured \cap Range(SubSeq(ls, start + 1, Len(ls))))
      /\ UNCHANGED <<captured, alloc, stacksize, reserved>>
  BY DEF Catch, Caught
<1>5. (f = N /\ UNCHANGED <<outers, openouters>>) \/ (f # N /\ CloseOuters(frames[f + 1].base)) BY DEF Catch
<1>6. start = frames[f].scopes[k].start OBVIOUS
<1> HIDE DEF start
<1>7. /\ start \in 0 .. Width(frames[f])
      /\ FramesOK(frames', nvars + 1) /\ Len(frames') = f /\ \A h \in 1 .. f : frames'[h].base = frames[h].base
      /\ \A x \in 1 .. nvars : \A i : At(frames', x, i) <=> At(frames, x, i) /\ i < frames[f].base + start
  BY <1>3, <1>4, <1>6, CaughtOK
<1> DEFINE c == frames[f].base + start
           d == IF f = N THEN top.base + FrameSize ELSE frames[f + 1].base
<1>8. d \in Nat /\ c \in Nat /\ c <= d /\ (f < N => d = frames[f + 1].base)
  <2>4. start \in Nat /\ start <= Width(frames[f]) /\ Width(frames[f]) \in Nat /\ frames[f].base \in Nat /\ FrameSize \in Nat
        /\ start < FrameSize
    BY <1>2, <1>4, <1>7, SizeAssumption
  <2>5. ~ (N < N) BY <1>1
  <2>1. CASE f = N
    <3>1. d = frames[f].base + FrameSize BY <1>1, <2>1
    <3> HIDE DEF d
    <3>2. QED BY <2>1, <2>4, <2>5, <3>1
  <2>2. CASE f < N
    <3>1. f + 1 \in 1 .. N /\ f < f + 1 BY <1>1, <2>2
    <3>2. frames[f].base + Width(frames[f]) < frames[f + 1].base BY <1>1, <3>1 DEF FramesOK, Apart
    <3>3. frames[f + 1].base \in Nat BY <1>1, <3>1, Shape
    <3>4. d = frames[f + 1].base BY <1>1, <2>2
    <3> HIDE DEF d
    <3>5. QED BY <2>4, <3>2, <3>3, <3>4
  <2>3. QED BY <1>1, <2>1, <2>2
<1>9. OutersTyped /\ ListSorted BY DEF OutersInv
<1>10. Closed(d) /\ SameAlloc /\ OutersTyped' /\ ListSorted'
  <2>1. CASE f = N BY <1>5, <2>1, StayClosed
  <2>2. CASE f # N /\ CloseOuters(frames[f + 1].base) BY <1>8, <1>9, <2>2, CloseOutersFacts
  <2>3. QED BY <1>5, <2>1, <2>2
<1> HIDE DEF d
<1>11. captured \subseteq 1 .. nvars /\ lost \subseteq captured BY DEF OutersInv, Numbers
<1>12. ASSUME NEW x \in captured, NEW i \in Nat, At(frames, x, i), c <= i, i < d PROVE x \in lost'
  <2>1. frames[f].base <= i BY <1>2, <1>7, <1>12
  <2>2. f < Len(frames) => i < frames[f + 1].base BY <1>1, <1>8, <1>12
  <2>3. f \in 1 .. Len(frames) BY <1>1
  <2>4. \E j \in 1 .. Width(frames[f]) : frames[f].locals[j] = x /\ i = frames[f].base + j - 1
    <3>1. nvars \in Nat /\ FramesOK(frames, nvars) /\ At(frames, x, i) BY <1>1, <1>12
    <3>2. QED BY <2>1, <2>2, <2>3, <3>1, AtFrom
  <2>5. PICK j \in 1 .. Width(frames[f]) : frames[f].locals[j] = x /\ i = frames[f].base + j - 1 BY <2>4
  <2>6. j \in start + 1 .. Width(frames[f]) /\ start \in Nat BY <1>2, <1>7, <1>12, <2>5
  <2>7. ls \in Seq(Nat) /\ Len(ls) \in Nat /\ Len(ls) <= Len(ls) /\ Len(ls) = Width(frames[f]) BY <1>2 DEF Width
  <2>8. ls[j] \in Range(SubSeq(ls, start + 1, Len(ls))) BY <2>6, <2>7, InSubSeq
  <2>9. QED BY <1>4, <1>12, <2>5, <2>8
<1>13. \A x \in captured : \A i : At(frames', x, i) <=> At(frames, x, i) /\ i < c BY <1>7, <1>11
<1> HIDE DEF c
<1>14. CutStep(f, c, d)
  <2>1. FramesGood' BY <1>4, <1>7 DEF FramesGood
  <2>2. nvars' \in Nat /\ nvars <= nvars' BY <1>1, <1>4
  <2>3. f < N => d <= frames[f + 1].base BY <1>8
  <2>4. lost \subseteq lost' /\ lost' \subseteq captured BY <1>4, <1>11
  <2>5. QED BY <1>4, <1>7, <1>8, <1>10, <1>12, <1>13, <2>1, <2>2, <2>3, <2>4 DEF CutStep
<1>15. QED BY <1>14, CutStepInv

LEMMA RelocateFacts ==
  ASSUME OutersTyped, ListSorted, RelocateOuters, openouters' = openouters, alloc' \in Nat
  PROVE /\ OutersTyped' /\ ListSorted' /\ DOMAIN outers' = DOMAIN outers
        /\ \A o \in DOMAIN outers :
             /\ outers'[o].idx = outers[o].idx /\ outers'[o].var = outers[o].var /\ outers'[o].open = outers[o].open
             /\ outers[o].open => outers'[o].alloc = alloc'
<1>1. /\ Len(outers) \in Nat /\ DOMAIN outers = 1 .. Len(outers)
      /\ \A o \in DOMAIN outers : outers[o] \in Outer
  BY OuterTypes
<1>2. outers' = [o \in DOMAIN outers |-> IF o \in Range(openouters) THEN [outers[o] EXCEPT !.alloc = alloc'] ELSE outers[o]]
  BY Zenon DEF RelocateOuters
<1>3. Range(openouters) = {o \in DOMAIN outers : outers[o].open} /\ openouters \in Seq(Nat) BY DEF ListSorted, OutersTyped
<1>4. ASSUME NEW o \in DOMAIN outers
      PROVE /\ outers'[o] \in Outer
            /\ outers'[o].idx = outers[o].idx /\ outers'[o].var = outers[o].var /\ outers'[o].open = outers[o].open
            /\ outers[o].open => outers'[o].alloc = alloc'
  <2>1. outers[o] \in Outer BY <1>1
  <2>2. CASE o \in Range(openouters)
    <3>1. outers'[o] = [outers[o] EXCEPT !.alloc = alloc'] BY <1>2, <2>2
    <3> DEFINE r == outers[o]
    <3> HIDE DEF r
    <3>2. outers'[o] = [r EXCEPT !.alloc = alloc'] /\ r \in Outer BY <2>1, <3>1 DEF r
    <3>3. outers'[o] \in Outer /\ outers'[o].idx = r.idx /\ outers'[o].var = r.var /\ outers'[o].open = r.open /\ outers'[o].alloc = alloc'
      BY <3>2 DEF Outer
    <3>4. QED BY <3>3 DEF r
  <2>3. CASE o \notin Range(openouters)
    <3>1. outers'[o] = outers[o] BY <1>2, <2>3
    <3>2. ~ outers[o].open BY <1>3, <2>3
    <3>3. QED BY <2>1, <3>1, <3>2
  <2>4. QED BY <2>2, <2>3
<1>5. DOMAIN outers' = DOMAIN outers BY <1>2
<1>6. outers' \in Seq(Outer)
  <2> DEFINE n == Len(outers)
  <2>1. n \in Nat /\ DOMAIN outers = 1 .. n BY <1>1
  <2> HIDE DEF n
  <2>2. outers' = [i \in 1 .. n |-> outers'[i]] BY <1>2, <2>1
  <2>3. \A i \in 1 .. n : outers'[i] \in Outer BY <1>4, <2>1
  <2>4. outers' \in [1 .. n -> Outer] BY <2>2, <2>3
  <2>5. QED BY <2>1, <2>4, SeqDef
<1>7. OutersTyped' BY <1>3, <1>6 DEF OutersTyped
<1>8. ListSorted'
  <2>1. \A i \in DOMAIN openouters : openouters[i] \in DOMAIN outers BY <1>3 DEF Range
  <2>2. \A i \in DOMAIN openouters : outers'[openouters[i]].idx = outers[openouters[i]].idx BY <1>4, <2>1
  <2>3. Range(openouters) = {o \in DOMAIN outers' : outers'[o].open} BY <1>3, <1>4, <1>5
  <2>4. QED BY <2>2, <2>3 DEF ListSorted
<1>9. QED BY <1>4, <1>5, <1>7, <1>8

(* The variables and outers stay where they are. *)
LEMMA StayKeeps ==
  ASSUME OutersInv, FramesGood', OutersTyped', DOMAIN outers' = DOMAIN outers, captured' = captured, lost' = lost,
         \A o \in DOMAIN outers :
             outers'[o].idx = outers[o].idx /\ outers'[o].var = outers[o].var /\ outers'[o].open = outers[o].open,
         \A x, i : At(frames', x, i) <=> At(frames, x, i)
  PROVE VariablesKept'
<1>1. FramesGood /\ VariablesKept BY DEF OutersInv
<1>2. Places BY <1>1, PlacesKnown
<1>3. Places' BY PlacesKnown, PTL
<1>4. SUFFICES ASSUME NEW o \in DOMAIN outers', outers'[o].var \notin lost' PROVE KeepsVariable(o)'
  BY DEF VariablesKept
<1>5. PICK x : x = outers[o].var OBVIOUS
<1>6. PICK i : i = outers[o].idx OBVIOUS
<1>7. outers'[o].var = x /\ outers'[o].idx = i /\ outers'[o].open = outers[o].open BY <1>4, <1>5, <1>6
<1>8. KeepsVariable(o) BY <1>1, <1>4, <1>5, <1>7 DEF VariablesKept
<1>9. outers[o].open = InScope(x) /\ (outers[o].open => IsAt(x, i)) BY <1>5, <1>6, <1>8 DEF KeepsVariable
<1>10. InScope(x)' <=> InScope(x) BY <1>2, <1>3 DEF Places
<1>11. IsAt(x, i)' <=> IsAt(x, i) BY <1>2, <1>3 DEF Places
<1>12. InScope(x)' = InScope(x) BY <1>10 DEF InScope
<1>13. QED BY <1>7, <1>9, <1>11, <1>12 DEF KeepsVariable

LEMMA CallInv ==
  ASSUME OutersInv, Call
  PROVE OutersInv'
<1>1. /\ N = Len(frames) /\ frames \in Seq(Frame) /\ nvars \in Nat /\ FramesOK(frames, nvars) /\ N \in Nat \ {0} /\ top = frames[N]
      /\ top.base \in Nat /\ Width(top) \in Nat
  BY TopFrame
<1>2. FramesGood /\ Numbers /\ OutersTyped /\ Room /\ ListSorted /\ \A o \in DOMAIN outers : OuterOK(o) BY DEF OutersInv
<1> DEFINE b == top.base + Width(top) + 1
<1>3. EnterFrame(b) /\ UNCHANGED <<nvars, captured, lost, openouters>> BY DEF Call, STK, Width
<1>4. b \in Nat /\ b > top.base BY <1>1
<1>5. frames' = Append(frames, [base |-> b, locals |-> <<>>, scopes |-> <<>>]) BY <1>3 DEF EnterFrame
<1>6. IsEnter(frames, frames') BY <1>1, <1>5 DEF IsEnter
<1>7. FramesOK(frames', nvars) /\ \A x, i : At(frames', x, i) <=> At(frames, x, i) BY <1>1, <1>6, EnterOK
<1> HIDE DEF b
<1>8. FramesGood' BY <1>3, <1>7 DEF FramesGood
<1>9. Len(frames') = N + 1 /\ frames'[N + 1].base = b /\ \A f \in 1 .. N : frames'[f] = frames[f]
  <2> DEFINE fr == [base |-> b, locals |-> <<>>, scopes |-> <<>>]
  <2>1. fr.base = b /\ frames' = Append(frames, fr) BY <1>5
  <2> HIDE DEF fr
  <2>2. QED BY <1>1, <2>1
<1> DEFINE newtop == b + FrameSize
<1>10. {FrameSize, MIN_STACK_OVERHEAD} \subseteq Nat /\ newtop \in Nat /\ alloc \in Nat /\ stacksize \in Nat
  BY <1>2, <1>4, SizeAssumption DEF Numbers
<1>11. \/ /\ newtop + MIN_STACK_OVERHEAD > stacksize
          /\ alloc' = alloc + 1 /\ stacksize' = newtop + 4 * MIN_STACK_OVERHEAD /\ RelocateOuters /\ reserved' = FALSE
       \/ /\ ~ (newtop + MIN_STACK_OVERHEAD > stacksize) /\ UNCHANGED <<alloc, stacksize, reserved, outers>>
  BY <1>3 DEF EnterFrame
<1> HIDE DEF newtop
<1>12. alloc' \in Nat /\ stacksize' \in Nat /\ newtop <= stacksize' /\ stacksize <= stacksize' BY <1>10, <1>11
<1>13. Numbers' BY <1>2, <1>3, <1>12 DEF Numbers
<1>14. Room'
  <2>1. SUFFICES ASSUME NEW f \in 1 .. N + 1 PROVE frames'[f].base + FrameSize <= stacksize'
    BY <1>9 DEF Room, N
  <2>2. CASE f = N + 1 BY <1>9, <1>10, <1>12, <2>2 DEF newtop
  <2>3. CASE f \in 1 .. N
    <3>1. frames[f].base + FrameSize <= stacksize BY <1>2, <2>3 DEF Room
    <3>2. frames[f].base \in Nat BY <1>1, <2>3, Shape
    <3>3. QED BY <1>9, <1>10, <1>12, <2>3, <3>1, <3>2
  <2>4. QED BY <1>1, <2>2, <2>3
<1>15. /\ OutersTyped' /\ ListSorted' /\ DOMAIN outers' = DOMAIN outers
       /\ \A o \in DOMAIN outers :
             /\ outers'[o].idx = outers[o].idx /\ outers'[o].var = outers[o].var /\ outers'[o].open = outers[o].open
             /\ outers[o].open => outers'[o].alloc <= alloc' /\ (outers'[o].alloc = alloc' <=> ~ reserved')
  <2>1. CASE RelocateOuters /\ reserved' = FALSE
    <3>1. /\ OutersTyped' /\ ListSorted' /\ DOMAIN outers' = DOMAIN outers
          /\ \A o \in DOMAIN outers :
             /\ outers'[o].idx = outers[o].idx /\ outers'[o].var = outers[o].var /\ outers'[o].open = outers[o].open
             /\ outers[o].open => outers'[o].alloc = alloc'
      BY <1>2, <1>3, <1>12, <2>1, RelocateFacts
    <3>2. QED BY <1>12, <2>1, <3>1
  <2>2. CASE UNCHANGED <<alloc, stacksize, reserved, outers>>
    <3>1. \A o \in DOMAIN outers : outers[o].open => outers[o].alloc <= alloc /\ (outers[o].alloc = alloc <=> ~ reserved) BY <1>2 DEF OuterOK
    <3>2. QED BY <1>2, <1>3, <2>2, <3>1 DEF OutersTyped, ListSorted
  <2>3. QED BY <1>11, <2>1, <2>2
<1>16. ASSUME NEW o \in DOMAIN outers' PROVE OuterOK(o)'
  <2>1. o \in DOMAIN outers /\ OuterOK(o) /\ outers[o].idx \in Nat BY <1>2, <1>15, <1>16, OuterTypes
  <2>2. outers'[o].var \in captured' BY <1>3, <1>15, <2>1 DEF OuterOK
  <2>3. outers'[o].open => outers'[o].alloc <= alloc' /\ (outers'[o].alloc = alloc' <=> ~ reserved') BY <1>15, <2>1
  <2>4. ASSUME outers'[o].open PROVE Below(frames', outers'[o].idx)
    <3> DEFINE i == outers[o].idx
    <3>1. Below(frames, i) /\ i \in Nat /\ outers'[o].idx = i BY <1>15, <2>1, <2>4 DEF OuterOK
    <3> HIDE DEF i
    <3>2. SUFFICES ASSUME NEW f \in 1 .. N + 1, f = N + 1 \/ i < frames'[f + 1].base PROVE i < frames'[f].base + FrameSize
      BY <1>9, <3>1 DEF Below
    <3>3. i < top.base + FrameSize BY <1>1, <3>1 DEF Below
    <3>4. CASE f = N + 1 BY <1>1, <1>4, <1>9, <1>10, <3>1, <3>3, <3>4
    <3>5. CASE f = N
      <4>1. N \in 1 .. N BY <1>1
      <4>2. QED BY <1>1, <1>9, <3>3, <3>5, <4>1
    <3>6. CASE f \in 1 .. N - 1
      <4>1. f \in 1 .. N /\ f + 1 \in 1 .. N /\ f # N + 1 /\ f \in 1 .. Len(frames) BY <1>1, <3>6
      <4>2. i < frames[f + 1].base BY <1>9, <3>2, <4>1
      <4>3. QED BY <1>9, <3>1, <4>1, <4>2 DEF Below
    <3>7. QED BY <1>1, <3>4, <3>5, <3>6
  <2>5. QED BY <2>2, <2>3, <2>4 DEF OuterOK
<1>17. VariablesKept' BY <1>3, <1>7, <1>8, <1>15, StayKeeps
<1>19. reserved' => openouters' # <<>> BY <1>3, <1>11 DEF OutersInv
<1>18. QED BY <1>8, <1>13, <1>14, <1>15, <1>16, <1>17, <1>19 DEF OutersInv

LEMMA CaptureInv ==
  ASSUME OutersInv, ~ spoiled', NEW r \in 0 .. Len(top.locals) - 1, Capture(r)
  PROVE OutersInv'
<1>1. /\ N = Len(frames) /\ frames \in Seq(Frame) /\ nvars \in Nat /\ FramesOK(frames, nvars) /\ N \in Nat \ {0} /\ top = frames[N]
      /\ top.base \in Nat /\ Width(top) \in Nat /\ FrameOK(top, nvars) /\ N \in 1 .. N
  BY TopFrame
<1>2. FramesGood /\ Numbers /\ OutersTyped /\ Room /\ ListSorted /\ VariablesKept /\ \A o \in DOMAIN outers : OuterOK(o)
  BY DEF OutersInv
<1>3. r + 1 \in 1 .. Width(top) /\ r \in Nat BY <1>1 DEF Width
<1>4. PICK v : v = top.locals[r + 1] OBVIOUS
<1>5. v \in 1 .. nvars BY <1>1, <1>3, <1>4 DEF FrameOK
<1>6. PICK x : x = top.base + r OBVIOUS
<1>7. x \in Nat /\ STK(r) = x BY <1>1, <1>3, <1>6 DEF STK
<1>8. FindOuter(r) /\ captured' = captured \union {v} /\ UNCHANGED <<frames, nvars, lost, alloc, stacksize, reserved>>
  BY <1>4 DEF Capture
<1>9. alloc \in Nat /\ v \in Nat BY <1>2, <1>5 DEF Numbers
<1> DEFINE new == NewOuter(r)
<1>10. new = [open |-> TRUE, idx |-> x, alloc |-> alloc, var |-> v] BY <1>4, <1>7 DEF NewOuter
<1>11. new \in Outer /\ new.open = TRUE /\ new.idx = x /\ new.alloc = alloc /\ new.var = v
  <2> HIDE DEF new
  <2>1. QED BY <1>7, <1>9, <1>10 DEF Outer
<1> HIDE DEF new
<1>20. ~ Dangling /\ ~ reserved BY <1>8, ScanClean DEF FindOuter
<1>12. OutersTyped' /\ ListSorted' /\ Found(r) BY <1>2, <1>8, <1>11, <1>20, FindOuterFacts DEF new
<1>13. Numbers' /\ Room' /\ FramesGood'
  <2>1. Numbers' BY <1>2, <1>5, <1>8 DEF Numbers
  <2>2. Room' BY <1>2, <1>8 DEF Room, N
  <2>3. FramesGood' BY <1>2, <1>8 DEF FramesGood
  <2>4. QED BY <2>1, <2>2, <2>3
<1>14. /\ \A o \in DOMAIN outers' : (o \in DOMAIN outers /\ outers'[o] = outers[o]) \/ outers'[o] = new
  <2>1. Len(outers) \in Nat /\ DOMAIN outers = 1 .. Len(outers) /\ outers \in Seq(Outer) BY <1>2, OuterTypes DEF OutersTyped
  <2>2. CASE outers' = outers BY <2>2
  <2>3. CASE outers' = Append(outers, new)
    <3> DEFINE n == Len(outers)
    <3>1. n \in Nat /\ DOMAIN outers = 1 .. n /\ DOMAIN outers' = 1 .. n + 1 /\ outers'[n + 1] = new
          /\ \A o \in 1 .. n : outers'[o] = outers[o]
      BY <1>11, <2>1, <2>3
    <3> HIDE DEF n
    <3>2. QED BY <3>1
  <2>4. QED BY <1>12, <2>2, <2>3 DEF Found, new
<1>15. At(frames, v, x) BY <1>1, <1>3, <1>4, <1>6 DEF At
<1>16. Below(frames, x)
  <2>1. SUFFICES ASSUME NEW f \in 1 .. N, f = N \/ x < frames[f + 1].base PROVE x < frames[f].base + FrameSize
    BY <1>1 DEF Below
  <2>2. CASE f = N
    <3>1. Width(top) <= FrameSize BY <1>1 DEF FrameOK
    <3>2. r < FrameSize /\ FrameSize \in Nat BY <1>1, <1>3, <3>1, SizeAssumption
    <3>3. QED BY <1>1, <1>3, <1>6, <2>2, <3>2
  <2>3. CASE f < N
    <3>1. f + 1 \in 1 .. N BY <1>1, <2>3
    <3>2. frames[f + 1].base \in Nat /\ Width(frames[f + 1]) \in Nat BY <1>1, <3>1, Shape
    <3>3. frames[f + 1].base <= top.base
      <4>1. CASE f + 1 = N BY <1>1, <4>1
      <4>2. CASE f + 1 < N
        <5>1. frames[f + 1].base + Width(frames[f + 1]) < frames[N].base BY <1>1, <3>1, <4>2 DEF FramesOK, Apart
        <5>2. QED BY <1>1, <3>2, <5>1
      <4>3. QED BY <1>1, <3>1, <4>1, <4>2
    <3>4. x < frames[f + 1].base BY <1>1, <2>1, <2>3
    <3>5. QED BY <1>1, <1>3, <1>6, <3>2, <3>3, <3>4
  <2>4. QED BY <1>1, <2>2, <2>3
<1>17. ASSUME NEW o \in DOMAIN outers' PROVE OuterOK(o)'
  <2>1. CASE o \in DOMAIN outers /\ outers'[o] = outers[o] BY <1>2, <1>8, <2>1 DEF OuterOK
  <2>2. CASE outers'[o] = new BY <1>8, <1>9, <1>11, <1>16, <1>20, <2>2 DEF OuterOK
  <2>3. QED BY <1>14, <2>1, <2>2
<1>18. VariablesKept'
  <2>1. SUFFICES ASSUME NEW o \in DOMAIN outers', outers'[o].var \notin lost' PROVE KeepsVariable(o)'
    BY DEF VariablesKept
  <2>2. Places /\ frames' = frames BY <1>2, <1>8, PlacesKnown
  <2>3. CASE o \in DOMAIN outers /\ outers'[o] = outers[o]
    <3>1. KeepsVariable(o) BY <1>2, <1>8, <2>1, <2>3 DEF VariablesKept
    <3>2. QED BY <2>2, <2>3, <3>1 DEF KeepsVariable, InScope, IsAt, N
  <2>4. CASE outers'[o] = new
    <3>1. InScope(v) /\ IsAt(v, x) BY <1>7, <1>15, <2>2 DEF Places
    <3>2. InScope(v)' /\ IsAt(v, x)' BY <2>2, <3>1 DEF InScope, IsAt, N
    <3>3. QED BY <1>11, <2>4, <3>2 DEF KeepsVariable
  <2>5. QED BY <1>14, <2>3, <2>4
<1>19. QED BY <1>8, <1>12, <1>13, <1>17, <1>18, <1>20 DEF OutersInv
-----------------------------------------------------------------------------
LEMMA OutersInvInit == Init => OutersInv
<1> SUFFICES ASSUME Init PROVE OutersInv OBVIOUS
<1> DEFINE fr == [base |-> 0, locals |-> <<>>, scopes |-> <<>>]
<1>1. fr \in Frame /\ fr.base = 0 /\ Width(fr) = 0 /\ Depth(fr) = 0 BY DEF Frame, Width, Depth
<1>2. frames = <<fr>> BY DEF Init
<1> HIDE DEF fr
<1>3. frames \in Seq(Frame) /\ Len(frames) = 1 /\ frames[1] = fr BY <1>1, <1>2
<1>4. FrameOK(fr, 0) BY <1>1, SizeAssumption DEF FrameOK
<1>5. \A f \in 1 .. Len(frames) : frames[f] = fr /\ f = 1 BY <1>3
<1>6. nvars = 0 /\ captured = {} /\ lost = {} /\ outers = <<>> /\ openouters = <<>> /\ alloc = 0 /\ stacksize = InitialSize /\ reserved = FALSE
  BY DEF Init
<1>7. FramesGood
  <2>1. Apart(frames) BY <1>5 DEF Apart
  <2>2. OnePlace(frames) BY <1>1, <1>5 DEF OnePlace
  <2>3. QED BY <1>3, <1>4, <1>5, <1>6, <2>1, <2>2 DEF FramesGood, FramesOK
<1>8. Numbers BY <1>6, SizeAssumption DEF Numbers
<1>9. OutersTyped /\ ListSorted
  <2>1. DOMAIN openouters = {} /\ DOMAIN outers = {} BY <1>6
  <2>2. QED BY <1>6, <2>1 DEF OutersTyped, ListSorted, Range
<1>10. Room BY <1>1, <1>5, <1>6, SizeAssumption, RoomAssumption DEF Room, N
<1>11. DOMAIN outers = {} BY <1>6
<1>12. QED BY <1>6, <1>7, <1>8, <1>9, <1>10, <1>11 DEF OutersInv, VariablesKept

LEMMA OutersInvStutter == OutersInv /\ UNCHANGED vars => OutersInv'
<1> SUFFICES ASSUME OutersInv, UNCHANGED vars PROVE OutersInv' OBVIOUS
<1>1. UNCHANGED <<frames, nvars, captured, lost, outers, openouters, alloc, stacksize, reserved>> BY DEF vars
<1>2. FramesGood' /\ Numbers' /\ OutersTyped' /\ Room' /\ ListSorted'
  BY <1>1 DEF OutersInv, FramesGood, Numbers, OutersTyped, Room, ListSorted, N
<1>3. \A o \in DOMAIN outers' : OuterOK(o)' BY <1>1 DEF OutersInv, OuterOK
<1>4. \A x, i : At(frames', x, i) <=> At(frames, x, i) BY <1>1
<1>5. VariablesKept' BY <1>1, <1>2, <1>4, StayKeeps
<1>6. QED BY <1>1, <1>2, <1>3, <1>5 DEF OutersInv

(* sq_reservestack: whatever is open dangles. *)
LEMMA ReserveStackInv ==
  ASSUME OutersInv, ReserveStack
  PROVE OutersInv'
<1>1. /\ FramesGood /\ Numbers /\ OutersTyped /\ Room /\ ListSorted /\ VariablesKept
      /\ \A o \in DOMAIN outers : OuterOK(o)
  BY DEF OutersInv
<1>2. UNCHANGED <<frames, nvars, captured, lost, outers, openouters>> BY DEF ReserveStack
<1>3. alloc' = alloc + 1 /\ reserved' = (openouters # <<>>) BY DEF ReserveStack
<1>4. stacksize' \in Nat /\ stacksize <= stacksize' /\ alloc \in Nat BY <1>1 DEF ReserveStack, Numbers
<1>5. FramesGood' /\ OutersTyped' /\ ListSorted' BY <1>1, <1>2 DEF FramesGood, OutersTyped, ListSorted
<1>6. Numbers' BY <1>1, <1>2, <1>3, <1>4 DEF Numbers
<1>7. Room'
  <2>1. SUFFICES ASSUME NEW f \in 1 .. N PROVE frames[f].base + FrameSize <= stacksize'
    BY <1>2 DEF Room, N
  <2>2. frames[f].base + FrameSize <= stacksize /\ stacksize \in Nat BY <1>1 DEF Room, Numbers
  <2>3. frames[f].base \in Nat /\ FrameSize \in Nat BY <1>1, Shape, SizeAssumption DEF FramesGood, FramesOK, N
  <2>4. QED BY <1>4, <2>2, <2>3
<1>8. ASSUME NEW o \in DOMAIN outers PROVE OuterOK(o)'
  <2>1. OuterOK(o) /\ outers[o].alloc \in Nat BY <1>1, OuterTypes
  <2>2. ASSUME outers[o].open PROVE outers[o].alloc <= alloc' /\ outers[o].alloc # alloc' /\ reserved'
    <3>1. outers[o].alloc <= alloc BY <2>1, <2>2 DEF OuterOK
    <3>2. openouters # <<>>
      <4>1. o \in Range(openouters) BY <1>1, <2>2 DEF ListSorted
      <4>2. QED BY <4>1 DEF Range
    <3>3. reserved' BY <1>3, <3>2, Zenon
    <3>4. QED BY <1>3, <1>4, <2>1, <3>1, <3>3
  <2>3. QED BY <1>2, <2>1, <2>2 DEF OuterOK
<1>9. \A x, i : At(frames', x, i) <=> At(frames, x, i) BY <1>2
<1>10. VariablesKept' BY <1>2, <1>5, <1>9, StayKeeps
<1>11. QED BY <1>2, <1>3, <1>5, <1>6, <1>7, <1>8, <1>10 DEF OutersInv

LEMMA OutersInvNext == OutersInv /\ ~ spoiled' /\ [Step \/ Break \/ Throw \/ ReserveStack]_vars => OutersInv'
<1> SUFFICES ASSUME OutersInv, ~ spoiled', [Step \/ Break \/ Throw \/ ReserveStack]_vars PROVE OutersInv' OBVIOUS
<1>1. CASE Call BY <1>1, CallInv
<1>2. CASE Return BY <1>2, ReturnInv
<1>3. CASE TailCall BY <1>3, TailCallInv
<1>4. CASE Declare BY <1>4, DeclareInv
<1>5. CASE EndScope BY <1>5, EndScopeInv
<1>6. CASE \E r \in 0 .. Len(top.locals) - 1 : Capture(r) BY <1>6, CaptureInv
<1>7. CASE \E kind \in {"block", "loop", "try"} : BeginScope(kind) BY <1>7, BeginScopeInv
<1>8. CASE Break BY <1>8, BreakInv
<1>9. CASE Throw
  <2>1. PICK f \in 1 .. N : \E k \in DOMAIN frames[f].scopes : Catch(f, k) BY <1>9 DEF Throw
  <2>2. QED BY <2>1, CatchInv
<1>12. CASE ReserveStack BY <1>12, ReserveStackInv
<1>10. CASE UNCHANGED vars BY <1>10, OutersInvStutter
<1>11. QED BY <1>1, <1>2, <1>3, <1>4, <1>5, <1>6, <1>7, <1>8, <1>9, <1>10, <1>12 DEF Step

(* A program that has used a freed pointer stays spoiled. *)
LEMMA SpoiledStays == spoiled /\ [Step \/ Break \/ Throw \/ ReserveStack]_vars => spoiled'
<1> SUFFICES ASSUME spoiled, [Step \/ Break \/ Throw \/ ReserveStack]_vars PROVE spoiled' OBVIOUS
<1>1. CASE Scan BY <1>1 DEF Scan
<1>2. CASE spoiled' = spoiled BY <1>2
<1>3. CASE Call \/ Declare \/ (\E kind \in {"block", "loop", "try"} : BeginScope(kind)) \/ ReserveStack \/ UNCHANGED vars
  BY <1>2, <1>3 DEF Call, Declare, BeginScope, ReserveStack, vars
<1>4. CASE Return \/ TailCall BY <1>1, <1>4 DEF Return, TailCall, CloseOuters
<1>5. CASE \E r \in 0 .. Len(top.locals) - 1 : Capture(r) BY <1>1, <1>5 DEF Capture, FindOuter
<1>6. CASE EndScope \/ Break
  <2>1. ASSUME NEW start, CloseScope(start) PROVE spoiled' BY <1>1, <1>2, <2>1 DEF CloseScope, CloseOuters
  <2>2. QED BY <1>6, <2>1 DEF EndScope, Break
<1>7. CASE Throw
  <2>1. PICK f \in 1 .. N : \E k \in DOMAIN frames[f].scopes : Catch(f, k) BY <1>7 DEF Throw
  <2>2. QED BY <1>1, <1>2, <2>1 DEF Catch, CloseOuters
<1>8. QED BY <1>3, <1>4, <1>5, <1>6, <1>7 DEF Step

LEMMA OutersInvAlways == Spec => [](~ spoiled => OutersInv)
BY OutersInvInit, OutersInvNext, SpoiledStays, PTL DEF Spec

(* Whatever functions, scopes, breaks and errors do, _openouters holds the  *)
(* open outers, each once and in descending order of the stack, so that    *)
(* FindOuter and CloseOuters may stop at the first one below; until they    *)
(* compare a pointer that sq_reservestack has left in a freed array.       *)
THEOREM OpenListAlwaysSorted == Spec => []OpenListSorted
<1>1. (~ spoiled => OutersInv) => OpenListSorted BY DEF OutersInv, OpenListSorted
<1>2. QED BY <1>1, OutersInvAlways, PTL

(* The _valptr of an open outer is below the end of the running function's *)
(* registers, for stacks and functions of any size, and it points into the *)
(* array that the stack has now exactly if sq_reservestack has not moved   *)
(* the stack since a frame last made it grow.                              *)
THEOREM PointersAlwaysValid == Spec => []PointersValid
<1>1. (~ spoiled => OutersInv) => PointersValid
  <2> SUFFICES ASSUME OutersInv, NEW o \in DOMAIN outers, outers[o].open
               PROVE /\ outers[o].alloc = alloc <=> ~ reserved
                     /\ outers[o].idx < top.base + FrameSize /\ outers[o].idx < stacksize
    BY DEF PointersValid
  <2>1. N \in 1 .. N /\ N = Len(frames) /\ top = frames[N] /\ top.base \in Nat BY TopFrame
  <2>2. OuterOK(o) /\ Room /\ Numbers /\ OutersTyped BY DEF OutersInv
  <2>3. (outers[o].alloc = alloc <=> ~ reserved) /\ outers[o].idx < top.base + FrameSize BY <2>1, <2>2 DEF OuterOK, Below
  <2>4. top.base + FrameSize <= stacksize /\ stacksize \in Nat BY <2>1, <2>2 DEF Room, Numbers
  <2>5. outers[o].idx \in Nat BY <2>2, OuterTypes
  <2>6. QED BY <2>1, <2>3, <2>4, <2>5, SizeAssumption
<1>2. QED BY <1>1, OutersInvAlways, PTL

(* A closure sees its own variable, unless a break or a caught error has   *)
(* left that variable open or a freed pointer has been used: its outer is  *)
(* open and at the place of the variable while that is in scope, and       *)
(* closed afterwards.                                                      *)
THEOREM OuterAlwaysKeepsVariable == Spec => []OuterKeepsVariable
<1>1. (~ spoiled => OutersInv) => OuterKeepsVariable BY DEF OutersInv, OuterKeepsVariable
<1>2. QED BY <1>1, OutersInvAlways, PTL
=============================================================================

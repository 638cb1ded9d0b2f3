----------------------------- MODULE SQVMProofs -----------------------------
(***************************************************************************)
(* Proofs about SQVM for every number of generators, frames, nested calls  *)
(* and try blocks: the three stacks of the VM, what is counted twice and   *)
(* what a generator takes with it stay in step on every path.              *)
(*                                                                         *)
(* Every step works on the last frame and the last activation, so that     *)
(* each part of the invariant is a relation between stacks that holds with *)
(* one element more exactly when it holds without and the new element fits *)
(* (the lemmas *Snoc).                                                     *)
(***************************************************************************)
EXTENDS SQVM, SequenceTheorems, WellFoundedInduction, TLAPS

ClosureFrames ==
  [kind : {"closure"}, gen : Gen \cup {NoGen}, etraps : Nat, root : BOOLEAN, prevstkbase : Int, prevtop : Nat]
NativeFrames ==
  [kind : {"native"}, gen : {NoGen}, etraps : {0}, root : {FALSE}, prevstkbase : Int, prevtop : Nat]
FrameSet == ClosureFrames \cup NativeFrames
TrapSet == [stackbase : Int, stacksize : Int]
ExecSet == [kind : {"exec"}, how : {"call", "meta", "resume", "wake"}, traps : Int, raiseerror : BOOLEAN]
NativeSet == [kind : {"native"}, how : {"op", "meta", "call"}]
SleepSet == [kind : {"exec"}, how : {"wake"}, traps : Int]
CallSet == ExecSet \cup NativeSet
ActSet == CallSet \cup SleepSet
By == {"script", "host"}
AwakeSet == [state : {"none", "running", "dead"}, by : By]
SleepingSet == [state : {"suspended"}, size : Nat, etraps : Nat, root : BOOLEAN, traps : Seq(TrapSet), by : By]
GenSet == AwakeSet \cup SleepingSet

Types ==
  /\ callsstack \in Seq(FrameSet) /\ etraps \in Seq(TrapSet) /\ cstack \in Seq(CallSet)
  /\ stackbase \in Int /\ top \in Int /\ top >= stackbase
  /\ nnativecalls \in Int /\ nmetamethodscall \in Int
  /\ suspended \in BOOLEAN /\ suspendedRoot \in BOOLEAN /\ suspendedTraps \in Int
  /\ mode \in {"run", "unwind"} /\ reported \in BOOLEAN
  /\ gens \in [Gen -> GenSet]

(* Each frame is of an activation, a frame of a native of that of a native, *)
(* and the first one of an activation that pops its arguments lies above   *)
(* them.                                                                   *)
Nested(fs, acts) ==
  /\ ActivationOf(fs, Len(fs)) = Len(acts)
  /\ \A i \in 1 .. Len(fs) :
       LET k == ActivationOf(fs, i)
       IN /\ k \in 1 .. Len(acts)
          /\ fs[i].kind = "native" <=> acts[k].kind = "native"
          /\ IsEntry(fs[i]) /\ acts[k].how # "op" => fs[i].prevtop >= 1

(* Of a trap: it restores the base b and a top above it. *)
TrapAt(t, b) == t.stackbase = b /\ t.stacksize >= b

TrapsMatch(fs, tr, base) ==
  /\ Len(tr) = TrapsUpTo(fs, Len(fs)) /\ base = BaseOf(fs, Len(fs))
  /\ \A i \in 1 .. Len(fs) :
       \A t \in TrapsUpTo(fs, i - 1) + 1 .. TrapsUpTo(fs, i) : TrapAt(tr[t], BaseOf(fs, i))

Counted(fs, acts) == \A k \in 1 .. Len(acts) : acts[k].kind = "exec" => acts[k].traps = TrapsOf(fs, k)

(* The three stacks of the VM fit; acts is Activations. *)
Asleep(s) == IF s THEN 1 ELSE 0
Acts(s, t, cs) == (IF s THEN <<[kind |-> "exec", how |-> "wake", traps |-> t]>> ELSE <<>>) \o cs
Fit(fs, acts, tr, base) == Nested(fs, acts) /\ TrapsMatch(fs, tr, base) /\ Counted(fs, acts)

(* Whoever calls what: instructions are executed by an Execute, and one    *)
(* that was woken up was called by the host.                               *)
Follows(a, below) ==
  /\ a.how \in {"op", "meta"} => below # <<>> /\ Last(below).kind = "exec"
  /\ a.how = "wake" => below = <<>>
CallsFollow(cs) == \A k \in 1 .. Len(cs) : Follows(cs[k], SubSeq(cs, 1, k - 1))
MetaCalls(cs) == SumTo([k \in DOMAIN cs |-> IF cs[k].how = "meta" THEN 1 ELSE 0], Len(cs))
CallsCounted ==
  CallsFollow(cstack) /\ nnativecalls = Len(cstack) /\ nmetamethodscall = MetaCalls(cstack)

(* While the VM is suspended, the frame that will go on keeps its _root. *)
SleepsAt(fs, root) ==
  \E p \in 1 .. Len(fs) :
    /\ ActivationOf(fs, p) = 1 /\ fs[p].root = root
    /\ \A i \in p + 1 .. Len(fs) : ActivationOf(fs, i) >= 2
Sleeping ==
  suspended => SleepsAt(callsstack, suspendedRoot) /\ (cstack # <<>> => Head(cstack).how # "wake")

(* What runs generators, and what those that do not run keep. *)
Runs(fs, g) == {i \in 1 .. Len(fs) : fs[i].gen = g}
Owned(fs, g, st) ==
  /\ IF st.state = "running" THEN \E i \in 1 .. Len(fs) : Runs(fs, g) = {i} ELSE Runs(fs, g) = {}
  /\ \A i \in Runs(fs, g) : fs[i].kind = "closure" /\ (st.by = "script" => ~fs[i].root)
Kept(st) ==
  st.state = "suspended" =>
    /\ Len(st.traps) = st.etraps
    /\ \A t \in 1 .. st.etraps : TrapAt(st.traps[t], 0)
    /\ st.by = "script" => ~st.root
Generators == \A g \in Gen : Owned(callsstack, g, gens[g]) /\ Kept(gens[g])

(* The host gets its stack back. *)
ScriptsOnly == \A g \in Gen : gens[g].by = "script"
HostStack ==
  ScriptsOnly /\ ~suspended =>
    IF cstack = <<>> THEN top = 0
    ELSE Head(cstack).how # "wake" => Head(cstack).how # "resume" /\ Head(callsstack).prevtop = 1

Handler ==
  mode = "unwind" =>
    /\ cstack # <<>> /\ act.kind = "exec"
    /\ reported <=> act.raiseerror /\ act.traps = 0

Stacks ==
  /\ Fit(callsstack, Acts(suspended, suspendedTraps, cstack), etraps, stackbase)
  /\ CallsCounted /\ Sleeping

VMInv == Types /\ Stacks /\ Generators /\ HostStack /\ Handler
-----------------------------------------------------------------------------
(* Induction on numbers, with the set of those for which something holds. *)
LEMMA NatLess ==
  \E R : IsWellFoundedOn(R, Nat) /\ \A x, y \in Nat : y < x => <<y, x>> \in R
<1>1. \A x, y \in Nat : y < x => <<y, x>> \in OpToRel(<, Nat)
  BY Zenon DEF OpToRel
<1> QED
  BY <1>1, NatLessThanWellFounded, Zenon

LEMMA NatMin ==
  ASSUME NEW T \in SUBSET Nat, T # {}
  PROVE \E x \in T : \A y \in T : x <= y
<1>1. PICK R : IsWellFoundedOn(R, Nat) /\ \A x, y \in Nat : y < x => <<y, x>> \in R
  BY NatLess
<1>2. \E x \in T : \A y \in T : ~(<<y, x>> \in R)
  BY <1>1, WFMin, Zenon
<1>3. \A x, y \in Nat : y < x => <<y, x>> \in R
  BY <1>1
<1>4. \E x \in T : \A y \in T : ~(y < x)
  BY <1>2, <1>3, Zenon
<1> QED
  BY <1>4

LEMMA NatInd ==
  ASSUME NEW S, 0 \in S, \A n \in Nat : n \in S => n + 1 \in S
  PROVE Nat \subseteq S
<1>1. SUFFICES ASSUME Nat \ S # {} PROVE FALSE
  OBVIOUS
<1>2. PICK m \in Nat \ S : \A y \in Nat \ S : m <= y
  BY <1>1, NatMin
<1>3. m # 0 /\ m - 1 \in Nat /\ m - 1 \in S
  BY <1>2
<1> QED
  BY <1>2, <1>3

(* Sums, as functions of how many numbers have been added. *)
IsSum(u, s, n) == u = [k \in 0 .. n |-> IF k = 0 THEN 0 ELSE u[k - 1] + s[k]]

LEMMA SumExists ==
  ASSUME NEW s, NEW n \in Nat
  PROVE \E u : IsSum(u, s, n)
<1> DEFINE S == {m \in Nat : \E u : IsSum(u, s, m)}
<1>1. 0 \in S
  <2> DEFINE u == [k \in 0 .. 0 |-> 0]
  <2>1. IsSum(u, s, 0)
    BY DEF IsSum
  <2> QED
    BY <2>1
<1>2. ASSUME NEW m \in Nat, m \in S
      PROVE m + 1 \in S
  <2>1. PICK u : IsSum(u, s, m)
    BY <1>2
  <2> DEFINE x == u[m] + s[m + 1]
             v == [k \in 0 .. m + 1 |-> IF k = m + 1 THEN x ELSE u[k]]
  <2>2. v[m + 1] = x /\ \A k \in 0 .. m : v[k] = u[k]
    OBVIOUS
  <2>3. v = [k \in 0 .. m + 1 |-> v[k]]
    OBVIOUS
  <2>4. x = u[m] + s[m + 1]
    OBVIOUS
  <2> HIDE DEF v, x
  <2>5. \A k \in 0 .. m : u[k] = IF k = 0 THEN 0 ELSE u[k - 1] + s[k]
    BY <2>1 DEF IsSum
  <2>6. ASSUME NEW k \in 0 .. m + 1
        PROVE v[k] = IF k = 0 THEN 0 ELSE v[k - 1] + s[k]
    <3>1. CASE k = m + 1
      <4>1. k - 1 = m /\ m \in 0 .. m /\ k # 0
        BY <3>1
      <4> QED
        BY <2>2, <2>4, <3>1, <4>1
    <3>2. CASE k # m + 1
      <4>1. k \in 0 .. m /\ (k # 0 => k - 1 \in 0 .. m)
        BY <3>2
      <4> QED
        BY <2>2, <2>5, <4>1
    <3> QED
      BY <3>1, <3>2
  <2>7. IsSum(v, s, m + 1)
    BY <2>3, <2>6 DEF IsSum
  <2> QED
    BY <2>7
<1>3. Nat \subseteq S
  <2> HIDE DEF S
  <2> QED
    BY <1>1, <1>2, NatInd
<1> QED
  BY <1>3

(* Numbers that begin alike have the same sum so far. *)
Agree(s, t, k) == \A i \in 1 .. k : s[i] = t[i]

LEMMA SumsAgree ==
  ASSUME NEW s, NEW t, NEW m \in Nat, NEW n \in Nat, NEW u, NEW v, IsSum(u, s, m), IsSum(v, t, n),
         NEW k \in Nat, k <= m, k <= n, Agree(s, t, k)
  PROVE u[k] = v[k]
<1> DEFINE S == {j \in Nat : j <= k => u[j] = v[j]}
<1>1. 0 \in S
  <2>1. 0 \in 0 .. m /\ 0 \in 0 .. n
    OBVIOUS
  <2> QED
    BY <2>1 DEF IsSum
<1>2. ASSUME NEW j \in Nat, j \in S
      PROVE j + 1 \in S
  <2>1. SUFFICES ASSUME j + 1 <= k PROVE u[j + 1] = v[j + 1]
    OBVIOUS
  <2>2. j + 1 \in 1 .. k /\ j + 1 \in 0 .. m /\ j + 1 \in 0 .. n /\ (j + 1) - 1 = j /\ j + 1 # 0 /\ j <= k
    BY <2>1
  <2>3. u[j + 1] = u[j] + s[j + 1] /\ v[j + 1] = v[j] + t[j + 1]
    BY <2>2 DEF IsSum
  <2>4. s[j + 1] = t[j + 1]
    BY <2>2 DEF Agree
  <2> QED
    BY <1>2, <2>2, <2>3, <2>4
<1>3. Nat \subseteq S
  <2> HIDE DEF S
  <2> QED
    BY <1>1, <1>2, NatInd
<1> QED
  BY <1>3

LEMMA SumIs ==
  ASSUME NEW s, NEW n \in Nat
  PROVE \E u : IsSum(u, s, n) /\ SumTo(s, n) = u[n]
<1> DEFINE U == CHOOSE u : IsSum(u, s, n)
<1>1. IsSum(U, s, n)
  BY SumExists
<1>2. SumTo(s, n) = U[n]
  BY DEF SumTo, IsSum
<1> QED
  BY <1>1, <1>2

LEMMA SumSame ==
  ASSUME NEW s, NEW t, NEW n \in Nat, \A i \in 1 .. n : s[i] = t[i]
  PROVE SumTo(s, n) = SumTo(t, n)
<1>1. PICK u : IsSum(u, s, n) /\ SumTo(s, n) = u[n]
  BY SumIs
<1>2. PICK v : IsSum(v, t, n) /\ SumTo(t, n) = v[n]
  BY SumIs
<1>3. n <= n /\ Agree(s, t, n)
  BY DEF Agree
<1>4. u[n] = v[n]
  BY <1>1, <1>2, <1>3, SumsAgree
<1> QED
  BY <1>1, <1>2, <1>4

LEMMA SumNone ==
  ASSUME NEW s
  PROVE SumTo(s, 0) = 0
<1>1. PICK u : IsSum(u, s, 0) /\ SumTo(s, 0) = u[0]
  BY SumIs
<1>2. 0 \in 0 .. 0
  OBVIOUS
<1> QED
  BY <1>1, <1>2 DEF IsSum

LEMMA SumNext ==
  ASSUME NEW s, NEW n \in Nat
  PROVE SumTo(s, n + 1) = SumTo(s, n) + s[n + 1]
<1>1. PICK u : IsSum(u, s, n) /\ SumTo(s, n) = u[n]
  BY SumIs
<1>2. PICK v : IsSum(v, s, n + 1) /\ SumTo(s, n + 1) = v[n + 1]
  BY SumIs
<1>3. u[n] = v[n]
  <2>1. n <= n /\ n <= n + 1 /\ n + 1 \in Nat /\ Agree(s, s, n)
    BY DEF Agree
  <2> QED
    BY <1>1, <1>2, <2>1, SumsAgree
<1>4. n + 1 \in 0 .. n + 1 /\ n + 1 # 0 /\ (n + 1) - 1 = n
  OBVIOUS
<1> QED
  BY <1>1, <1>2, <1>3, <1>4 DEF IsSum

(* The sum of integers is one, of natural numbers too, and of zeros zero. *)
LEMMA SumType ==
  ASSUME NEW T, 0 \in T, \A x, y \in T : x + y \in T, NEW s, NEW n \in Nat, \A i \in 1 .. n : s[i] \in T
  PROVE SumTo(s, n) \in T
<1> DEFINE S == {j \in Nat : j <= n => SumTo(s, j) \in T}
<1>1. 0 \in S
  BY SumNone
<1>2. ASSUME NEW j \in Nat, j \in S
      PROVE j + 1 \in S
  <2>1. SUFFICES ASSUME j + 1 <= n PROVE SumTo(s, j + 1) \in T
    OBVIOUS
  <2>2. SumTo(s, j) \in T /\ s[j + 1] \in T
    BY <1>2, <2>1
  <2> QED
    BY <2>2, SumNext
<1>3. Nat \subseteq S
  <2> HIDE DEF S
  <2> QED
    BY <1>1, <1>2, NatInd
<1> QED
  BY <1>3

LEMMA SumZeros ==
  ASSUME NEW s, NEW n \in Nat, \A i \in 1 .. n : s[i] = 0
  PROVE SumTo(s, n) = 0
<1>1. \A x, y \in {0} : x + y \in {0}
  OBVIOUS
<1>2. \A i \in 1 .. n : s[i] \in {0}
  OBVIOUS
<1>3. SumTo(s, n) \in {0}
  BY <1>1, <1>2, SumType
<1> QED
  BY <1>3

(* One number more. *)
LEMMA SumAppend ==
  ASSUME NEW s, NEW t, NEW n \in Nat, Agree(s, t, n)
  PROVE /\ \A i \in 0 .. n : SumTo(t, i) = SumTo(s, i)
        /\ SumTo(t, n + 1) = SumTo(s, n) + t[n + 1]
<1>1. ASSUME NEW i \in 0 .. n
      PROVE SumTo(t, i) = SumTo(s, i)
  <2>1. i \in Nat /\ \A k \in 1 .. i : t[k] = s[k]
    BY DEF Agree
  <2> QED
    BY <2>1, SumSame
<1>2. SumTo(t, n + 1) = SumTo(t, n) + t[n + 1]
  BY SumNext
<1> QED
  BY <1>1, <1>2

LEMMA SumMono ==
  ASSUME NEW s, NEW n \in Nat, \A j \in 1 .. n : s[j] \in Nat, NEW i \in 0 .. n
  PROVE SumTo(s, i) <= SumTo(s, n)
<1> DEFINE S == {d \in Nat : d <= n => SumTo(s, n - d) <= SumTo(s, n)}
<1>1. \A j \in 0 .. n : SumTo(s, j) \in Nat
  <2>1. 0 \in Nat /\ \A x, y \in Nat : x + y \in Nat
    OBVIOUS
  <2>2. ASSUME NEW j \in 0 .. n
        PROVE SumTo(s, j) \in Nat
    <3>1. j \in Nat /\ \A k \in 1 .. j : s[k] \in Nat
      OBVIOUS
    <3> QED
      BY <2>1, <3>1, SumType
  <2> QED
    BY <2>2
<1>2. 0 \in S
  <2>1. n - 0 = n /\ n \in 0 .. n
    OBVIOUS
  <2> QED
    BY <1>1, <2>1
<1>3. ASSUME NEW d \in Nat, d \in S
      PROVE d + 1 \in S
  <2>1. SUFFICES ASSUME d + 1 <= n PROVE SumTo(s, n - (d + 1)) <= SumTo(s, n)
    OBVIOUS
  <2>2. PICK m \in Nat : m = n - (d + 1) /\ m + 1 = n - d /\ m + 1 \in 1 .. n /\ m \in 0 .. n /\ m + 1 \in 0 .. n
    BY <2>1
  <2>3. SumTo(s, m + 1) = SumTo(s, m) + s[m + 1] /\ s[m + 1] \in Nat
    BY <2>2, SumNext
  <2>4. SumTo(s, m + 1) <= SumTo(s, n)
    BY <1>3, <2>1, <2>2
  <2>5. n \in 0 .. n
    OBVIOUS
  <2> QED
    BY <1>1, <2>2, <2>3, <2>4, <2>5
<1>4. Nat \subseteq S
  <2> HIDE DEF S
  <2> QED
    BY <1>2, <1>3, NatInd
<1>5. n - i \in Nat /\ n - i <= n /\ n - (n - i) = i
  OBVIOUS
<1>6. n - i \in S
  BY <1>4, <1>5
<1> QED
  BY <1>5, <1>6
-----------------------------------------------------------------------------
(* The sums over frames. *)
LEMMA FrameType ==
  ASSUME NEW f \in FrameSet
  PROVE /\ f.prevstkbase \in Int /\ f.etraps \in Nat /\ f.prevtop \in Nat
        /\ f.kind \in {"closure", "native"} /\ f.root \in BOOLEAN /\ f.gen \in Gen \cup {NoGen}
        /\ f.kind = "native" => f.etraps = 0 /\ f.root = FALSE /\ f.gen = NoGen
<1>1. CASE f \in ClosureFrames
  BY <1>1 DEF ClosureFrames
<1>2. CASE f \in NativeFrames
  <2>1. f.etraps = 0 /\ f.root = FALSE /\ f.gen = NoGen
    BY <1>2 DEF NativeFrames
  <2>2. f.prevstkbase \in Int /\ f.prevtop \in Nat /\ f.kind = "native"
    BY <1>2 DEF NativeFrames
  <2>3. f.etraps \in Nat /\ f.gen \in Gen \cup {NoGen}
    BY <2>1
  <2>4. f.root \in BOOLEAN
    BY <2>1, Zenon
  <2> QED
    BY <2>1, <2>2, <2>3, <2>4
<1> QED
  BY <1>1, <1>2 DEF FrameSet

LEMMA FrameTypes ==
  ASSUME NEW fs \in Seq(FrameSet), NEW i \in 1 .. Len(fs)
  PROVE /\ fs[i] \in FrameSet /\ fs[i].prevstkbase \in Int /\ fs[i].etraps \in Nat /\ fs[i].prevtop \in Nat
<1>1. fs[i] \in FrameSet
  OBVIOUS
<1> QED
  BY <1>1, FrameType

LEMMA FrameSums ==
  ASSUME NEW fs \in Seq(FrameSet), NEW i \in 0 .. Len(fs)
  PROVE ActivationOf(fs, i) \in Nat /\ TrapsUpTo(fs, i) \in Nat /\ BaseOf(fs, i) \in Int
<1>1. \A j \in 1 .. Len(fs) : fs[j].prevstkbase \in Int /\ fs[j].etraps \in Nat
  BY FrameTypes
<1> DEFINE a == [j \in DOMAIN fs |-> IF IsEntry(fs[j]) THEN 1 ELSE 0]
           b == [j \in DOMAIN fs |-> fs[j].prevstkbase]
           e == [j \in DOMAIN fs |-> fs[j].etraps]
<1>2. i \in Nat /\ \A j \in 1 .. i : a[j] \in Nat /\ b[j] \in Int /\ e[j] \in Nat
  BY <1>1
<1>3. 0 \in Nat /\ 0 \in Int /\ (\A x, y \in Nat : x + y \in Nat) /\ \A x, y \in Int : x + y \in Int
  OBVIOUS
<1> HIDE DEF a, b, e
<1>4. SumTo(a, i) \in Nat
  BY <1>2, <1>3, SumType
<1>5. SumTo(e, i) \in Nat
  BY <1>2, <1>3, SumType
<1>6. SumTo(b, i) \in Int
  BY <1>2, <1>3, SumType
<1> QED
  BY <1>4, <1>5, <1>6 DEF a, b, e, ActivationOf, TrapsUpTo, BaseOf

LEMMA NoFrames ==
  ActivationOf(<<>>, 0) = 0 /\ TrapsUpTo(<<>>, 0) = 0 /\ BaseOf(<<>>, 0) = 0
BY SumNone DEF ActivationOf, TrapsUpTo, BaseOf

LEMMA FirstFrame ==
  ASSUME NEW fs
  PROVE ActivationOf(fs, 0) = 0 /\ TrapsUpTo(fs, 0) = 0 /\ BaseOf(fs, 0) = 0
BY SumNone DEF ActivationOf, TrapsUpTo, BaseOf

LEMMA RankSnoc ==
  ASSUME NEW fs \in Seq(FrameSet), NEW f \in FrameSet, NEW hs, hs = Append(fs, f)
  PROVE /\ \A i \in 0 .. Len(fs) : ActivationOf(hs, i) = ActivationOf(fs, i)
        /\ IsEntry(f) => ActivationOf(hs, Len(fs) + 1) = ActivationOf(fs, Len(fs)) + 1
        /\ ~IsEntry(f) => ActivationOf(hs, Len(fs) + 1) = ActivationOf(fs, Len(fs))
<1> DEFINE s == [j \in DOMAIN fs |-> IF IsEntry(fs[j]) THEN 1 ELSE 0]
           t == [j \in DOMAIN hs |-> IF IsEntry(hs[j]) THEN 1 ELSE 0]
<1>1. Len(hs) = Len(fs) + 1 /\ Len(fs) \in Nat /\ hs[Len(fs) + 1] = f /\ DOMAIN fs = 1 .. Len(fs)
      /\ DOMAIN hs = 1 .. Len(fs) + 1 /\ \A i \in 1 .. Len(fs) : hs[i] = fs[i]
  OBVIOUS
<1>2. Agree(s, t, Len(fs))
  BY <1>1 DEF Agree
<1>3. t[Len(fs) + 1] = IF IsEntry(f) THEN 1 ELSE 0
  BY <1>1
<1> HIDE DEF s, t
<1>4. /\ \A i \in 0 .. Len(fs) : SumTo(t, i) = SumTo(s, i)
      /\ SumTo(t, Len(fs) + 1) = SumTo(s, Len(fs)) + t[Len(fs) + 1]
  BY <1>1, <1>2, SumAppend
<1>5. \A i \in 0 .. Len(fs) + 1 : ActivationOf(hs, i) = SumTo(t, i)
  BY DEF t, ActivationOf
<1>6. Len(fs) \in 0 .. Len(fs) /\ Len(fs) + 1 \in 0 .. Len(fs) + 1
  BY <1>1
<1>7. \A i \in 0 .. Len(fs) : ActivationOf(fs, i) = SumTo(s, i)
  BY DEF s, ActivationOf
<1>8. ActivationOf(fs, Len(fs)) \in Nat
  BY <1>6, FrameSums
<1>9. /\ IsEntry(f) => ActivationOf(hs, Len(fs) + 1) = ActivationOf(fs, Len(fs)) + 1
      /\ ~IsEntry(f) => ActivationOf(hs, Len(fs) + 1) = ActivationOf(fs, Len(fs))
  BY <1>3, <1>4, <1>5, <1>6, <1>7, <1>8
<1>10. \A i \in 0 .. Len(fs) : ActivationOf(hs, i) = ActivationOf(fs, i)
  BY <1>1, <1>4, <1>5, <1>7
<1> QED
  BY <1>9, <1>10

LEMMA BaseSnoc ==
  ASSUME NEW fs \in Seq(FrameSet), NEW f \in FrameSet, NEW hs, hs = Append(fs, f)
  PROVE /\ \A i \in 0 .. Len(fs) : BaseOf(hs, i) = BaseOf(fs, i) /\ TrapsUpTo(hs, i) = TrapsUpTo(fs, i)
        /\ BaseOf(hs, Len(fs) + 1) = BaseOf(fs, Len(fs)) + f.prevstkbase
        /\ TrapsUpTo(hs, Len(fs) + 1) = TrapsUpTo(fs, Len(fs)) + f.etraps
<1> DEFINE b == [j \in DOMAIN fs |-> fs[j].prevstkbase]
           c == [j \in DOMAIN hs |-> hs[j].prevstkbase]
           d == [j \in DOMAIN fs |-> fs[j].etraps]
           e == [j \in DOMAIN hs |-> hs[j].etraps]
<1>1. Len(hs) = Len(fs) + 1 /\ Len(fs) \in Nat /\ hs[Len(fs) + 1] = f /\ DOMAIN fs = 1 .. Len(fs)
      /\ DOMAIN hs = 1 .. Len(fs) + 1 /\ \A i \in 1 .. Len(fs) : hs[i] = fs[i]
  OBVIOUS
<1>2. Agree(b, c, Len(fs)) /\ Agree(d, e, Len(fs))
  BY <1>1 DEF Agree
<1>3. c[Len(fs) + 1] = f.prevstkbase /\ e[Len(fs) + 1] = f.etraps
  BY <1>1
<1> HIDE DEF b, c, d, e
<1>4. /\ \A i \in 0 .. Len(fs) : SumTo(c, i) = SumTo(b, i)
      /\ SumTo(c, Len(fs) + 1) = SumTo(b, Len(fs)) + c[Len(fs) + 1]
  BY <1>1, <1>2, SumAppend
<1>5. /\ \A i \in 0 .. Len(fs) : SumTo(e, i) = SumTo(d, i)
      /\ SumTo(e, Len(fs) + 1) = SumTo(d, Len(fs)) + e[Len(fs) + 1]
  BY <1>1, <1>2, SumAppend
<1> QED
  BY <1>1, <1>3, <1>4, <1>5 DEF b, c, d, e, BaseOf, TrapsUpTo

LEMMA TrapsOfNat ==
  ASSUME NEW fs \in Seq(FrameSet), NEW k
  PROVE /\ TrapsOf(fs, k) \in Nat
        /\ (\A i \in 1 .. Len(fs) : ActivationOf(fs, i) # k) => TrapsOf(fs, k) = 0
<1> DEFINE d == [j \in DOMAIN fs |-> IF ActivationOf(fs, j) = k THEN fs[j].etraps ELSE 0]
<1> DEFINE n == Len(fs)
<1>0. n \in Nat /\ \A j \in 1 .. n : fs[j].etraps \in Nat
  BY FrameTypes
<1>1. Len(fs) \in Nat /\ \A j \in 1 .. Len(fs) : d[j] \in Nat
  BY <1>0
<1>2. 0 \in Nat /\ \A x, y \in Nat : x + y \in Nat
  OBVIOUS
<1>3. (\A i \in 1 .. Len(fs) : ActivationOf(fs, i) # k) => \A i \in 1 .. Len(fs) : d[i] = 0
  OBVIOUS
<1> HIDE DEF d
<1>4. SumTo(d, Len(fs)) \in Nat
  BY <1>1, <1>2, SumType
<1>5. (\A i \in 1 .. Len(fs) : d[i] = 0) => SumTo(d, Len(fs)) = 0
  BY <1>1, SumZeros
<1> QED
  BY <1>3, <1>4, <1>5 DEF d, TrapsOf

(* The traps that a frame of activation a adds to those of activation k. *)
Adds(f, a, k) == IF a = k THEN f.etraps ELSE 0

LEMMA TrapsOfSnoc ==
  ASSUME NEW fs \in Seq(FrameSet), NEW f \in FrameSet, NEW hs, hs = Append(fs, f), NEW k
  PROVE TrapsOf(hs, k) = TrapsOf(fs, k) + Adds(f, ActivationOf(hs, Len(fs) + 1), k)
<1> DEFINE d == [j \in DOMAIN fs |-> IF ActivationOf(fs, j) = k THEN fs[j].etraps ELSE 0]
           e == [j \in DOMAIN hs |-> IF ActivationOf(hs, j) = k THEN hs[j].etraps ELSE 0]
<1>1. Len(hs) = Len(fs) + 1 /\ Len(fs) \in Nat /\ hs[Len(fs) + 1] = f /\ DOMAIN fs = 1 .. Len(fs)
      /\ DOMAIN hs = 1 .. Len(fs) + 1 /\ \A i \in 1 .. Len(fs) : hs[i] = fs[i]
  OBVIOUS
<1>2. Agree(d, e, Len(fs))
  <2>1. \A i \in 0 .. Len(fs) : ActivationOf(hs, i) = ActivationOf(fs, i)
    BY RankSnoc
  <2> QED
    BY <1>1, <2>1 DEF Agree
<1>3. e[Len(fs) + 1] = Adds(f, ActivationOf(hs, Len(fs) + 1), k)
  BY <1>1 DEF Adds
<1>4. TrapsOf(hs, k) = SumTo(e, Len(fs) + 1) /\ TrapsOf(fs, k) = SumTo(d, Len(fs))
  BY <1>1 DEF TrapsOf
<1> HIDE DEF d, e
<1>6. SumTo(e, Len(fs) + 1) = SumTo(d, Len(fs)) + e[Len(fs) + 1]
  BY <1>1, <1>2, SumAppend
<1> QED
  BY <1>3, <1>4, <1>6

LEMMA TrapsOfOwn ==
  ASSUME NEW fs \in Seq(FrameSet), NEW f \in FrameSet, NEW hs, hs = Append(fs, f)
  PROVE TrapsOf(hs, ActivationOf(hs, Len(fs) + 1)) = TrapsOf(fs, ActivationOf(hs, Len(fs) + 1)) + f.etraps
<1>1. PICK k : k = ActivationOf(hs, Len(fs) + 1)
  OBVIOUS
<1>2. TrapsOf(hs, k) = TrapsOf(fs, k) + Adds(f, ActivationOf(hs, Len(fs) + 1), k)
  BY TrapsOfSnoc
<1> QED
  BY <1>1, <1>2 DEF Adds

LEMMA TrapsOfOther ==
  ASSUME NEW fs \in Seq(FrameSet), NEW f \in FrameSet, NEW hs, hs = Append(fs, f), NEW k \in Nat,
         k # ActivationOf(hs, Len(fs) + 1)
  PROVE TrapsOf(hs, k) = TrapsOf(fs, k)
<1>1. TrapsOf(hs, k) = TrapsOf(fs, k) + Adds(f, ActivationOf(hs, Len(fs) + 1), k)
  BY TrapsOfSnoc
<1>2. TrapsOf(fs, k) \in Nat
  BY TrapsOfNat
<1> QED
  BY <1>1, <1>2 DEF Adds
-----------------------------------------------------------------------------
(* One frame more, with an activation of its own or not. *)
LEMMA RankMono ==
  ASSUME NEW fs \in Seq(FrameSet), NEW i \in 0 .. Len(fs)
  PROVE /\ ActivationOf(fs, i) <= ActivationOf(fs, Len(fs))
        /\ TrapsUpTo(fs, i) <= TrapsUpTo(fs, Len(fs))
<1> DEFINE n == Len(fs)
           s == [j \in DOMAIN fs |-> IF IsEntry(fs[j]) THEN 1 ELSE 0]
           t == [j \in DOMAIN fs |-> fs[j].etraps]
<1>1. n \in Nat /\ \A j \in 1 .. n : s[j] \in Nat
  OBVIOUS
<1>2. \A j \in 1 .. n : t[j] \in Nat
  BY FrameTypes
<1> HIDE DEF s, t
<1>3. SumTo(s, i) <= SumTo(s, n)
  BY <1>1, SumMono
<1>4. SumTo(t, i) <= SumTo(t, n)
  BY <1>1, <1>2, SumMono
<1> QED
  BY <1>3, <1>4 DEF s, t, ActivationOf, TrapsUpTo

EntryFits(f, a) ==
  /\ f.kind = "native" <=> a.kind = "native"
  /\ a.how # "op" => f.prevtop >= 1

LEMMA NestedEntry ==
  ASSUME NEW fs \in Seq(FrameSet), NEW f \in FrameSet, IsEntry(f), NEW A, NEW acts \in Seq(A), NEW a \in A,
         NEW hs, hs = Append(fs, f), NEW bs, bs = Append(acts, a)
  PROVE Nested(hs, bs) <=> Nested(fs, acts) /\ EntryFits(f, a)
<1>1. /\ Len(hs) = Len(fs) + 1 /\ Len(fs) \in Nat /\ hs[Len(fs) + 1] = f /\ \A i \in 1 .. Len(fs) : hs[i] = fs[i]
      /\ Len(bs) = Len(acts) + 1 /\ Len(acts) \in Nat /\ bs[Len(acts) + 1] = a
      /\ \A i \in 1 .. Len(acts) : bs[i] = acts[i]
  OBVIOUS
<1>2. /\ \A i \in 0 .. Len(fs) : ActivationOf(hs, i) = ActivationOf(fs, i)
      /\ ActivationOf(hs, Len(fs) + 1) = ActivationOf(fs, Len(fs)) + 1
  BY RankSnoc
<1>3. \A i \in 0 .. Len(fs) : ActivationOf(fs, i) \in Nat /\ ActivationOf(fs, i) <= ActivationOf(fs, Len(fs))
  BY FrameSums, RankMono
<1>4. ASSUME Nested(fs, acts), EntryFits(f, a)
      PROVE Nested(hs, bs)
  <2>1. ActivationOf(hs, Len(hs)) = Len(bs)
    BY <1>1, <1>2, <1>4 DEF Nested
  <2>2. ASSUME NEW i \in 1 .. Len(hs)
        PROVE /\ ActivationOf(hs, i) \in 1 .. Len(bs)
              /\ hs[i].kind = "native" <=> bs[ActivationOf(hs, i)].kind = "native"
              /\ IsEntry(hs[i]) /\ bs[ActivationOf(hs, i)].how # "op" => hs[i].prevtop >= 1
    <3>1. CASE i = Len(fs) + 1
      <4>1. ActivationOf(hs, i) = Len(acts) + 1
        BY <1>1, <1>2, <1>4, <3>1 DEF Nested
      <4> QED
        BY <1>1, <1>4, <3>1, <4>1 DEF EntryFits
    <3>2. CASE i # Len(fs) + 1
      <4>1. i \in 1 .. Len(fs) /\ i \in 0 .. Len(fs)
        BY <1>1, <3>2
      <4>2. hs[i] = fs[i] /\ ActivationOf(hs, i) = ActivationOf(fs, i)
        BY <1>1, <1>2, <4>1
      <4> QED
        BY <1>1, <1>4, <4>1, <4>2 DEF Nested
    <3> QED
      BY <3>1, <3>2
  <2> QED
    BY <2>1, <2>2 DEF Nested
<1>5. ASSUME Nested(hs, bs)
      PROVE Nested(fs, acts) /\ EntryFits(f, a)
  <2>1. ActivationOf(fs, Len(fs)) = Len(acts)
    BY <1>1, <1>2, <1>3, <1>5 DEF Nested
  <2>2. EntryFits(f, a)
    <3>1. Len(fs) + 1 \in 1 .. Len(hs) /\ ActivationOf(hs, Len(fs) + 1) = Len(acts) + 1
      BY <1>1, <1>2, <2>1
    <3> QED
      BY <1>1, <1>5, <3>1 DEF Nested, EntryFits
  <2>3. ASSUME NEW i \in 1 .. Len(fs)
        PROVE /\ ActivationOf(fs, i) \in 1 .. Len(acts)
              /\ fs[i].kind = "native" <=> acts[ActivationOf(fs, i)].kind = "native"
              /\ IsEntry(fs[i]) /\ acts[ActivationOf(fs, i)].how # "op" => fs[i].prevtop >= 1
    <3>1. i \in 1 .. Len(hs) /\ i \in 0 .. Len(fs)
      BY <1>1
    <3>2. hs[i] = fs[i] /\ ActivationOf(hs, i) = ActivationOf(fs, i)
      BY <1>1, <1>2, <3>1
    <3>3. ActivationOf(fs, i) \in 1 .. Len(acts)
      BY <1>1, <1>3, <1>5, <2>1, <3>1, <3>2 DEF Nested
    <3> QED
      BY <1>1, <1>5, <3>1, <3>2, <3>3 DEF Nested
  <2> QED
    BY <2>1, <2>2, <2>3 DEF Nested
<1> QED
  BY <1>4, <1>5

LEMMA NestedInner ==
  ASSUME NEW fs \in Seq(FrameSet), NEW f \in FrameSet, ~IsEntry(f), NEW A, NEW acts \in Seq(A),
         NEW hs, hs = Append(fs, f)
  PROVE Nested(hs, acts) <=> Nested(fs, acts) /\ acts # <<>> /\ acts[Len(acts)].kind # "native"
<1>1. /\ Len(hs) = Len(fs) + 1 /\ Len(fs) \in Nat /\ hs[Len(fs) + 1] = f /\ \A i \in 1 .. Len(fs) : hs[i] = fs[i]
      /\ Len(acts) \in Nat
  OBVIOUS
<1>2. /\ \A i \in 0 .. Len(fs) : ActivationOf(hs, i) = ActivationOf(fs, i)
      /\ ActivationOf(hs, Len(fs) + 1) = ActivationOf(fs, Len(fs))
  BY RankSnoc
<1>3. f.kind # "native"
  BY DEF IsEntry
<1>4. ASSUME Nested(fs, acts), acts # <<>>, acts[Len(acts)].kind # "native"
      PROVE Nested(hs, acts)
  <2>1. ActivationOf(hs, Len(hs)) = Len(acts) /\ Len(acts) \in 1 .. Len(acts)
    <3>1. Len(acts) # 0
      BY <1>4
    <3> QED
      BY <1>1, <1>2, <1>4, <3>1 DEF Nested
  <2>2. ASSUME NEW i \in 1 .. Len(hs)
        PROVE /\ ActivationOf(hs, i) \in 1 .. Len(acts)
              /\ hs[i].kind = "native" <=> acts[ActivationOf(hs, i)].kind = "native"
              /\ IsEntry(hs[i]) /\ acts[ActivationOf(hs, i)].how # "op" => hs[i].prevtop >= 1
    <3>1. CASE i = Len(fs) + 1
      BY <1>1, <1>3, <1>4, <2>1, <3>1
    <3>2. CASE i # Len(fs) + 1
      <4>1. i \in 1 .. Len(fs) /\ i \in 0 .. Len(fs)
        BY <1>1, <3>2
      <4>2. hs[i] = fs[i] /\ ActivationOf(hs, i) = ActivationOf(fs, i)
        BY <1>1, <1>2, <4>1
      <4> QED
        BY <1>1, <1>4, <4>1, <4>2 DEF Nested
    <3> QED
      BY <3>1, <3>2
  <2> QED
    BY <2>1, <2>2 DEF Nested
<1>5. ASSUME Nested(hs, acts)
      PROVE Nested(fs, acts) /\ acts # <<>> /\ acts[Len(acts)].kind # "native"
  <2>1. ActivationOf(fs, Len(fs)) = Len(acts)
    BY <1>1, <1>2, <1>5 DEF Nested
  <2>2. acts # <<>> /\ acts[Len(acts)].kind # "native"
    <3>1. Len(fs) + 1 \in 1 .. Len(hs) /\ ActivationOf(hs, Len(fs) + 1) = Len(acts)
      BY <1>1, <1>2, <2>1
    <3>2. Len(acts) \in 1 .. Len(acts) /\ (hs[Len(fs) + 1].kind = "native" <=> acts[Len(acts)].kind = "native")
      BY <1>5, <3>1 DEF Nested
    <3> QED
      BY <1>1, <1>3, <3>2
  <2>3. ASSUME NEW i \in 1 .. Len(fs)
        PROVE /\ ActivationOf(fs, i) \in 1 .. Len(acts)
              /\ fs[i].kind = "native" <=> acts[ActivationOf(fs, i)].kind = "native"
              /\ IsEntry(fs[i]) /\ acts[ActivationOf(fs, i)].how # "op" => fs[i].prevtop >= 1
    <3>1. i \in 1 .. Len(hs) /\ i \in 0 .. Len(fs)
      BY <1>1
    <3>2. hs[i] = fs[i] /\ ActivationOf(hs, i) = ActivationOf(fs, i)
      BY <1>1, <1>2, <3>1
    <3> QED
      BY <1>1, <1>5, <3>1, <3>2 DEF Nested
  <2> QED
    BY <2>1, <2>2, <2>3 DEF Nested
<1> QED
  BY <1>4, <1>5

(* The traps of the last frame, and those below. *)
OwnTraps(tr, n, b) == n <= Len(tr) /\ \A t \in Len(tr) - n + 1 .. Len(tr) : TrapAt(tr[t], b)
Below(tr, n) == SubSeq(tr, 1, Len(tr) - n)

LEMMA TrapsSnoc ==
  ASSUME NEW fs \in Seq(FrameSet), NEW f \in FrameSet, NEW hs, hs = Append(fs, f),
         NEW tr \in Seq(TrapSet), NEW b \in Int
  PROVE TrapsMatch(hs, tr, b) <=>
          TrapsMatch(fs, Below(tr, f.etraps), b - f.prevstkbase) /\ OwnTraps(tr, f.etraps, b)
<1>0. PICK gtr : gtr = SubSeq(tr, 1, Len(tr) - f.etraps)
  OBVIOUS
<1>1. Len(hs) = Len(fs) + 1 /\ Len(fs) \in Nat /\ Len(tr) \in Nat
  OBVIOUS
<1>2. f.etraps \in Nat /\ f.prevstkbase \in Int
  BY FrameType
<1>3. /\ \A i \in 0 .. Len(fs) : BaseOf(hs, i) = BaseOf(fs, i) /\ TrapsUpTo(hs, i) = TrapsUpTo(fs, i)
      /\ BaseOf(hs, Len(fs) + 1) = BaseOf(fs, Len(fs)) + f.prevstkbase
      /\ TrapsUpTo(hs, Len(fs) + 1) = TrapsUpTo(fs, Len(fs)) + f.etraps
  BY BaseSnoc
<1>4. \A i \in 0 .. Len(fs) : /\ TrapsUpTo(fs, i) \in Nat /\ BaseOf(fs, i) \in Int
                             /\ TrapsUpTo(fs, i) <= TrapsUpTo(fs, Len(fs))
  BY FrameSums, RankMono
<1>5. f.etraps <= Len(tr) => Len(gtr) = Len(tr) - f.etraps /\ \A t \in 1 .. Len(tr) - f.etraps : gtr[t] = tr[t]
  BY <1>0, <1>1, <1>2
<1>6. Len(fs) \in 0 .. Len(fs)
  BY <1>1
<1>7. ASSUME TrapsMatch(hs, tr, b)
      PROVE /\ f.etraps <= Len(tr) /\ TrapsMatch(fs, gtr, b - f.prevstkbase)
            /\ \A t \in Len(tr) - f.etraps + 1 .. Len(tr) : TrapAt(tr[t], b)
  <2>1. Len(tr) = TrapsUpTo(fs, Len(fs)) + f.etraps /\ b = BaseOf(fs, Len(fs)) + f.prevstkbase
    BY <1>1, <1>3, <1>7 DEF TrapsMatch
  <2>2. TrapsUpTo(fs, Len(fs)) \in Nat /\ BaseOf(fs, Len(fs)) \in Int
    BY <1>4, <1>6
  <2>3. /\ f.etraps <= Len(tr) /\ Len(gtr) = TrapsUpTo(fs, Len(fs)) /\ b - f.prevstkbase = BaseOf(fs, Len(fs))
        /\ Len(tr) - f.etraps = TrapsUpTo(fs, Len(fs))
    <3>1. Len(tr) - f.etraps = TrapsUpTo(fs, Len(fs)) /\ f.etraps <= Len(tr)
      BY <1>2, <2>1, <2>2
    <3>2. b - f.prevstkbase = BaseOf(fs, Len(fs))
      BY <1>2, <2>1, <2>2
    <3> QED
      BY <1>5, <3>1, <3>2
  <2>4. ASSUME NEW t \in Len(tr) - f.etraps + 1 .. Len(tr)
        PROVE TrapAt(tr[t], b)
    <3>1. Len(fs) + 1 \in 1 .. Len(hs) /\ (Len(fs) + 1) - 1 = Len(fs)
      BY <1>1
    <3>2. t \in TrapsUpTo(hs, (Len(fs) + 1) - 1) + 1 .. TrapsUpTo(hs, Len(fs) + 1)
      BY <1>3, <1>6, <2>1, <2>3, <3>1
    <3>3. BaseOf(hs, Len(fs) + 1) = b
      BY <1>3, <2>1
    <3> QED
      BY <1>7, <3>1, <3>2, <3>3 DEF TrapsMatch
  <2>5. ASSUME NEW i \in 1 .. Len(fs), NEW t \in TrapsUpTo(fs, i - 1) + 1 .. TrapsUpTo(fs, i)
        PROVE TrapAt(gtr[t], BaseOf(fs, i))
    <3>1. i \in 1 .. Len(hs) /\ i \in 0 .. Len(fs) /\ i - 1 \in 0 .. Len(fs)
      BY <1>1
    <3>2. t \in TrapsUpTo(hs, i - 1) + 1 .. TrapsUpTo(hs, i) /\ BaseOf(hs, i) = BaseOf(fs, i)
      BY <1>3, <3>1
    <3>3. TrapAt(tr[t], BaseOf(fs, i))
      BY <1>7, <3>1, <3>2 DEF TrapsMatch
    <3>4. TrapsUpTo(fs, i - 1) \in Nat /\ TrapsUpTo(fs, i) \in Nat /\ TrapsUpTo(fs, i) <= TrapsUpTo(fs, Len(fs))
      BY <1>4, <3>1
    <3>5. t \in 1 .. Len(tr) - f.etraps
      BY <2>2, <2>3, <3>4
    <3> QED
      BY <1>5, <2>3, <3>3, <3>5
  <2> QED
    BY <2>3, <2>4, <2>5 DEF TrapsMatch
<1>8. ASSUME f.etraps <= Len(tr), TrapsMatch(fs, gtr, b - f.prevstkbase),
             \A t \in Len(tr) - f.etraps + 1 .. Len(tr) : TrapAt(tr[t], b)
      PROVE TrapsMatch(hs, tr, b)
  <2>1. Len(tr) - f.etraps = TrapsUpTo(fs, Len(fs)) /\ b - f.prevstkbase = BaseOf(fs, Len(fs))
    BY <1>5, <1>8 DEF TrapsMatch
  <2>2. Len(tr) = TrapsUpTo(hs, Len(hs)) /\ b = BaseOf(hs, Len(hs))
    BY <1>1, <1>2, <1>3, <1>4, <1>6, <2>1
  <2>3. ASSUME NEW i \in 1 .. Len(hs), NEW t \in TrapsUpTo(hs, i - 1) + 1 .. TrapsUpTo(hs, i)
        PROVE TrapAt(tr[t], BaseOf(hs, i))
    <3>1. CASE i = Len(fs) + 1
      <4>1. i - 1 = Len(fs)
        BY <1>1, <3>1
      <4>2. t \in Len(tr) - f.etraps + 1 .. Len(tr) /\ BaseOf(hs, i) = b
        BY <1>1, <1>3, <1>6, <2>1, <2>2, <3>1, <4>1
      <4> QED
        BY <1>8, <4>2
    <3>2. CASE i # Len(fs) + 1
      <4>1. i \in 1 .. Len(fs) /\ i \in 0 .. Len(fs) /\ i - 1 \in 0 .. Len(fs)
        BY <1>1, <3>2
      <4>2. t \in TrapsUpTo(fs, i - 1) + 1 .. TrapsUpTo(fs, i) /\ BaseOf(hs, i) = BaseOf(fs, i)
        BY <1>3, <4>1
      <4>3. TrapAt(gtr[t], BaseOf(fs, i))
        BY <1>8, <4>1, <4>2 DEF TrapsMatch
      <4>4. TrapsUpTo(fs, i - 1) \in Nat /\ TrapsUpTo(fs, i) \in Nat /\ TrapsUpTo(fs, i) <= TrapsUpTo(fs, Len(fs))
        BY <1>4, <4>1
      <4>5. t \in 1 .. Len(tr) - f.etraps
        <5>1. t \in Nat /\ 1 <= t /\ t <= TrapsUpTo(fs, Len(fs))
          <6>1. TrapsUpTo(fs, Len(fs)) \in Nat
            BY <1>4, <1>6
          <6>2. t \in TrapsUpTo(fs, i - 1) + 1 .. TrapsUpTo(fs, i)
            BY <4>2
          <6> QED
            BY <4>4, <6>1, <6>2
        <5> QED
          BY <2>1, <5>1
      <4> QED
        BY <1>5, <1>8, <4>2, <4>3, <4>5
    <3> QED
      BY <3>1, <3>2
  <2> QED
    BY <2>2, <2>3 DEF TrapsMatch
<1> QED
  BY <1>0, <1>7, <1>8 DEF OwnTraps, Below

(* The activations bs are those of ac, but for d more traps counted in the *)
(* last one.                                                               *)
Recount(ac, bs, d) ==
  /\ Len(bs) = Len(ac)
  /\ \A k \in 1 .. Len(ac) :
       /\ bs[k].kind = ac[k].kind /\ bs[k].how = ac[k].how
       /\ ac[k].kind = "exec" => bs[k].traps = ac[k].traps + IF k = Len(ac) THEN d ELSE 0

LEMMA CountedEntry ==
  ASSUME NEW fs \in Seq(FrameSet), NEW f \in FrameSet, IsEntry(f), NEW A, NEW acts \in Seq(A), NEW a \in A,
         NEW hs, hs = Append(fs, f), NEW bs, bs = Append(acts, a), Nested(fs, acts)
  PROVE Counted(hs, bs) <=> Counted(fs, acts) /\ (a.kind = "exec" => a.traps = f.etraps)
<1>1. /\ Len(fs) \in Nat /\ Len(bs) = Len(acts) + 1 /\ Len(acts) \in Nat /\ bs[Len(acts) + 1] = a
      /\ \A i \in 1 .. Len(acts) : bs[i] = acts[i]
  OBVIOUS
<1>2. ActivationOf(hs, Len(fs) + 1) = Len(acts) + 1
  <2>1. ActivationOf(hs, Len(fs) + 1) = ActivationOf(fs, Len(fs)) + 1
    BY RankSnoc
  <2> QED
    BY <2>1 DEF Nested
<1>4. \A k : TrapsOf(fs, k) \in Nat
  BY TrapsOfNat
<1>5. TrapsOf(fs, Len(acts) + 1) = 0
  <2>1. \A i \in 1 .. Len(fs) : ActivationOf(fs, i) # Len(acts) + 1
    BY <1>1 DEF Nested
  <2> QED
    BY <2>1, TrapsOfNat
<1>6. \A k \in 1 .. Len(acts) : TrapsOf(hs, k) = TrapsOf(fs, k)
  <2>1. ASSUME NEW k \in 1 .. Len(acts)
        PROVE TrapsOf(hs, k) = TrapsOf(fs, k)
    <3>1. k \in Nat /\ k # ActivationOf(hs, Len(fs) + 1)
      BY <1>1, <1>2
    <3> QED
      BY <3>1, TrapsOfOther
  <2> QED
    BY <2>1
<1>7. TrapsOf(hs, Len(acts) + 1) = f.etraps
  <2>1. f.etraps \in Nat
    BY FrameType
  <2>2. TrapsOf(hs, Len(acts) + 1) = TrapsOf(fs, Len(acts) + 1) + f.etraps
    BY <1>2, TrapsOfOwn
  <2> QED
    BY <1>5, <2>1, <2>2
<1>8. \A k : k \in 1 .. Len(bs) <=> k \in 1 .. Len(acts) \/ k = Len(acts) + 1
  BY <1>1
<1> QED
  BY <1>1, <1>6, <1>7, <1>8 DEF Counted

LEMMA CountedInner ==
  ASSUME NEW fs \in Seq(FrameSet), NEW f \in FrameSet, ~IsEntry(f), NEW A, NEW acts \in Seq(A), acts # <<>>,
         NEW B, NEW bs \in Seq(B), \A k \in 1 .. Len(acts) : acts[k].kind = "exec" => acts[k].traps \in Int,
         NEW hs, hs = Append(fs, f), Nested(fs, acts), Recount(acts, bs, f.etraps)
  PROVE Counted(hs, bs) <=> Counted(fs, acts)
<1>1. Len(fs) \in Nat /\ Len(acts) \in Nat /\ Len(bs) = Len(acts)
  BY DEF Recount
<1>2. ActivationOf(hs, Len(fs) + 1) = Len(acts)
  <2>1. ActivationOf(hs, Len(fs) + 1) = ActivationOf(fs, Len(fs))
    BY RankSnoc
  <2> QED
    BY <2>1 DEF Nested
<1>3. /\ TrapsOf(hs, Len(acts)) = TrapsOf(fs, Len(acts)) + f.etraps
      /\ \A k \in 1 .. Len(acts) : k # Len(acts) => TrapsOf(hs, k) = TrapsOf(fs, k)
  <2>1. TrapsOf(hs, Len(acts)) = TrapsOf(fs, Len(acts)) + f.etraps
    BY <1>2, TrapsOfOwn
  <2>2. ASSUME NEW k \in 1 .. Len(acts), k # Len(acts)
        PROVE TrapsOf(hs, k) = TrapsOf(fs, k)
    <3>1. k \in Nat /\ k # ActivationOf(hs, Len(fs) + 1)
      BY <1>1, <1>2, <2>2
    <3> QED
      BY <3>1, TrapsOfOther
  <2> QED
    BY <2>1, <2>2
<1>4. f.etraps \in Nat /\ \A k : TrapsOf(fs, k) \in Nat
  BY TrapsOfNat, FrameType
<1>5. ASSUME NEW k \in 1 .. Len(acts)
      PROVE (bs[k].kind = "exec" => bs[k].traps = TrapsOf(hs, k)) <=> (acts[k].kind = "exec" => acts[k].traps = TrapsOf(fs, k))
  <2>1. /\ bs[k].kind = acts[k].kind
        /\ acts[k].kind = "exec" => bs[k].traps = acts[k].traps + IF k = Len(acts) THEN f.etraps ELSE 0
    BY DEF Recount
  <2>2. acts[k].kind = "exec" => acts[k].traps \in Int
    OBVIOUS
  <2> QED
    BY <1>1, <1>3, <1>4, <2>1, <2>2
<1> QED
  BY <1>1, <1>5 DEF Counted
-----------------------------------------------------------------------------
(* The activations. *)
LEMMA CallType ==
  ASSUME NEW a \in CallSet
  PROVE /\ a \in ActSet /\ a.kind \in {"exec", "native"} /\ a.how \in {"op", "call", "meta", "resume", "wake"}
        /\ a.kind = "exec" => a \in ExecSet /\ a.traps \in Int /\ a.how # "op" /\ a.raiseerror \in BOOLEAN
        /\ a.kind = "native" => a \in NativeSet /\ a.how \in {"op", "call", "meta"}
<1>1. CASE a \in ExecSet
  BY <1>1 DEF ExecSet, CallSet, ActSet
<1>2. CASE a \in NativeSet
  BY <1>2 DEF NativeSet, CallSet, ActSet
<1> QED
  BY <1>1, <1>2 DEF CallSet

LEMMA ActsType ==
  ASSUME NEW s \in BOOLEAN, NEW t \in Int, NEW cs \in Seq(CallSet)
  PROVE /\ Acts(s, t, cs) \in Seq(ActSet)
        /\ Len(Acts(s, t, cs)) = Len(cs) + Asleep(s)
        /\ \A k \in 1 .. Len(Acts(s, t, cs)) :
             Acts(s, t, cs)[k].kind = "exec" => Acts(s, t, cs)[k].traps \in Int
        /\ \A k \in 1 .. Len(cs) : Acts(s, t, cs)[Asleep(s) + k] = cs[k]
        /\ s => Acts(s, t, cs)[1] = [kind |-> "exec", how |-> "wake", traps |-> t]
<1> DEFINE z == [kind |-> "exec", how |-> "wake", traps |-> t]
<1>1. z \in SleepSet /\ z.traps \in Int
  BY DEF SleepSet
<1> HIDE DEF z
<1>2. \A k \in 1 .. Len(cs) : cs[k] \in ActSet /\ (cs[k].kind = "exec" => cs[k].traps \in Int)
  BY CallType
<1>3. z \in ActSet /\ cs \in Seq(ActSet)
  BY <1>1, <1>2 DEF ActSet, CallSet
<1>4. CASE s = TRUE
  <2>1. Acts(s, t, cs) = <<z>> \o cs
    BY <1>4 DEF Acts, z
  <2>2. /\ <<z>> \o cs \in Seq(ActSet) /\ Len(<<z>> \o cs) = Len(cs) + 1
        /\ \A k \in 1 .. Len(cs) : (<<z>> \o cs)[1 + k] = cs[k]
        /\ (<<z>> \o cs)[1] = z
        /\ \A k \in 1 .. Len(cs) + 1 : (<<z>> \o cs)[k] = IF k = 1 THEN z ELSE cs[k - 1]
    BY <1>3
  <2>3. \A k \in 1 .. Len(cs) + 1 : (<<z>> \o cs)[k].kind = "exec" => (<<z>> \o cs)[k].traps \in Int
    BY <1>1, <1>2, <2>2
  <2> QED
    BY <1>4, <2>1, <2>2, <2>3 DEF z, Asleep
<1>5. CASE s = FALSE
  <2>1. Acts(s, t, cs) = cs
    BY <1>3, <1>5 DEF Acts
  <2> QED
    BY <1>2, <1>3, <1>5, <2>1 DEF Asleep
<1> QED
  BY <1>4, <1>5

LEMMA ActsSnoc ==
  ASSUME NEW s \in BOOLEAN, NEW t \in Int, NEW cs \in Seq(CallSet), NEW a \in CallSet
  PROVE Acts(s, t, Append(cs, a)) = Append(Acts(s, t, cs), a)
<1> DEFINE z == [kind |-> "exec", how |-> "wake", traps |-> t]
<1>1. z \in SleepSet
  BY DEF SleepSet
<1> HIDE DEF z
<1>2. z \in ActSet /\ cs \in Seq(ActSet) /\ a \in ActSet
  BY <1>1, CallType DEF ActSet, CallSet
<1>3. <<z>> \o Append(cs, a) = Append(<<z>> \o cs, a)
  BY <1>2
<1>4. <<>> \o Append(cs, a) = Append(<<>> \o cs, a)
  BY <1>2
<1> QED
  BY <1>3, <1>4 DEF Acts, z

(* The stacks with one frame more, the root frame of an Execute or that of *)
(* a native, or one that the last Execute runs.                            *)
LEMMA FitEntry ==
  ASSUME NEW fs \in Seq(FrameSet), NEW f \in FrameSet, IsEntry(f), NEW cs \in Seq(CallSet), NEW a \in CallSet,
         NEW s \in BOOLEAN, NEW t \in Int, NEW tr \in Seq(TrapSet), NEW b \in Int
  PROVE Fit(Append(fs, f), Acts(s, t, Append(cs, a)), tr, b) <=>
          /\ Fit(fs, Acts(s, t, cs), Below(tr, f.etraps), b - f.prevstkbase)
          /\ EntryFits(f, a) /\ (a.kind = "exec" => a.traps = f.etraps)
          /\ OwnTraps(tr, f.etraps, b)
<1>1. PICK acts : acts = Acts(s, t, cs)
  OBVIOUS
<1>2. PICK bs : bs = Acts(s, t, Append(cs, a))
  OBVIOUS
<1>3. PICK hs : hs = Append(fs, f)
  OBVIOUS
<1>5. acts \in Seq(ActSet) /\ bs = Append(acts, a) /\ a \in ActSet
  BY <1>1, <1>2, ActsType, ActsSnoc, CallType
<1>6. Nested(hs, bs) <=> Nested(fs, acts) /\ EntryFits(f, a)
  BY <1>3, <1>5, NestedEntry
<1>7. TrapsMatch(hs, tr, b) <=>
       TrapsMatch(fs, Below(tr, f.etraps), b - f.prevstkbase) /\ OwnTraps(tr, f.etraps, b)
  BY <1>3, TrapsSnoc
<1>8. Nested(fs, acts) => (Counted(hs, bs) <=> Counted(fs, acts) /\ (a.kind = "exec" => a.traps = f.etraps))
  BY <1>3, <1>5, CountedEntry
<1> QED
  BY <1>1, <1>2, <1>3, <1>6, <1>7, <1>8 DEF Fit

LEMMA FitInner ==
  ASSUME NEW fs \in Seq(FrameSet), NEW f \in FrameSet, ~IsEntry(f), NEW cs \in Seq(CallSet),
         NEW a \in ExecSet, NEW c \in ExecSet, c.how = a.how, c.traps = a.traps + f.etraps,
         NEW s \in BOOLEAN, NEW t \in Int, NEW tr \in Seq(TrapSet), NEW b \in Int
  PROVE Fit(Append(fs, f), Acts(s, t, Append(cs, c)), tr, b) <=>
          /\ Fit(fs, Acts(s, t, Append(cs, a)), Below(tr, f.etraps), b - f.prevstkbase)
          /\ OwnTraps(tr, f.etraps, b)
<1>1. PICK ac : ac = Acts(s, t, Append(cs, a))
  OBVIOUS
<1>2. PICK bs : bs = Acts(s, t, Append(cs, c))
  OBVIOUS
<1>3. PICK hs : hs = Append(fs, f)
  OBVIOUS
<1>5. PICK ds : ds = Acts(s, t, cs)
  OBVIOUS
<1>6. a \in CallSet /\ c \in CallSet /\ a \in ActSet /\ c \in ActSet /\ a.kind = "exec" /\ c.kind = "exec"
      /\ a.traps \in Int /\ c.traps \in Int
  BY DEF CallSet, ActSet, ExecSet
<1>7. /\ ds \in Seq(ActSet) /\ ac = Append(ds, a) /\ bs = Append(ds, c)
      /\ \A k \in 1 .. Len(ds) : ds[k].kind = "exec" => ds[k].traps \in Int
  BY <1>1, <1>2, <1>5, <1>6, ActsType, ActsSnoc
<1>8. /\ ac \in Seq(ActSet) /\ bs \in Seq(ActSet) /\ Len(ac) = Len(ds) + 1 /\ Len(bs) = Len(ds) + 1 /\ Len(ds) \in Nat
      /\ ac[Len(ds) + 1] = a /\ bs[Len(ds) + 1] = c /\ \A k \in 1 .. Len(ds) : ac[k] = ds[k] /\ bs[k] = ds[k]
  BY <1>6, <1>7
<1>9. ac # <<>> /\ ac[Len(ac)].kind # "native" /\ bs # <<>> /\ bs[Len(bs)].kind # "native"
  <2>1. ac[Len(ac)] = a /\ bs[Len(bs)] = c
    BY <1>8
  <2>2. Len(ac) # 0 /\ Len(bs) # 0
    BY <1>8
  <2>3. Len(<<>>) = 0
    OBVIOUS
  <2> QED
    BY <1>6, <2>1, <2>2, <2>3
<1>10. f.etraps \in Nat
  BY FrameType
<1>11. \A k \in 1 .. Len(ac) : ac[k].kind = "exec" => ac[k].traps \in Int
  BY <1>6, <1>7, <1>8
<1>12. Recount(ac, bs, f.etraps)
  BY <1>6, <1>7, <1>8, <1>10, <1>11 DEF Recount
<1>13. Nested(hs, bs) <=> Nested(fs, bs)
  BY <1>3, <1>8, <1>9, NestedInner
<1>14. Nested(fs, bs) <=> Nested(fs, ac)
  BY <1>12 DEF Nested, Recount
<1>15. TrapsMatch(hs, tr, b) <=>
       TrapsMatch(fs, Below(tr, f.etraps), b - f.prevstkbase) /\ OwnTraps(tr, f.etraps, b)
  BY <1>3, TrapsSnoc
<1>16. Nested(fs, ac) => (Counted(hs, bs) <=> Counted(fs, ac))
  BY <1>3, <1>8, <1>9, <1>11, <1>12, CountedInner
<1> QED
  BY <1>1, <1>2, <1>3, <1>13, <1>14, <1>15, <1>16 DEF Fit
-----------------------------------------------------------------------------
(* A stack and its last element. *)
LEMMA SeqSnoc ==
  ASSUME NEW S, NEW s \in Seq(S), s # <<>>
  PROVE /\ s = Append(Front(s), Last(s))
        /\ Front(s) \in Seq(S) 
        /\ Last(s) \in S 
        /\ Last(s) = s[Len(s)]
        /\ Len(s) = Len(Front(s)) + 1
        /\ Len(Front(s)) \in Nat
        /\ Front(s) # <<>> => Head(Front(s)) = Head(s)
<1>1. Len(s) \in Nat /\ Len(s) # 0 /\ s[Len(s)] \in S
  OBVIOUS
<1>2. /\ Front(s) \in Seq(S) /\ Len(Front(s)) = Len(s) - 1
      /\ \A i \in 1 .. Len(Front(s)) : Front(s)[i] = s[i]
  <2>1. PICK n \in Nat : n = Len(s) - 1
    BY <1>1
  <2>2. 1 \in Int /\ n \in Int /\ \A i \in 1 .. n : s[i] \in S
    BY <2>1
  <2>3. /\ SubSeq(s, 1, n) \in Seq(S) /\ Len(SubSeq(s, 1, n)) = IF 1 <= n THEN n - 1 + 1 ELSE 0
        /\ \A i \in 1 .. n - 1 + 1 : SubSeq(s, 1, n)[i] = s[1 + i - 1]
    BY <2>2, SubSeqProperties
  <2>4. Front(s) = SubSeq(s, 1, n)
    BY <2>1 DEF Front
  <2> HIDE DEF Front
  <2>5. Front(s) \in Seq(S) /\ Len(Front(s)) = n
    BY <2>1, <2>3, <2>4
  <2>6. ASSUME NEW i \in 1 .. n PROVE Front(s)[i] = s[i]
    BY <2>3, <2>4
  <2> QED
    BY <2>1, <2>5, <2>6
<1>3. Last(s) = s[Len(s)]
  BY DEF Last
<1>4. s = Append(Front(s), Last(s))
  BY <1>1, <1>2, <1>3
<1>5. Front(s) # <<>> => Head(Front(s)) = Head(s)
  BY <1>1, <1>2
<1> QED
  BY <1>1, <1>2, <1>3, <1>4, <1>5

LEMMA Snocs ==
  ASSUME NEW S, NEW s \in Seq(S), NEW x \in S
  PROVE /\ Front(Append(s, x)) = s /\ Last(Append(s, x)) = x /\ Append(s, x) # <<>>
        /\ Append(s, x) \in Seq(S)
        /\ s # <<>> => Head(Append(s, x)) = Head(s)
        /\ s = <<>> => Head(Append(s, x)) = x
<1>1. Len(Append(s, x)) = Len(s) + 1 /\ Len(s) \in Nat
  OBVIOUS
<1> QED
  BY <1>1 DEF Front, Last

LEMMA SleepsSnoc ==
  ASSUME NEW fs \in Seq(FrameSet), NEW f \in FrameSet, NEW r,
         ActivationOf(Append(fs, f), Len(fs) + 1) >= 2
  PROVE SleepsAt(Append(fs, f), r) <=> SleepsAt(fs, r)
<1>1. PICK hs : hs = Append(fs, f)
  OBVIOUS
<1>2. /\ Len(hs) = Len(fs) + 1 /\ Len(fs) \in Nat /\ hs[Len(fs) + 1] = f /\ \A i \in 1 .. Len(fs) : hs[i] = fs[i]
      /\ ActivationOf(hs, Len(fs) + 1) >= 2
  BY <1>1
<1>3. \A i \in 0 .. Len(fs) : ActivationOf(hs, i) = ActivationOf(fs, i)
  BY <1>1, RankSnoc
<1>4. ASSUME SleepsAt(hs, r)
      PROVE SleepsAt(fs, r)
  <2>1. PICK p \in 1 .. Len(hs) :
          /\ ActivationOf(hs, p) = 1 /\ hs[p].root = r
          /\ \A i \in p + 1 .. Len(hs) : ActivationOf(hs, i) >= 2
    BY <1>4 DEF SleepsAt
  <2>2. p \in 1 .. Len(fs) /\ p \in 0 .. Len(fs)
    BY <1>2, <2>1
  <2>3. \A i \in p + 1 .. Len(fs) : i \in p + 1 .. Len(hs) /\ i \in 0 .. Len(fs)
    BY <1>2, <2>2
  <2> QED
    BY <1>2, <1>3, <2>1, <2>2, <2>3 DEF SleepsAt
<1>5. ASSUME SleepsAt(fs, r)
      PROVE SleepsAt(hs, r)
  <2>1. PICK p \in 1 .. Len(fs) :
          /\ ActivationOf(fs, p) = 1 /\ fs[p].root = r
          /\ \A i \in p + 1 .. Len(fs) : ActivationOf(fs, i) >= 2
    BY <1>5 DEF SleepsAt
  <2>2. p \in 1 .. Len(hs) /\ p \in 0 .. Len(fs)
    BY <1>2
  <2>3. ASSUME NEW i \in p + 1 .. Len(hs)
        PROVE ActivationOf(hs, i) >= 2
    <3>1. CASE i = Len(fs) + 1
      BY <1>2, <3>1
    <3>2. CASE i # Len(fs) + 1
      <4>1. i \in p + 1 .. Len(fs) /\ i \in 0 .. Len(fs)
        BY <1>2, <3>2
      <4> QED
        BY <1>3, <2>1, <4>1
    <3> QED
      BY <3>1, <3>2
  <2> QED
    BY <1>2, <1>3, <2>1, <2>2, <2>3 DEF SleepsAt
<1> QED
  BY <1>1, <1>4, <1>5

LEMMA CallsSnoc ==
  ASSUME NEW cs \in Seq(CallSet), NEW a \in CallSet
  PROVE CallsFollow(Append(cs, a)) <=> CallsFollow(cs) /\ Follows(a, cs)
<1>1. PICK ds : ds = Append(cs, a)
  OBVIOUS
<1>2. Len(ds) = Len(cs) + 1 /\ Len(cs) \in Nat /\ ds[Len(cs) + 1] = a /\ \A k \in 1 .. Len(cs) : ds[k] = cs[k]
  BY <1>1
<1>3. \A k \in 1 .. Len(cs) : SubSeq(ds, 1, k - 1) = SubSeq(cs, 1, k - 1)
  BY <1>1, <1>2
<1>4. SubSeq(ds, 1, (Len(cs) + 1) - 1) = cs
  BY <1>1, <1>2
<1>5. \A k : k \in 1 .. Len(ds) <=> k \in 1 .. Len(cs) \/ k = Len(cs) + 1
  BY <1>2
<1>6. CallsFollow(ds) <=> CallsFollow(cs) /\ Follows(a, cs)
  BY <1>2, <1>3, <1>4, <1>5 DEF CallsFollow
<1> QED
  BY <1>1, <1>6

LEMMA MetaSnoc ==
  ASSUME NEW cs \in Seq(CallSet), NEW a \in CallSet
  PROVE /\ MetaCalls(cs) \in Nat
        /\ a.how = "meta" => MetaCalls(Append(cs, a)) = MetaCalls(cs) + 1
        /\ a.how # "meta" => MetaCalls(Append(cs, a)) = MetaCalls(cs)
<1>1. PICK ds : ds = Append(cs, a)
  OBVIOUS
<1> DEFINE s == [k \in DOMAIN cs |-> IF cs[k].how = "meta" THEN 1 ELSE 0]
           t == [k \in DOMAIN ds |-> IF ds[k].how = "meta" THEN 1 ELSE 0]
<1>2. /\ Len(ds) = Len(cs) + 1 /\ Len(cs) \in Nat /\ ds[Len(cs) + 1] = a /\ \A k \in 1 .. Len(cs) : ds[k] = cs[k]
      /\ DOMAIN cs = 1 .. Len(cs) /\ DOMAIN ds = 1 .. Len(cs) + 1
  BY <1>1
<1>3. Agree(s, t, Len(cs)) /\ \A k \in 1 .. Len(cs) : s[k] \in Nat
  BY <1>2 DEF Agree
<1>4. t[Len(cs) + 1] = IF a.how = "meta" THEN 1 ELSE 0
  BY <1>2
<1>5. MetaCalls(cs) = SumTo(s, Len(cs)) /\ MetaCalls(ds) = SumTo(t, Len(cs) + 1)
  BY <1>2 DEF MetaCalls
<1> HIDE DEF s, t
<1>6. SumTo(t, Len(cs) + 1) = SumTo(s, Len(cs)) + t[Len(cs) + 1]
  BY <1>2, <1>3, SumAppend
<1>7. SumTo(s, Len(cs)) \in Nat
  <2>1. 0 \in Nat /\ \A x, y \in Nat : x + y \in Nat
    OBVIOUS
  <2> QED
    BY <1>2, <1>3, <2>1, SumType
<1> QED
  BY <1>1, <1>4, <1>5, <1>6, <1>7

(* Who runs a generator, with one frame more. *)
LEMMA OwnedOther ==
  ASSUME NEW fs \in Seq(FrameSet), NEW f \in FrameSet, NEW g, f.gen # g, NEW st
  PROVE Owned(Append(fs, f), g, st) <=> Owned(fs, g, st)
<1>1. PICK hs : hs = Append(fs, f)
  OBVIOUS
<1>2. Len(hs) = Len(fs) + 1 /\ Len(fs) \in Nat /\ hs[Len(fs) + 1] = f /\ \A i \in 1 .. Len(fs) : hs[i] = fs[i]
  BY <1>1
<1>3. Runs(hs, g) = Runs(fs, g) /\ \A i \in Runs(hs, g) : i \in 1 .. Len(fs) /\ hs[i] = fs[i]
  BY <1>2 DEF Runs
<1>4. (\E i \in 1 .. Len(hs) : Runs(hs, g) = {i}) <=> \E i \in 1 .. Len(fs) : Runs(fs, g) = {i}
  BY <1>2, <1>3
<1>5. Owned(hs, g, st) <=> Owned(fs, g, st)
  BY <1>3, <1>4 DEF Owned
<1> QED
  BY <1>1, <1>5

LEMMA OwnedLast ==
  ASSUME NEW fs \in Seq(FrameSet), NEW f \in FrameSet, NEW g, f.gen = g, NEW st
  PROVE Owned(Append(fs, f), g, st) <=>
          /\ st.state = "running" /\ Runs(fs, g) = {}
          /\ f.kind = "closure" /\ (st.by = "script" => ~f.root)
<1>1. PICK hs : hs = Append(fs, f)
  OBVIOUS
<1>2. Len(hs) = Len(fs) + 1 /\ Len(fs) \in Nat /\ hs[Len(fs) + 1] = f /\ \A i \in 1 .. Len(fs) : hs[i] = fs[i]
  BY <1>1
<1>3. PICK n : n = Len(fs) + 1
  OBVIOUS
<1>4. /\ n \in Runs(hs, g) /\ \A i : i \in Runs(hs, g) <=> i \in Runs(fs, g) \/ i = n
      /\ n \notin Runs(fs, g) /\ n \in 1 .. Len(hs) /\ hs[n] = f
  BY <1>2, <1>3 DEF Runs
<1>5. ASSUME Owned(hs, g, st)
      PROVE /\ st.state = "running" /\ Runs(fs, g) = {}
            /\ f.kind = "closure" /\ (st.by = "script" => ~f.root)
  BY <1>4, <1>5 DEF Owned
<1>6. ASSUME st.state = "running", Runs(fs, g) = {}, f.kind = "closure", st.by = "script" => ~f.root
      PROVE Owned(hs, g, st)
  <2>1. Runs(hs, g) = {n}
    BY <1>4, <1>6
  <2> QED
    BY <1>4, <1>6, <2>1 DEF Owned
<1> QED
  BY <1>1, <1>5, <1>6

(* Only whether a generator runs, and who resumes it, matters. *)
LEMMA OwnedSame ==
  ASSUME NEW fs, NEW g, NEW st, NEW su, su.by = st.by, su.state = "running" <=> st.state = "running"
  PROVE Owned(fs, g, su) <=> Owned(fs, g, st)
BY DEF Owned
-----------------------------------------------------------------------------
(* What is on top when an activation is. *)
LEMMA FitTop ==
  ASSUME NEW gs \in Seq(FrameSet), NEW f \in FrameSet, NEW cs \in Seq(CallSet), NEW a \in CallSet,
         NEW s \in BOOLEAN, NEW t \in Int, NEW tr \in Seq(TrapSet), NEW b \in Int,
         Fit(Append(gs, f), Acts(s, t, Append(cs, a)), tr, b)
  PROVE /\ f.kind = "native" <=> a.kind = "native"
        /\ gs = <<>> => IsEntry(f)
        /\ ActivationOf(Append(gs, f), Len(gs) + 1) = Len(cs) + 1 + Asleep(s)
<1>1. PICK hs : hs = Append(gs, f)
  OBVIOUS
<1>2. PICK ds : ds = Acts(s, t, cs)
  OBVIOUS
<1>3. PICK ac : ac = Acts(s, t, Append(cs, a))
  OBVIOUS
<1>4. ds \in Seq(ActSet) /\ Len(ds) = Len(cs) + Asleep(s) /\ ac = Append(ds, a) /\ a \in ActSet
  BY <1>2, <1>3, ActsType, ActsSnoc, CallType
<1>5. Len(ac) = Len(ds) + 1 /\ Len(ds) \in Nat /\ Len(cs) \in Nat /\ ac[Len(ds) + 1] = a
      /\ Asleep(s) \in Nat
  BY <1>4 DEF Asleep
<1>6. Len(hs) = Len(gs) + 1 /\ Len(gs) \in Nat /\ hs[Len(gs) + 1] = f
  BY <1>1
<1>7. Nested(hs, ac)
  BY <1>1, <1>3 DEF Fit
<1>8. ActivationOf(hs, Len(gs) + 1) = Len(ds) + 1
  BY <1>5, <1>6, <1>7 DEF Nested
<1>9. f.kind = "native" <=> a.kind = "native"
  <2>1. Len(gs) + 1 \in 1 .. Len(hs)
    BY <1>6
  <2> QED
    BY <1>5, <1>6, <1>7, <1>8, <2>1 DEF Nested
<1>10. ASSUME gs = <<>>, ~IsEntry(f)
       PROVE FALSE
  <2>1. ActivationOf(hs, Len(gs) + 1) = ActivationOf(gs, Len(gs))
    BY <1>1, <1>10, RankSnoc
  <2>2. Len(gs) = 0
    BY <1>10
  <2>3. ActivationOf(gs, 0) = 0
    BY FirstFrame
  <2> QED
    BY <1>5, <1>8, <2>1, <2>2, <2>3
<1>11. Len(ds) + 1 = Len(cs) + 1 + Asleep(s)
  BY <1>4, <1>5
<1> QED
  BY <1>1, <1>8, <1>9, <1>10, <1>11

LEMMA SleepsFit ==
  ASSUME NEW gs \in Seq(FrameSet), NEW f \in FrameSet, NEW cs \in Seq(CallSet), NEW a \in CallSet,
         NEW s \in BOOLEAN, NEW t \in Int, NEW tr \in Seq(TrapSet), NEW b \in Int, NEW r,
         Fit(Append(gs, f), Acts(s, t, Append(cs, a)), tr, b), s = TRUE
  PROVE SleepsAt(Append(gs, f), r) <=> SleepsAt(gs, r)
<1>1. ActivationOf(Append(gs, f), Len(gs) + 1) = Len(cs) + 1 + Asleep(s)
  BY FitTop
<1>2. Asleep(s) = 1 /\ Len(cs) \in Nat
  BY DEF Asleep
<1>3. ActivationOf(Append(gs, f), Len(gs) + 1) >= 2
  BY <1>1, <1>2
<1> QED
  BY <1>3, SleepsSnoc

(* No frame is left without an activation, and none of an activation is. *)
LEMMA FitEmpty ==
  ASSUME NEW fs \in Seq(FrameSet), NEW cs \in Seq(CallSet), NEW s \in BOOLEAN, NEW t \in Int,
         NEW tr \in Seq(TrapSet), NEW b \in Int, Fit(fs, Acts(s, t, cs), tr, b)
  PROVE /\ fs = <<>> <=> (cs = <<>> /\ ~s)
        /\ fs = <<>> => tr = <<>> /\ b = 0
<1>1. PICK n \in Nat : n = Len(cs) + Asleep(s) /\ n = Len(Acts(s, t, cs))
  <2>1. Len(cs) \in Nat /\ Asleep(s) \in Nat
    BY DEF Asleep
  <2>2. Len(Acts(s, t, cs)) = Len(cs) + Asleep(s)
    BY ActsType
  <2> QED
    BY <2>1, <2>2
<1>2. n = 0 <=> cs = <<>> /\ ~s
  <2>1. Len(cs) \in Nat /\ (Len(cs) = 0 <=> cs = <<>>)
    OBVIOUS
  <2>2. Asleep(s) \in Nat /\ (Asleep(s) = 0 <=> ~s)
    BY DEF Asleep
  <2> QED
    BY <1>1, <2>1, <2>2
<1>3. ActivationOf(fs, Len(fs)) = n /\ \A i \in 1 .. Len(fs) : ActivationOf(fs, i) \in 1 .. n
  BY <1>1 DEF Fit, Nested
<1>4. ASSUME fs = <<>>
      PROVE n = 0 /\ tr = <<>> /\ b = 0
  <2>1. Len(fs) = 0
    BY <1>4
  <2>2. n = 0
    BY <1>3, <2>1, FirstFrame
  <2>3. Len(tr) = 0 /\ b = 0
    BY <2>1, FirstFrame DEF Fit, TrapsMatch
  <2> QED
    BY <2>2, <2>3
<1>5. ASSUME fs # <<>>
      PROVE n # 0
  <2>1. Len(fs) \in 1 .. Len(fs)
    BY <1>5
  <2>2. n \in 1 .. n
    BY <1>3, <2>1
  <2> QED
    BY <2>2
<1> QED
  BY <1>2, <1>4, <1>5

LEMMA OnTop ==
  ASSUME Types, Stacks, cstack # <<>>
  PROVE /\ callsstack # <<>> /\ callsstack = Append(Front(callsstack), ci)
        /\ Front(callsstack) \in Seq(FrameSet) /\ ci \in FrameSet
        /\ cstack = Append(Front(cstack), act) /\ Front(cstack) \in Seq(CallSet) /\ act \in CallSet
        /\ ci.kind = "native" <=> act.kind = "native"
        /\ Front(callsstack) = <<>> => IsEntry(ci)
        /\ ActivationOf(callsstack, Len(Front(callsstack)) + 1) = Len(cstack) + Asleep(suspended)
        /\ Fit(Append(Front(callsstack), ci), Acts(suspended, suspendedTraps, Append(Front(cstack), act)), etraps, stackbase)
        /\ Len(callsstack) = Len(Front(callsstack)) + 1 /\ Len(cstack) = Len(Front(cstack)) + 1
<1>1. /\ callsstack \in Seq(FrameSet) /\ cstack \in Seq(CallSet) /\ suspended \in BOOLEAN /\ suspendedTraps \in Int
      /\ etraps \in Seq(TrapSet) /\ stackbase \in Int
  BY DEF Types
<1>2. Fit(callsstack, Acts(suspended, suspendedTraps, cstack), etraps, stackbase)
  BY DEF Stacks
<1>3. callsstack # <<>>
  BY <1>1, <1>2, FitEmpty
<1>4. PICK gs, f : gs = Front(callsstack) /\ f = ci
  OBVIOUS
<1>5. PICK cs, a : cs = Front(cstack) /\ a = act
  OBVIOUS
<1>6. callsstack = Append(gs, f) /\ gs \in Seq(FrameSet) /\ f \in FrameSet /\ Len(callsstack) = Len(gs) + 1
  BY <1>1, <1>3, <1>4, SeqSnoc DEF ci
<1>7. cstack = Append(cs, a) /\ cs \in Seq(CallSet) /\ a \in CallSet /\ Len(cstack) = Len(cs) + 1
  BY <1>1, <1>5, SeqSnoc DEF act
<1>8. /\ f.kind = "native" <=> a.kind = "native"
      /\ gs = <<>> => IsEntry(f)
      /\ ActivationOf(Append(gs, f), Len(gs) + 1) = Len(cs) + 1 + Asleep(suspended)
  BY <1>1, <1>2, <1>6, <1>7, FitTop
<1> QED
  BY <1>2, <1>3, <1>4, <1>5, <1>6, <1>7, <1>8

LEMMA Recalled ==
  ASSUME NEW cs \in Seq(CallSet), NEW a \in CallSet, NEW c \in CallSet, c.how = a.how
  PROVE /\ CallsFollow(Append(cs, c)) <=> CallsFollow(Append(cs, a))
        /\ MetaCalls(Append(cs, c)) = MetaCalls(Append(cs, a))
        /\ Len(Append(cs, c)) = Len(Append(cs, a))
        /\ Head(Append(cs, c)).how = Head(Append(cs, a)).how
<1>1. CallsFollow(Append(cs, c)) <=> CallsFollow(Append(cs, a))
  BY CallsSnoc DEF Follows
<1>2. MetaCalls(Append(cs, c)) = MetaCalls(Append(cs, a))
  BY MetaSnoc
<1>3. Len(Append(cs, c)) = Len(Append(cs, a))
  OBVIOUS
<1>4. Head(Append(cs, c)).how = Head(Append(cs, a)).how
  BY Snocs
<1> QED
  BY <1>1, <1>2, <1>3, <1>4
-----------------------------------------------------------------------------
(* What the steps do to the three stacks: a frame more or less, with its   *)
(* activation or without, or other traps in the last frame.                *)
LEMMA EntryPushed ==
  ASSUME Types, Stacks, NEW f \in FrameSet, IsEntry(f), NEW a \in CallSet,
         callsstack' = Append(callsstack, f), cstack' = Append(cstack, a), UNCHANGED suspendVars,
         etraps' \in Seq(TrapSet), Below(etraps', f.etraps) = etraps, OwnTraps(etraps', f.etraps, stackbase'),
         stackbase' = stackbase + f.prevstkbase,
         EntryFits(f, a), a.kind = "exec" => a.traps = f.etraps, Follows(a, cstack), a.how # "wake",
         nnativecalls' = nnativecalls + 1,
         nmetamethodscall' = IF a.how = "meta" THEN nmetamethodscall + 1 ELSE nmetamethodscall
  PROVE Stacks'
<1>1. /\ callsstack \in Seq(FrameSet) /\ cstack \in Seq(CallSet) /\ suspended \in BOOLEAN /\ suspendedTraps \in Int
      /\ etraps \in Seq(TrapSet) /\ stackbase \in Int
  BY DEF Types
<1>2. suspended' = suspended /\ suspendedRoot' = suspendedRoot /\ suspendedTraps' = suspendedTraps
  BY DEF suspendVars
<1>3. Fit(callsstack, Acts(suspended, suspendedTraps, cstack), etraps, stackbase) /\ CallsCounted /\ Sleeping
  BY DEF Stacks
<1>4. f.prevstkbase \in Int
  BY FrameType
<1>5. PICK b : b = stackbase' /\ b \in Int /\ b - f.prevstkbase = stackbase
  <2>1. stackbase' \in Int /\ stackbase' - f.prevstkbase = stackbase
    BY <1>1, <1>4
  <2> QED
    BY <2>1
<1>6. PICK tr \in Seq(TrapSet) : tr = etraps'
  OBVIOUS
<1>7. Fit(Append(callsstack, f), Acts(suspended, suspendedTraps, Append(cstack, a)), tr, b)
  BY <1>1, <1>3, <1>5, <1>6, FitEntry
<1>8. Fit(callsstack, Acts(suspended, suspendedTraps, cstack), etraps, stackbase)'
  BY <1>2, <1>5, <1>6, <1>7
<1>9. CallsCounted'
  <2>1. CallsFollow(cstack') /\ Len(cstack') = Len(cstack) + 1
    BY <1>1, <1>3, CallsSnoc DEF CallsCounted
  <2>2. MetaCalls(cstack') = IF a.how = "meta" THEN MetaCalls(cstack) + 1 ELSE MetaCalls(cstack)
    BY <1>1, MetaSnoc
  <2> QED
    BY <1>3, <2>1, <2>2 DEF CallsCounted
<1>10. Sleeping'
  <2>1. SUFFICES ASSUME suspended = TRUE
                 PROVE SleepsAt(callsstack', suspendedRoot) /\ Head(cstack').how # "wake"
    BY <1>2 DEF Sleeping
  <2>2. SleepsAt(callsstack, suspendedRoot)
    BY <1>3, <2>1 DEF Sleeping
  <2>3. SleepsAt(callsstack', suspendedRoot)
    <3>1. SleepsAt(Append(callsstack, f), suspendedRoot) <=> SleepsAt(callsstack, suspendedRoot)
      BY <1>1, <1>5, <1>7, <2>1, SleepsFit
    <3> QED
      BY <2>2, <3>1
  <2>4. Head(cstack').how # "wake"
    <3>1. cstack = <<>> => Head(cstack') = a
      BY <1>1, Snocs
    <3>2. cstack # <<>> => Head(cstack') = Head(cstack)
      BY <1>1, Snocs
    <3> QED
      BY <1>3, <2>1, <3>1, <3>2 DEF Sleeping
  <2> QED
    BY <2>3, <2>4
<1> QED
  BY <1>8, <1>9, <1>10 DEF Stacks

LEMMA EntryPopped ==
  ASSUME Types, Stacks, cstack # <<>>, IsEntry(ci),
         callsstack' = Front(callsstack), cstack' = Front(cstack), UNCHANGED suspendVars,
         etraps' = Below(etraps, ci.etraps), stackbase' = stackbase - ci.prevstkbase,
         nnativecalls' = nnativecalls - 1,
         nmetamethodscall' = IF act.how = "meta" THEN nmetamethodscall - 1 ELSE nmetamethodscall
  PROVE /\ Stacks'
        /\ EntryFits(ci, act) /\ (act.kind = "exec" => act.traps = ci.etraps)
        /\ Follows(act, Front(cstack))
<1>1. /\ suspended \in BOOLEAN /\ suspendedTraps \in Int /\ etraps \in Seq(TrapSet) /\ stackbase \in Int
  BY DEF Types
<1>2. suspended' = suspended /\ suspendedRoot' = suspendedRoot /\ suspendedTraps' = suspendedTraps
  BY DEF suspendVars
<1>3. CallsCounted /\ Sleeping
  BY DEF Stacks
<1>4. PICK gs, f : gs = Front(callsstack) /\ f = ci
  OBVIOUS
<1>5. PICK cs, a : cs = Front(cstack) /\ a = act
  OBVIOUS
<1>6. /\ callsstack = Append(gs, f) /\ gs \in Seq(FrameSet) /\ f \in FrameSet
      /\ cstack = Append(cs, a) /\ cs \in Seq(CallSet) /\ a \in CallSet
      /\ ActivationOf(callsstack, Len(gs) + 1) = Len(cstack) + Asleep(suspended)
      /\ Fit(Append(gs, f), Acts(suspended, suspendedTraps, Append(cs, a)), etraps, stackbase)
      /\ Len(cstack) = Len(cs) + 1
  BY <1>4, <1>5, OnTop
<1>7. /\ Fit(gs, Acts(suspended, suspendedTraps, cs), Below(etraps, f.etraps), stackbase - f.prevstkbase)
      /\ EntryFits(f, a) /\ (a.kind = "exec" => a.traps = f.etraps)
  BY <1>1, <1>4, <1>6, FitEntry
<1>8. Fit(callsstack, Acts(suspended, suspendedTraps, cstack), etraps, stackbase)'
  BY <1>2, <1>4, <1>5, <1>7
<1>9. CallsFollow(cs) /\ Follows(a, cs)
  BY <1>3, <1>6, CallsSnoc DEF CallsCounted
<1>10. CallsCounted'
  <2>1. MetaCalls(cs) \in Nat /\ MetaCalls(cstack) = IF a.how = "meta" THEN MetaCalls(cs) + 1 ELSE MetaCalls(cs)
    BY <1>6, MetaSnoc
  <2>2. Len(cs) \in Nat
    BY <1>6
  <2>3. nnativecalls = Len(cs) + 1 /\ nmetamethodscall = IF a.how = "meta" THEN MetaCalls(cs) + 1 ELSE MetaCalls(cs)
    BY <1>3, <1>6, <2>1 DEF CallsCounted
  <2>4. nnativecalls - 1 = Len(cs) /\ nmetamethodscall' = MetaCalls(cs)
    BY <1>5, <2>1, <2>2, <2>3
  <2> QED
    BY <1>5, <1>9, <2>4 DEF CallsCounted
<1>11. Sleeping'
  <2>1. SUFFICES ASSUME suspended = TRUE
                 PROVE SleepsAt(gs, suspendedRoot) /\ (cs # <<>> => Head(cs).how # "wake")
    BY <1>2, <1>4, <1>5 DEF Sleeping
  <2>2. SleepsAt(gs, suspendedRoot)
    <3>1. SleepsAt(Append(gs, f), suspendedRoot)
      BY <1>3, <1>6, <2>1 DEF Sleeping
    <3> QED
      BY <1>1, <1>6, <2>1, <3>1, SleepsFit
  <2>3. cs # <<>> => Head(cstack) = Head(cs)
    BY <1>6, Snocs
  <2> QED
    BY <1>3, <2>1, <2>2, <2>3 DEF Sleeping
<1> QED
  BY <1>4, <1>5, <1>7, <1>8, <1>9, <1>10, <1>11 DEF Stacks

(* The last activation again, with other traps. *)
Retrapped(a, c, n) == c \in ExecSet /\ c.how = a.how /\ c.traps = a.traps + n

LEMMA InnerPushed ==
  ASSUME Types, Stacks, cstack # <<>>, act.kind = "exec",
         NEW f \in FrameSet, ~IsEntry(f), NEW c, Retrapped(act, c, f.etraps),
         callsstack' = Append(callsstack, f), cstack' = Append(Front(cstack), c), UNCHANGED <<suspendVars, countVars>>,
         etraps' \in Seq(TrapSet), Below(etraps', f.etraps) = etraps, OwnTraps(etraps', f.etraps, stackbase'),
         stackbase' = stackbase + f.prevstkbase
  PROVE Stacks'
<1>1. /\ callsstack \in Seq(FrameSet) /\ suspended \in BOOLEAN /\ suspendedTraps \in Int
      /\ etraps \in Seq(TrapSet) /\ stackbase \in Int
  BY DEF Types
<1>2. /\ suspended' = suspended /\ suspendedRoot' = suspendedRoot /\ suspendedTraps' = suspendedTraps
      /\ nnativecalls' = nnativecalls /\ nmetamethodscall' = nmetamethodscall
  BY DEF suspendVars, countVars
<1>3. Fit(callsstack, Acts(suspended, suspendedTraps, cstack), etraps, stackbase) /\ CallsCounted /\ Sleeping
  BY DEF Stacks
<1>4. PICK cs, a : cs = Front(cstack) /\ a = act
  OBVIOUS
<1>5. cstack = Append(cs, a) /\ cs \in Seq(CallSet) /\ a \in CallSet
  BY <1>4, OnTop
<1>6. a \in ExecSet /\ c \in ExecSet /\ c \in CallSet /\ c.how = a.how /\ c.traps = a.traps + f.etraps
  BY <1>4, <1>5, CallType DEF Retrapped, CallSet
<1>7. PICK b : b = stackbase' /\ b \in Int /\ b - f.prevstkbase = stackbase
  <2>1. PICK p \in Int : p = f.prevstkbase
    BY FrameType
  <2>2. PICK d \in Int : d = stackbase
    BY <1>1
  <2>3. stackbase' = d + p
    BY <2>1, <2>2
  <2>4. d + p \in Int /\ (d + p) - p = d
    OBVIOUS
  <2> QED
    BY <2>1, <2>2, <2>3, <2>4
<1>8. PICK tr \in Seq(TrapSet) : tr = etraps'
  OBVIOUS
<1>9. /\ Fit(callsstack, Acts(suspended, suspendedTraps, Append(cs, a)), Below(tr, f.etraps), b - f.prevstkbase)
      /\ OwnTraps(tr, f.etraps, b)
  BY <1>3, <1>5, <1>7, <1>8
<1>10. Fit(Append(callsstack, f), Acts(suspended, suspendedTraps, Append(cs, c)), tr, b)
  BY <1>1, <1>5, <1>6, <1>7, <1>9, FitInner
<1>11. Fit(callsstack, Acts(suspended, suspendedTraps, cstack), etraps, stackbase)'
  BY <1>2, <1>4, <1>7, <1>8, <1>10
<1>12. cstack' = Append(cs, c)
  BY <1>4
<1>13. CallsCounted'
  BY <1>2, <1>3, <1>5, <1>6, <1>12, Recalled DEF CallsCounted
<1>14. Sleeping'
  <2>1. SUFFICES ASSUME suspended = TRUE
                 PROVE SleepsAt(callsstack', suspendedRoot) /\ Head(cstack').how # "wake"
    BY <1>2 DEF Sleeping
  <2>2. SleepsAt(callsstack, suspendedRoot) /\ Head(cstack).how # "wake"
    BY <1>3, <2>1 DEF Sleeping
  <2>3. SleepsAt(Append(callsstack, f), suspendedRoot) <=> SleepsAt(callsstack, suspendedRoot)
    BY <1>1, <1>5, <1>6, <1>7, <1>10, <2>1, SleepsFit
  <2>4. Head(cstack').how = Head(cstack).how
    BY <1>5, <1>6, <1>12, Recalled
  <2> QED
    BY <2>2, <2>3, <2>4
<1> QED
  BY <1>11, <1>13, <1>14 DEF Stacks

LEMMA InnerPopped ==
  ASSUME Types, Stacks, cstack # <<>>, act.kind = "exec", ~IsEntry(ci),
         NEW c, Retrapped(act, c, 0 - ci.etraps),
         callsstack' = Front(callsstack), cstack' = Append(Front(cstack), c), UNCHANGED <<suspendVars, countVars>>,
         etraps' = Below(etraps, ci.etraps), stackbase' = stackbase - ci.prevstkbase
  PROVE Stacks' /\ Front(callsstack) # <<>>
<1>1. /\ suspended \in BOOLEAN /\ suspendedTraps \in Int /\ etraps \in Seq(TrapSet) /\ stackbase \in Int
  BY DEF Types
<1>2. /\ suspended' = suspended /\ suspendedRoot' = suspendedRoot /\ suspendedTraps' = suspendedTraps
      /\ nnativecalls' = nnativecalls /\ nmetamethodscall' = nmetamethodscall
  BY DEF suspendVars, countVars
<1>3. CallsCounted /\ Sleeping
  BY DEF Stacks
<1>4. PICK gs, f : gs = Front(callsstack) /\ f = ci
  OBVIOUS
<1>5. PICK cs, a : cs = Front(cstack) /\ a = act
  OBVIOUS
<1>6. /\ callsstack = Append(gs, f) /\ gs \in Seq(FrameSet) /\ f \in FrameSet
      /\ cstack = Append(cs, a) /\ cs \in Seq(CallSet) /\ a \in CallSet
      /\ Fit(Append(gs, f), Acts(suspended, suspendedTraps, Append(cs, a)), etraps, stackbase)
      /\ gs # <<>>
  BY <1>4, <1>5, OnTop
<1>7. f.etraps \in Nat /\ a \in ExecSet /\ a.traps \in Int
  BY <1>5, <1>6, CallType, FrameType
<1>8. /\ c \in ExecSet /\ c \in CallSet /\ a.how = c.how /\ c.how = a.how
      /\ a.traps = c.traps + f.etraps
  <2>1. c \in ExecSet /\ c.how = a.how /\ c.traps = a.traps + (0 - f.etraps)
    BY <1>4, <1>5 DEF Retrapped
  <2> QED
    BY <1>7, <2>1 DEF CallSet
<1>9. Fit(gs, Acts(suspended, suspendedTraps, Append(cs, c)), Below(etraps, f.etraps), stackbase - f.prevstkbase)
  BY <1>1, <1>4, <1>6, <1>7, <1>8, FitInner
<1>10. Fit(callsstack, Acts(suspended, suspendedTraps, cstack), etraps, stackbase)'
  BY <1>2, <1>4, <1>5, <1>9
<1>11. cstack' = Append(cs, c)
  BY <1>5
<1>12. CallsCounted'
  BY <1>2, <1>3, <1>6, <1>8, <1>11, Recalled DEF CallsCounted
<1>13. Sleeping'
  <2>1. SUFFICES ASSUME suspended = TRUE
                 PROVE SleepsAt(gs, suspendedRoot) /\ Head(cstack').how # "wake"
    BY <1>2, <1>4 DEF Sleeping
  <2>2. SleepsAt(Append(gs, f), suspendedRoot) /\ Head(cstack).how # "wake"
    BY <1>3, <1>6, <2>1 DEF Sleeping
  <2>3. SleepsAt(Append(gs, f), suspendedRoot) <=> SleepsAt(gs, suspendedRoot)
    BY <1>1, <1>6, <2>1, SleepsFit
  <2>4. Head(cstack').how = Head(cstack).how
    BY <1>6, <1>8, <1>11, Recalled
  <2> QED
    BY <2>2, <2>3, <2>4
<1> QED
  BY <1>4, <1>6, <1>10, <1>12, <1>13 DEF Stacks

(* The frame f of the same function, with other traps. *)
SameFrame(f, g) ==
  /\ g \in FrameSet /\ g.kind = f.kind /\ g.root = f.root /\ g.gen = f.gen
  /\ g.prevstkbase = f.prevstkbase /\ g.prevtop = f.prevtop

LEMMA TopTraps ==
  ASSUME Types, Stacks, cstack # <<>>, act.kind = "exec",
         NEW f, SameFrame(ci, f), NEW c, Retrapped(act, c, f.etraps - ci.etraps),
         callsstack' = Append(Front(callsstack), f), cstack' = Append(Front(cstack), c),
         UNCHANGED <<suspendVars, countVars>>, stackbase' = stackbase,
         etraps' \in Seq(TrapSet), Below(etraps', f.etraps) = Below(etraps, ci.etraps),
         OwnTraps(etraps, ci.etraps, stackbase) => OwnTraps(etraps', f.etraps, stackbase)
  PROVE Stacks'
<1>1. /\ suspended \in BOOLEAN /\ suspendedTraps \in Int /\ etraps \in Seq(TrapSet) /\ stackbase \in Int
  BY DEF Types
<1>2. /\ suspended' = suspended /\ suspendedRoot' = suspendedRoot /\ suspendedTraps' = suspendedTraps
      /\ nnativecalls' = nnativecalls /\ nmetamethodscall' = nmetamethodscall
  BY DEF suspendVars, countVars
<1>3. CallsCounted /\ Sleeping
  BY DEF Stacks
<1>4. PICK gs, e : gs = Front(callsstack) /\ e = ci
  OBVIOUS
<1>5. PICK cs, a : cs = Front(cstack) /\ a = act
  OBVIOUS
<1>6. /\ callsstack = Append(gs, e) /\ gs \in Seq(FrameSet) /\ e \in FrameSet
      /\ cstack = Append(cs, a) /\ cs \in Seq(CallSet) /\ a \in CallSet
      /\ Fit(Append(gs, e), Acts(suspended, suspendedTraps, Append(cs, a)), etraps, stackbase)
  BY <1>4, <1>5, OnTop
<1>7. e.etraps \in Nat /\ a \in ExecSet /\ a.traps \in Int /\ a.kind = "exec"
  BY <1>5, <1>6, CallType, FrameType
<1>8. f \in FrameSet /\ f.etraps \in Nat /\ (IsEntry(f) <=> IsEntry(e)) /\ f.prevstkbase = e.prevstkbase
      /\ f.kind = e.kind /\ f.prevtop = e.prevtop /\ f.root = e.root
  BY <1>4, FrameType DEF SameFrame, IsEntry
<1>9. /\ c \in ExecSet /\ c \in CallSet /\ c.how = a.how
      /\ c.traps = a.traps + (f.etraps - e.etraps) /\ c.kind = "exec"
  BY <1>4, <1>5 DEF Retrapped, CallSet, ExecSet
<1>10. PICK tr \in Seq(TrapSet) : tr = etraps'
  OBVIOUS
<1>11. /\ Below(tr, f.etraps) = Below(etraps, e.etraps)
       /\ OwnTraps(etraps, e.etraps, stackbase) => OwnTraps(tr, f.etraps, stackbase)
  BY <1>4, <1>10
<1>12. Fit(Append(gs, f), Acts(suspended, suspendedTraps, Append(cs, c)), tr, stackbase)
  <2>1. CASE IsEntry(e)
    <3>1. /\ Fit(gs, Acts(suspended, suspendedTraps, cs), Below(etraps, e.etraps), stackbase - e.prevstkbase)
          /\ EntryFits(e, a) /\ a.traps = e.etraps /\ OwnTraps(etraps, e.etraps, stackbase)
      BY <1>1, <1>6, <1>7, <2>1, FitEntry
    <3>2. EntryFits(f, c) /\ c.traps = f.etraps
      BY <1>7, <1>8, <1>9, <3>1 DEF EntryFits
    <3> QED
      BY <1>1, <1>6, <1>8, <1>9, <1>11, <2>1, <3>1, <3>2, FitEntry
  <2>2. CASE ~IsEntry(e)
    <3>1. PICK n \in Int : n = a.traps - e.etraps
      BY <1>7
    <3>2. PICK d \in ExecSet : d = [a EXCEPT !.traps = n]
      BY <1>7, <3>1 DEF ExecSet
    <3>3. d.how = a.how /\ d.traps = n
      BY <1>7, <3>2 DEF ExecSet
    <3>4. a.traps = d.traps + e.etraps /\ c.traps = d.traps + f.etraps
      BY <1>7, <1>8, <1>9, <3>1, <3>3
    <3>5. Fit(gs, Acts(suspended, suspendedTraps, Append(cs, d)), Below(etraps, e.etraps), stackbase - e.prevstkbase)
          /\ OwnTraps(etraps, e.etraps, stackbase)
      BY <1>1, <1>6, <1>7, <2>2, <3>3, <3>4, FitInner
    <3>6. /\ Fit(gs, Acts(suspended, suspendedTraps, Append(cs, d)), Below(tr, f.etraps), stackbase - f.prevstkbase)
          /\ OwnTraps(tr, f.etraps, stackbase)
      BY <1>8, <1>11, <3>5
    <3>7. c.how = d.how /\ ~IsEntry(f)
      BY <1>8, <1>9, <2>2, <3>3
    <3> QED
      BY <1>1, <1>6, <1>8, <1>9, <3>4, <3>6, <3>7, FitInner
  <2> QED
    BY <2>1, <2>2
<1>13. cstack' = Append(cs, c) /\ callsstack' = Append(gs, f)
  BY <1>4, <1>5
<1>14. Fit(callsstack, Acts(suspended, suspendedTraps, cstack), etraps, stackbase)'
  BY <1>2, <1>10, <1>12, <1>13
<1>15. CallsCounted'
  BY <1>2, <1>3, <1>6, <1>9, <1>13, Recalled DEF CallsCounted
<1>16. Sleeping'
  <2>1. SUFFICES ASSUME suspended = TRUE
                 PROVE SleepsAt(callsstack', suspendedRoot) /\ Head(cstack').how # "wake"
    BY <1>2 DEF Sleeping
  <2>2. SleepsAt(Append(gs, e), suspendedRoot) /\ Head(cstack).how # "wake"
    BY <1>3, <1>6, <2>1 DEF Sleeping
  <2>3. SleepsAt(Append(gs, e), suspendedRoot) <=> SleepsAt(gs, suspendedRoot)
    BY <1>1, <1>6, <2>1, SleepsFit
  <2>4. SleepsAt(Append(gs, f), suspendedRoot) <=> SleepsAt(gs, suspendedRoot)
    BY <1>1, <1>6, <1>8, <1>9, <1>12, <2>1, SleepsFit
  <2>5. Head(cstack').how = Head(cstack).how
    BY <1>6, <1>9, <1>13, Recalled
  <2> QED
    BY <1>13, <2>2, <2>3, <2>4, <2>5
<1> QED
  BY <1>14, <1>15, <1>16 DEF Stacks

LEMMA StacksKept ==
  ASSUME Stacks, UNCHANGED <<callsstack, stackbase, etraps, cstack>>, UNCHANGED <<suspendVars, countVars>>
  PROVE Stacks'
<1>1. /\ suspended' = suspended /\ suspendedRoot' = suspendedRoot /\ suspendedTraps' = suspendedTraps
      /\ nnativecalls' = nnativecalls /\ nmetamethodscall' = nmetamethodscall
  BY DEF suspendVars, countVars
<1> QED
  BY <1>1 DEF Stacks, CallsCounted, Sleeping
-----------------------------------------------------------------------------
(* What the steps do to the generators. *)
LEMMA GenType ==
  ASSUME NEW x \in GenSet
  PROVE /\ x.state \in {"none", "running", "dead", "suspended"} /\ x.by \in By
        /\ x.state = "suspended" => x \in SleepingSet /\ x.size \in Nat /\ x.etraps \in Nat /\ x.root \in BOOLEAN /\ x.traps \in Seq(TrapSet)
        /\ x.state # "suspended" => x \in AwakeSet
<1>1. CASE x \in AwakeSet
  BY <1>1 DEF AwakeSet
<1>2. CASE x \in SleepingSet
  BY <1>2 DEF SleepingSet
<1> QED
  BY <1>1, <1>2 DEF GenSet

(* Every generator other than g stays as it is, and g is x, resumed by the *)
(* same one as before.                                                     *)
Changed(g, x) ==
  /\ gens' \in [Gen -> GenSet] /\ gens'[g] = x /\ x.by = gens[g].by
  /\ \A k \in Gen : k # g => gens'[k] = gens[k]
ByKept == \A g \in Gen : gens'[g].by = gens[g].by

LEMMA ByKeptChanged ==
  ASSUME NEW g \in Gen, NEW x, Changed(g, x)
  PROVE ByKept
BY DEF Changed, ByKept

LEMMA GenPushed ==
  ASSUME Types, Generators, NEW f \in FrameSet, f.gen = NoGen, callsstack' = Append(callsstack, f), gens' = gens
  PROVE Generators'
<1>1. callsstack \in Seq(FrameSet)
  BY DEF Types
<1>2. ASSUME NEW g \in Gen
      PROVE Owned(callsstack', g, gens[g]) /\ Kept(gens[g])
  <2>1. f.gen # g
    BY GenAssumption
  <2>2. Owned(callsstack, g, gens[g]) /\ Kept(gens[g])
    BY DEF Generators
  <2> QED
    BY <1>1, <2>1, <2>2, OwnedOther
<1> QED
  BY <1>2 DEF Generators

LEMMA GenPopped ==
  ASSUME Generators, NEW gs \in Seq(FrameSet), NEW f \in FrameSet, callsstack = Append(gs, f), callsstack' = gs,
         f.gen = NoGen => gens' = gens,
         f.gen # NoGen => \E x : Changed(f.gen, x) /\ x.state # "running" /\ Kept(x)
  PROVE Generators'
<1>1. ASSUME NEW g \in Gen
      PROVE Owned(gs, g, gens'[g]) /\ Kept(gens'[g])
  <2>1. Owned(callsstack, g, gens[g]) /\ Kept(gens[g])
    BY DEF Generators
  <2>2. CASE f.gen # g
    <3>1. Owned(gs, g, gens[g])
      BY <2>1, <2>2, OwnedOther
    <3>2. gens'[g] = gens[g]
      BY <2>2 DEF Changed
    <3> QED
      BY <2>1, <3>1, <3>2
  <2>3. CASE f.gen = g
    <3>1. Runs(gs, g) = {}
      BY <2>1, <2>3, OwnedLast
    <3>2. PICK x : Changed(f.gen, x) /\ x.state # "running" /\ Kept(x)
      BY <2>3, GenAssumption
    <3>3. gens'[g] = x
      BY <2>3, <3>2 DEF Changed
    <3> QED
      BY <3>1, <3>2, <3>3 DEF Owned
  <2> QED
    BY <2>2, <2>3
<1> QED
  BY <1>1 DEF Generators

LEMMA GenTop ==
  ASSUME Generators, NEW gs \in Seq(FrameSet), NEW e \in FrameSet, NEW f \in FrameSet,
         callsstack = Append(gs, e), callsstack' = Append(gs, f),
         f.gen = e.gen, f.root = e.root, e.gen # NoGen => f.kind = e.kind, gens' = gens
  PROVE Generators'
<1>1. ASSUME NEW g \in Gen
      PROVE Owned(callsstack', g, gens[g]) /\ Kept(gens[g])
  <2>1. Owned(callsstack, g, gens[g]) /\ Kept(gens[g])
    BY DEF Generators
  <2>2. CASE e.gen # g
    BY <2>1, <2>2, OwnedOther
  <2>3. CASE e.gen = g
    <3>1. f.kind = e.kind /\ f.gen = g
      BY <2>3, GenAssumption
    <3>2. /\ gens[g].state = "running" /\ Runs(gs, g) = {}
          /\ e.kind = "closure" /\ (gens[g].by = "script" => ~e.root)
      BY <2>1, <2>3, OwnedLast
    <3>3. /\ gens[g].state = "running" /\ Runs(gs, g) = {}
          /\ f.kind = "closure" /\ (gens[g].by = "script" => ~f.root)
      BY <3>1, <3>2
    <3>4. Owned(Append(gs, f), g, gens[g])
      BY <3>1, <3>3, OwnedLast
    <3> QED
      BY <2>1, <3>4
  <2> QED
    BY <2>2, <2>3
<1> QED
  BY <1>1 DEF Generators

LEMMA GenNew ==
  ASSUME Generators, callsstack' = callsstack, NEW g \in Gen, gens[g].state # "running",
         NEW x, Changed(g, x), x.state # "running", Kept(x)
  PROVE Generators'
<1>1. ASSUME NEW h \in Gen
      PROVE Owned(callsstack, h, gens'[h]) /\ Kept(gens'[h])
  <2>1. Owned(callsstack, h, gens[h]) /\ Kept(gens[h])
    BY DEF Generators
  <2>2. CASE h # g
    BY <2>1, <2>2 DEF Changed
  <2>3. CASE h = g
    BY <2>1, <2>3, OwnedSame DEF Changed
  <2> QED
    BY <2>2, <2>3
<1> QED
  BY <1>1 DEF Generators

LEMMA GenResumed ==
  ASSUME Types, Generators, NEW f \in FrameSet, callsstack' = Append(callsstack, f),
         NEW g \in Gen, gens[g].state = "suspended", f.gen = g, f.kind = "closure",
         gens[g].by = "script" => ~f.root,
         NEW x, Changed(g, x), x.state = "running"
  PROVE Generators'
<1>1. callsstack \in Seq(FrameSet)
  BY DEF Types
<1>2. ASSUME NEW h \in Gen
      PROVE Owned(callsstack', h, gens'[h]) /\ Kept(gens'[h])
  <2>1. Owned(callsstack, h, gens[h]) /\ Kept(gens[h])
    BY DEF Generators
  <2>2. CASE h # g
    <3>1. gens'[h] = gens[h] /\ f.gen # h
      BY <2>2 DEF Changed
    <3> QED
      BY <1>1, <2>1, <3>1, OwnedOther
  <2>3. CASE h = g
    <3>1. Runs(callsstack, h) = {}
      BY <2>1, <2>3 DEF Owned
    <3>2. gens'[h] = x /\ x.by = gens[h].by /\ f.gen = h
      BY <2>3 DEF Changed
    <3>3. Owned(Append(callsstack, f), h, x)
      BY <1>1, <2>3, <3>1, <3>2, OwnedLast
    <3> QED
      BY <3>2, <3>3 DEF Kept
  <2> QED
    BY <2>2, <2>3
<1> QED
  BY <1>2 DEF Generators

(* What the steps do to the stack of the host. *)
LEMMA HostKept ==
  ASSUME HostStack, ByKept, suspended' = suspended, cstack # <<>>, cstack' # <<>>,
         Head(cstack').how = Head(cstack).how, Head(callsstack').prevtop = Head(callsstack).prevtop
  PROVE HostStack'
BY DEF HostStack, ByKept, ScriptsOnly

LEMMA HostEntered ==
  ASSUME Types, Stacks, HostStack, ByKept, suspended' = suspended, cstack = <<>>, cstack' # <<>>,
         Head(cstack').how = "resume" => ~ScriptsOnly,
         callsstack = <<>> => Head(callsstack').prevtop = top + NParams - stackbase
  PROVE HostStack'
<1>1. ScriptsOnly' <=> ScriptsOnly
  BY DEF ByKept, ScriptsOnly
<1>2. SUFFICES ASSUME ScriptsOnly, suspended = FALSE
               PROVE Head(cstack').how # "resume" /\ Head(callsstack').prevtop = 1
  BY <1>1 DEF HostStack, Types
<1>3. top = 0
  BY <1>2 DEF HostStack
<1>4. callsstack = <<>> /\ stackbase = 0
  <2>1. /\ callsstack \in Seq(FrameSet) /\ cstack \in Seq(CallSet) /\ suspended \in BOOLEAN /\ suspendedTraps \in Int
        /\ etraps \in Seq(TrapSet) /\ stackbase \in Int
    BY DEF Types
  <2>2. Fit(callsstack, Acts(suspended, suspendedTraps, cstack), etraps, stackbase)
    BY DEF Stacks
  <2>3. /\ callsstack = <<>> <=> (cstack = <<>> /\ ~suspended)
        /\ callsstack = <<>> => etraps = <<>> /\ stackbase = 0
    BY <2>1, <2>2, FitEmpty
  <2> QED
    BY <1>2, <2>3
<1> QED
  BY <1>2, <1>3, <1>4 DEF NParams

LEMMA HostLeft ==
  ASSUME ByKept, suspended' = suspended, cstack' = <<>>, ScriptsOnly /\ ~suspended => top' = 0
  PROVE HostStack'
BY DEF HostStack, ByKept, ScriptsOnly
-----------------------------------------------------------------------------
(* The actions that push a frame. *)
LEMMA NoTraps ==
  ASSUME NEW tr \in Seq(TrapSet), NEW b
  PROVE Below(tr, 0) = tr /\ OwnTraps(tr, 0, b)
<1>1. Len(tr) \in Nat /\ Len(tr) - 0 = Len(tr)
  OBVIOUS
<1>2. SubSeq(tr, 1, Len(tr)) = tr
  BY SubSeqFull
<1>3. Len(tr) + 1 .. Len(tr) = {}
  BY <1>1
<1> QED
  BY <1>1, <1>2, <1>3 DEF Below, OwnTraps

(* EnterFrame pushes f; t was _top before. *)
Pushed(f, t) ==
  /\ callsstack' = Append(callsstack, f)
  /\ stackbase' = stackbase + f.prevstkbase /\ stackbase' \in Int
  /\ f.prevtop = t - stackbase
FrameOf(f, kind, root, g, n) == f.kind = kind /\ f.root = root /\ f.gen = g /\ f.etraps = n

LEMMA Entered ==
  ASSUME Types, NEW kind, NEW nb \in Int, NEW nt, NEW t \in Int, t >= stackbase, NEW root \in BOOLEAN,
         NEW g \in Gen \cup {NoGen}, NEW n \in Nat,
         kind = "closure" \/ (kind = "native" /\ root = FALSE /\ g = NoGen /\ n = 0),
         EnterFrame(kind, nb, nt, t, root, g, n)
  PROVE /\ \E f \in FrameSet : Pushed(f, t) /\ FrameOf(f, kind, root, g, n)
        /\ stackbase' = nb /\ top' = nt
<1> DEFINE f == [kind |-> kind, gen |-> g, etraps |-> n, root |-> root,
                 prevstkbase |-> nb - stackbase, prevtop |-> t - stackbase]
<1>1. callsstack \in Seq(FrameSet) /\ stackbase \in Int
  BY DEF Types
<1>2. nb - stackbase \in Int /\ t - stackbase \in Nat /\ stackbase + (nb - stackbase) = nb
  BY <1>1
<1>3. f \in FrameSet
  <2>1. CASE kind = "closure"
    <3>1. f \in ClosureFrames
      BY <1>2, <2>1 DEF ClosureFrames
    <3> QED
      BY <3>1 DEF FrameSet
  <2>2. CASE kind = "native" /\ root = FALSE /\ g = NoGen /\ n = 0
    <3>1. f \in NativeFrames
      BY <1>2, <2>2 DEF NativeFrames
    <3> QED
      BY <3>1 DEF FrameSet
  <2> QED
    BY <2>1, <2>2
<1>4. callsstack' = Append(callsstack, f) /\ stackbase' = nb /\ top' = nt
  BY DEF EnterFrame
<1>5. FrameOf(f, kind, root, g, n) /\ f.prevstkbase = nb - stackbase /\ f.prevtop = t - stackbase
  BY DEF FrameOf
<1> HIDE DEF f
<1>6. Pushed(f, t)
  BY <1>2, <1>4, <1>5 DEF Pushed
<1> QED
  BY <1>3, <1>4, <1>5, <1>6

LEMMA PushedTypes ==
  ASSUME Types, NEW f \in FrameSet, NEW t, Pushed(f, t)
  PROVE /\ callsstack' \in Seq(FrameSet) /\ stackbase' \in Int
        /\ callsstack # <<>> => Head(callsstack') = Head(callsstack)
        /\ callsstack = <<>> => Head(callsstack') = f
BY Snocs DEF Types, Pushed

(* A step that pushes the root frame of an Execute or that of a native. *)
LEMMA EntryStep ==
  ASSUME VMInv, NEW f \in FrameSet, NEW t, Pushed(f, t), IsEntry(f), NEW a \in CallSet,
         cstack' = Append(cstack, a), UNCHANGED suspendVars,
         top' \in Int, top' >= stackbase',
         etraps' \in Seq(TrapSet), Below(etraps', f.etraps) = etraps, OwnTraps(etraps', f.etraps, stackbase'),
         EntryFits(f, a), a.kind = "exec" => a.traps = f.etraps, Follows(a, cstack), a.how # "wake",
         nnativecalls' = nnativecalls + 1,
         nmetamethodscall' = IF a.how = "meta" THEN nmetamethodscall + 1 ELSE nmetamethodscall,
         mode = "run", mode' = mode, reported' = reported,
         gens' \in [Gen -> GenSet], ByKept, Generators',
         cstack = <<>> => t = top + NParams, a.how = "resume" => ~ScriptsOnly
  PROVE VMInv'
<1>1. Types /\ Stacks /\ Generators /\ HostStack /\ Handler
  BY DEF VMInv
<1>2. /\ callsstack' \in Seq(FrameSet) /\ stackbase' \in Int
      /\ callsstack # <<>> => Head(callsstack') = Head(callsstack)
      /\ callsstack = <<>> => Head(callsstack') = f
  BY <1>1, PushedTypes
<1>3. cstack \in Seq(CallSet) /\ cstack' \in Seq(CallSet) /\ cstack' # <<>>
      /\ (cstack # <<>> => Head(cstack') = Head(cstack)) /\ (cstack = <<>> => Head(cstack') = a)
  BY <1>1, Snocs DEF Types
<1>4. suspended' = suspended /\ suspendedRoot' = suspendedRoot /\ suspendedTraps' = suspendedTraps
  BY DEF suspendVars
<1>5. Types'
  <2>1. nnativecalls' \in Int /\ nmetamethodscall' \in Int
    BY <1>1 DEF Types
  <2> QED
    BY <1>1, <1>2, <1>3, <1>4, <2>1 DEF Types
<1>6. Stacks'
  <2>1. callsstack' = Append(callsstack, f) /\ stackbase' = stackbase + f.prevstkbase
    BY DEF Pushed
  <2> QED
    BY <1>1, <2>1, EntryPushed
<1>7. HostStack'
  <2>1. CASE cstack # <<>>
    <3>1. callsstack # <<>>
      BY <1>1, <2>1, OnTop
    <3> QED
      BY <1>1, <1>2, <1>3, <1>4, <2>1, <3>1, HostKept
  <2>2. CASE cstack = <<>>
    <3>0. t = top + NParams /\ f.prevtop = t - stackbase
      BY <2>2 DEF Pushed
    <3>1. callsstack = <<>> => Head(callsstack').prevtop = top + NParams - stackbase
      BY <1>1, <1>2, <3>0 DEF NParams, Types
    <3>2. Head(cstack').how = "resume" => ~ScriptsOnly
      BY <1>3, <2>2
    <3> QED
      BY <1>1, <1>3, <1>4, <2>2, <3>1, <3>2, HostEntered
  <2> QED
    BY <2>1, <2>2
<1>8. Handler'
  BY DEF Handler
<1> QED
  BY <1>5, <1>6, <1>7, <1>8 DEF VMInv

(* A step that pushes another frame of the last Execute. *)
LEMMA InnerStep ==
  ASSUME VMInv, NEW f \in FrameSet, NEW t, Pushed(f, t), ~IsEntry(f), cstack # <<>>, act.kind = "exec",
         NEW c, Retrapped(act, c, f.etraps), cstack' = Append(Front(cstack), c),
         UNCHANGED <<suspendVars, countVars>>,
         top' \in Int, top' >= stackbase',
         etraps' \in Seq(TrapSet), Below(etraps', f.etraps) = etraps, OwnTraps(etraps', f.etraps, stackbase'),
         mode = "run", mode' = mode, reported' = reported,
         gens' \in [Gen -> GenSet], ByKept, Generators'
  PROVE VMInv'
<1>1. Types /\ Stacks /\ Generators /\ HostStack /\ Handler
  BY DEF VMInv
<1>2. /\ callsstack' \in Seq(FrameSet) /\ stackbase' \in Int
      /\ callsstack # <<>> => Head(callsstack') = Head(callsstack)
  BY <1>1, PushedTypes
<1>3. /\ suspended' = suspended /\ suspendedRoot' = suspendedRoot /\ suspendedTraps' = suspendedTraps
      /\ nnativecalls' = nnativecalls /\ nmetamethodscall' = nmetamethodscall
  BY DEF suspendVars, countVars
<1>4. PICK cs, a : cs = Front(cstack) /\ a = act
  OBVIOUS
<1>5. cstack = Append(cs, a) /\ cs \in Seq(CallSet) /\ a \in CallSet /\ callsstack # <<>>
  BY <1>1, <1>4, OnTop
<1>6. c \in CallSet /\ c.how = a.how /\ cstack' = Append(cs, c)
  BY <1>4 DEF Retrapped, CallSet
<1>7. cstack' \in Seq(CallSet) /\ cstack' # <<>> /\ Head(cstack').how = Head(cstack).how
  BY <1>5, <1>6, Recalled, Snocs
<1>8. Types'
  BY <1>1, <1>2, <1>3, <1>7 DEF Types
<1>9. Stacks'
  <2>1. callsstack' = Append(callsstack, f) /\ stackbase' = stackbase + f.prevstkbase
    BY DEF Pushed
  <2> QED
    BY <1>1, <2>1, InnerPushed
<1>10. HostStack'
  BY <1>1, <1>2, <1>3, <1>5, <1>7, HostKept
<1>11. Handler'
  BY DEF Handler
<1> QED
  BY <1>8, <1>9, <1>10, <1>11 DEF VMInv

LEMMA CallClosureStep ==
  ASSUME VMInv, CallClosure
  PROVE VMInv'
<1>1. Types /\ Stacks /\ Generators
  BY DEF VMInv
<1>2. stackbase \in Int /\ top \in Int /\ top >= stackbase /\ etraps \in Seq(TrapSet) /\ gens \in [Gen -> GenSet]
  BY <1>1 DEF Types
<1>3. mode = "run" /\ cstack # <<>> /\ act.kind = "exec"
  BY DEF CallClosure, InExecute
<1>4. PICK nb, nt : nb = stackbase + Arg2 /\ nt = nb + StackSize /\ nb \in Int /\ nt \in Int /\ nt >= nb
  BY <1>2 DEF Arg2, StackSize
<1>5. EnterFrame("closure", nb, nt, top, FALSE, NoGen, 0)
  BY <1>4 DEF CallClosure
<1>6. UNCHANGED <<etraps, gens, countVars, suspendVars, cstack, mode, reported>>
  BY DEF CallClosure
<1>7. 0 \in Nat /\ FALSE \in BOOLEAN /\ NoGen \in Gen \cup {NoGen}
  OBVIOUS
<1>8. /\ \E f \in FrameSet : Pushed(f, top) /\ FrameOf(f, "closure", FALSE, NoGen, 0)
      /\ stackbase' = nb /\ top' = nt
  BY <1>1, <1>2, <1>4, <1>5, <1>7, Entered
<1>9. PICK f \in FrameSet : Pushed(f, top) /\ FrameOf(f, "closure", FALSE, NoGen, 0)
  BY <1>8
<1>10. ~IsEntry(f) /\ f.etraps = 0 /\ f.gen = NoGen
  BY <1>9 DEF FrameOf, IsEntry
<1>11. cstack = Append(Front(cstack), act) /\ act \in ExecSet
  BY <1>1, <1>3, OnTop, CallType
<1>12. Retrapped(act, act, f.etraps)
  BY <1>10, <1>11 DEF Retrapped, ExecSet
<1>13. Below(etraps', f.etraps) = etraps /\ OwnTraps(etraps', f.etraps, stackbase') /\ etraps' \in Seq(TrapSet)
  BY <1>2, <1>6, <1>10, NoTraps
<1>14. Generators' /\ ByKept /\ gens' \in [Gen -> GenSet]
  <2>1. callsstack' = Append(callsstack, f)
    BY <1>9 DEF Pushed
  <2> QED
    BY <1>1, <1>2, <1>6, <1>10, <2>1, GenPushed DEF ByKept
<1> QED
  BY <1>3, <1>4, <1>6, <1>8, <1>9, <1>10, <1>11, <1>12, <1>13, <1>14, InnerStep

(* CallNative, CallMetaMethod and sq_call: the new frame has no trap and   *)
(* runs no generator.                                                      *)
LEMMA CallEnters ==
  ASSUME VMInv, mode = "run",
         NEW f \in FrameSet, NEW t \in Int, t >= stackbase, Pushed(f, t), IsEntry(f), f.etraps = 0, f.gen = NoGen,
         top' \in Int, top' >= stackbase',
         NEW a \in CallSet, cstack' = Append(cstack, a), f.kind = "native" <=> a.kind = "native",
         a.kind = "exec" => a.traps = 0,
         a.how \notin {"wake", "resume"}, Follows(a, cstack), a.how # "op" => t >= stackbase + 1,
         cstack = <<>> => t = top + NParams,
         nnativecalls' = nnativecalls + 1,
         nmetamethodscall' = IF a.how = "meta" THEN nmetamethodscall + 1 ELSE nmetamethodscall,
         UNCHANGED <<etraps, gens, suspendVars, mode, reported>>
  PROVE VMInv'
<1>1. Types /\ Generators
  BY DEF VMInv
<1>2. stackbase \in Int /\ etraps \in Seq(TrapSet) /\ gens \in [Gen -> GenSet]
  BY <1>1 DEF Types
<1>3. f.prevtop = t - stackbase /\ callsstack' = Append(callsstack, f)
  BY DEF Pushed
<1>4. etraps' = etraps /\ gens' = gens /\ mode' = mode /\ reported' = reported /\ UNCHANGED suspendVars
  OBVIOUS
<1>5. Below(etraps', f.etraps) = etraps /\ OwnTraps(etraps', f.etraps, stackbase') /\ etraps' \in Seq(TrapSet)
  BY <1>2, <1>4, NoTraps
<1>6. Generators' /\ ByKept /\ gens' \in [Gen -> GenSet]
  BY <1>1, <1>2, <1>3, <1>4, GenPushed DEF ByKept
<1>7. EntryFits(f, a) /\ (a.kind = "exec" => a.traps = f.etraps)
  <2>1. a.how # "op" => f.prevtop >= 1
    BY <1>2, <1>3
  <2> QED
    BY <2>1 DEF EntryFits
<1>8. a.how # "wake" /\ (a.how = "resume" => ~ScriptsOnly)
  OBVIOUS
<1> QED
  BY <1>4, <1>5, <1>6, <1>7, <1>8, EntryStep

LEMMA CallNativeStep ==
  ASSUME VMInv, CallNative
  PROVE VMInv'
<1>1. Types /\ Stacks
  BY DEF VMInv
<1>2. stackbase \in Int /\ top \in Int /\ top >= stackbase
  BY <1>1 DEF Types
<1>3. mode = "run" /\ cstack # <<>> /\ act.kind = "exec"
  BY DEF CallNative, InExecute
<1>4. PICK nb, nt : nb = stackbase + Arg2 /\ nt = nb + NParams /\ nb \in Int /\ nt \in Int /\ nt >= nb
  BY <1>2 DEF Arg2, NParams
<1>5. EnterFrame("native", nb, nt, top, FALSE, NoGen, 0)
  BY <1>4 DEF CallNative
<1>6. PICK a : a = [kind |-> "native", how |-> "op"]
  OBVIOUS
<1>7. a \in CallSet /\ a.kind = "native" /\ a.how = "op"
  BY <1>6 DEF CallSet, NativeSet
<1>8. /\ cstack' = Append(cstack, a) /\ nnativecalls' = nnativecalls + 1 /\ nmetamethodscall' = nmetamethodscall
      /\ UNCHANGED <<etraps, gens, suspendVars, mode, reported>>
  BY <1>6 DEF CallNative
<1>9. Follows(a, cstack)
  BY <1>3, <1>7 DEF Follows, act
<1>10. 0 \in Nat /\ FALSE \in BOOLEAN /\ NoGen \in Gen \cup {NoGen} /\ nb \in Int /\ nt \in Int /\ top \in Int /\ top >= stackbase
  BY <1>2, <1>4
<1>11. /\ \E f \in FrameSet : Pushed(f, top) /\ FrameOf(f, "native", FALSE, NoGen, 0)
       /\ stackbase' = nb /\ top' = nt
  BY <1>1, <1>5, <1>10, Entered
<1>12. PICK f \in FrameSet : Pushed(f, top) /\ FrameOf(f, "native", FALSE, NoGen, 0)
  BY <1>11
<1>13. IsEntry(f) /\ f.etraps = 0 /\ f.gen = NoGen /\ (f.kind = "native" <=> a.kind = "native")
  BY <1>7, <1>12 DEF FrameOf, IsEntry
<1>14. top' \in Int /\ top' >= stackbase'
  BY <1>4, <1>11
<1> QED
  BY <1>2, <1>3, <1>4, <1>7, <1>8, <1>9, <1>10, <1>12, <1>13, <1>14, CallEnters

LEMMA CallMetaMethodStep ==
  ASSUME VMInv, CallMetaMethod
  PROVE VMInv'
<1>1. Types /\ Stacks
  BY DEF VMInv
<1>2. stackbase \in Int /\ top \in Int /\ top >= stackbase
  BY <1>1 DEF Types
<1>3. mode = "run" /\ cstack # <<>> /\ act.kind = "exec"
  BY DEF CallMetaMethod, InExecute
<1>4. PICK nb, nt, t : /\ nb = top /\ nt = top + StackSize /\ nb \in Int /\ nt \in Int /\ nt >= nb
                       /\ t = top + NParams /\ t \in Int /\ t >= stackbase + 1 /\ t >= stackbase
  BY <1>2 DEF StackSize, NParams
<1>5. EnterFrame("closure", nb, nt, t, TRUE, NoGen, 0)
  BY <1>4 DEF CallMetaMethod
<1>6. PICK a : a = [kind |-> "exec", how |-> "meta", traps |-> 0, raiseerror |-> FALSE]
  OBVIOUS
<1>7. a \in CallSet /\ a.kind = "exec" /\ a.how = "meta" /\ a.traps = 0
  BY <1>6 DEF CallSet, ExecSet
<1>8. /\ cstack' = Append(cstack, a) /\ nnativecalls' = nnativecalls + 1 /\ nmetamethodscall' = nmetamethodscall + 1
      /\ UNCHANGED <<etraps, gens, suspendVars, mode, reported>>
  BY <1>6 DEF CallMetaMethod, PushExecute
<1>9. Follows(a, cstack)
  BY <1>3, <1>7 DEF Follows, act
<1>10. 0 \in Nat /\ TRUE \in BOOLEAN /\ NoGen \in Gen \cup {NoGen} /\ nb \in Int /\ nt \in Int /\ t \in Int /\ t >= stackbase
  BY <1>2, <1>4
<1>11. /\ \E f \in FrameSet : Pushed(f, t) /\ FrameOf(f, "closure", TRUE, NoGen, 0)
       /\ stackbase' = nb /\ top' = nt
  BY <1>1, <1>5, <1>10, Entered
<1>12. PICK f \in FrameSet : Pushed(f, t) /\ FrameOf(f, "closure", TRUE, NoGen, 0)
  BY <1>11
<1>13. IsEntry(f) /\ f.etraps = 0 /\ f.gen = NoGen /\ (f.kind = "native" <=> a.kind = "native")
  BY <1>7, <1>12 DEF FrameOf, IsEntry
<1>14. top' \in Int /\ top' >= stackbase'
  BY <1>4, <1>11
<1> QED
  BY <1>2, <1>3, <1>4, <1>7, <1>8, <1>9, <1>10, <1>12, <1>13, <1>14, CallEnters

LEMMA CallMetaMethodNativeStep ==
  ASSUME VMInv, CallMetaMethodNative
  PROVE VMInv'
<1>1. Types /\ Stacks
  BY DEF VMInv
<1>2. stackbase \in Int /\ top \in Int /\ top >= stackbase
  BY <1>1 DEF Types
<1>3. mode = "run" /\ cstack # <<>> /\ act.kind = "exec"
  BY DEF CallMetaMethodNative, InExecute
<1>4. PICK nb, t : /\ nb = top /\ nb \in Int /\ t = top + NParams /\ t \in Int /\ t >= nb
                   /\ t >= stackbase + 1 /\ t >= stackbase
  BY <1>2 DEF NParams
<1>5. EnterFrame("native", nb, t, t, FALSE, NoGen, 0)
  BY <1>4 DEF CallMetaMethodNative
<1>6. PICK a : a = [kind |-> "native", how |-> "meta"]
  OBVIOUS
<1>7. a \in CallSet /\ a.kind = "native" /\ a.how = "meta"
  BY <1>6 DEF CallSet, NativeSet
<1>8. /\ cstack' = Append(cstack, a) /\ nnativecalls' = nnativecalls + 1 /\ nmetamethodscall' = nmetamethodscall + 1
      /\ UNCHANGED <<etraps, gens, suspendVars, mode, reported>>
  BY <1>6 DEF CallMetaMethodNative
<1>9. Follows(a, cstack)
  BY <1>3, <1>7 DEF Follows, act
<1>10. 0 \in Nat /\ FALSE \in BOOLEAN /\ NoGen \in Gen \cup {NoGen} /\ nb \in Int /\ t \in Int /\ t >= stackbase
  BY <1>2, <1>4
<1>11. /\ \E f \in FrameSet : Pushed(f, t) /\ FrameOf(f, "native", FALSE, NoGen, 0)
       /\ stackbase' = nb /\ top' = t
  BY <1>1, <1>5, <1>10, Entered
<1>12. PICK f \in FrameSet : Pushed(f, t) /\ FrameOf(f, "native", FALSE, NoGen, 0)
  BY <1>11
<1>13. IsEntry(f) /\ f.etraps = 0 /\ f.gen = NoGen /\ (f.kind = "native" <=> a.kind = "native")
  BY <1>7, <1>12 DEF FrameOf, IsEntry
<1>14. top' \in Int /\ top' >= stackbase'
  BY <1>4, <1>11
<1> QED
  BY <1>2, <1>3, <1>4, <1>7, <1>8, <1>9, <1>10, <1>12, <1>13, <1>14, CallEnters

(* The API is called where no error is being unwound. *)
LEMMA CallerRuns ==
  ASSUME VMInv, CanCall
  PROVE mode = "run"
<1>1. Types /\ Handler
  BY DEF VMInv
<1>2. cstack = <<>> \/ act.kind = "native"
  BY DEF CanCall, InNative, InHost
<1> QED
  BY <1>1, <1>2 DEF Types, Handler

LEMMA SqCallStep ==
  ASSUME VMInv, NEW raiseerror \in BOOLEAN, SqCall(raiseerror)
  PROVE VMInv'
<1>1. Types
  BY DEF VMInv
<1>2. stackbase \in Int /\ top \in Int /\ top >= stackbase
  BY <1>1 DEF Types
<1>3. mode = "run"
  BY CallerRuns DEF SqCall
<1>4. PICK nb, nt, t : /\ nb = top /\ nt = top + StackSize /\ nb \in Int /\ nt \in Int /\ nt >= nb
                       /\ t = top + NParams /\ t \in Int /\ t >= stackbase + 1 /\ t >= stackbase
  BY <1>2 DEF StackSize, NParams
<1>5. EnterFrame("closure", nb, nt, t, TRUE, NoGen, 0)
  BY <1>4 DEF SqCall
<1>6. PICK a : a = [kind |-> "exec", how |-> "call", traps |-> 0, raiseerror |-> raiseerror]
  OBVIOUS
<1>7. a \in CallSet /\ a.kind = "exec" /\ a.how = "call" /\ a.traps = 0
  BY <1>6 DEF CallSet, ExecSet
<1>8. /\ cstack' = Append(cstack, a) /\ nnativecalls' = nnativecalls + 1 /\ nmetamethodscall' = nmetamethodscall
      /\ UNCHANGED <<etraps, gens, suspendVars, mode, reported>>
  BY <1>6 DEF SqCall, PushExecute
<1>9. Follows(a, cstack)
  BY <1>7 DEF Follows
<1>10. 0 \in Nat /\ TRUE \in BOOLEAN /\ NoGen \in Gen \cup {NoGen} /\ nb \in Int /\ nt \in Int /\ t \in Int /\ t >= stackbase
  BY <1>2, <1>4
<1>11. /\ \E f \in FrameSet : Pushed(f, t) /\ FrameOf(f, "closure", TRUE, NoGen, 0)
       /\ stackbase' = nb /\ top' = nt
  BY <1>1, <1>5, <1>10, Entered
<1>12. PICK f \in FrameSet : Pushed(f, t) /\ FrameOf(f, "closure", TRUE, NoGen, 0)
  BY <1>11
<1>13. IsEntry(f) /\ f.etraps = 0 /\ f.gen = NoGen /\ (f.kind = "native" <=> a.kind = "native")
  BY <1>7, <1>12 DEF FrameOf, IsEntry
<1>14. top' \in Int /\ top' >= stackbase'
  BY <1>4, <1>11
<1> QED
  BY <1>2, <1>3, <1>4, <1>7, <1>8, <1>9, <1>10, <1>12, <1>13, <1>14, CallEnters

LEMMA SqCallNativeStep ==
  ASSUME VMInv, SqCallNative
  PROVE VMInv'
<1>1. Types
  BY DEF VMInv
<1>2. stackbase \in Int /\ top \in Int /\ top >= stackbase
  BY <1>1 DEF Types
<1>3. mode = "run"
  BY CallerRuns DEF SqCallNative
<1>4. PICK nb, t : /\ nb = top /\ nb \in Int /\ t = top + NParams /\ t \in Int /\ t >= nb
                   /\ t >= stackbase + 1 /\ t >= stackbase
  BY <1>2 DEF NParams
<1>5. EnterFrame("native", nb, t, t, FALSE, NoGen, 0)
  BY <1>4 DEF SqCallNative
<1>6. PICK a : a = [kind |-> "native", how |-> "call"]
  OBVIOUS
<1>7. a \in CallSet /\ a.kind = "native" /\ a.how = "call"
  BY <1>6 DEF CallSet, NativeSet
<1>8. /\ cstack' = Append(cstack, a) /\ nnativecalls' = nnativecalls + 1 /\ nmetamethodscall' = nmetamethodscall
      /\ UNCHANGED <<etraps, gens, suspendVars, mode, reported>>
  BY <1>6 DEF SqCallNative
<1>9. Follows(a, cstack)
  BY <1>7 DEF Follows
<1>10. 0 \in Nat /\ FALSE \in BOOLEAN /\ NoGen \in Gen \cup {NoGen} /\ nb \in Int /\ t \in Int /\ t >= stackbase
  BY <1>2, <1>4
<1>11. /\ \E f \in FrameSet : Pushed(f, t) /\ FrameOf(f, "native", FALSE, NoGen, 0)
       /\ stackbase' = nb /\ top' = t
  BY <1>1, <1>5, <1>10, Entered
<1>12. PICK f \in FrameSet : Pushed(f, t) /\ FrameOf(f, "native", FALSE, NoGen, 0)
  BY <1>11
<1>13. IsEntry(f) /\ f.etraps = 0 /\ f.gen = NoGen /\ (f.kind = "native" <=> a.kind = "native")
  BY <1>7, <1>12 DEF FrameOf, IsEntry
<1>14. top' \in Int /\ top' >= stackbase'
  BY <1>4, <1>11
<1> QED
  BY <1>2, <1>3, <1>4, <1>7, <1>8, <1>9, <1>10, <1>12, <1>13, <1>14, CallEnters
-----------------------------------------------------------------------------
(* Generators that are resumed. *)
LEMMA FunSeq ==
  ASSUME NEW S, NEW n \in Nat, NEW f \in [1 .. n -> S]
  PROVE f \in Seq(S) /\ Len(f) = n
OBVIOUS

LEMMA ReverseSeq ==
  ASSUME NEW S, NEW s \in Seq(S)
  PROVE /\ Reverse(s) \in Seq(S) /\ Len(Reverse(s)) = Len(s) /\ Len(s) \in Nat
        /\ \A i \in 1 .. Len(s) : Len(s) - i + 1 \in 1 .. Len(s) /\ Reverse(s)[i] = s[Len(s) - i + 1]
<1>1. PICK n \in Nat : n = Len(s)
  OBVIOUS
<1>2. \A i \in 1 .. n : (n - i) + 1 \in 1 .. n /\ s[(n - i) + 1] \in S
  BY <1>1
<1>3. Reverse(s) = [i \in 1 .. n |-> s[(n - i) + 1]]
  BY <1>1 DEF Reverse
<1>4. Reverse(s) \in [1 .. n -> S]
  BY <1>2, <1>3
<1>5. Reverse(s) \in Seq(S) /\ Len(Reverse(s)) = n
  BY <1>4, FunSeq
<1> QED
  BY <1>1, <1>2, <1>3, <1>5

LEMMA TrapsOnTop ==
  ASSUME NEW tr \in Seq(TrapSet), NEW r \in Seq(TrapSet), NEW b, \A i \in 1 .. Len(r) : TrapAt(r[i], b)
  PROVE /\ tr \o r \in Seq(TrapSet) /\ Below(tr \o r, Len(r)) = tr /\ OwnTraps(tr \o r, Len(r), b)
<1>1. PICK m, n \in Nat : m = Len(tr) /\ n = Len(r)
  OBVIOUS
<1>2. PICK c : c = tr \o r
  OBVIOUS
<1>3. /\ c \in Seq(TrapSet) /\ Len(c) = m + n /\ \A i \in 1 .. m : c[i] = tr[i]
      /\ \A i \in 1 .. n : c[m + i] = r[i]
  BY <1>1, <1>2
<1>4. m + n - n = m
  OBVIOUS
<1>5. SubSeq(c, 1, m) = tr
  BY <1>1, <1>3
<1>6. ASSUME NEW t \in m + 1 .. m + n
      PROVE TrapAt(c[t], b)
  <2>1. PICK i \in 1 .. n : t = m + i
    <3>1. t - m \in 1 .. n /\ t = m + (t - m)
      OBVIOUS
    <3> QED
      BY <3>1
  <2> QED
    BY <1>1, <1>3, <2>1
<1>7. Below(c, n) = tr
  BY <1>3, <1>4, <1>5 DEF Below
<1>8. OwnTraps(c, n, b)
  BY <1>3, <1>4, <1>6 DEF OwnTraps
<1> QED
  BY <1>1, <1>2, <1>3, <1>7, <1>8

LEMMA Resumed ==
  ASSUME Types, Generators, NEW g \in Gen, NEW t \in Int, NEW root, ResumeFrame(g, t, root)
  PROVE /\ gens[g].state = "suspended" /\ gens[g].etraps \in Nat /\ gens[g].size \in Nat
        /\ EnterFrame("closure", t, t + gens[g].size, t, root, g, gens[g].etraps)
        /\ etraps' \in Seq(TrapSet) /\ Below(etraps', gens[g].etraps) = etraps /\ OwnTraps(etraps', gens[g].etraps, t)
        /\ gens' \in [Gen -> GenSet] /\ \E x : Changed(g, x) /\ x.state = "running"
<1>1. PICK s \in GenSet : s = gens[g]
  BY DEF Types
<1>2. s.state = "suspended"
  BY <1>1 DEF ResumeFrame
<1>3. s.etraps \in Nat /\ s.size \in Nat /\ s.traps \in Seq(TrapSet) /\ s.by \in By
  BY <1>2, GenType
<1>4. PICK n \in Nat : n = s.etraps
  BY <1>3
<1>5. Len(s.traps) = n /\ \A i \in 1 .. n : TrapAt(s.traps[i], 0) /\ s.traps[i] \in TrapSet
  BY <1>1, <1>2, <1>3, <1>4 DEF Generators, Kept
<1>6. PICK abs : abs = [i \in 1 .. n |-> [stackbase |-> s.traps[i].stackbase + t, stacksize |-> s.traps[i].stacksize + t]]
  OBVIOUS
<1>7. \A i \in 1 .. n : abs[i] \in TrapSet /\ TrapAt(abs[i], t)
  BY <1>5, <1>6 DEF TrapSet, TrapAt
<1>8. abs \in Seq(TrapSet) /\ Len(abs) = n
  <2>1. abs \in [1 .. n -> TrapSet]
    BY <1>6, <1>7
  <2> QED
    BY <2>1, FunSeq
<1>9. PICK r : r = Reverse(abs)
  OBVIOUS
<1>10. r \in Seq(TrapSet) /\ Len(r) = n /\ \A i \in 1 .. n : TrapAt(r[i], t)
  BY <1>7, <1>8, <1>9, ReverseSeq
<1>11. /\ EnterFrame("closure", t, t + s.size, t, root, g, n)
       /\ etraps' = etraps \o r
       /\ gens' = [gens EXCEPT ![g] = [state |-> "running", by |-> @.by]]
  BY <1>1, <1>4, <1>6, <1>9 DEF ResumeFrame
<1>12. etraps' \in Seq(TrapSet) /\ Below(etraps', n) = etraps /\ OwnTraps(etraps', n, t)
  BY <1>10, <1>11, TrapsOnTop DEF Types
<1>13. PICK x : x = [state |-> "running", by |-> s.by]
  OBVIOUS
<1>14. x \in GenSet /\ x.state = "running" /\ x.by = s.by
  BY <1>3, <1>13 DEF GenSet, AwakeSet
<1>15. gens \in [Gen -> GenSet]
  BY DEF Types
<1>16. gens' = [gens EXCEPT ![g] = x]
  BY <1>1, <1>11, <1>13
<1>17. gens' \in [Gen -> GenSet] /\ gens'[g] = x /\ \A k \in Gen : k # g => gens'[k] = gens[k]
  BY <1>14, <1>15, <1>16
<1>18. Changed(g, x)
  BY <1>1, <1>14, <1>17 DEF Changed
<1> QED
  BY <1>1, <1>2, <1>3, <1>4, <1>11, <1>12, <1>14, <1>17, <1>18

LEMMA SqResumeStep ==
  ASSUME VMInv, NEW g \in Gen, gens[g].by = "host", NEW raiseerror \in BOOLEAN, SqResume(g, raiseerror)
  PROVE VMInv'
<1>1. Types /\ Stacks /\ Generators
  BY DEF VMInv
<1>2. stackbase \in Int /\ top \in Int /\ top >= stackbase
  BY <1>1 DEF Types
<1>3. mode = "run"
  BY CallerRuns DEF SqResume
<1>4. PICK t : t = top + 1 /\ t \in Int /\ t >= stackbase + 1 /\ t >= stackbase
  BY <1>2
<1>5. ResumeFrame(g, t, TRUE) /\ PushExecute("resume", gens[g].etraps, raiseerror)
      /\ UNCHANGED <<nmetamethodscall, suspendVars, mode, reported>>
  BY <1>4 DEF SqResume
<1>6. /\ gens[g].state = "suspended" /\ gens[g].etraps \in Nat /\ gens[g].size \in Nat
      /\ EnterFrame("closure", t, t + gens[g].size, t, TRUE, g, gens[g].etraps)
      /\ etraps' \in Seq(TrapSet) /\ Below(etraps', gens[g].etraps) = etraps /\ OwnTraps(etraps', gens[g].etraps, t)
      /\ gens' \in [Gen -> GenSet] /\ \E x : Changed(g, x) /\ x.state = "running"
  BY <1>1, <1>4, <1>5, Resumed
<1>7. PICK n, nt : n = gens[g].etraps /\ nt = t + gens[g].size /\ n \in Nat /\ nt \in Int /\ nt >= t
  BY <1>4, <1>6
<1>8. EnterFrame("closure", t, nt, t, TRUE, g, n)
  BY <1>6, <1>7
<1>9. n \in Nat /\ t \in Int /\ t >= stackbase /\ TRUE \in BOOLEAN /\ g \in Gen \cup {NoGen}
  BY <1>4, <1>7
<1>10. /\ \E f \in FrameSet : Pushed(f, t) /\ FrameOf(f, "closure", TRUE, g, n)
       /\ stackbase' = t /\ top' = nt
  BY <1>1, <1>8, <1>9, Entered
<1>11. PICK f \in FrameSet : Pushed(f, t) /\ FrameOf(f, "closure", TRUE, g, n)
  BY <1>10
<1>12. /\ IsEntry(f) /\ f.etraps = n /\ f.gen = g /\ f.kind = "closure" /\ callsstack' = Append(callsstack, f)
       /\ f.prevtop = t - stackbase
  BY <1>11 DEF FrameOf, IsEntry, Pushed
<1>13. PICK a : a = [kind |-> "exec", how |-> "resume", traps |-> n, raiseerror |-> raiseerror]
  OBVIOUS
<1>14. a \in CallSet /\ a.kind = "exec" /\ a.how = "resume" /\ a.traps = n
  <2>1. n \in Int
    BY <1>7
  <2> QED
    BY <1>13, <2>1 DEF CallSet, ExecSet
<1>15. cstack' = Append(cstack, a) /\ nnativecalls' = nnativecalls + 1
  BY <1>5, <1>7, <1>13 DEF PushExecute
<1>16. EntryFits(f, a) /\ Follows(a, cstack)
  <2>1. f.prevtop >= 1
    BY <1>2, <1>4, <1>12
  <2> QED
    BY <1>12, <1>14, <2>1 DEF EntryFits, Follows
<1>17. Generators' /\ ByKept
  <2>1. PICK x : Changed(g, x) /\ x.state = "running"
    BY <1>6
  <2>2. ByKept
    BY <2>1, ByKeptChanged
  <2>3. gens[g].by = "script" => ~f.root
    OBVIOUS
  <2>4. Generators'
    BY <1>1, <1>6, <1>12, <2>1, <2>3, GenResumed
  <2> QED
    BY <2>2, <2>4
<1>18. ~ScriptsOnly
  BY DEF ScriptsOnly
<1>19. top' \in Int /\ top' >= stackbase' /\ OwnTraps(etraps', f.etraps, stackbase') /\ Below(etraps', f.etraps) = etraps
  BY <1>6, <1>7, <1>10, <1>12
<1>20. t = top + NParams
  BY <1>4 DEF NParams
<1>21. nmetamethodscall' = nmetamethodscall /\ mode' = mode /\ reported' = reported /\ UNCHANGED suspendVars
  BY <1>5
<1>22. /\ nmetamethodscall' = IF a.how = "meta" THEN nmetamethodscall + 1 ELSE nmetamethodscall
       /\ a.how # "wake" /\ (a.how = "resume" => ~ScriptsOnly) /\ (a.kind = "exec" => a.traps = f.etraps)
       /\ (cstack = <<>> => t = top + NParams)
  BY <1>12, <1>14, <1>18, <1>20, <1>21
<1> QED
  BY <1>3, <1>6, <1>11, <1>12, <1>14, <1>15, <1>16, <1>17, <1>19, <1>21, <1>22, EntryStep

(* Another last element. *)
LEMMA LastReplaced ==
  ASSUME NEW S, NEW s \in Seq(S), s # <<>>, NEW x \in S
  PROVE [s EXCEPT ![Len(s)] = x] = Append(Front(s), x)
<1>1. PICK p, y : p = Front(s) /\ y = Last(s)
  OBVIOUS
<1>2. s = Append(p, y) /\ p \in Seq(S) /\ y \in S
  BY <1>1, SeqSnoc
<1>3. Len(s) = Len(p) + 1 /\ Len(p) \in Nat
  BY <1>2
<1>4. PICK z : z = [s EXCEPT ![Len(s)] = x]
  OBVIOUS
<1>5. z \in Seq(S) /\ Len(z) = Len(p) + 1 /\ z[Len(p) + 1] = x /\ \A i \in 1 .. Len(p) : z[i] = p[i]
  <2>1. Len(s) \in 1 .. Len(s)
    BY <1>3
  <2>2. /\ z \in Seq(S) /\ Len(z) = Len(s)
        /\ \A j \in 1 .. Len(s) : z[j] = IF j = Len(s) THEN x ELSE s[j]
    BY <1>4, <2>1, ExceptSeq
  <2>3. \A k \in 1 .. Len(p) : k \in 1 .. Len(s) /\ k # Len(s) /\ s[k] = p[k]
    BY <1>2, <1>3
  <2> QED
    BY <1>3, <2>1, <2>2, <2>3
<1>6. z = Append(p, x)
  BY <1>2, <1>3, <1>5
<1> QED
  BY <1>1, <1>4, <1>6

LEMMA TrapsSet ==
  ASSUME Types, Stacks, cstack # <<>>, act.kind = "exec", NEW d \in Int, NEW n, n = act.traps + d, SetTraps(n)
  PROVE \E c : Retrapped(act, c, d) /\ cstack' = Append(Front(cstack), c) /\ c.raiseerror = act.raiseerror
<1>1. cstack \in Seq(CallSet)
  BY DEF Types
<1>2. PICK a : a = act /\ a \in ExecSet
  BY OnTop, CallType
<1>3. PICK c : c = [a EXCEPT !.traps = n]
  OBVIOUS
<1>4. c \in ExecSet /\ c \in CallSet /\ c.how = a.how /\ c.traps = a.traps + d /\ c.raiseerror = a.raiseerror
  BY <1>2, <1>3 DEF ExecSet, CallSet
<1>5. cstack[Len(cstack)] = a
  BY <1>2 DEF act, Last
<1>6. [cstack EXCEPT ![Len(cstack)] = c] = Append(Front(cstack), c)
  BY <1>1, <1>4, LastReplaced
<1>7. cstack' = [cstack EXCEPT ![Len(cstack)] = c]
  BY <1>3, <1>5 DEF SetTraps
<1> QED
  BY <1>2, <1>4, <1>6, <1>7 DEF Retrapped

LEMMA ResumeStep ==
  ASSUME VMInv, NEW g \in Gen, gens[g].by = "script", Resume(g)
  PROVE VMInv'
<1>1. Types /\ Stacks /\ Generators
  BY DEF VMInv
<1>2. stackbase \in Int /\ top \in Int /\ top >= stackbase /\ gens \in [Gen -> GenSet]
  BY <1>1 DEF Types
<1>3. mode = "run" /\ cstack # <<>> /\ act.kind = "exec"
  BY DEF Resume, InExecute
<1>4. PICK t, r : t = top /\ t \in Int /\ t >= stackbase /\ r = gens[g].root
  BY <1>2
<1>5. /\ ResumeFrame(g, t, r) /\ SetTraps(act.traps + gens[g].etraps)
      /\ UNCHANGED <<countVars, suspendVars, mode, reported>>
  BY <1>4 DEF Resume
<1>6. /\ gens[g].state = "suspended" /\ gens[g].etraps \in Nat /\ gens[g].size \in Nat
      /\ EnterFrame("closure", t, t + gens[g].size, t, r, g, gens[g].etraps)
      /\ etraps' \in Seq(TrapSet) /\ Below(etraps', gens[g].etraps) = etraps /\ OwnTraps(etraps', gens[g].etraps, t)
      /\ gens' \in [Gen -> GenSet] /\ \E x : Changed(g, x) /\ x.state = "running"
  BY <1>1, <1>4, <1>5, Resumed
<1>7. r = FALSE
  <2>1. gens[g] \in GenSet
    BY <1>2
  <2>2. gens[g].root \in BOOLEAN
    BY <1>6, <2>1, GenType
  <2>3. ~gens[g].root
    BY <1>1, <1>6 DEF Generators, Kept
  <2>4. gens[g].root = FALSE
    BY <2>2, <2>3
  <2> QED
    BY <1>4, <2>4, Zenon
<1>8. PICK n, nt : n = gens[g].etraps /\ nt = t + gens[g].size /\ n \in Nat /\ nt \in Int /\ nt >= t
  <2>1. PICK n, m \in Nat : n = gens[g].etraps /\ m = gens[g].size
    BY <1>6, Zenon
  <2>2. t + m \in Int /\ t + m >= t
    BY <1>4
  <2> QED
    BY <2>1, <2>2
<1>9. EnterFrame("closure", t, nt, t, FALSE, g, n)
  BY <1>6, <1>7, <1>8
<1>10. n \in Nat /\ t \in Int /\ t >= stackbase /\ FALSE \in BOOLEAN /\ g \in Gen \cup {NoGen}
  BY <1>4, <1>8
<1>11. /\ \E f \in FrameSet : Pushed(f, t) /\ FrameOf(f, "closure", FALSE, g, n)
       /\ stackbase' = t /\ top' = nt
  BY <1>1, <1>9, <1>10, Entered
<1>12. PICK f \in FrameSet : Pushed(f, t) /\ FrameOf(f, "closure", FALSE, g, n)
  BY <1>11
<1>13. ~IsEntry(f) /\ f.etraps = n /\ f.gen = g /\ f.kind = "closure" /\ callsstack' = Append(callsstack, f) /\ ~f.root
  BY <1>12 DEF FrameOf, IsEntry, Pushed
<1>14. PICK c : Retrapped(act, c, n) /\ cstack' = Append(Front(cstack), c) /\ c.raiseerror = act.raiseerror
  <2>1. n \in Int
    BY <1>8
  <2>2. SetTraps(act.traps + n)
    BY <1>5, <1>8
  <2> QED
    BY <1>1, <1>3, <2>1, <2>2, TrapsSet
<1>15. Generators' /\ ByKept
  <2>1. PICK x : Changed(g, x) /\ x.state = "running"
    BY <1>6
  <2>2. ByKept
    BY <2>1, ByKeptChanged
  <2>3. Generators'
    BY <1>1, <1>6, <1>13, <2>1, GenResumed
  <2> QED
    BY <2>2, <2>3
<1>16. top' \in Int /\ top' >= stackbase' /\ OwnTraps(etraps', f.etraps, stackbase') /\ Below(etraps', f.etraps) = etraps
  BY <1>6, <1>8, <1>11, <1>13
<1>17. mode' = mode /\ reported' = reported /\ UNCHANGED <<suspendVars, countVars>>
  BY <1>5
<1>18. Retrapped(act, c, f.etraps)
  BY <1>13, <1>14
<1> QED
  BY <1>3, <1>6, <1>12, <1>13, <1>14, <1>15, <1>16, <1>17, <1>18, InnerStep
-----------------------------------------------------------------------------
(* The actions that leave a frame. *)
LEMMA Thrown ==
  ASSUME NEW st \in Seq(CallSet), st # <<>>, Last(st).kind = "exec", ThrowIn(st)
  PROVE mode' = "unwind" /\ reported' \in BOOLEAN /\ cstack' = st /\ Handler'
<1>1. mode' = "unwind" /\ cstack' = st /\ (reported' = (Last(st).traps = 0 /\ Last(st).raiseerror))
  BY DEF ThrowIn
<1>2. reported' \in BOOLEAN
  BY <1>1, Zenon
<1>3. Handler'
  BY <1>1, Zenon DEF Handler, act
<1> QED
  BY <1>1, <1>2, <1>3

(* How many values are popped after the frame of the last activation. *)
PopFits(pop) ==
  /\ pop = 0 \/ pop = ci.prevtop \/ (pop = 1 /\ act.how # "op")
  /\ act.how = "call" /\ ~suspended => pop = 1
  /\ act.how = "wake" /\ Front(callsstack) = <<>> => pop = ci.prevtop

(* What is thrown again, if the step throws. *)
Outcome ==
  /\ cstack' = Front(cstack)
  /\ \/ mode' = "run" /\ reported' \in BOOLEAN
     \/ act.how \in {"op", "meta"} /\ ThrowIn(Front(cstack))

(* A step that leaves the first frame of the last activation. *)
LEMMA EntryPopStep ==
  ASSUME VMInv, cstack # <<>>, IsEntry(ci), NEW pop, PopFits(pop), LeaveFrame(pop),
         Outcome, UNCHANGED suspendVars, etraps' = Below(etraps, ci.etraps),
         nnativecalls' = nnativecalls - 1,
         nmetamethodscall' = IF act.how = "meta" THEN nmetamethodscall - 1 ELSE nmetamethodscall,
         gens' \in [Gen -> GenSet], ByKept, Generators'
  PROVE VMInv'
<1>1. Types /\ Stacks /\ Generators /\ HostStack /\ Handler
  BY DEF VMInv
<1>2. /\ callsstack \in Seq(FrameSet) /\ cstack \in Seq(CallSet) /\ etraps \in Seq(TrapSet) /\ stackbase \in Int
      /\ suspended \in BOOLEAN /\ suspendedTraps \in Int
  BY <1>1 DEF Types
<1>3. suspended' = suspended /\ suspendedRoot' = suspendedRoot /\ suspendedTraps' = suspendedTraps
  BY DEF suspendVars
<1>4. PICK f \in FrameSet : f = ci
  BY <1>1, OnTop
<1>5. PICK a \in CallSet : a = act
  BY <1>1, OnTop
<1>6. f.etraps \in Nat /\ f.prevtop \in Nat /\ f.prevstkbase \in Int
  BY FrameType
<1>7. PICK gs \in Seq(FrameSet) : gs = Front(callsstack) /\ (gs # <<>> => Head(gs) = Head(callsstack))
                                 /\ callsstack = Append(gs, f)
  BY <1>1, <1>2, <1>4, OnTop, SeqSnoc
<1>8. PICK cs \in Seq(CallSet) : cs = Front(cstack) /\ (cs # <<>> => Head(cs) = Head(cstack))
                                /\ cstack = Append(cs, a)
  BY <1>1, <1>2, <1>5, OnTop, SeqSnoc
<1>9. callsstack' = gs /\ cstack' = cs
  BY <1>7, <1>8 DEF LeaveFrame, Outcome
<1>10. PICK b \in Int : b = stackbase' /\ b = stackbase - f.prevstkbase
  BY <1>2, <1>4, <1>6 DEF LeaveFrame
<1>11. PICK tr \in Seq(TrapSet) : tr = etraps' /\ tr = Below(etraps, f.etraps)
  <2>1. PICK n \in Int : n = Len(etraps) - f.etraps
    BY <1>2, <1>6
  <2>2. Len(etraps) \in Nat /\ n <= Len(etraps)
    BY <1>2, <1>6, <2>1
  <2>3. \A i \in 1 .. n : etraps[i] \in TrapSet
    BY <1>2, <2>2
  <2>4. SubSeq(etraps, 1, n) \in Seq(TrapSet)
    BY <2>3, SubSeqProperties
  <2> QED
    BY <1>4, <2>1, <2>4 DEF Below
<1>12. Stacks' /\ EntryFits(f, a) /\ Follows(a, cs)
  <2>1. stackbase' = stackbase - ci.prevstkbase /\ callsstack' = Front(callsstack) /\ cstack' = Front(cstack)
    BY DEF LeaveFrame, Outcome
  <2>2. /\ Stacks'
        /\ EntryFits(ci, act) /\ (act.kind = "exec" => act.traps = ci.etraps)
        /\ Follows(act, Front(cstack))
    BY <1>1, <2>1, EntryPopped
  <2> QED
    BY <1>4, <1>5, <1>8, <2>2
<1>13. /\ gs = <<>> <=> (cs = <<>> /\ suspended = FALSE)
       /\ gs = <<>> => b = 0
  <2>1. Fit(gs, Acts(suspended, suspendedTraps, cs), tr, b)
    BY <1>3, <1>9, <1>10, <1>11, <1>12 DEF Stacks
  <2>2. (gs = <<>> <=> (cs = <<>> /\ ~suspended)) /\ (gs = <<>> => tr = <<>> /\ b = 0)
    BY <1>2, <2>1, FitEmpty
  <2> QED
    BY <1>2, <2>2
<1>14. /\ pop = 0 \/ pop = f.prevtop \/ (pop = 1 /\ a.how # "op")
       /\ a.how = "call" /\ suspended = FALSE => pop = 1
       /\ a.how = "wake" /\ gs = <<>> => pop = f.prevtop
  BY <1>4, <1>5, <1>7 DEF PopFits
<1>15. a.how # "op" => f.prevtop >= 1
  BY <1>12 DEF EntryFits
<1>16. PICK p \in Nat : p = pop /\ p <= f.prevtop
  BY <1>6, <1>14, <1>15
<1>17. top' = b + f.prevtop - p
  BY <1>4, <1>10, <1>16 DEF LeaveFrame
<1>18. top' \in Int /\ top' >= stackbase'
  BY <1>6, <1>10, <1>16, <1>17
<1>19. Handler' /\ mode' \in {"run", "unwind"} /\ reported' \in BOOLEAN
  <2>1. CASE mode' = "run" /\ reported' \in BOOLEAN
    BY <2>1 DEF Handler
  <2>2. CASE act.how \in {"op", "meta"} /\ ThrowIn(Front(cstack))
    <3>1. cs # <<>> /\ Last(cs).kind = "exec" /\ ThrowIn(cs)
      BY <1>5, <1>8, <1>12, <2>2 DEF Follows
    <3>2. mode' = "unwind" /\ reported' \in BOOLEAN /\ cstack' = cs /\ Handler'
      BY <3>1, Thrown
    <3> QED
      BY <3>2
  <2> QED
    BY <2>1, <2>2 DEF Outcome
<1>20. Types'
  <2>1. nnativecalls' \in Int /\ nmetamethodscall' \in Int
    BY <1>1 DEF Types
  <2>2. suspended' \in BOOLEAN /\ suspendedRoot' \in BOOLEAN /\ suspendedTraps' \in Int
    BY <1>1, <1>3 DEF Types
  <2> QED
    BY <1>9, <1>10, <1>11, <1>18, <1>19, <2>1, <2>2 DEF Types
<1>21. HostStack'
  <2>1. CASE cs # <<>>
    <3>1. gs # <<>>
      BY <1>13, <2>1
    <3> QED
      BY <1>1, <1>3, <1>7, <1>8, <1>9, <2>1, <3>1, HostKept
  <2>2. CASE cs = <<>>
    <3>1. ASSUME ScriptsOnly, suspended = FALSE
          PROVE top' = 0
      <4>1. gs = <<>> /\ b = 0
        BY <1>13, <2>2, <3>1
      <4>2. Head(callsstack) = f /\ Head(cstack) = a
        BY <1>7, <1>8, <2>2, <4>1, Snocs
      <4>3. a.how # "wake" => a.how = "call"
        <5>1. a.how # "wake" => a.how # "resume"
          BY <1>1, <3>1, <4>2 DEF HostStack
        <5>2. a.how \notin {"op", "meta"}
          BY <1>12, <2>2 DEF Follows
        <5> QED
          BY <5>1, <5>2, CallType
      <4>4. a.how # "wake" => f.prevtop = 1
        BY <1>1, <3>1, <4>2 DEF HostStack
      <4> QED
        BY <1>6, <1>14, <1>16, <1>17, <3>1, <4>1, <4>3, <4>4
    <3> QED
      BY <1>2, <1>3, <1>9, <2>2, <3>1, HostLeft
  <2> QED
    BY <2>1, <2>2
<1> QED
  BY <1>12, <1>19, <1>20, <1>21 DEF VMInv

(* A step that leaves another frame of the last Execute. *)
LEMMA InnerPopStep ==
  ASSUME VMInv, cstack # <<>>, act.kind = "exec", ~IsEntry(ci), LeaveFrame(0),
         NEW c, Retrapped(act, c, 0 - ci.etraps), cstack' = Append(Front(cstack), c),
         UNCHANGED <<suspendVars, countVars>>, etraps' = Below(etraps, ci.etraps),
         mode' = mode, reported' = reported, mode = "unwind" => c = act,
         gens' \in [Gen -> GenSet], ByKept, Generators'
  PROVE VMInv'
<1>1. Types /\ Stacks /\ Generators /\ HostStack /\ Handler
  BY DEF VMInv
<1>2. /\ callsstack \in Seq(FrameSet) /\ cstack \in Seq(CallSet) /\ etraps \in Seq(TrapSet) /\ stackbase \in Int
  BY <1>1 DEF Types
<1>3. /\ suspended' = suspended /\ suspendedRoot' = suspendedRoot /\ suspendedTraps' = suspendedTraps
      /\ nnativecalls' = nnativecalls /\ nmetamethodscall' = nmetamethodscall
  BY DEF suspendVars, countVars
<1>4. PICK f \in FrameSet : f = ci
  BY <1>1, OnTop
<1>5. PICK a \in CallSet : a = act
  BY <1>1, OnTop
<1>6. f.etraps \in Nat /\ f.prevtop \in Nat /\ f.prevstkbase \in Int
  BY FrameType
<1>7. PICK gs \in Seq(FrameSet) : gs = Front(callsstack) /\ (gs # <<>> => Head(gs) = Head(callsstack))
                                 /\ callsstack = Append(gs, f)
  BY <1>1, <1>2, <1>4, OnTop, SeqSnoc
<1>8. PICK cs \in Seq(CallSet) : cs = Front(cstack) /\ cstack = Append(cs, a)
  BY <1>1, <1>2, <1>5, OnTop
<1>9. c \in CallSet /\ c.how = a.how /\ c.kind = "exec" /\ cstack' = Append(cs, c)
  BY <1>5, <1>8 DEF Retrapped, CallSet, ExecSet
<1>10. cstack' \in Seq(CallSet) /\ cstack' # <<>> /\ Head(cstack').how = Head(cstack).how /\ Last(cstack') = c
  BY <1>8, <1>9, Recalled, Snocs
<1>11. callsstack' = gs /\ stackbase' = stackbase - f.prevstkbase /\ top' = stackbase - f.prevstkbase + f.prevtop - 0
  BY <1>4, <1>7 DEF LeaveFrame
<1>12. stackbase' \in Int /\ top' \in Int /\ top' >= stackbase'
  <2>1. PICK b \in Int : b = stackbase'
    BY <1>2, <1>6, <1>11
  <2>2. top' = b + f.prevtop - 0
    BY <1>11, <2>1
  <2>3. b + f.prevtop - 0 \in Int /\ b + f.prevtop - 0 >= b
    BY <1>6
  <2> QED
    BY <2>1, <2>2, <2>3
<1>13. etraps' \in Seq(TrapSet)
  <2>1. PICK n \in Int : n = Len(etraps) - f.etraps
    BY <1>2, <1>6
  <2>2. Len(etraps) \in Nat /\ n <= Len(etraps)
    BY <1>2, <1>6, <2>1
  <2>3. \A i \in 1 .. n : etraps[i] \in TrapSet
    BY <1>2, <2>2
  <2>4. SubSeq(etraps, 1, n) \in Seq(TrapSet)
    BY <2>3, SubSeqProperties
  <2> QED
    BY <1>4, <2>1, <2>4 DEF Below
<1>14. Stacks' /\ gs # <<>>
  <2>1. stackbase' = stackbase - ci.prevstkbase /\ callsstack' = Front(callsstack)
    BY DEF LeaveFrame
  <2>2. Stacks' /\ Front(callsstack) # <<>>
    BY <1>1, <2>1, InnerPopped
  <2> QED
    BY <1>7, <2>2
<1>15. Types'
  BY <1>1, <1>3, <1>10, <1>11, <1>12, <1>13 DEF Types
<1>16. HostStack'
  BY <1>1, <1>3, <1>7, <1>10, <1>11, <1>14, HostKept
<1>17. Handler'
  <2>1. act' = c
    BY <1>10 DEF act
  <2>2. mode = "unwind" => (reported <=> c.raiseerror /\ c.traps = 0)
    BY <1>1 DEF Handler
  <2> QED
    BY <1>9, <1>10, <2>1, <2>2 DEF Handler
<1> QED
  BY <1>14, <1>15, <1>16, <1>17 DEF VMInv

(* A generator whose frame is left dies. *)
LEMMA Killed ==
  ASSUME Types, Stacks, Generators, cstack # <<>>, callsstack' = Front(callsstack),
         gens' = IF ci.gen = NoGen THEN gens ELSE [gens EXCEPT ![ci.gen].state = "dead"]
  PROVE gens' \in [Gen -> GenSet] /\ ByKept /\ Generators'
<1>1. PICK f \in FrameSet : f = ci
  BY OnTop
<1>2. PICK gs \in Seq(FrameSet) : gs = Front(callsstack) /\ callsstack = Append(gs, f)
  BY <1>1, OnTop
<1>3. gens \in [Gen -> GenSet]
  BY DEF Types
<1>4. CASE f.gen = NoGen
  <2>1. gens' = gens
    BY <1>1, <1>4
  <2>2. gens' \in [Gen -> GenSet] /\ ByKept
    BY <1>3, <2>1 DEF ByKept
  <2> QED
    BY <1>2, <1>4, <2>1, <2>2, GenPopped
<1>5. CASE f.gen # NoGen
  <2>1. PICK g \in Gen : g = f.gen
    BY <1>5, FrameType
  <2>2. PICK x \in GenSet : x = gens[g]
    BY <1>3
  <2>3. x.state = "running"
    <3>1. Owned(Append(gs, f), g, gens[g])
      BY <1>2 DEF Generators
    <3> QED
      BY <2>1, <2>2, <3>1, OwnedLast
  <2>4. PICK y : y = [x EXCEPT !.state = "dead"]
    OBVIOUS
  <2>5. y \in GenSet /\ y.state = "dead" /\ y.by = x.by
    <3>1. x \in AwakeSet
      BY <2>3, GenType
    <3> QED
      BY <2>4, <3>1 DEF GenSet, AwakeSet
  <2>6. gens' = [gens EXCEPT ![g] = y]
    BY <1>1, <1>5, <2>1, <2>2, <2>4
  <2>7. gens' \in [Gen -> GenSet] /\ gens'[g] = y /\ \A k \in Gen : k # g => gens'[k] = gens[k]
    BY <1>3, <2>5, <2>6
  <2>8. Changed(g, y) /\ y.state # "running" /\ Kept(y)
    BY <2>2, <2>5, <2>7 DEF Changed, Kept
  <2>9. ByKept
    BY <2>8, ByKeptChanged
  <2>10. Changed(f.gen, y) /\ y.state # "running" /\ Kept(y)
    BY <2>1, <2>8
  <2>11. Generators'
    BY <1>2, <1>5, <2>10, GenPopped
  <2> QED
    BY <2>7, <2>9, <2>11
<1> QED
  BY <1>4, <1>5

(* What Return and Yield do once they have seen to the traps and to the    *)
(* generator.                                                              *)
LEMMA Returned ==
  ASSUME VMInv, mode = "run", cstack # <<>>, act.kind = "exec", ReturnFrom(act.traps - ci.etraps),
         etraps' = Below(etraps, ci.etraps), UNCHANGED suspendVars,
         gens' \in [Gen -> GenSet], ByKept, Generators'
  PROVE VMInv'
<1>1. Types /\ Stacks
  BY DEF VMInv
<1>2. (ci.kind = "native" <=> act.kind = "native") /\ ci \in FrameSet
  BY <1>1, OnTop
<1>3. CASE ci.root
  <2>1. ExecuteReturns /\ IsEntry(ci)
    BY <1>3 DEF ReturnFrom, IsEntry
  <2>2. PICK pop : pop = PopCount(Front(callsstack))
    OBVIOUS
  <2>3. PopFits(pop)
    <3>1. act.how # "op"
      BY <1>1, OnTop, CallType
    <3>2. CASE act.how = "wake"
      BY <2>2, <3>2 DEF PopCount, PopFits
    <3>3. CASE act.how # "wake"
      BY <2>2, <3>1, <3>3 DEF PopCount, PopFits
    <3> QED
      BY <3>2, <3>3
  <2>4. Outcome
    BY <1>1, <2>1 DEF ExecuteReturns, Outcome, Types
  <2>5. LeaveFrame(pop) /\ nnativecalls' = nnativecalls - 1
        /\ nmetamethodscall' = IF act.how = "meta" THEN nmetamethodscall - 1 ELSE nmetamethodscall
    BY <2>1, <2>2 DEF ExecuteReturns
  <2> QED
    BY <2>1, <2>3, <2>4, <2>5, EntryPopStep
<1>4. CASE ~ci.root
  <2>1. ~IsEntry(ci)
    BY <1>2, <1>4 DEF IsEntry
  <2>2. LeaveFrame(0) /\ SetTraps(act.traps - ci.etraps) /\ UNCHANGED <<countVars, mode, reported>>
    BY <1>4 DEF ReturnFrom
  <2>3. PICK c : Retrapped(act, c, 0 - ci.etraps) /\ cstack' = Append(Front(cstack), c) /\ c.raiseerror = act.raiseerror
    <3>1. PICK t \in Int : t = act.traps
      BY <1>1, OnTop, CallType
    <3>2. PICK e \in Nat : e = ci.etraps
      BY <1>2, FrameType
    <3>3. PICK d \in Int : d = 0 - e /\ t - e = t + d
      OBVIOUS
    <3>4. PICK n : n = t - e /\ n = act.traps + d
      BY <3>1, <3>3
    <3>5. SetTraps(n)
      BY <2>2, <3>1, <3>2, <3>4
    <3>6. \E c : Retrapped(act, c, d) /\ cstack' = Append(Front(cstack), c) /\ c.raiseerror = act.raiseerror
      BY <1>1, <3>4, <3>5, TrapsSet
    <3> QED
      BY <3>2, <3>3, <3>6
  <2>4. mode # "unwind" /\ mode' = mode /\ reported' = reported /\ UNCHANGED <<suspendVars, countVars>>
    BY <2>2
  <2> QED
    BY <2>1, <2>2, <2>3, <2>4, InnerPopStep
<1> QED
  BY <1>3, <1>4

(* Return and Unwind leave a frame that has no traps. *)
LEMMA NoneBelow ==
  ASSUME Types, NEW n, n = 0
  PROVE Below(etraps, n) = etraps
BY NoTraps DEF Types

LEMMA SameTraps ==
  ASSUME Types, Stacks, cstack # <<>>, act.kind = "exec", ci.etraps = 0
  PROVE Retrapped(act, act, 0 - ci.etraps) /\ cstack = Append(Front(cstack), act)
<1>1. PICK a \in ExecSet : a = act
  BY OnTop, CallType
<1>2. Retrapped(a, a, 0)
  BY DEF Retrapped, ExecSet
<1>3. 0 - ci.etraps = 0
  OBVIOUS
<1> QED
  BY <1>1, <1>2, <1>3, OnTop

LEMMA ReturnStep ==
  ASSUME VMInv, Return
  PROVE VMInv'
<1>1. Types /\ Stacks /\ Generators
  BY DEF VMInv
<1>2. /\ mode = "run" /\ cstack # <<>> /\ act.kind = "exec" /\ ci.etraps = 0
      /\ gens' = IF ci.gen = NoGen THEN gens ELSE [gens EXCEPT ![ci.gen].state = "dead"]
      /\ ReturnFrom(act.traps) /\ UNCHANGED <<etraps, suspendVars>>
  BY DEF Return, InExecute
<1>3. callsstack' = Front(callsstack)
  BY <1>2 DEF ReturnFrom, ExecuteReturns, LeaveFrame
<1>4. gens' \in [Gen -> GenSet] /\ ByKept /\ Generators'
  BY <1>1, <1>2, <1>3, Killed
<1>5. etraps' = Below(etraps, ci.etraps)
  BY <1>1, <1>2, NoneBelow
<1>6. ReturnFrom(act.traps - ci.etraps)
  <2>1. PICK n \in Int : n = act.traps
    BY <1>1, <1>2, OnTop, CallType
  <2>2. n = n - 0
    OBVIOUS
  <2> QED
    BY <1>2, <2>1, <2>2
<1> QED
  BY <1>2, <1>4, <1>5, <1>6, Returned

LEMMA UnwindStep ==
  ASSUME VMInv, NEW rethrow \in BOOLEAN, Unwind(rethrow)
  PROVE VMInv'
<1>1. Types /\ Stacks /\ Generators /\ Handler
  BY DEF VMInv
<1>2. /\ mode = "unwind" /\ ci.etraps = 0
      /\ gens' = IF ci.gen = NoGen THEN gens ELSE [gens EXCEPT ![ci.gen].state = "dead"]
      /\ UNCHANGED <<etraps, suspendVars>>
  BY DEF Unwind
<1>3. cstack # <<>> /\ act.kind = "exec"
  BY <1>1, <1>2 DEF Handler
<1>4. callsstack' = Front(callsstack)
  BY DEF Unwind, ExecuteFails, LeaveFrame
<1>5. gens' \in [Gen -> GenSet] /\ ByKept /\ Generators'
  BY <1>1, <1>2, <1>3, <1>4, Killed
<1>6. etraps' = Below(etraps, ci.etraps)
  BY <1>1, <1>2, NoneBelow
<1>7. /\ (ci.kind = "native" <=> act.kind = "native") /\ ci \in FrameSet
      /\ Len(callsstack) = Len(Front(callsstack)) + 1 /\ Front(callsstack) \in Seq(FrameSet)
      /\ Front(callsstack) = <<>> => IsEntry(ci)
  BY <1>1, <1>3, OnTop
<1>8. Len(callsstack) = 1 <=> Front(callsstack) = <<>>
  BY <1>7
<1>9. CASE ci.root \/ Len(callsstack) = 1
  <2>1. IsEntry(ci)
    BY <1>7, <1>8, <1>9 DEF IsEntry
  <2>2. ExecuteFails(rethrow)
    BY <1>9 DEF Unwind
  <2>3. PICK pop : pop = CASE act.how = "wake" -> IF Len(callsstack) = 1 THEN ci.prevtop ELSE 0
                          [] act.how = "resume" -> 0
                          [] OTHER -> 1
    OBVIOUS
  <2>4. LeaveFrame(pop) /\ nnativecalls' = nnativecalls - 1
        /\ nmetamethodscall' = IF act.how = "meta" THEN nmetamethodscall - 1 ELSE nmetamethodscall
    BY <2>2, <2>3 DEF ExecuteFails
  <2>5. PopFits(pop)
    <3>1. act.how # "op"
      BY <1>1, <1>3, OnTop, CallType
    <3>2. CASE act.how = "wake"
      BY <1>8, <2>3, <3>2 DEF PopFits
    <3>3. CASE act.how # "wake"
      BY <2>3, <3>1, <3>3 DEF PopFits
    <3> QED
      BY <3>2, <3>3
  <2>6. Outcome
    <3>1. CASE act.how = "meta" /\ rethrow
      <4>1. ThrowIn(Front(cstack))
        BY <2>2, <3>1 DEF ExecuteFails
      <4>2. cstack' = Front(cstack)
        BY <4>1 DEF ThrowIn
      <4> QED
        BY <3>1, <4>1, <4>2 DEF Outcome
    <3>2. CASE ~(act.how = "meta" /\ rethrow)
      <4>1. cstack' = Front(cstack) /\ mode' = "run" /\ reported' = FALSE
        BY <2>2, <3>2 DEF ExecuteFails
      <4>2. reported' \in BOOLEAN
        BY <4>1, Zenon
      <4> QED
        BY <4>1, <4>2 DEF Outcome
    <3> QED
      BY <3>1, <3>2
  <2> QED
    BY <1>2, <1>3, <1>5, <1>6, <2>1, <2>4, <2>5, <2>6, EntryPopStep
<1>10. CASE ~(ci.root \/ Len(callsstack) = 1)
  <2>1. ~IsEntry(ci)
    BY <1>3, <1>7, <1>10 DEF IsEntry
  <2>2. LeaveFrame(0) /\ UNCHANGED <<cstack, countVars, mode, reported>>
    BY <1>10 DEF Unwind
  <2>3. Retrapped(act, act, 0 - ci.etraps) /\ cstack' = Append(Front(cstack), act)
    BY <1>1, <1>2, <1>3, <2>2, SameTraps
  <2>4. mode' = mode /\ reported' = reported /\ UNCHANGED <<suspendVars, countVars>> /\ act = act
    BY <1>2, <2>2
  <2> QED
    BY <1>3, <1>5, <1>6, <2>1, <2>2, <2>3, <2>4, InnerPopStep
<1> QED
  BY <1>9, <1>10

(* The last frame's traps are on top, at its base. *)
LEMMA OwnOnTop ==
  ASSUME Types, Stacks, cstack # <<>>
  PROVE OwnTraps(etraps, ci.etraps, stackbase)
<1>1. PICK f \in FrameSet : f = ci
  BY OnTop
<1>2. PICK gs \in Seq(FrameSet) : callsstack = Append(gs, f)
  BY <1>1, OnTop
<1>3. etraps \in Seq(TrapSet) /\ stackbase \in Int
  BY DEF Types
<1>4. PICK hs : hs = Append(gs, f)
  OBVIOUS
<1>5. TrapsMatch(hs, etraps, stackbase)
  BY <1>2, <1>4 DEF Stacks, Fit
<1>6. OwnTraps(etraps, f.etraps, stackbase)
  BY <1>3, <1>4, <1>5, TrapsSnoc
<1> QED
  BY <1>1, <1>6

Owns(tr, n) == SubSeq(tr, Len(tr) - n + 1, Len(tr))
RelativeTo(own, n, b) ==
  [i \in 1 .. n |-> [stackbase |-> own[i].stackbase - b, stacksize |-> own[i].stacksize - b]]

LEMMA Relative ==
  ASSUME NEW tr \in Seq(TrapSet), NEW n \in Nat, NEW b \in Int, OwnTraps(tr, n, b), NEW own,
         own = Owns(tr, n), NEW r, r = RelativeTo(own, n, b)
  PROVE Reverse(r) \in Seq(TrapSet) /\ Len(Reverse(r)) = n /\ \A i \in 1 .. n : TrapAt(Reverse(r)[i], 0)
<1>1. PICK m \in Nat : m = Len(tr) /\ n <= m
  BY DEF OwnTraps
<1>2. PICK k \in Nat : k = m - n /\ k + 1 = m - n + 1
  <2>1. m - n \in Nat
    BY <1>1
  <2> QED
    BY <2>1
<1>3. \A i \in 1 .. n : k + i \in m - n + 1 .. m /\ k + i \in 1 .. m /\ tr[k + i] \in TrapSet
  BY <1>1, <1>2
<1>4. \A i \in 1 .. n : own[i] = tr[k + i]
  <2>1. own = SubSeq(tr, k + 1, m)
    BY <1>1, <1>2 DEF Owns
  <2>2. k + 1 \in Int /\ m \in Int /\ \A i \in k + 1 .. m : tr[i] \in TrapSet
    BY <1>1
  <2>3. \A i \in 1 .. m - (k + 1) + 1 : own[i] = tr[k + 1 + i - 1]
    BY ONLY <2>1, <2>2, SubSeqProperties, k \in Nat, m \in Nat
  <2>4. m - (k + 1) + 1 = n /\ \A i \in 1 .. n : k + 1 + i - 1 = k + i
    BY <1>1, <1>2
  <2> QED
    BY <2>3, <2>4
<1>5. \A i \in 1 .. n : TrapAt(own[i], b) /\ own[i] \in TrapSet
  BY <1>1, <1>3, <1>4 DEF OwnTraps
<1>6. \A i \in 1 .. n : r[i] \in TrapSet /\ TrapAt(r[i], 0)
  BY <1>5 DEF TrapSet, TrapAt, RelativeTo
<1>7. r \in [1 .. n -> TrapSet]
  BY <1>6 DEF RelativeTo
<1>8. r \in Seq(TrapSet) /\ Len(r) = n
  BY <1>7, FunSeq
<1>9. /\ Reverse(r) \in Seq(TrapSet) /\ Len(Reverse(r)) = n
      /\ \A i \in 1 .. n : n - i + 1 \in 1 .. n /\ Reverse(r)[i] = r[n - i + 1]
  BY ONLY <1>8, ReverseSeq, n \in Nat
<1> QED
  BY <1>6, <1>9

(* SQGenerator::Yield. *)
LEMMA PutAway ==
  ASSUME Types, Stacks, Generators, cstack # <<>>, ci.gen # NoGen, Yield
  PROVE /\ etraps' = Below(etraps, ci.etraps) /\ ReturnFrom(act.traps - ci.etraps) /\ UNCHANGED suspendVars
        /\ callsstack' = Front(callsstack) => gens' \in [Gen -> GenSet] /\ ByKept /\ Generators'
<1>1. PICK f \in FrameSet : f = ci
  BY OnTop
<1>2. PICK gs \in Seq(FrameSet) : gs = Front(callsstack) /\ callsstack = Append(gs, f)
  BY <1>1, OnTop
<1>3. gens \in [Gen -> GenSet] /\ etraps \in Seq(TrapSet) /\ stackbase \in Int /\ top \in Int /\ top >= stackbase
  BY DEF Types
<1>4. PICK g \in Gen : g = f.gen
  BY <1>1, FrameType
<1>5. PICK x \in GenSet : x = gens[g]
  BY <1>3
<1>6. PICK n \in Nat : n = f.etraps
  BY FrameType
<1>7. OwnTraps(etraps, n, stackbase)
  BY <1>1, <1>6, OwnOnTop
<1>8. PICK own : own = Owns(etraps, n)
  OBVIOUS
<1>9. PICK r : r = RelativeTo(own, n, stackbase)
  OBVIOUS
<1>10. PICK q : q = Reverse(r)
  OBVIOUS
<1>11. q \in Seq(TrapSet) /\ Len(q) = n /\ \A i \in 1 .. n : TrapAt(q[i], 0)
  BY <1>3, <1>7, <1>8, <1>9, <1>10, Relative
<1>12. PICK z \in Nat : z = top - stackbase
  BY <1>3
<1>13. PICK y : y = [state |-> "suspended", size |-> z, etraps |-> n, root |-> f.root, traps |-> q, by |-> x.by]
  OBVIOUS
<1>14. /\ etraps' = SubSeq(etraps, 1, Len(etraps) - n)
       /\ gens' = [gens EXCEPT ![g] = y]
       /\ ReturnFrom(act.traps - n) /\ UNCHANGED suspendVars
  BY <1>1, <1>4, <1>5, <1>6, <1>8, <1>9, <1>10, <1>12, <1>13 DEF Yield, RelativeTo, Owns
<1>15. f.root \in BOOLEAN /\ x.by \in By
  BY FrameType, GenType
<1>16. y \in GenSet
  BY <1>11, <1>13, <1>15 DEF GenSet, SleepingSet
<1>17. y.state = "suspended" /\ y.by = x.by /\ y.traps = q /\ y.etraps = n /\ y.root = f.root
  BY <1>13
<1>18. gens' \in [Gen -> GenSet] /\ gens'[g] = y /\ \A k \in Gen : k # g => gens'[k] = gens[k]
  BY <1>3, <1>14, <1>16
<1>19. Changed(g, y)
  BY <1>5, <1>17, <1>18 DEF Changed
<1>20. x.by = "script" => ~f.root
  <2>1. Owned(Append(gs, f), g, gens[g])
    BY <1>2 DEF Generators
  <2> QED
    BY <1>4, <1>5, <2>1, OwnedLast
<1>21. Kept(y)
  BY <1>11, <1>17, <1>20 DEF Kept
<1>22. ASSUME callsstack' = gs
       PROVE Generators'
  <2>1. Changed(f.gen, y) /\ y.state # "running" /\ Kept(y) /\ f.gen # NoGen
    BY <1>1, <1>4, <1>17, <1>19, <1>21
  <2> QED
    BY <1>2, <1>22, <2>1, GenPopped
<1>23. ByKept
  BY <1>19, ByKeptChanged
<1> QED
  BY <1>1, <1>2, <1>6, <1>14, <1>18, <1>22, <1>23 DEF Below

LEMMA YieldStep ==
  ASSUME VMInv, Yield
  PROVE VMInv'
<1>1. Types /\ Stacks /\ Generators
  BY DEF VMInv
<1>2. mode = "run" /\ cstack # <<>> /\ act.kind = "exec" /\ ci.gen # NoGen
  BY DEF Yield, InExecute
<1>3. /\ etraps' = Below(etraps, ci.etraps) /\ ReturnFrom(act.traps - ci.etraps) /\ UNCHANGED suspendVars
      /\ callsstack' = Front(callsstack) => gens' \in [Gen -> GenSet] /\ ByKept /\ Generators'
  BY <1>1, <1>2, PutAway
<1>4. gens' \in [Gen -> GenSet] /\ ByKept /\ Generators'
  <2>1. callsstack' = Front(callsstack)
    BY <1>3 DEF ReturnFrom, ExecuteReturns, LeaveFrame
  <2> QED
    BY <1>3, <2>1
<1> QED
  BY <1>2, <1>3, <1>4, Returned

(* The return of a native function. *)
LEMMA NativeEnds ==
  ASSUME VMInv, InNative, NEW fails \in BOOLEAN, EndNative(fails), Outcome
  PROVE VMInv'
<1>1. Types /\ Stacks /\ Generators
  BY DEF VMInv
<1>2. cstack # <<>> /\ act.kind = "native"
  BY DEF InNative
<1>3. ci.kind = "native" /\ ci \in FrameSet
  BY <1>1, <1>2, OnTop
<1>4. IsEntry(ci) /\ ci.etraps = 0 /\ ci.gen = NoGen
  BY <1>3, FrameType DEF IsEntry
<1>5. PICK pop : pop = IF act.how = "op" \/ (act.how = "call" /\ suspended /\ ~fails) THEN 0 ELSE 1
  OBVIOUS
<1>6. /\ LeaveFrame(pop) /\ nnativecalls' = nnativecalls - 1
      /\ nmetamethodscall' = IF act.how = "meta" THEN nmetamethodscall - 1 ELSE nmetamethodscall
      /\ etraps' = etraps /\ gens' = gens /\ UNCHANGED suspendVars
  BY <1>5 DEF EndNative
<1>7. PopFits(pop)
  <2>1. act.how # "wake"
    BY <1>1, <1>2, OnTop, CallType
  <2>2. CASE act.how = "op"
    BY <1>5, <2>1, <2>2 DEF PopFits
  <2>3. CASE act.how # "op" /\ suspended
    BY <1>5, <2>1, <2>3 DEF PopFits
  <2>4. CASE act.how # "op" /\ ~suspended
    BY <1>5, <2>1, <2>4 DEF PopFits
  <2> QED
    BY <2>2, <2>3, <2>4
<1>8. gens' \in [Gen -> GenSet] /\ ByKept /\ Generators'
  <2>1. callsstack' = Front(callsstack)
    BY <1>6 DEF LeaveFrame
  <2>2. gens' = IF ci.gen = NoGen THEN gens ELSE [gens EXCEPT ![ci.gen].state = "dead"]
    BY <1>4, <1>6
  <2> QED
    BY <1>1, <1>2, <2>1, <2>2, Killed
<1>9. etraps' = Below(etraps, ci.etraps)
  BY <1>1, <1>4, <1>6, NoneBelow
<1> QED
  BY <1>2, <1>4, <1>6, <1>7, <1>8, <1>9, EntryPopStep

LEMMA NativeReturnStep ==
  ASSUME VMInv, NativeReturn
  PROVE VMInv'
<1>1. /\ InNative /\ EndNative(FALSE) /\ cstack' = Front(cstack)
      /\ mode' = mode /\ reported' = reported
  BY DEF NativeReturn
<1>2. mode = "run" /\ reported \in BOOLEAN
  BY <1>1 DEF VMInv, Handler, InNative, Types
<1>3. Outcome
  BY <1>1, <1>2 DEF Outcome
<1>4. FALSE \in BOOLEAN
  OBVIOUS
<1> QED
  BY <1>1, <1>3, <1>4, NativeEnds

LEMMA SqCallNativeFailsStep ==
  ASSUME VMInv, SqCallNativeFails
  PROVE VMInv'
<1>1. /\ InNative /\ EndNative(TRUE) /\ cstack' = Front(cstack)
      /\ mode' = mode /\ reported' = reported
  BY DEF SqCallNativeFails
<1>2. mode = "run" /\ reported \in BOOLEAN
  BY <1>1 DEF VMInv, Handler, InNative, Types
<1>3. Outcome
  BY <1>1, <1>2 DEF Outcome
<1>4. TRUE \in BOOLEAN
  OBVIOUS
<1> QED
  BY <1>1, <1>3, <1>4, NativeEnds

LEMMA NativeThrowStep ==
  ASSUME VMInv, NativeThrow
  PROVE VMInv'
<1>1. InNative /\ EndNative(TRUE) /\ act.how # "call" /\ ThrowIn(Front(cstack))
  BY DEF NativeThrow
<1>2. act.how \in {"op", "meta"}
  BY <1>1, OnTop, CallType DEF VMInv, InNative
<1>3. Outcome
  BY <1>1, <1>2 DEF Outcome, ThrowIn
<1>4. TRUE \in BOOLEAN
  OBVIOUS
<1> QED
  BY <1>1, <1>3, <1>4, NativeEnds
-----------------------------------------------------------------------------
(* The actions that leave the frames as they are. *)
LEMMA SameStacks ==
  ASSUME VMInv, UNCHANGED <<callsstack, stackbase, etraps, countVars, suspendVars, cstack>>,
         top' \in Int, top' >= stackbase, InHost => suspended = TRUE \/ top' = top,
         mode' \in {"run", "unwind"}, reported' \in BOOLEAN, Handler',
         gens' \in [Gen -> GenSet], ByKept, Generators'
  PROVE VMInv'
<1>1. Types /\ Stacks /\ HostStack
  BY DEF VMInv
<1>2. /\ callsstack' = callsstack /\ stackbase' = stackbase /\ etraps' = etraps /\ cstack' = cstack
      /\ suspended' = suspended /\ suspendedRoot' = suspendedRoot /\ suspendedTraps' = suspendedTraps
      /\ nnativecalls' = nnativecalls /\ nmetamethodscall' = nmetamethodscall
  BY DEF suspendVars, countVars
<1>3. Types'
  BY <1>1, <1>2 DEF Types
<1>4. Stacks'
  BY <1>1, <1>2, StacksKept
<1>5. HostStack'
  <2>1. CASE cstack # <<>>
    BY <1>1, <1>2, <2>1, HostKept
  <2>2. CASE cstack = <<>>
    <3>1. ASSUME ScriptsOnly, suspended = FALSE
          PROVE top' = 0
      BY <1>1, <2>2, <3>1 DEF HostStack, InHost
    <3> QED
      BY <1>1, <1>2, <2>2, <3>1, HostLeft DEF Types
  <2> QED
    BY <2>1, <2>2
<1> QED
  BY <1>3, <1>4, <1>5 DEF VMInv

LEMMA ThrowStep ==
  ASSUME VMInv, Throw
  PROVE VMInv'
<1>1. Types /\ Generators
  BY DEF VMInv
<1>2. /\ cstack # <<>> /\ act.kind = "exec" /\ ThrowIn(cstack)
      /\ callsstack' = callsstack /\ stackbase' = stackbase /\ top' = top /\ etraps' = etraps /\ gens' = gens
      /\ UNCHANGED countVars /\ UNCHANGED suspendVars
  BY DEF Throw, InExecute, frameVars
<1>3. cstack \in Seq(CallSet) /\ Last(cstack).kind = "exec"
  BY <1>1, <1>2 DEF Types, act
<1>4. mode' = "unwind" /\ reported' \in BOOLEAN /\ cstack' = cstack /\ Handler'
  BY <1>2, <1>3, Thrown
<1>5. Generators' /\ ByKept /\ gens' \in [Gen -> GenSet]
  BY <1>1, <1>2 DEF Generators, ByKept, Types
<1>6. top' \in Int /\ top' >= stackbase
  BY <1>1, <1>2 DEF Types
<1> QED
  BY <1>2, <1>4, <1>5, <1>6, SameStacks

LEMMA NewGeneratorStep ==
  ASSUME VMInv, NEW g \in Gen, NewGenerator(g), callsstack' = callsstack
  PROVE gens' \in [Gen -> GenSet] /\ ByKept /\ Generators'
<1>1. Generators /\ gens \in [Gen -> GenSet]
  BY DEF VMInv, Types
<1>2. PICK x \in GenSet : x = gens[g]
  BY <1>1
<1>3. x.by \in By
  BY GenType
<1>4. PICK y : y = [state |-> "suspended", size |-> StackSize, etraps |-> 0, root |-> FALSE, traps |-> <<>>, by |-> x.by]
  OBVIOUS
<1>5. y \in GenSet
  <2>1. <<>> \in Seq(TrapSet) /\ StackSize \in Nat /\ 0 \in Nat
    BY DEF StackSize
  <2> QED
    BY <1>3, <1>4, <2>1 DEF GenSet, SleepingSet
<1>6. y.state = "suspended" /\ y.by = x.by /\ y.traps = <<>> /\ y.etraps = 0 /\ ~y.root
  BY <1>4
<1>7. gens' = [gens EXCEPT ![g] = y] /\ gens[g].state # "running"
  BY <1>2, <1>4 DEF NewGenerator
<1>8. gens' \in [Gen -> GenSet] /\ gens'[g] = y /\ \A k \in Gen : k # g => gens'[k] = gens[k]
  BY <1>1, <1>5, <1>7
<1>9. Changed(g, y)
  BY <1>2, <1>6, <1>8 DEF Changed
<1>10. Kept(y)
  BY <1>6 DEF Kept
<1>11. Generators'
  BY <1>1, <1>6, <1>7, <1>9, <1>10, GenNew
<1> QED
  BY <1>8, <1>9, <1>11, ByKeptChanged

LEMMA CallGeneratorFunctionStep ==
  ASSUME VMInv, NEW g \in Gen, CallGeneratorFunction(g)
  PROVE VMInv'
<1>1. Types /\ Handler
  BY DEF VMInv
<1>2. /\ NewGenerator(g) /\ mode = "run" /\ mode' = mode /\ reported' = reported
      /\ callsstack' = callsstack /\ stackbase' = stackbase /\ top' = top /\ etraps' = etraps /\ cstack' = cstack
      /\ UNCHANGED countVars /\ UNCHANGED suspendVars
  BY DEF CallGeneratorFunction, frameVars, InExecute
<1>3. gens' \in [Gen -> GenSet] /\ ByKept /\ Generators'
  BY <1>2, NewGeneratorStep
<1>4. top' \in Int /\ top' >= stackbase /\ mode' \in {"run", "unwind"} /\ reported' \in BOOLEAN
  BY <1>1, <1>2 DEF Types
<1>5. Handler'
  BY <1>2 DEF Handler
<1> QED
  BY <1>2, <1>3, <1>4, <1>5, SameStacks

LEMMA SqCallGeneratorFunctionStep ==
  ASSUME VMInv, NEW g \in Gen, SqCallGeneratorFunction(g)
  PROVE VMInv'
<1>1. Types
  BY DEF VMInv
<1>2. /\ NewGenerator(g) /\ CanCall /\ mode' = mode /\ reported' = reported
      /\ callsstack' = callsstack /\ stackbase' = stackbase /\ etraps' = etraps /\ cstack' = cstack
      /\ top' = IF suspended THEN top + NParams ELSE top
      /\ UNCHANGED countVars /\ UNCHANGED suspendVars
  BY DEF SqCallGeneratorFunction
<1>3. gens' \in [Gen -> GenSet] /\ ByKept /\ Generators'
  BY <1>2, NewGeneratorStep
<1>4. mode = "run"
  BY <1>2, CallerRuns
<1>5. suspended = TRUE \/ (suspended = FALSE /\ top' = top)
  BY <1>1, <1>2 DEF Types
<1>6. top' \in Int /\ top' >= stackbase /\ mode' \in {"run", "unwind"} /\ reported' \in BOOLEAN
  <2>1. CASE suspended = TRUE
    BY <1>1, <1>2, <2>1 DEF Types, NParams
  <2>2. CASE suspended = FALSE
    BY <1>1, <1>2, <2>2 DEF Types
  <2> QED
    BY <1>5, <2>1, <2>2
<1>7. Handler'
  BY <1>2, <1>4 DEF Handler
<1> QED
  BY <1>2, <1>3, <1>5, <1>6, <1>7, SameStacks
-----------------------------------------------------------------------------
(* The actions that set or take a trap. *)
LEMMA TrapAdded ==
  ASSUME NEW us \in Seq(TrapSet), us # <<>>, NEW tr, tr = Front(us), NEW b, TrapAt(Last(us), b),
         NEW n \in Nat, OwnTraps(tr, n, b), NEW m, m = n + 1
  PROVE Below(us, m) = Below(tr, n) /\ OwnTraps(us, m, b)
<1>0. PICK x : x = Last(us) /\ x \in TrapSet /\ us = Append(tr, x) /\ tr \in Seq(TrapSet)
  BY SeqSnoc
<1>1. PICK k \in Nat : k = Len(tr)
  BY <1>0
<1>2. Len(us) = k + 1 /\ us[k + 1] = x /\ \A i \in 1 .. k : us[i] = tr[i]
  BY <1>0, <1>1
<1>3. n <= k /\ \A t \in k - n + 1 .. k : TrapAt(tr[t], b)
  BY <1>1 DEF OwnTraps
<1>4. PICK d \in Nat : d = k - n /\ k + 1 - m = d /\ d <= k
  <2>1. k - n \in Nat /\ k + 1 - m = k - n /\ k - n <= k
    BY <1>3
  <2> QED
    BY <2>1
<1>5. SubSeq(us, 1, d) = SubSeq(tr, 1, d)
  BY <1>0, <1>1, <1>2, <1>4
<1>6. Below(us, m) = Below(tr, n)
  BY <1>1, <1>2, <1>4, <1>5 DEF Below
<1>7. OwnTraps(us, m, b)
  <2>1. m <= k + 1
    BY <1>3
  <2>2. ASSUME NEW t \in (k + 1) - m + 1 .. k + 1
        PROVE TrapAt(us[t], b)
    <3>1. CASE t = k + 1
      BY <1>0, <1>2, <3>1
    <3>2. CASE t # k + 1
      <4>1. t \in k - n + 1 .. k /\ t \in 1 .. k
        BY <1>3, <3>2
      <4> QED
        BY <1>2, <1>3, <4>1
    <3> QED
      BY <3>1, <3>2
  <2> QED
    BY <1>2, <2>1, <2>2 DEF OwnTraps
<1> QED
  BY <1>6, <1>7

LEMMA TrapTaken ==
  ASSUME NEW tr \in Seq(TrapSet), NEW b, NEW n \in Nat, n > 0, OwnTraps(tr, n, b),
         NEW us, us = Front(tr), NEW m, m = n - 1
  PROVE /\ us \in Seq(TrapSet) /\ Below(us, m) = Below(tr, n) /\ OwnTraps(us, m, b)
        /\ tr # <<>> /\ TrapAt(Last(tr), b) /\ Last(tr) \in TrapSet
<1>1. tr # <<>>
  BY DEF OwnTraps
<1>2. /\ tr = Append(us, Last(tr)) /\ us \in Seq(TrapSet) /\ Last(tr) \in TrapSet /\ Last(tr) = tr[Len(tr)]
      /\ Len(tr) = Len(us) + 1 /\ Len(us) \in Nat
  BY <1>1, SeqSnoc
<1>3. PICK k \in Nat : k = Len(us) /\ Len(tr) = k + 1
  BY <1>2
<1>4. \A i \in 1 .. k : us[i] = tr[i]
  BY <1>2, <1>3
<1>5. n <= k + 1 /\ \A t \in (k + 1) - n + 1 .. k + 1 : TrapAt(tr[t], b)
  BY <1>3 DEF OwnTraps
<1>6. PICK d \in Nat : d = k + 1 - n /\ k - m = d /\ d <= k
  <2>1. k + 1 - n \in Nat /\ k - m = k + 1 - n /\ k + 1 - n <= k
    BY <1>5
  <2> QED
    BY <2>1
<1>7. SubSeq(us, 1, d) = SubSeq(tr, 1, d)
  BY <1>2, <1>3, <1>4, <1>6
<1>8. Below(us, m) = Below(tr, n)
  BY <1>3, <1>6, <1>7 DEF Below
<1>9. m <= k /\ \A t \in k - m + 1 .. k : t \in (k + 1) - n + 1 .. k + 1 /\ t \in 1 .. k
  BY <1>5, <1>6
<1>10. OwnTraps(us, m, b)
  BY <1>3, <1>4, <1>5, <1>9 DEF OwnTraps
<1>11. TrapAt(Last(tr), b)
  <2>1. k + 1 \in (k + 1) - n + 1 .. k + 1
    BY <1>5
  <2> QED
    BY <1>2, <1>3, <1>5, <2>1
<1> QED
  BY <1>1, <1>2, <1>8, <1>10, <1>11

(* The last frame counts n traps. *)
FrameTraps(n) == callsstack' = [callsstack EXCEPT ![Len(callsstack)].etraps = n]

LEMMA FrameTrapsSet ==
  ASSUME Types, Stacks, cstack # <<>>, act.kind = "exec", NEW n \in Nat, FrameTraps(n)
  PROVE \E f : SameFrame(ci, f) /\ f.etraps = n /\ callsstack' = Append(Front(callsstack), f)
<1>1. callsstack \in Seq(FrameSet) /\ callsstack # <<>>
  BY OnTop DEF Types
<1>2. PICK e \in FrameSet : e = ci /\ e.kind # "native"
  <2>1. ci \in FrameSet /\ ci.kind # "native"
    BY OnTop
  <2> QED
    BY <2>1
<1>3. e \in ClosureFrames
  BY <1>2 DEF FrameSet, NativeFrames
<1>4. PICK f : f = [e EXCEPT !.etraps = n]
  OBVIOUS
<1>5. /\ f \in ClosureFrames /\ f.etraps = n /\ f.kind = e.kind /\ f.gen = e.gen /\ f.prevstkbase = e.prevstkbase
      /\ f.prevtop = e.prevtop
  BY <1>3, <1>4 DEF ClosureFrames
<1>6. f.root = e.root
  BY <1>3, <1>4 DEF ClosureFrames
<1>7. f \in FrameSet
  BY <1>5 DEF FrameSet
<1>8. SameFrame(ci, f)
  BY <1>2, <1>5, <1>6, <1>7 DEF SameFrame
<1>9. callsstack[Len(callsstack)] = e
  BY <1>2 DEF ci, Last
<1>10. [callsstack EXCEPT ![Len(callsstack)] = f] = Append(Front(callsstack), f)
  BY <1>1, <1>7, LastReplaced
<1>11. callsstack' = [callsstack EXCEPT ![Len(callsstack)] = f]
  BY <1>4, <1>9 DEF FrameTraps
<1> QED
  BY <1>5, <1>8, <1>10, <1>11

LEMMA TrapStep ==
  ASSUME VMInv, cstack # <<>>, act.kind = "exec", NEW n \in Nat, FrameTraps(n),
         NEW m, m = act.traps + (n - ci.etraps), SetTraps(m),
         UNCHANGED <<suspendVars, countVars>>, gens' = gens, stackbase' = stackbase, top' \in Int, top' >= stackbase,
         mode' = "run", reported' \in BOOLEAN,
         etraps' \in Seq(TrapSet), Below(etraps', n) = Below(etraps, ci.etraps), OwnTraps(etraps', n, stackbase)
  PROVE VMInv'
<1>1. Types /\ Stacks /\ Generators /\ HostStack /\ Handler
  BY DEF VMInv
<1>2. /\ suspended' = suspended /\ suspendedRoot' = suspendedRoot /\ suspendedTraps' = suspendedTraps
      /\ nnativecalls' = nnativecalls /\ nmetamethodscall' = nmetamethodscall
  BY DEF suspendVars, countVars
<1>3. PICK e \in FrameSet : e = ci
  BY <1>1, OnTop
<1>4. PICK f : SameFrame(ci, f) /\ f.etraps = n /\ callsstack' = Append(Front(callsstack), f)
  BY <1>1, FrameTrapsSet
<1>5. PICK d \in Int : d = n - e.etraps
  <2>1. e.etraps \in Nat
    BY FrameType
  <2> QED
    BY <2>1
<1>6. PICK c : Retrapped(act, c, d) /\ cstack' = Append(Front(cstack), c) /\ c.raiseerror = act.raiseerror
  BY <1>1, <1>3, <1>5, TrapsSet
<1>7. Stacks'
  <2>1. Retrapped(act, c, f.etraps - ci.etraps)
    BY <1>3, <1>4, <1>5, <1>6
  <2>2. Below(etraps', f.etraps) = Below(etraps, ci.etraps)
        /\ (OwnTraps(etraps, ci.etraps, stackbase) => OwnTraps(etraps', f.etraps, stackbase))
    BY <1>4
  <2> QED
    BY <1>1, <1>4, <1>6, <2>1, <2>2, TopTraps
<1>8. PICK gs \in Seq(FrameSet) : gs = Front(callsstack) /\ callsstack = Append(gs, e)
  BY <1>1, <1>3, OnTop
<1>9. PICK cs \in Seq(CallSet), a \in CallSet : cs = Front(cstack) /\ a = act /\ cstack = Append(cs, a)
  BY <1>1, OnTop
<1>10. /\ f \in FrameSet /\ f.gen = e.gen /\ f.root = e.root /\ f.kind = e.kind /\ f.prevtop = e.prevtop
       /\ callsstack' = Append(gs, f)
  BY <1>3, <1>4, <1>8 DEF SameFrame
<1>11. c \in CallSet /\ c.how = a.how /\ cstack' = Append(cs, c)
  BY <1>6, <1>9 DEF Retrapped, CallSet
<1>12. cstack' \in Seq(CallSet) /\ cstack' # <<>> /\ Head(cstack').how = Head(cstack).how
  <2>1. Head(Append(cs, c)).how = Head(Append(cs, a)).how
    BY <1>11, Recalled
  <2>2. Append(cs, c) \in Seq(CallSet) /\ Append(cs, c) # <<>>
    BY <1>11, Snocs
  <2> QED
    BY <1>9, <1>11, <2>1, <2>2
<1>13. callsstack' \in Seq(FrameSet) /\ Head(callsstack').prevtop = Head(callsstack).prevtop
  <2>1. callsstack' \in Seq(FrameSet)
    BY <1>10, Snocs
  <2>2. CASE gs = <<>>
    BY <1>8, <1>10, <2>1, <2>2, Snocs
  <2>3. CASE gs # <<>>
    BY <1>8, <1>10, <2>1, <2>3, Snocs
  <2> QED
    BY <2>1, <2>2, <2>3
<1>14. Types'
  BY <1>1, <1>2, <1>12, <1>13 DEF Types
<1>15. Generators'
  BY <1>1, <1>8, <1>10, GenTop
<1>16. HostStack'
  <2>1. ByKept
    BY DEF ByKept
  <2> QED
    BY <1>1, <1>2, <1>12, <1>13, <2>1, HostKept
<1>17. Handler'
  BY DEF Handler
<1> QED
  BY <1>7, <1>14, <1>15, <1>16, <1>17 DEF VMInv

LEMMA PushTrapStep ==
  ASSUME VMInv, PushTrap
  PROVE VMInv'
<1>1. Types /\ Stacks
  BY DEF VMInv
<1>2. stackbase \in Int /\ top \in Int /\ top >= stackbase /\ etraps \in Seq(TrapSet)
      /\ mode \in {"run", "unwind"} /\ reported \in BOOLEAN
  BY <1>1 DEF Types
<1>3. /\ mode = "run" /\ cstack # <<>> /\ act.kind = "exec"
      /\ etraps' = Append(etraps, [stackbase |-> stackbase, stacksize |-> top])
      /\ stackbase' = stackbase /\ top' = top /\ gens' = gens /\ mode' = mode /\ reported' = reported
      /\ UNCHANGED <<suspendVars, countVars>> /\ SetTraps(act.traps + 1)
  BY DEF PushTrap, InExecute
<1>4. PICK e \in Nat : e = ci.etraps
  BY <1>1, <1>3, OnTop, FrameType
<1>5. PICK n \in Nat : n = e + 1
  OBVIOUS
<1>6. FrameTraps(n)
  <2>1. callsstack[Len(callsstack)].etraps = e
    BY <1>4 DEF ci, Last
  <2> QED
    BY <1>5, <2>1 DEF PushTrap, FrameTraps
<1>7. PICK t \in Int : t = act.traps
  BY <1>1, <1>3, OnTop, CallType
<1>8. PICK m : m = t + 1 /\ m = t + (n - e)
  BY <1>5
<1>9. SetTraps(m) /\ m = act.traps + (n - ci.etraps)
  BY <1>3, <1>4, <1>7, <1>8
<1>10. PICK x \in TrapSet : x = [stackbase |-> stackbase, stacksize |-> top]
  BY <1>2 DEF TrapSet
<1>11. TrapAt(x, stackbase) /\ etraps' = Append(etraps, x)
  BY <1>2, <1>3, <1>10 DEF TrapAt
<1>12. OwnTraps(etraps, e, stackbase)
  BY <1>1, <1>3, <1>4, OwnOnTop
<1>13. etraps' \in Seq(TrapSet) /\ Below(etraps', n) = Below(etraps, e) /\ OwnTraps(etraps', n, stackbase)
  <2>1. PICK tr \in Seq(TrapSet), b \in Int : tr = etraps /\ b = stackbase
    BY <1>2
  <2>2. PICK us \in Seq(TrapSet) : us = etraps' /\ us # <<>> /\ tr = Front(us) /\ x = Last(us)
    BY <1>11, <2>1, Snocs
  <2>3. TrapAt(Last(us), b) /\ OwnTraps(tr, e, b)
    BY <1>11, <1>12, <2>1, <2>2
  <2>4. Below(us, n) = Below(tr, e) /\ OwnTraps(us, n, b)
    BY <1>5, <2>2, <2>3, TrapAdded
  <2> QED
    BY <2>1, <2>2, <2>4
<1> QED
  BY <1>2, <1>3, <1>4, <1>6, <1>9, <1>13, TrapStep

LEMMA PopTrapStep ==
  ASSUME VMInv, PopTrap
  PROVE VMInv'
<1>1. Types /\ Stacks
  BY DEF VMInv
<1>2. stackbase \in Int /\ top \in Int /\ top >= stackbase /\ etraps \in Seq(TrapSet)
      /\ mode \in {"run", "unwind"} /\ reported \in BOOLEAN
  BY <1>1 DEF Types
<1>3. /\ mode = "run" /\ cstack # <<>> /\ act.kind = "exec" /\ ci.etraps > 0
      /\ etraps' = Front(etraps)
      /\ stackbase' = stackbase /\ top' = top /\ gens' = gens /\ mode' = mode /\ reported' = reported
      /\ UNCHANGED <<suspendVars, countVars>> /\ SetTraps(act.traps - 1)
  BY DEF PopTrap, InExecute
<1>4. PICK e \in Nat : e = ci.etraps /\ e > 0
  BY <1>1, <1>3, OnTop, FrameType
<1>5. PICK n \in Nat : n = e - 1
  BY <1>4
<1>6. FrameTraps(n)
  <2>1. callsstack[Len(callsstack)].etraps = e
    BY <1>4 DEF ci, Last
  <2> QED
    BY <1>5, <2>1 DEF PopTrap, FrameTraps
<1>7. PICK t \in Int : t = act.traps
  BY <1>1, <1>3, OnTop, CallType
<1>8. PICK m : m = t - 1 /\ m = t + (n - e)
  BY <1>5
<1>9. SetTraps(m) /\ m = act.traps + (n - ci.etraps)
  BY <1>3, <1>4, <1>7, <1>8
<1>10. OwnTraps(etraps, e, stackbase)
  BY <1>1, <1>3, <1>4, OwnOnTop
<1>11. etraps' \in Seq(TrapSet) /\ Below(etraps', n) = Below(etraps, e) /\ OwnTraps(etraps', n, stackbase)
  BY <1>2, <1>3, <1>4, <1>5, <1>10, TrapTaken
<1> QED
  BY <1>2, <1>3, <1>4, <1>6, <1>9, <1>11, TrapStep

LEMMA CatchStep ==
  ASSUME VMInv, Catch
  PROVE VMInv'
<1>1. Types /\ Stacks /\ Handler
  BY DEF VMInv
<1>2. stackbase \in Int /\ etraps \in Seq(TrapSet)
  BY <1>1 DEF Types
<1>3. /\ mode = "unwind" /\ ci.etraps > 0
      /\ etraps' = Front(etraps) /\ stackbase' = Last(etraps).stackbase /\ top' = Last(etraps).stacksize
      /\ gens' = gens /\ mode' = "run" /\ reported' = FALSE
      /\ UNCHANGED <<suspendVars, countVars>> /\ SetTraps(act.traps - 1)
  BY DEF Catch
<1>4. cstack # <<>> /\ act.kind = "exec"
  BY <1>1, <1>3 DEF Handler
<1>5. PICK e \in Nat : e = ci.etraps /\ e > 0
  BY <1>1, <1>3, <1>4, OnTop, FrameType
<1>6. PICK n \in Nat : n = e - 1
  BY <1>5
<1>7. FrameTraps(n)
  <2>1. callsstack[Len(callsstack)].etraps = e
    BY <1>5 DEF ci, Last
  <2> QED
    BY <1>6, <2>1 DEF Catch, FrameTraps
<1>8. PICK t \in Int : t = act.traps
  BY <1>1, <1>4, OnTop, CallType
<1>9. PICK m : m = t - 1 /\ m = t + (n - e)
  BY <1>6
<1>10. SetTraps(m) /\ m = act.traps + (n - ci.etraps)
  BY <1>3, <1>5, <1>8, <1>9
<1>11. OwnTraps(etraps, e, stackbase)
  BY <1>1, <1>4, <1>5, OwnOnTop
<1>12. /\ etraps' \in Seq(TrapSet) /\ Below(etraps', n) = Below(etraps, e) /\ OwnTraps(etraps', n, stackbase)
       /\ TrapAt(Last(etraps), stackbase) /\ Last(etraps) \in TrapSet
  BY <1>2, <1>3, <1>5, <1>6, <1>11, TrapTaken
<1>13. stackbase' = stackbase /\ top' \in Int /\ top' >= stackbase
  BY <1>3, <1>12 DEF TrapAt, TrapSet
<1>14. reported' \in BOOLEAN
  BY <1>3, Zenon
<1> QED
  BY <1>3, <1>4, <1>5, <1>7, <1>10, <1>12, <1>13, <1>14, TrapStep
-----------------------------------------------------------------------------
(* A native that calls by a tail call: its frame becomes one of the        *)
(* Execute that called it.                                                 *)
LEMMA TailCallStep ==
  ASSUME VMInv, TailCall
  PROVE VMInv'
<1>1. Types /\ Stacks /\ Generators /\ HostStack /\ Handler
  BY DEF VMInv
<1>2. /\ callsstack \in Seq(FrameSet) /\ cstack \in Seq(CallSet) /\ etraps \in Seq(TrapSet) /\ stackbase \in Int
      /\ suspended \in BOOLEAN /\ suspendedTraps \in Int /\ top \in Int /\ top >= stackbase
  BY <1>1 DEF Types
<1>3. /\ cstack # <<>> /\ act.kind = "native" /\ act.how = "op"
      /\ callsstack' = [callsstack EXCEPT ![Len(callsstack)].kind = "closure"]
      /\ top' = IF top >= stackbase + StackSize THEN top ELSE stackbase + StackSize
      /\ nnativecalls' = nnativecalls - 1 /\ nmetamethodscall' = nmetamethodscall
      /\ cstack' = Front(cstack) /\ stackbase' = stackbase /\ etraps' = etraps /\ gens' = gens
      /\ mode' = mode /\ reported' = reported /\ UNCHANGED suspendVars
  BY DEF TailCall, InNative
<1>4. suspended' = suspended /\ suspendedRoot' = suspendedRoot /\ suspendedTraps' = suspendedTraps
  BY <1>3 DEF suspendVars
<1>5. mode = "run"
  BY <1>1, <1>3 DEF Handler, Types
<1>6. PICK e \in FrameSet : e = ci /\ e.kind = "native" /\ e.root = FALSE /\ e.etraps = 0 /\ e.gen = NoGen
  <2>1. ci \in FrameSet /\ ci.kind = "native"
    BY <1>1, <1>3, OnTop
  <2> QED
    BY <2>1, FrameType
<1>7. PICK gs \in Seq(FrameSet) : gs = Front(callsstack) /\ callsstack = Append(gs, e)
  BY <1>1, <1>3, <1>6, OnTop
<1>8. PICK a \in CallSet : a = act /\ a.kind = "native" /\ a.how = "op"
  BY <1>1, <1>3, OnTop
<1>9. PICK cs \in Seq(CallSet) : cs = Front(cstack) /\ cstack = Append(cs, a)
  BY <1>1, <1>3, <1>8, OnTop
<1>10. PICK f : f = [e EXCEPT !.kind = "closure"]
  OBVIOUS
<1>11. e \in NativeFrames
  BY <1>6 DEF FrameSet, ClosureFrames
<1>12. /\ f \in ClosureFrames /\ f.kind = "closure" /\ f.etraps = 0 /\ f.gen = NoGen /\ f.root = FALSE
       /\ f.prevstkbase = e.prevstkbase /\ f.prevtop = e.prevtop
  <2>1. e.prevstkbase \in Int /\ e.prevtop \in Nat /\ e.root \in BOOLEAN
    BY FrameType
  <2>2. PICK h : h = [kind |-> "closure", gen |-> NoGen, etraps |-> 0, root |-> e.root,
                      prevstkbase |-> e.prevstkbase, prevtop |-> e.prevtop]
    OBVIOUS
  <2>3. h \in ClosureFrames
    BY <2>1, <2>2 DEF ClosureFrames
  <2>4. f = h
    BY <1>6, <1>10, <1>11, <2>2 DEF NativeFrames
  <2>5. h.root = FALSE
    BY <1>6, <2>2, Zenon
  <2> QED
    BY <2>2, <2>3, <2>4, <2>5
<1>13. f \in FrameSet /\ ~IsEntry(f) /\ IsEntry(e)
  BY <1>6, <1>12 DEF FrameSet, IsEntry
<1>14. callsstack' = Append(gs, f)
  <2>1. callsstack # <<>>
    BY <1>1, <1>3, OnTop
  <2>2. callsstack[Len(callsstack)] = e
    BY <1>6 DEF ci, Last
  <2>3. [callsstack EXCEPT ![Len(callsstack)] = f] = Append(Front(callsstack), f)
    BY <1>2, <1>13, <2>1, LastReplaced
  <2> QED
    BY <1>3, <1>7, <1>10, <2>2, <2>3
<1>15. CallsCounted /\ Sleeping /\ Fit(Append(gs, e), Acts(suspended, suspendedTraps, Append(cs, a)), etraps, stackbase)
  BY <1>1, <1>7, <1>9 DEF Stacks
<1>16. CallsFollow(cs) /\ Follows(a, cs)
  BY <1>9, <1>15, CallsSnoc DEF CallsCounted
<1>17. cs # <<>> /\ Last(cs).kind = "exec"
  BY <1>8, <1>16 DEF Follows
<1>18. PICK ds \in Seq(CallSet), x \in ExecSet : cs = Append(ds, x)
  <2>1. cs = Append(Front(cs), Last(cs)) /\ Front(cs) \in Seq(CallSet) /\ Last(cs) \in CallSet
    BY <1>17, SeqSnoc
  <2>2. Last(cs) \in ExecSet
    BY <1>17, <2>1, CallType
  <2> QED
    BY <2>1, <2>2
<1>19. Fit(gs, Acts(suspended, suspendedTraps, cs), Below(etraps, e.etraps), stackbase - e.prevstkbase)
  BY <1>2, <1>13, <1>15, FitEntry
<1>20. Below(etraps, 0) = etraps /\ OwnTraps(etraps, 0, stackbase)
  BY <1>2, NoTraps
<1>21. Fit(gs, Acts(suspended, suspendedTraps, Append(ds, x)), Below(etraps, f.etraps), stackbase - f.prevstkbase)
       /\ OwnTraps(etraps, f.etraps, stackbase)
  BY <1>6, <1>12, <1>18, <1>19, <1>20
<1>22. x.traps = x.traps + f.etraps
  <2>1. x.traps \in Int
    BY DEF ExecSet
  <2> QED
    BY <1>12, <2>1
<1>23. Fit(Append(gs, f), Acts(suspended, suspendedTraps, cs), etraps, stackbase)
  <2>1. Fit(Append(gs, f), Acts(suspended, suspendedTraps, Append(ds, x)), etraps, stackbase)
    BY <1>2, <1>13, <1>21, <1>22, FitInner
  <2> QED
    BY <1>18, <2>1
<1>24. Stacks'
  <2>1. Fit(callsstack, Acts(suspended, suspendedTraps, cstack), etraps, stackbase)'
    BY <1>3, <1>4, <1>9, <1>14, <1>23
  <2>2. CallsCounted'
    <3>1. MetaCalls(cstack) = MetaCalls(cs) /\ Len(cstack) = Len(cs) + 1 /\ Len(cs) \in Nat
      <4>1. MetaCalls(Append(cs, a)) = MetaCalls(cs)
        BY <1>8, MetaSnoc
      <4>2. Len(Append(cs, a)) = Len(cs) + 1 /\ Len(cs) \in Nat
        OBVIOUS
      <4> QED
        BY <1>9, <4>1, <4>2
    <3>2. nnativecalls - 1 = Len(cs) /\ nmetamethodscall = MetaCalls(cs)
      BY <1>15, <3>1 DEF CallsCounted
    <3> QED
      BY <1>3, <1>9, <1>16, <3>2 DEF CallsCounted
  <2>3. Sleeping'
    <3>1. SUFFICES ASSUME suspended = TRUE
                   PROVE SleepsAt(Append(gs, f), suspendedRoot) /\ Head(cs).how # "wake"
      BY <1>3, <1>4, <1>9, <1>14 DEF Sleeping
    <3>2. SleepsAt(Append(gs, e), suspendedRoot) /\ Head(cstack).how # "wake"
      BY <1>3, <1>7, <1>15, <3>1 DEF Sleeping
    <3>3. SleepsAt(Append(gs, e), suspendedRoot) <=> SleepsAt(gs, suspendedRoot)
      BY <1>2, <1>15, <3>1, SleepsFit
    <3>4. Fit(Append(gs, f), Acts(suspended, suspendedTraps, Append(ds, x)), etraps, stackbase) /\ x \in CallSet
      BY <1>18, <1>23 DEF CallSet
    <3>5. SleepsAt(Append(gs, f), suspendedRoot) <=> SleepsAt(gs, suspendedRoot)
      BY <1>2, <1>13, <3>1, <3>4, SleepsFit
    <3>6. Head(cstack) = Head(cs)
      BY <1>9, <1>17, Snocs
    <3> QED
      BY <3>2, <3>3, <3>5, <3>6
  <2> QED
    BY <2>1, <2>2, <2>3 DEF Stacks
<1>25. Types'
  <2>1. callsstack' \in Seq(FrameSet) /\ cstack' \in Seq(CallSet)
    <3>1. Append(gs, f) \in Seq(FrameSet)
      BY <1>13
    <3> QED
      BY <1>3, <1>9, <1>14, <3>1
  <2>2. top' \in Int /\ top' >= stackbase'
    BY <1>2, <1>3 DEF StackSize
  <2>3. nnativecalls' \in Int
    BY <1>1, <1>3 DEF Types
  <2> QED
    BY <1>1, <1>3, <1>4, <2>1, <2>2, <2>3 DEF Types
<1>26. Generators'
  <2>1. f.gen = e.gen /\ f.root = e.root /\ (e.gen # NoGen => f.kind = e.kind)
    BY <1>6, <1>12
  <2> QED
    BY <1>1, <1>3, <1>7, <1>13, <1>14, <2>1, GenTop
<1>27. HostStack'
  <2>1. Head(callsstack').prevtop = Head(callsstack).prevtop
    <3>1. CASE gs = <<>>
      BY <1>7, <1>12, <1>13, <1>14, <3>1, Snocs
    <3>2. CASE gs # <<>>
      BY <1>7, <1>13, <1>14, <3>2, Snocs
    <3> QED
      BY <3>1, <3>2
  <2>2. Head(cstack').how = Head(cstack).how /\ cstack' # <<>>
    BY <1>3, <1>9, <1>17, Snocs
  <2>3. ByKept
    BY <1>3 DEF ByKept
  <2> QED
    BY <1>1, <1>3, <1>4, <2>1, <2>2, <2>3, HostKept
<1>28. Handler'
  BY <1>3, <1>5 DEF Handler
<1> QED
  BY <1>24, <1>25, <1>26, <1>27, <1>28 DEF VMInv
-----------------------------------------------------------------------------
(* sq_suspendvm and sq_wakeupvm. *)
LEMMA Renamed ==
  ASSUME NEW fs, NEW tr, NEW b, NEW ac, NEW bs, Len(bs) = Len(ac),
         \A k \in 1 .. Len(ac) :
           /\ bs[k].kind = ac[k].kind /\ bs[k].traps = ac[k].traps /\ bs[k].how # "op" /\ ac[k].how # "op"
  PROVE Fit(fs, ac, tr, b) <=> Fit(fs, bs, tr, b)
BY DEF Fit, Nested, Counted

Alone(y) == <<y>>

LEMMA OneAwake ==
  ASSUME NEW y, NEW u
  PROVE Acts(FALSE, u, Alone(y)) = Alone(y) /\ Len(Alone(y)) = 1 /\ Alone(y)[1] = y
<1>1. <<>> \o <<y>> = <<y>> /\ Len(<<y>>) = 1 /\ <<y>>[1] = y
  OBVIOUS
<1> QED
  BY <1>1 DEF Acts, Alone

LEMMA OneAsleep ==
  ASSUME NEW t
  PROVE \E z : /\ Acts(TRUE, t, <<>>) = Alone(z) /\ Len(Alone(z)) = 1 /\ Alone(z)[1] = z
              /\ z.kind = "exec" /\ z.how = "wake" /\ z.traps = t
<1>1. PICK z : z = [kind |-> "exec", how |-> "wake", traps |-> t]
  OBVIOUS
<1>2. z.kind = "exec" /\ z.how = "wake" /\ z.traps = t
  BY <1>1
<1>3. Acts(TRUE, t, <<>>) = <<z>> \o <<>>
  BY <1>1 DEF Acts
<1>4. <<z>> \o <<>> = <<z>>
  OBVIOUS
<1>5. Acts(TRUE, t, <<>>) = Alone(z)
  BY <1>3, <1>4 DEF Alone
<1>6. Len(Alone(z)) = 1 /\ Alone(z)[1] = z
  BY DEF Alone
<1> QED
  BY <1>2, <1>5, <1>6

(* The last Execute by itself, running or suspended. *)
LEMMA FitAsleep ==
  ASSUME NEW fs, NEW tr, NEW b, NEW y \in ExecSet, NEW u, NEW t, y.traps = t
  PROVE Fit(fs, Acts(FALSE, u, Alone(y)), tr, b) <=> Fit(fs, Acts(TRUE, t, <<>>), tr, b)
<1>1. PICK ac : ac = Acts(FALSE, u, Alone(y)) /\ ac = Alone(y) /\ Len(ac) = 1 /\ ac[1] = y
  BY OneAwake
<1>2. PICK z : /\ Acts(TRUE, t, <<>>) = Alone(z) /\ Len(Alone(z)) = 1 /\ Alone(z)[1] = z
               /\ z.kind = "exec" /\ z.how = "wake" /\ z.traps = t
  BY OneAsleep
<1>3. PICK bs : bs = Acts(TRUE, t, <<>>) /\ Len(bs) = 1 /\ bs[1] = z
  BY <1>2
<1>4. y.kind = "exec" /\ y.how # "op"
  BY DEF ExecSet
<1>5. Len(bs) = Len(ac)
  BY <1>1, <1>3
<1>6. ASSUME NEW k \in 1 .. Len(ac)
      PROVE bs[k].kind = ac[k].kind /\ bs[k].traps = ac[k].traps /\ bs[k].how # "op" /\ ac[k].how # "op"
  <2>1. Len(ac) = 1
    BY <1>1
  <2>2. k = 1
    BY ONLY <2>1, k \in 1 .. Len(ac)
  <2> QED
    BY <1>1, <1>2, <1>3, <1>4, <2>2
<1>7. Fit(fs, ac, tr, b) <=> Fit(fs, bs, tr, b)
  BY <1>5, <1>6, Renamed
<1> QED
  BY <1>1, <1>3, <1>7

LEMMA NoCalls ==
  CallsFollow(<<>>) /\ MetaCalls(<<>>) = 0
BY SumNone DEF CallsFollow, MetaCalls

LEMMA SuspendStep ==
  ASSUME VMInv, Suspend
  PROVE VMInv'
<1>1. Types /\ Stacks /\ Generators /\ HostStack /\ Handler
  BY DEF VMInv
<1>2. /\ callsstack \in Seq(FrameSet) /\ cstack \in Seq(CallSet) /\ etraps \in Seq(TrapSet) /\ stackbase \in Int
      /\ suspendedTraps \in Int /\ gens \in [Gen -> GenSet]
  BY <1>1 DEF Types
<1>3. /\ cstack # <<>> /\ act.kind = "native" /\ act.how = "op" /\ suspended = FALSE /\ nnativecalls = 2
      /\ LeaveFrame(0) /\ nnativecalls' = nnativecalls - 2 /\ suspended' = TRUE
      /\ suspendedRoot' = callsstack[Len(callsstack) - 1].root
      /\ suspendedTraps' = cstack[Len(cstack) - 1].traps
      /\ cstack' = SubSeq(cstack, 1, Len(cstack) - 2)
      /\ etraps' = etraps /\ gens' = gens /\ nmetamethodscall' = nmetamethodscall
      /\ mode' = mode /\ reported' = reported
  BY <1>1 DEF Suspend, InNative, Types
<1>4. mode = "run"
  BY <1>1, <1>3 DEF Handler, Types
<1>5. PICK e \in FrameSet : /\ e = ci /\ e.kind = "native" /\ e.etraps = 0 /\ e.gen = NoGen /\ IsEntry(e)
                            /\ e.prevstkbase \in Int /\ e.prevtop \in Nat
  <2>1. ci \in FrameSet /\ ci.kind = "native"
    BY <1>1, <1>3, OnTop
  <2> QED
    BY <2>1, FrameType DEF IsEntry
<1>6. PICK gs \in Seq(FrameSet) : gs = Front(callsstack) /\ callsstack = Append(gs, e)
  BY <1>1, <1>3, <1>5, OnTop
<1>7. PICK a \in CallSet : a = act /\ a.kind = "native" /\ a.how = "op"
  BY <1>1, <1>3, OnTop
<1>8. PICK cs \in Seq(CallSet) : cs = Front(cstack) /\ cstack = Append(cs, a)
  BY <1>1, <1>3, <1>7, OnTop
<1>9. CallsCounted /\ Fit(Append(gs, e), Acts(FALSE, suspendedTraps, Append(cs, a)), etraps, stackbase)
  BY <1>1, <1>3, <1>6, <1>8 DEF Stacks
<1>10. CallsFollow(cs) /\ Follows(a, cs) /\ MetaCalls(cstack) = MetaCalls(cs)
  BY <1>7, <1>8, <1>9, CallsSnoc, MetaSnoc DEF CallsCounted
<1>11. PICK x \in ExecSet : cs = Append(<<>>, x)
  <2>1. Len(cs) + 1 = 2 /\ Len(cs) \in Nat
    <3>1. Len(Append(cs, a)) = Len(cs) + 1
      OBVIOUS
    <3> QED
      BY <1>3, <1>8, <1>9, <3>1 DEF CallsCounted
  <2>2. cs # <<>> /\ Last(cs).kind = "exec"
    BY <1>7, <1>10 DEF Follows
  <2>3. cs = Append(Front(cs), Last(cs)) /\ Last(cs) \in CallSet /\ Len(cs) = Len(Front(cs)) + 1 /\ Front(cs) \in Seq(CallSet)
    BY <2>2, SeqSnoc
  <2>4. Front(cs) = <<>>
    BY <2>1, <2>3
  <2>5. Last(cs) \in ExecSet
    BY <2>2, <2>3, CallType
  <2> QED
    BY <2>3, <2>4, <2>5
<1>12. x \in CallSet /\ x.traps \in Int /\ x.how # "op" /\ <<>> \in Seq(CallSet) /\ cs = Alone(x)
  BY <1>11 DEF ExecSet, CallSet, Alone
<1>13. Len(cs) = 1 /\ cs[1] = x /\ Len(cstack) = 2 /\ cstack[1] = x
  <2>1. Len(cs) = 1 /\ cs[1] = x
    BY <1>12, OneAwake
  <2>2. Len(Append(cs, a)) = Len(cs) + 1 /\ \A i \in 1 .. Len(cs) : Append(cs, a)[i] = cs[i]
    OBVIOUS
  <2>3. 1 \in 1 .. Len(cs)
    BY <2>1
  <2> QED
    BY <1>8, <2>1, <2>2, <2>3
<1>14. cstack' = <<>> /\ suspendedTraps' = x.traps
  BY <1>2, <1>3, <1>13
<1>15. nmetamethodscall = 0
  <2>1. Follows(x, <<>>)
    BY <1>10, <1>11, <1>12, CallsSnoc
  <2>2. x.how # "meta"
    BY <2>1 DEF Follows
  <2>3. MetaCalls(cs) = MetaCalls(<<>>)
    BY <1>11, <1>12, <2>2, MetaSnoc
  <2> QED
    BY <1>9, <1>10, <2>3, NoCalls DEF CallsCounted
<1>16. PICK b \in Int : b = stackbase - e.prevstkbase
  BY <1>2, <1>5
<1>17. callsstack' = gs /\ stackbase' = b /\ top' = b + e.prevtop - 0
  BY <1>3, <1>5, <1>6, <1>16 DEF LeaveFrame
<1>18. Fit(gs, Acts(FALSE, suspendedTraps, cs), etraps, b)
  <2>1. FALSE \in BOOLEAN
    OBVIOUS
  <2>2. Fit(gs, Acts(FALSE, suspendedTraps, cs), Below(etraps, e.etraps), stackbase - e.prevstkbase)
    BY <1>2, <1>5, <1>9, <2>1, FitEntry
  <2> QED
    BY <1>2, <1>5, <1>16, <2>2, NoTraps
<1>19. Fit(gs, Acts(TRUE, x.traps, <<>>), etraps, b)
  BY <1>2, <1>12, <1>18, FitAsleep
<1>20. gs # <<>>
  <2>1. TRUE \in BOOLEAN
    OBVIOUS
  <2> QED
    BY <1>2, <1>12, <1>19, <2>1, FitEmpty
<1>21. Len(callsstack) - 1 = Len(gs) /\ Len(gs) \in 1 .. Len(gs) /\ callsstack[Len(gs)] = gs[Len(gs)] /\ Len(gs) \in Nat
  BY <1>6, <1>20
<1>22. ActivationOf(gs, Len(gs)) = 1
  <2>1. Len(Acts(TRUE, x.traps, <<>>)) = 1
    BY OneAsleep
  <2> QED
    BY <1>19, <2>1 DEF Fit, Nested
<1>23. PICK r : r = gs[Len(gs)].root /\ r \in BOOLEAN
  <2>1. gs[Len(gs)] \in FrameSet
    BY <1>21
  <2> QED
    BY <2>1, FrameType
<1>24. suspendedRoot' = r
  BY <1>3, <1>21, <1>23
<1>25. SleepsAt(gs, r)
  <2>1. \A i \in Len(gs) + 1 .. Len(gs) : ActivationOf(gs, i) >= 2
    BY <1>21
  <2>2. gs[Len(gs)].root = r
    BY <1>23
  <2> QED
    BY <1>21, <1>22, <2>1, <2>2 DEF SleepsAt
<1>26. Stacks'
  <2>1. Fit(callsstack, Acts(suspended, suspendedTraps, cstack), etraps, stackbase)'
    BY <1>3, <1>14, <1>17, <1>19
  <2>2. CallsCounted'
    <3>1. nnativecalls' = 0 /\ Len(<<>>) = 0
      BY <1>3
    <3> QED
      BY <1>3, <1>14, <1>15, <3>1, NoCalls DEF CallsCounted
  <2>3. Sleeping'
    BY <1>14, <1>17, <1>24, <1>25 DEF Sleeping
  <2> QED
    BY <2>1, <2>2, <2>3 DEF Stacks
<1>27. Types'
  <2>1. top' \in Int /\ top' >= stackbase' /\ stackbase' \in Int
    BY <1>5, <1>17
  <2>2. suspended' \in BOOLEAN /\ suspendedRoot' \in BOOLEAN /\ suspendedTraps' \in Int /\ nnativecalls' \in Int
    <3>1. suspendedRoot' \in BOOLEAN
      BY <1>23, <1>24, Zenon
    <3> QED
      BY <1>3, <1>12, <1>14, <3>1
  <2> QED
    BY <1>1, <1>3, <1>12, <1>14, <1>17, <2>1, <2>2 DEF Types
<1>28. Generators'
  <2>1. gens' = IF ci.gen = NoGen THEN gens ELSE [gens EXCEPT ![ci.gen].state = "dead"]
    BY <1>3, <1>5
  <2>2. callsstack' = Front(callsstack)
    BY <1>6, <1>17
  <2> QED
    BY <1>1, <1>3, <2>1, <2>2, Killed
<1>29. HostStack'
  BY <1>3 DEF HostStack
<1>30. Handler'
  BY <1>3, <1>4 DEF Handler
<1> QED
  BY <1>26, <1>27, <1>28, <1>29, <1>30 DEF VMInv

LEMMA RootKept ==
  ASSUME NEW e \in FrameSet, NEW r, e.root = r
  PROVE [e EXCEPT !.root = r] = e
<1>1. CASE e \in ClosureFrames
  BY <1>1 DEF ClosureFrames
<1>2. CASE e \in NativeFrames
  BY <1>2 DEF NativeFrames
<1> QED
  BY <1>1, <1>2 DEF FrameSet

LEMMA WakeUpStep ==
  ASSUME VMInv, NEW throw \in BOOLEAN, WakeUp(throw)
  PROVE VMInv'
<1>1. Types /\ Stacks /\ Generators /\ HostStack /\ Handler
  BY DEF VMInv
<1>2. /\ callsstack \in Seq(FrameSet) /\ etraps \in Seq(TrapSet) /\ stackbase \in Int
      /\ suspendedTraps \in Int /\ gens \in [Gen -> GenSet]
  BY <1>1 DEF Types
<1>3. PICK y : y = [kind |-> "exec", how |-> "wake", traps |-> suspendedTraps, raiseerror |-> TRUE]
  OBVIOUS
<1>4. y \in ExecSet /\ y \in CallSet /\ y.kind = "exec" /\ y.how = "wake" /\ y.traps = suspendedTraps
  BY <1>2, <1>3 DEF ExecSet, CallSet
<1>5. /\ cstack = <<>> /\ suspended = TRUE
      /\ IF throw THEN ThrowIn(Append(cstack, y)) ELSE cstack' = Append(cstack, y) /\ mode' = mode /\ reported' = reported
      /\ nnativecalls' = nnativecalls + 1
      /\ callsstack' = [callsstack EXCEPT ![Len(callsstack)].root = suspendedRoot]
      /\ suspended' = FALSE
      /\ stackbase' = stackbase /\ top' = top /\ etraps' = etraps /\ gens' = gens
      /\ nmetamethodscall' = nmetamethodscall /\ suspendedRoot' = suspendedRoot /\ suspendedTraps' = suspendedTraps
  BY <1>1, <1>3 DEF WakeUp, InHost, Types
<1>6. PICK st \in Seq(CallSet) : st = Append(cstack, y) /\ st = Alone(y) /\ st # <<>> /\ Last(st) = y /\ Head(st) = y
  <2>1. <<y>> \in Seq(CallSet) /\ <<y>> = Append(<<>>, y) /\ <<y>> # <<>> /\ Last(<<y>>) = y /\ Head(<<y>>) = y
    BY <1>4 DEF Last
  <2> QED
    BY <1>5, <2>1 DEF Alone
<1>7. cstack' = st /\ mode' \in {"run", "unwind"} /\ reported' \in BOOLEAN /\ Handler'
  <2>1. CASE throw
    <3>1. ThrowIn(st) /\ Last(st).kind = "exec"
      BY <1>4, <1>5, <1>6, <2>1
    <3>2. mode' = "unwind" /\ reported' \in BOOLEAN /\ cstack' = st /\ Handler'
      BY <1>6, <3>1, Thrown
    <3> QED
      BY <3>2
  <2>2. CASE ~throw
    <3>1. cstack' = st /\ mode' = mode /\ reported' = reported
      BY <1>5, <1>6, <2>2
    <3>2. mode = "run"
      BY <1>1, <1>5 DEF Handler, Types
    <3> QED
      BY <1>1, <3>1, <3>2 DEF Handler, Types
  <2> QED
    BY <2>1, <2>2
<1>8. Fit(callsstack, Acts(TRUE, suspendedTraps, <<>>), etraps, stackbase) /\ CallsCounted /\ Sleeping
  BY <1>1, <1>5 DEF Stacks
<1>9. ActivationOf(callsstack, Len(callsstack)) = 1 /\ callsstack # <<>>
  <2>1. Len(Acts(TRUE, suspendedTraps, <<>>)) = 1
    BY OneAsleep
  <2>2. TRUE \in BOOLEAN /\ <<>> \in Seq(CallSet)
    OBVIOUS
  <2> QED
    BY <1>2, <1>8, <2>1, <2>2, FitEmpty DEF Fit, Nested
<1>10. PICK e \in FrameSet : e = callsstack[Len(callsstack)] /\ e = Last(callsstack) /\ callsstack = Append(Front(callsstack), e)
  BY <1>2, <1>9, SeqSnoc
<1>11. e.root = suspendedRoot
  <2>1. SleepsAt(callsstack, suspendedRoot)
    BY <1>5, <1>8 DEF Sleeping
  <2>2. PICK p \in 1 .. Len(callsstack) :
          /\ ActivationOf(callsstack, p) = 1 /\ callsstack[p].root = suspendedRoot
          /\ \A i \in p + 1 .. Len(callsstack) : ActivationOf(callsstack, i) >= 2
    BY <2>1 DEF SleepsAt
  <2>3. PICK n \in Nat : n = Len(callsstack)
    BY <1>2
  <2>4. p # n => n \in p + 1 .. n
    BY <2>3
  <2>5. p = n
    BY <1>9, <2>2, <2>3, <2>4
  <2> QED
    BY <1>10, <2>2, <2>3, <2>5
<1>12. callsstack' = callsstack
  <2>1. [e EXCEPT !.root = suspendedRoot] = e
    BY <1>11, RootKept
  <2>2. callsstack' = [callsstack EXCEPT ![Len(callsstack)] = e]
    BY <1>5, <1>10, <2>1
  <2>3. [callsstack EXCEPT ![Len(callsstack)] = e] = Append(Front(callsstack), e)
    BY <1>2, <1>9, LastReplaced
  <2> QED
    BY <1>10, <2>2, <2>3
<1>13. Stacks'
  <2>1. Fit(callsstack, Acts(suspended, suspendedTraps, cstack), etraps, stackbase)'
    <3>1. Fit(callsstack, Acts(FALSE, suspendedTraps, Alone(y)), etraps, stackbase)
      BY <1>2, <1>4, <1>8, FitAsleep
    <3> QED
      BY <1>5, <1>6, <1>7, <1>12, <3>1
  <2>2. CallsCounted'
    <3>1. CallsFollow(Append(<<>>, y)) /\ MetaCalls(Append(<<>>, y)) = MetaCalls(<<>>)
      <4>1. Follows(y, <<>>) /\ <<>> \in Seq(CallSet) /\ y.how # "meta"
        BY <1>4 DEF Follows
      <4> QED
        BY <1>4, <4>1, CallsSnoc, MetaSnoc, NoCalls
    <3>2. nnativecalls = 0 /\ nmetamethodscall = MetaCalls(<<>>)
      BY <1>5, <1>8 DEF CallsCounted
    <3>3. Len(st) = 1 /\ nnativecalls' = 1
      BY <1>5, <1>6, <3>2, OneAwake
    <3> QED
      BY <1>5, <1>6, <1>7, <3>1, <3>2, <3>3 DEF CallsCounted
  <2>3. Sleeping'
    BY <1>5 DEF Sleeping
  <2> QED
    BY <2>1, <2>2, <2>3 DEF Stacks
<1>14. Types'
  <2>1. nnativecalls' \in Int
    BY <1>1, <1>5 DEF Types
  <2>2. suspended' \in BOOLEAN
    BY <1>5
  <2> QED
    BY <1>1, <1>5, <1>6, <1>7, <1>12, <2>1, <2>2 DEF Types
<1>15. Generators'
  BY <1>1, <1>5, <1>12 DEF Generators
<1>16. HostStack'
  BY <1>4, <1>6, <1>7 DEF HostStack
<1> QED
  BY <1>7, <1>13, <1>14, <1>15, <1>16 DEF VMInv
-----------------------------------------------------------------------------
(* The invariant of the specification. *)
LEMMA InitVM ==
  ASSUME Init
  PROVE VMInv
<1>1. /\ callsstack = <<>> /\ stackbase = 0 /\ top = 0 /\ etraps = <<>>
      /\ gens \in [Gen -> [state : {"none"}, by : {"script", "host"}]]
      /\ nnativecalls = 0 /\ nmetamethodscall = 0
      /\ suspended = FALSE /\ suspendedRoot = FALSE /\ suspendedTraps = -1
      /\ cstack = <<>> /\ mode = "run" /\ reported = FALSE
  BY DEF Init
<1>2. ASSUME NEW g \in Gen
      PROVE gens[g] \in GenSet /\ gens[g].state = "none"
  BY <1>1 DEF GenSet, AwakeSet, By
<1>3. Types
  <2>1. gens \in [Gen -> GenSet]
    BY <1>1, <1>2
  <2>2. <<>> \in Seq(FrameSet) /\ <<>> \in Seq(TrapSet) /\ <<>> \in Seq(CallSet)
    OBVIOUS
  <2>3. suspended \in BOOLEAN /\ suspendedRoot \in BOOLEAN /\ reported \in BOOLEAN
    BY <1>1
  <2>4. suspendedTraps \in Int
    BY <1>1
  <2>5. callsstack \in Seq(FrameSet) /\ etraps \in Seq(TrapSet) /\ cstack \in Seq(CallSet)
    BY <1>1, <2>2
  <2> QED
    BY <1>1, <2>1, <2>3, <2>4, <2>5 DEF Types
<1>4. Stacks
  <2>1. PICK ac : ac = Acts(FALSE, suspendedTraps, <<>>) /\ ac = <<>>
    BY DEF Acts
  <2>2. Nested(<<>>, <<>>)
    BY NoFrames DEF Nested
  <2>3. TrapsMatch(<<>>, <<>>, 0)
    BY NoFrames DEF TrapsMatch
  <2>4. Counted(<<>>, <<>>)
    BY DEF Counted
  <2>5. Fit(<<>>, <<>>, <<>>, 0)
    BY <2>2, <2>3, <2>4 DEF Fit
  <2>6. CallsCounted
    BY <1>1, NoCalls DEF CallsCounted
  <2>7. Sleeping
    BY <1>1 DEF Sleeping
  <2> QED
    BY <1>1, <2>1, <2>5, <2>6, <2>7 DEF Stacks
<1>5. Generators
  BY <1>1, <1>2 DEF Generators, Owned, Kept, Runs
<1>6. HostStack
  BY <1>1 DEF HostStack
<1>7. Handler
  BY <1>1 DEF Handler
<1> QED
  BY <1>3, <1>4, <1>5, <1>6, <1>7 DEF VMInv

LEMMA StutterVM ==
  ASSUME VMInv, UNCHANGED vars
  PROVE VMInv'
<1>1. /\ callsstack' = callsstack /\ stackbase' = stackbase /\ top' = top /\ etraps' = etraps /\ gens' = gens
      /\ UNCHANGED countVars /\ UNCHANGED suspendVars /\ cstack' = cstack /\ mode' = mode /\ reported' = reported
  BY DEF vars, frameVars
<1>2. Types /\ Stacks /\ Generators /\ HostStack /\ Handler
  BY DEF VMInv
<1>3. Handler' /\ Generators' /\ ByKept
  <2>1. Handler'
    BY <1>1, <1>2 DEF Handler, act
  <2>2. Generators' /\ ByKept
    BY <1>1, <1>2 DEF Generators, ByKept
  <2> QED
    BY <2>1, <2>2
<1>4. top' \in Int /\ top' >= stackbase /\ mode' \in {"run", "unwind"} /\ reported' \in BOOLEAN /\ gens' \in [Gen -> GenSet]
  BY <1>1, <1>2 DEF Types
<1> QED
  BY <1>1, <1>3, <1>4, SameStacks

LEMMA NextVM ==
  ASSUME VMInv, [Next]_vars
  PROVE VMInv'
<1>1. CASE Instruction
  <2>1. CASE \E g \in Gen : CallGeneratorFunction(g)
    BY <2>1, CallGeneratorFunctionStep
  <2> QED
    BY <1>1, <2>1, PushTrapStep, PopTrapStep, CallClosureStep, CallNativeStep, CallMetaMethodStep,
       CallMetaMethodNativeStep, ReturnStep, YieldStep, ThrowStep DEF Instruction
<1>2. CASE ExceptionTrap
  BY <1>2, CatchStep, UnwindStep DEF ExceptionTrap
<1>3. CASE Native
  <2>1. CASE \E r \in BOOLEAN : SqCall(r)
    BY <2>1, SqCallStep
  <2>2. CASE \E r \in BOOLEAN : WakeUp(r)
    BY <2>2, WakeUpStep
  <2>3. CASE \E g \in Gen : SqCallGeneratorFunction(g)
    BY <2>3, SqCallGeneratorFunctionStep
  <2> QED
    BY <1>3, <2>1, <2>2, <2>3, NativeReturnStep, NativeThrowStep, SuspendStep, TailCallStep, SqCallNativeStep,
       SqCallNativeFailsStep DEF Native
<1>4. ASSUME NEW g \in Gen, gens[g].by = "script", Resume(g)
      PROVE VMInv'
  BY <1>4, ResumeStep
<1>5. ASSUME NEW g \in Gen, gens[g].by = "host", NEW r \in BOOLEAN, SqResume(g, r)
      PROVE VMInv'
  BY <1>5, SqResumeStep
<1>6. CASE UNCHANGED vars
  BY <1>6, StutterVM
<1> QED
  BY <1>1, <1>2, <1>3, <1>4, <1>5, <1>6 DEF Next, Common
-----------------------------------------------------------------------------
(* What the invariant says of each property. *)
LEMMA ActivationsFit ==
  ASSUME VMInv
  PROVE /\ Fit(callsstack, Activations, etraps, stackbase)
        /\ DOMAIN Activations = 1 .. Len(Activations) /\ DOMAIN callsstack = 1 .. Len(callsstack)
        /\ Len(callsstack) \in Nat /\ Len(Activations) \in Nat
        /\ Len(Activations) = Len(cstack) + Asleep(suspended)
        /\ cstack # <<>> => Activations[Len(Activations)] = act /\ Len(Activations) \in 1 .. Len(Activations)
<1>1. PICK ac : ac = Activations /\ ac = Acts(suspended, suspendedTraps, cstack)
  BY DEF Activations, Acts
<1>2. callsstack \in Seq(FrameSet) /\ cstack \in Seq(CallSet) /\ suspended \in BOOLEAN /\ suspendedTraps \in Int
  BY DEF VMInv, Types
<1>3. Fit(callsstack, Acts(suspended, suspendedTraps, cstack), etraps, stackbase)
  BY DEF VMInv, Stacks
<1>4. PICK sl : sl = suspended
  OBVIOUS
<1>5. /\ Acts(sl, suspendedTraps, cstack) \in Seq(ActSet)
      /\ Len(Acts(sl, suspendedTraps, cstack)) = Len(cstack) + Asleep(sl)
      /\ \A k \in 1 .. Len(cstack) : Acts(sl, suspendedTraps, cstack)[Asleep(sl) + k] = cstack[k]
  <2>1. sl \in BOOLEAN
    BY <1>2, <1>4
  <2> QED
    BY <1>2, <2>1, ActsType
<1>6. ac = Acts(sl, suspendedTraps, cstack)
  BY <1>1, <1>4
<1>7. /\ ac \in Seq(ActSet) /\ Len(ac) = Len(cstack) + Asleep(sl)
      /\ \A k \in 1 .. Len(cstack) : ac[Asleep(sl) + k] = cstack[k]
  BY <1>5, <1>6
<1>8. Asleep(sl) \in Nat /\ Len(cstack) \in Nat /\ Len(callsstack) \in Nat
  BY <1>2 DEF Asleep
<1>9. ASSUME cstack # <<>>
      PROVE ac[Len(ac)] = act /\ Len(ac) \in 1 .. Len(ac)
  <2>1. Len(cstack) \in 1 .. Len(cstack)
    BY <1>2, <1>9
  <2>2. ac[Asleep(sl) + Len(cstack)] = cstack[Len(cstack)] /\ Len(ac) = Asleep(sl) + Len(cstack)
    BY <1>7, <1>8, <2>1
  <2>3. Len(ac) \in 1 .. Len(ac)
    BY <1>8, <2>1, <2>2
  <2>4. act = cstack[Len(cstack)]
    BY DEF act, Last
  <2> QED
    BY <2>2, <2>3, <2>4
<1>10. DOMAIN ac = 1 .. Len(ac) /\ DOMAIN callsstack = 1 .. Len(callsstack) /\ Len(ac) \in Nat
  BY <1>2, <1>7
<1>11. Fit(callsstack, ac, etraps, stackbase)
  BY <1>1, <1>3
<1>12. Len(ac) = Len(cstack) + Asleep(suspended)
  BY <1>4, <1>7
<1> QED
  BY <1>1, <1>8, <1>9, <1>10, <1>11, <1>12

LEMMA InvMatch ==
  ASSUME VMInv
  PROVE TrapsMatchFrames
<1>1. TrapsMatch(callsstack, etraps, stackbase) /\ DOMAIN callsstack = 1 .. Len(callsstack)
  BY ActivationsFit DEF Fit
<1> QED
  BY <1>1 DEF TrapsMatch, TrapAt, TrapsMatchFrames

LEMMA InvCounted ==
  ASSUME VMInv
  PROVE TrapsCounted
<1>1. Counted(callsstack, Activations) /\ DOMAIN Activations = 1 .. Len(Activations)
  BY ActivationsFit DEF Fit
<1> QED
  BY <1>1 DEF Counted, TrapsCounted

LEMMA InvOwnership ==
  ASSUME VMInv
  PROVE GeneratorOwnership
<1>1. Generators /\ DOMAIN callsstack = 1 .. Len(callsstack)
  BY ActivationsFit DEF VMInv
<1>2. ASSUME NEW g \in Gen
      PROVE IF gens[g].state = "running" THEN \E i \in 1 .. Len(callsstack) : Runs(callsstack, g) = {i}
            ELSE Runs(callsstack, g) = {}
  BY <1>1 DEF Generators, Owned
<1> QED
  BY <1>1, <1>2 DEF Runs, GeneratorOwnership

LEMMA InvNest ==
  ASSUME VMInv
  PROVE FramesNest
<1>1. Types /\ Stacks
  BY DEF VMInv
<1>2. callsstack \in Seq(FrameSet) /\ cstack \in Seq(CallSet)
  BY <1>1 DEF Types
<1>3. /\ Nested(callsstack, Activations) /\ DOMAIN callsstack = 1 .. Len(callsstack) /\ Len(callsstack) \in Nat
  BY ActivationsFit DEF Fit
<1>4. \A i \in 1 .. Len(callsstack) :
        /\ ActivationOf(callsstack, i) \in 1 .. Len(Activations)
        /\ callsstack[i].kind = "native" <=> Activations[ActivationOf(callsstack, i)].kind = "native"
  BY <1>3 DEF Nested
<1>5. callsstack # <<>> => IsEntry(Head(callsstack))
  <2>1. SUFFICES ASSUME callsstack # <<>>, ~IsEntry(callsstack[1]) PROVE FALSE
    BY <1>2
  <2>2. 1 \in 1 .. Len(callsstack)
    BY <1>2, <2>1
  <2> DEFINE a == [j \in DOMAIN callsstack |-> IF IsEntry(callsstack[j]) THEN 1 ELSE 0]
  <2>3. a[1] = 0
    BY <1>3, <2>1, <2>2
  <2> HIDE DEF a
  <2>4. SumTo(a, 0 + 1) = SumTo(a, 0) + a[0 + 1]
    BY SumNext
  <2>5. SumTo(a, 1) = 0
    BY <2>3, <2>4, SumNone
  <2>6. ActivationOf(callsstack, 1) = 0
    BY <2>5 DEF a, ActivationOf
  <2> QED
    BY <1>4, <2>2, <2>6
<1>6. InNative => ci.kind = "native"
  BY <1>1, OnTop DEF InNative
<1>7. CallsCounted
  BY <1>1 DEF Stacks
<1>8. ActivationOf(callsstack, Len(callsstack)) = Len(Activations)
  BY <1>3 DEF Nested
<1> QED
  BY <1>3, <1>4, <1>5, <1>6, <1>7, <1>8 DEF FramesNest, CallsCounted, MetaCalls

LEMMA NobodyRuns ==
  ASSUME NEW fs \in Seq(FrameSet), NEW tr \in Seq(TrapSet), NEW b \in Int, NEW acts, acts = <<>>, Fit(fs, acts, tr, b)
  PROVE fs = <<>> /\ tr = <<>> /\ b = 0
<1>1. Nested(fs, acts) /\ TrapsMatch(fs, tr, b) /\ Len(acts) = 0
  BY DEF Fit
<1>2. \A i \in 1 .. Len(fs) : ActivationOf(fs, i) \in 1 .. Len(acts)
  BY <1>1 DEF Nested
<1>3. fs = <<>>
  <2>1. SUFFICES ASSUME fs # <<>> PROVE FALSE
    OBVIOUS
  <2>2. Len(fs) \in 1 .. Len(fs)
    BY <2>1
  <2>3. ActivationOf(fs, Len(fs)) \in 1 .. 0
    BY <1>1, <1>2, <2>2
  <2> QED
    BY <2>3
<1>4. Len(fs) = 0
  BY <1>3
<1>5. Len(tr) = 0 /\ b = 0
  BY <1>1, <1>4, FirstFrame DEF TrapsMatch
<1> QED
  BY <1>3, <1>5

LEMMA InvRestored ==
  ASSUME VMInv
  PROVE StackRestored
<1>1. SUFFICES ASSUME cstack = <<>>, suspended = FALSE
               PROVE /\ callsstack = <<>> /\ etraps = <<>> /\ stackbase = 0
                     /\ (\A g \in Gen : gens[g].by = "script") => top = 0
  BY DEF StackRestored, InHost, VMInv, Types
<1>2. Types /\ Stacks /\ HostStack
  BY DEF VMInv
<1>3. /\ callsstack \in Seq(FrameSet) /\ etraps \in Seq(TrapSet) /\ stackbase \in Int /\ suspendedTraps \in Int
      /\ <<>> \in Seq(CallSet)
  BY <1>2 DEF Types
<1>4. Fit(callsstack, Acts(FALSE, suspendedTraps, <<>>), etraps, stackbase)
  BY <1>1, <1>2 DEF Stacks
<1>5. callsstack = <<>> /\ etraps = <<>> /\ stackbase = 0
  <2>1. PICK acts : acts = Acts(FALSE, suspendedTraps, <<>>) /\ acts = <<>>
    BY DEF Acts
  <2>2. Fit(callsstack, acts, etraps, stackbase)
    BY <1>4, <2>1
  <2> QED
    BY <1>3, <2>1, <2>2, NobodyRuns
<1>6. (\A g \in Gen : gens[g].by = "script") => top = 0
  BY <1>1, <1>2 DEF HostStack, ScriptsOnly
<1> QED
  BY <1>5, <1>6

LEMMA InvHears ==
  ASSUME VMInv
  PROVE HandlerHearsUncaught
<1>1. SUFFICES ASSUME mode = "unwind"
               PROVE reported <=> act.raiseerror /\ TrapsOf(callsstack, Len(Activations)) = 0
  BY DEF HandlerHearsUncaught
<1>2. cstack # <<>> /\ act.kind = "exec" /\ (reported <=> act.raiseerror /\ act.traps = 0)
  BY <1>1 DEF VMInv, Handler
<1>3. /\ Counted(callsstack, Activations)
      /\ Activations[Len(Activations)] = act /\ Len(Activations) \in 1 .. Len(Activations)
  BY <1>2, ActivationsFit DEF Fit
<1>4. act.traps = TrapsOf(callsstack, Len(Activations))
  BY <1>2, <1>3 DEF Counted
<1> QED
  BY <1>2, <1>4

LEMMA InvZero ==
  ASSUME VMInv
  PROVE TrapsZeroAtReturn
<1>1. SUFFICES ASSUME cstack # <<>>, act.kind = "exec", ci.root PROVE act.traps = ci.etraps
  BY DEF TrapsZeroAtReturn, InExecute
<1>2. Types /\ Stacks
  BY DEF VMInv
<1>3. etraps \in Seq(TrapSet) /\ stackbase \in Int /\ suspended \in BOOLEAN /\ suspendedTraps \in Int
  BY <1>2 DEF Types
<1>4. PICK e \in FrameSet : e = ci /\ IsEntry(e)
  BY <1>1, <1>2, OnTop DEF IsEntry
<1>5. PICK a \in CallSet : a = act /\ a.kind = "exec"
  BY <1>1, <1>2, OnTop
<1>6. PICK gs \in Seq(FrameSet), cs \in Seq(CallSet) : gs = Front(callsstack) /\ cs = Front(cstack)
  BY <1>1, <1>2, OnTop
<1>7. PICK sl \in BOOLEAN : sl = suspended
  BY <1>3
<1>8. Fit(Append(gs, e), Acts(sl, suspendedTraps, Append(cs, a)), etraps, stackbase)
  BY <1>1, <1>2, <1>4, <1>5, <1>6, <1>7, OnTop
<1>9. a.kind = "exec" => a.traps = e.etraps
  BY <1>3, <1>4, <1>8, FitEntry
<1> QED
  BY <1>4, <1>5, <1>9
-----------------------------------------------------------------------------
(* The stacks of the VM, its counters and its generators fit at every      *)
(* step: VMInv is an invariant of Spec.                                    *)
THEOREM VMFits == Spec => []VMInv
<1>1. Init => VMInv
  BY InitVM
<1>2. VMInv /\ [Next]_vars => VMInv'
  BY NextVM
<1> QED
  BY <1>1, <1>2, PTL DEF Spec

(* However calls, yields, resumes and throws interleave, every frame owns  *)
(* the run of _etraps that its _etraps counts, and the traps in it restore *)
(* the base of that frame, also after Yield and Resume have moved it.      *)
THEOREM TrapsAreThoseOfFrames == Spec => []TrapsMatchFrames
<1>1. VMInv => TrapsMatchFrames
  BY InvMatch
<1> QED
  BY <1>1, VMFits, PTL

(* The local variable traps of every Execute is the number of traps of the *)
(* frames that it runs, however its frames come and go.                    *)
THEOREM TrapsOfExecute == Spec => []TrapsCounted
<1>1. VMInv => TrapsCounted
  BY InvCounted
<1> QED
  BY <1>1, VMFits, PTL

(* A generator is running exactly while one frame runs it: Return, Yield   *)
(* and exception_trap leave none behind in the state eRunning.             *)
THEOREM RunningOnce == Spec => []GeneratorOwnership
<1>1. VMInv => GeneratorOwnership
  BY InvOwnership
<1> QED
  BY <1>1, VMFits, PTL

(* Root and native frames nest as the activations of Execute and           *)
(* CallNative do, and _nnativecalls and _nmetamethodscall count those.     *)
THEOREM FramesNestAsCalls == Spec => []FramesNest
<1>1. VMInv => FramesNest
  BY InvNest
<1> QED
  BY <1>1, VMFits, PTL

(* When control is back with the host, which is when no Execute runs, no   *)
(* frame or trap is left and the base of the stack is 0, and so is its top *)
(* unless sq_resume has failed.                                            *)
THEOREM HostGetsStackBack == Spec => []StackRestored
<1>1. VMInv => StackRestored
  BY InvRestored
<1> QED
  BY <1>1, VMFits, PTL

(* exception_trap calls the error handler exactly for the errors that no   *)
(* try block of its Execute catches.                                       *)
THEOREM HandlerHears == Spec => []HandlerHearsUncaught
<1>1. VMInv => HandlerHearsUncaught
  BY InvHears
<1> QED
  BY <1>1, VMFits, PTL

(* The assertions traps == 0 of _OP_RETURN and _OP_YIELD hold as long as   *)
(* scripts use resume and do not iterate over generators with foreach.     *)
THEOREM AssertionHolds == Spec => []TrapsZeroAtReturn
<1>1. VMInv => TrapsZeroAtReturn
  BY InvZero
<1> QED
  BY <1>1, VMFits, PTL
=============================================================================

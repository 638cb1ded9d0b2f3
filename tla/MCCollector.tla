---------------------------- MODULE MCCollector ----------------------------
(* Collector with sets of model values.  o1 is a generator, of which f is  *)
(* _closure and h the _closure of its CallInfo; o2 is a closure of which h *)
(* is _base and f _env; o3 is a class.                                     *)
EXTENDS Collector, TLC

CONSTANTS o1, o2, o3, f, h

MCUnmarked == {<<o1, h>>}
MCKept == {<<o1, h>>, <<o2, h>>, <<o2, f>>}
MCLevel == (o1 :> 0) @@ (o2 :> 1) @@ (o3 :> 2)

(* Bound: weak references are made of the class, and there is one reference *)
(* to them, from a root or from the class itself.                           *)
FewWeak ==
  LET held == {s \in Slot : slot[s] \in Weak}
  IN /\ Cardinality(held) <= 1 /\ held \subseteq Root \union {<<o3, f>>}
     /\ \A w \in Weak : target[w] \in {NULL, o3}

Symmetry == Permutations(Root)
=============================================================================

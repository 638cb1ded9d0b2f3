----------------------------- MODULE MCRefTable -----------------------------
(* RefTable with more objects than it has nodes at first, in two buckets.  *)
EXTENDS RefTable, TLC

CONSTANTS o1, o2, o3, o4, o5

(* The objects share two buckets of four and are spread by the first Resize. *)
MCHash == o1 :> 0 @@ o2 :> 4 @@ o3 :> 8 @@ o4 :> 1 @@ o5 :> 5
MCMaxHeld == [o \in Object |-> IF o \in {o1, o2} THEN 2 ELSE 1]
=============================================================================

----------------------------- MODULE MCSQTable -----------------------------
(* SQTable with keys whose hashes collide in the small tables. *)
EXTENDS SQTable, TLC

CONSTANTS k1, k2, k3, k4, v1

(* Modulo 4 three keys share position 3, the node that is free first, and  *)
(* the fourth owns a node they overflow into.                              *)
MCHash == [k \in Key |-> (k1 :> 3 @@ k2 :> 7 @@ k3 :> 11 @@ k4 :> 2)[k]]

(* To keep four keys and both values within reach, at most one key holds   *)
(* the value that is not null at a time.                                   *)
OneValue == Cardinality({n \in DOMAIN val : val[n] # NULL}) <= 1
=============================================================================

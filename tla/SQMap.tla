------------------------------- MODULE SQMap -------------------------------
(***************************************************************************)
(* What a Squirrel table promises the VM (the calls that sqvm.cpp,         *)
(* sqapi.cpp and sqcompiler.cpp make on SQTable): a partial map from keys  *)
(* to values.  A call is answered in one step some time after it was made, *)
(* and only calls change the map.                                          *)
(***************************************************************************)
EXTENDS Naturals

CONSTANTS Key, Value, NULL

VARIABLES
  map,      \* the pairs of the table; DOMAIN map is the set of its keys
  pending,  \* the call that has not been answered, <<>> if there is none
  result    \* the last answer

mapVars == <<map, pending, result>>

Init ==
  /\ map = [k \in {} |-> NULL]
  /\ pending = <<>>
  /\ result = NULL

Invoke ==
  /\ pending = <<>>
  /\ \E o \in {"Get", "Set", "NewSlot", "Remove"},
        k \in Key \cup {NULL}, v \in Value \cup {NULL} : pending' = <<o, k, v>>
  /\ UNCHANGED <<map, result>>

Without(k) == [j \in DOMAIN map \ {k} |-> map[j]]
With(k, v) == [j \in DOMAIN map \cup {k} |-> IF j = k THEN v ELSE map[j]]

AnswerGet(k) ==
  /\ result' = IF k \in DOMAIN map THEN map[k] ELSE FALSE
  /\ UNCHANGED map

(* Set stores only under a key that is present.  What it answers for null, *)
(* which is never a key, is left open.                                     *)
AnswerSet(k, v) ==
  \/ k \in DOMAIN map /\ result' = TRUE /\ map' = With(k, v)
  \/ k \notin DOMAIN map /\ result' = FALSE /\ UNCHANGED map
  \/ k = NULL /\ result' = TRUE /\ UNCHANGED map

(* What NewSlot answers is left open: it is false for a new key too when   *)
(* the table had to be rebuilt for it.                                     *)
AnswerNewSlot(k, v) == result' \in BOOLEAN /\ map' = With(k, v)

AnswerRemove(k) == result' = NULL /\ map' = Without(k)

Answer ==
  /\ pending # <<>>
  /\ pending' = <<>>
  /\ LET k == pending[2]
         v == pending[3]
     IN \/ pending[1] = "Get" /\ AnswerGet(k)
        \/ pending[1] = "Set" /\ AnswerSet(k, v)
        \/ pending[1] = "NewSlot" /\ AnswerNewSlot(k, v)
        \/ pending[1] = "Remove" /\ AnswerRemove(k)

Clear ==
  /\ pending = <<>>
  /\ map' = [k \in {} |-> NULL]
  /\ result' = NULL
  /\ UNCHANGED pending

Next == Invoke \/ Answer \/ Clear

Spec == Init /\ [][Next]_mapVars
=============================================================================

----------------------------- MODULE MCLoadFile -----------------------------
(* LoadFile with texts of operators, of comments, of strings and of numbers. *)
EXTENDS LoadFile

MCTexts ==
  {[chars |-> Starts \union {"z", "{"}, longest |-> 4],
   [chars |-> {"\n", "blank", "#", "/", "*", "{"}, longest |-> 6],
   [chars |-> {"\"", "'", "@", "\\", "\n", "x", "u", "a", "control"}, longest |-> 5],
   [chars |-> Digit \union {"x", "e", ".", "+", "a"}, longest |-> 5]}
=============================================================================

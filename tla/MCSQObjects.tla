----------------------------- MODULE MCSQObjects -----------------------------
(* Worlds of SQObjects for TLC: delegates, metamethods inside metamethods, *)
(* classes that are derived and instantiated, and what they call.          *)
EXTENDS SQObjects

TableWorld == [tables |-> 1, names |-> {"x", "mm"}, userdata |-> FALSE, members |-> {}, classes |-> 0, instances |-> 0, calls |-> 1]
ClassWorld == [TableWorld EXCEPT !.names = {}]

Delegates == [TableWorld EXCEPT !.tables = 3]
Nested == [TableWorld EXCEPT !.userdata = TRUE, !.calls = 2]
Derived == [ClassWorld EXCEPT !.members = {"x", "constructor"}, !.classes = 2, !.instances = 2, !.calls = 0]
Hooks == [ClassWorld EXCEPT !.members = {"mm"}, !.classes = 2]
Instances == [ClassWorld EXCEPT !.members = {"x", "mm", "constructor"}, !.classes = 1, !.instances = 2]

MCWorlds == {Delegates, Nested, Derived, Hooks, Instances}
MCDefault == {"len"}
=============================================================================

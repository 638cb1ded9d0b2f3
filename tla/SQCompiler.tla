------------------------------ MODULE SQCompiler ------------------------------
(***************************************************************************)
(* The compiler of Squirrel (sqcompiler.cpp, sqfuncstate.cpp): a recursive *)
(* descent parser that emits code in one pass.                             *)
(*                                                                         *)
(* todo is what the parser has still to do, its C++ stack: parse functions *)
(* by name, tokens that it will Expect, and operations on the function     *)
(* state.  A step takes the first item; a parse function is replaced by    *)
(* what it does for the current token.  The source text is left open: a    *)
(* token is chosen when the parser first looks at it.  Of the code that is *)
(* emitted the model keeps what it is for: which register holds what, how  *)
(* many exception traps a jump leaves behind and which jumps wait for      *)
(* their target.                                                           *)
(***************************************************************************)
EXTENDS Integers, Sequences, FiniteSets, SequencesExt, TLC

CONSTANT
  Grammars  \* the programs: the tokens they use, with bounds on their size

(* The constructs that an assertion of the compiler fails on:              *)
(*   base  base++, delete base, class base {}                              *)
(*   ++    x++ = y and ++x++                                               *)
(*   =     y + x = z and ++-x, where x is a variable of an enclosing function *)
(*   key   class A { </ a = 1 /> [x] = y }, where x is a local variable    *)
(*   env   local function f[x]() {}                                        *)
OddConstructs == {"base", "++", "=", "key", "env"}
ASSUME OddAssumption == \A g \in Grammars : g.odd \subseteq OddConstructs
ASSUME BoundsAssumption == \A g \in Grammars : {g.depth, g.nest, g.regs, g.jumps} \subseteq Nat

VARIABLES
  program, \* which of Grammars the program is of
  todo,    \* what the parser has still to do
  tok,     \* _token
  es,      \* _es, with the values that were saved below it
  scopes,  \* _scope, with the values that were saved below it
  fs,      \* the function states, each with its parent
  cur,     \* _fs
  phase    \* "parse", "done", "error", or "broken" after a failed assertion

vars == <<program, todo, tok, es, scopes, fs, cur, phase>>

Token == program.tokens
Odd == program.odd           \* the constructs of OddConstructs that it may use
MaxDepth == program.depth  \* bound on the nesting of statements and functions
MaxNest == program.nest    \* bound on the nesting of expressions
MaxRegs == program.regs    \* bound on the registers of a function
MaxJumps == program.jumps  \* bound on the break and continue statements that wait for their target

(* "UNSET": the constructor leaves _es uninitialized. *)
EType == {"EXPR", "OBJECT", "BASE", "LOCAL", "OUTER", "UNSET"}

(* A function state: which registers are named (_vlocals), _targetstack,   *)
(* _traps, _breaktargets, _continuetargets, the unresolved jumps, each     *)
(* with the block that it leaves, and the open loops and switches, with    *)
(* how many jumps were unresolved when they began.                         *)
NewState(parent, params) ==
  [parent |-> parent, named |-> [i \in 1 .. params |-> TRUE], targets |-> <<>>, traps |-> 0,
   breaks |-> <<>>, continues |-> <<>>, ubreaks |-> <<>>, ucontinues |-> <<>>, blocks |-> <<>>]

Init ==
  /\ program \in Grammars
  /\ todo = <<"Program">>
  /\ tok = "unread"
  /\ es = <<[etype |-> "UNSET", donot_get |-> FALSE]>>
  /\ scopes = <<[size |-> 0, of |-> 1]>>
  /\ fs = <<NewState(0, 2)>>
  /\ cur = 1
  /\ phase = "parse"
-----------------------------------------------------------------------------
(* The grammar: what each parse function does, in terms of the operations  *)
(* and tokens.  A token stands for Expect of that token.                   *)

PrefixedExpr == <<"Factor", "Postfix">>
BinExp == PrefixedExpr \o <<"BinMore">>
LogicalAndExp == BinExp \o <<"AndMore">>
LogicalOrExp == LogicalAndExp \o <<"OrMore">>
Expression == <<"Save">> \o LogicalOrExp \o <<"Assign", "Restore">>
CommaExpr == Expression \o <<"CommaMore">>

Block == <<"BeginScope", "Lex", "Statements", "}", "EndScope">>
CreateFunction(pops) ==
  <<"NewChild", "Params">> \o pops \o <<"EnterFunction", "Statement", "LeaveFunction">>

WhileStatement ==
  <<"Lex", "(">> \o CommaExpr \o <<")", "BeginLoop", "PopTarget", "BeginScope", "Statement", "EndScope", "EndLoop">>
DoWhileStatement ==
  <<"Lex", "BeginLoop", "BeginScope", "Statement", "EndScope", "DoCondition", "EndLoop">>
ForStatement ==
  <<"Lex", "BeginScope", "(", "ForInit", ";", "ForCondition", ";", "ForStep", ")",
    "BeginLoop", "Statement", "EndLoop", "EndScope">>
ForEachStatement ==
  <<"Lex", "(", "id", "ForEachIndex", "in", "BeginScope">> \o Expression
  \o <<")", "PushLocal", "PushLocal", "PushLocal", "BeginLoop", "Statement", "EndLoop", "EndForEach">>
(* Mutant: the target of the value that is compared is never popped. *)
MutSwitchStatement ==
  <<"Lex", "(">> \o CommaExpr \o <<")", "{", "BeginSwitch", "Cases", "Default", "}", "EndSwitch">>
SwitchStatement ==
  <<"Lex", "(">> \o CommaExpr \o <<")", "{", "BeginSwitch", "Cases", "Default", "}", "PopTarget", "EndSwitch">>
TryCatchStatement ==
  <<"Lex", "BeginTry", "BeginScope", "Statement", "EndScope", "EndTry", "catch", "(", "id", ")",
    "BeginScope", "PushLocal", "Statement", "EndScope">>
FunctionStatement ==
  <<"Lex", "id", "PushThis", "PushTarget", "FunctionName", "Function", "PushTarget", "EmitDerefOp", "PopTarget">>
ClassStatement ==
  <<"Lex", "SaveNoGet">> \o PrefixedExpr \o <<"ClassPlace", "ClassExp", "EmitDerefOp", "PopTarget", "Restore">>

StatementRule ==
  (";" :> <<"Lex">>) @@ ("{" :> Block)
  @@ ("if" :> <<"Lex", "(">> \o CommaExpr \o <<")", "PopTarget", "IfBlock", "Else">>)
  @@ ("while" :> WhileStatement) @@ ("do" :> DoWhileStatement) @@ ("for" :> ForStatement)
  @@ ("foreach" :> ForEachStatement) @@ ("switch" :> SwitchStatement)
  @@ ("local" :> <<"Lex", "LocalDecl">>) @@ ("return" :> <<"Lex", "ReturnValue">>)
  @@ ("break" :> <<"Break", "Lex">>) @@ ("continue" :> <<"Continue", "Lex">>)
  @@ ("function" :> FunctionStatement) @@ ("class" :> ClassStatement)
  @@ ("try" :> TryCatchStatement) @@ ("throw" :> <<"Lex">> \o CommaExpr \o <<"PopTarget">>)
  @@ ("const" :> <<"Lex", "id", "=", "literal">>) @@ ("enum" :> <<"Lex", "id", "{", "EnumItems">>)

CallArgs == <<"Args", "Emit2ArgsOP", "CallSlots">>
PrefixIncDec == <<"Lex", "SaveNoGet">> \o PrefixedExpr \o <<"IncDec", "Restore", "IsExpr">>
FactorRule ==
  ("literal" :> <<"PushTarget", "Lex", "IsExpr">>)
  @@ ("base" :> <<"Lex", "PushTarget", "IsBase">>) @@ ("id" :> <<"Lex", "Identifier">>)
  @@ ("::" :> <<"PushTarget", "RootTable">>)
  @@ ("[" :> <<"PushTarget", "Lex", "ArrayItems", "IsExpr">>)
  @@ ("{" :> <<"PushTarget", "Lex", "TableSlots", "IsExpr">>)
  @@ ("function" :> <<"Lex", "Function", "PushTarget", "IsExpr">>)
  @@ ("class" :> <<"Lex", "ClassExp", "IsExpr">>)
  @@ ("unary" :> <<"Lex">> \o PrefixedExpr \o <<"Move", "IsExpr">>)
  @@ ("rawcall" :> <<"Lex", "(", "RawArg", "RawArg">> \o CallArgs \o <<"IsExpr">>)
  @@ ("++" :> PrefixIncDec) @@ ("newline ++" :> PrefixIncDec)
  @@ ("delete" :> <<"Lex", "SaveNoGet">> \o PrefixedExpr \o <<"Delete", "Restore", "IsExpr">>)
  @@ ("(" :> <<"Lex">> \o CommaExpr \o <<")", "IsExpr">>)

LocalVar == <<"id", "LocalValue", "PopTarget", "PushLocal", "LocalMore">>
ClassBody == <<"PushTarget", "ClassSlots">>

(* <<tokens, what is done for these, what is done for the others>>. *)
If(tokens, then, else) == <<tokens, then, else>>

StatementChoice ==
  ("Program" :> If({"eof"}, <<>>, <<"Statement", "Semicolon", "Program">>))
  @@ ("Statements" :> If({"}", "default", "case"}, <<>>, <<"Statement", "Semicolon", "Statements">>))
  @@ ("IfBlock" :> If({"{"}, Block, <<"Statement", "Semicolon">>))
  @@ ("Else" :> If({"else"}, <<"Lex", "IfBlock">>, <<>>))
  @@ ("DoCondition" :> If({"while"}, <<"Lex", "(">> \o CommaExpr \o <<")", "PopTarget">>, <<>>))
  @@ ("ForInit" :> If({"local"}, <<"Lex", "LocalDecl">>, <<"ForCondition">>))
  @@ ("ForCondition" :> If({";"}, <<>>, CommaExpr \o <<"PopTarget">>))
  @@ ("ForStep" :> If({")"}, <<>>, CommaExpr \o <<"PopTarget">>))
  @@ ("ForEachIndex" :> If({","}, <<"Lex", "id">>, <<>>))
  @@ ("Cases" :> If({"case"},
                    <<"Lex">> \o Expression \o <<":", "PopTarget", "BeginScope", "Statements", "EndScope", "Cases">>, <<>>))
  @@ ("EnumItems" :> If({"}"}, <<"Lex">>, <<"id", "EnumValue", "Separator", "EnumItems">>))
  @@ ("EnumValue" :> If({"="}, <<"Lex", "literal">>, <<>>))
  @@ ("Default" :> If({"default"}, <<"Lex", ":", "BeginScope", "Statements", "EndScope">>, <<>>))

FunctionChoice ==
  ("LocalDecl" :> If({"function"}, <<"Lex", "id", "LocalFunction", "PushTarget", "PopTarget", "PushLocal">>,
                                   LocalVar))
  @@ ("LocalValue" :> If({"="}, <<"Lex">> \o Expression \o <<"Move">>, <<"PushTarget">>))
  @@ ("LocalMore" :> If({","}, <<"Lex">> \o LocalVar, <<>>))
  @@ ("FunctionName" :> If({"::"}, <<"Emit2ArgsOP", "Lex", "id", "PushTarget", "FunctionName">>, <<>>))
  @@ ("Function" :> If({"["}, <<"Lex">> \o Expression \o <<"]", "(">> \o CreateFunction(<<"PopTarget">>),
                              <<"(">> \o CreateFunction(<<>>)))
  @@ ("Params" :> If({")"}, <<"Lex">>, <<"Param">>))
  @@ ("Param" :> If({"..."}, <<"AddParameter", "Lex", ")">>, <<"id", "AddParameter", "ParamDefault">>))
  @@ ("ParamDefault" :> If({"="}, <<"Lex">> \o Expression \o <<"DefaultSep", "PopTarget">>, <<"ParamSep">>))
  @@ ("ParamSep" :> If({","}, <<"Lex", "Params">>, <<")">>))
  @@ ("DefaultSep" :> If({","}, <<"Lex", "DefaultParams">>, <<")">>))
  @@ ("DefaultParams" :> If({")"}, <<"Lex">>,
                            <<"id", "AddParameter", "=">> \o Expression \o <<"DefaultSep", "PopTarget">>))

ExpressionChoice ==
  ("CommaMore" :> If({","}, <<"PopTarget", "Lex">> \o CommaExpr, <<>>))
  @@ ("OrMore" :> If({"||"},
                     <<"Move", "Lex", "Save">> \o LogicalOrExp \o <<"Restore", "PopTarget", "IsExpr">>, <<>>))
  @@ ("AndMore" :> If({"&&"},
                      <<"Move", "Lex", "Save">> \o LogicalAndExp \o <<"Restore", "PopTarget", "IsExpr", "AndMore">>, <<>>))
  @@ ("BinMore" :> If({"binary"},
                      <<"Lex", "Save">> \o BinExp \o <<"Restore", "Emit2ArgsOP", "IsExpr", "BinMore">>, <<>>))
  @@ ("Args" :> If({")"}, <<"Lex">>, Expression \o <<"MoveIfLocal", "ArgSep", "Args", "PopTarget">>))
  @@ ("ArgSep" :> If({","}, <<"Lex", "ArgFollows">>, <<>>))
  @@ ("CallSlots" :> If({"{"}, <<"Lex", "SetSlots">>, <<>>))
  @@ ("SetSlots" :> If({"}"}, <<"Lex">>, <<"SlotKey", "Separator", "PopTarget", "PopTarget", "SetSlots">>))
  @@ ("Separator" :> If({","}, <<"Lex">>, <<>>))
  @@ ("ArrayItems" :> If({"]"}, <<"Lex">>, Expression \o <<"Separator", "PopTarget", "ArrayItems">>))
  @@ ("TableSlots" :> If({"}"}, <<"Lex">>, <<"TableSlot", "Separator", "PopTarget", "PopTarget", "TableSlots">>))
  @@ ("AttrSlots" :> If({"/>"}, <<"Lex">>, <<"TableSlot", "Separator", "PopTarget", "PopTarget", "AttrSlots">>))
  @@ ("TableSlot" :> If({"literal"}, <<"Lex", "PushTarget", ":">> \o Expression, <<"MethodOrSlot">>))
  @@ ("MethodOrSlot" :> If({"function"}, <<"Lex", "id", "PushTarget", "Function", "PushTarget">>, <<"SlotKey">>))
  @@ ("SlotKey" :> If({"["}, <<"Lex">> \o CommaExpr \o <<"]", "=">> \o Expression,
                      <<"id", "PushTarget", "=">> \o Expression))
  @@ ("ClassSlots" :> If({"}"}, <<"Lex">>, <<"ClassSlot", "ClassSlots">>))
  @@ ("ClassSlot" :> If({"</"}, <<"PushTarget", "Lex", "AttrSlots", "Static", "MethodOrSlot", "ClassSeparator",
                                  "PopTarget", "AttrsBelowKey", "PopTarget", "PopTarget">>,
                                <<"Static", "MethodOrSlot", "ClassSeparator", "PopTarget", "PopTarget">>))
  @@ ("Static" :> If({"static"}, <<"Lex">>, <<>>))
  @@ ("ClassSeparator" :> If({";"}, <<"Lex">>, <<>>))
  @@ ("ClassExp" :> If({"extends"}, <<"Lex">> \o Expression \o <<"ClassAttrs", "PopTarget">> \o ClassBody,
                                    <<"ClassAttrs">> \o ClassBody))
  @@ ("ClassAttrs" :> If({"</"}, <<"Lex", "PushTarget", "AttrSlots", "{", "PopTarget">>, <<"{">>))

Choice == StatementChoice @@ FunctionChoice @@ ExpressionChoice
-----------------------------------------------------------------------------
(* The tokens, several of a kind as one; "error" is one that no rule takes. *)
AllTokens ==
  DOMAIN StatementRule \union DOMAIN FactorRule
  \union UNION {Choice[item][1] : item \in DOMAIN Choice}
  \union {".", "=", "<-", "+=", "?", ":", "in", "catch", "error"}
ASSUME TokenAssumption == \A g \in Grammars : g.tokens \subseteq AllTokens

(* What does not look at the token. *)
Blind ==
  {"Lex", "PushTarget", "PopTarget", "Move", "Emit2ArgsOP", "EmitDerefOp", "PushThis", "PushLocal",
   "MoveIfLocal", "BeginScope", "EndScope", "EndForEach", "BeginLoop", "EndLoop",
   "BeginSwitch", "EndSwitch", "BeginTry", "EndTry", "Break", "Continue", "NewChild",
   "AddParameter", "EnterFunction", "LeaveFunction", "Save", "SaveNoGet", "Restore", "IsExpr", "IsBase",
   "IncDec", "Delete", "ClassPlace", "AttrsBelowKey"}

(* What may follow in the grammar but need not, and the tokens that it     *)
(* begins with.                                                            *)
AssignTokens == {"=", "<-", "+="}
Optional == {item \in DOMAIN Choice : Choice[item][3] = <<>>} \union {"Postfix", "Assign"}
Places == {"Identifier", "Deref", "PostIncDec"}
Looks(item) ==
  CASE item \in DOMAIN Choice -> Choice[item][1]
    [] item = "Postfix" -> {".", "[", "(", "++"}
    [] item = "Assign" -> AssignTokens \union {"?"}
    [] item \in Places -> AssignTokens \union {".", "[", "(", "++"}
    [] OTHER -> {}

(* What may be at the head of todo. *)
Items ==
  AllTokens \union Blind \union DOMAIN Choice \union Places
  \union {"Statement", "Semicolon", "ReturnValue", "Factor", "LocalFunction", "RootTable", "ArgFollows", "RawArg"}

(* The next token: one that what comes next in the grammar, up to the first *)
(* part that is not optional, looks at.  All others are the same error.    *)
Wanted[item \in Items] ==
  CASE item \in AllTokens -> {item}
    [] item \in {"Save", "Factor"} -> Token \intersect DOMAIN FactorRule
    [] item \in DOMAIN Choice \ Optional -> (Token \intersect Looks(item)) \union Wanted[Head(Choice[item][3])]
    [] OTHER -> Token

MayPrecede == (Optional \union Blind \union Places) \ {"Lex"}

NextTokens ==
  LET n == SelectInSeq(todo, LAMBDA item : item \notin MayPrecede)
  IN IF n = 0 THEN Token
     ELSE {"error"} \union Wanted[todo[n]] \union (Token \intersect UNION {Looks(todo[i]) : i \in 1 .. n - 1})

(* What may follow does not when the token is another one, nor, before the *)
(* token has been chosen, when it cannot be any of those.                  *)
Idle(item) ==
  item \in Optional /\ IF tok = "unread" THEN Looks(item) \intersect NextTokens = {} ELSE tok \notin Looks(item)

(* Whatever looks at the token waits for Read to choose it. *)
Ready == phase = "parse" /\ todo # <<>> /\ (tok # "unread" \/ Head(todo) \in Blind \/ Idle(Head(todo)))
FS == fs[cur]
NF == Len(fs)
ES == Last(es)
Is(item) == todo # <<>> /\ Head(todo) = item /\ Ready
Rewrite(s) == todo' = s \o Tail(todo)
Stop(p) ==
  /\ phase' = p /\ todo' = <<>> /\ tok' = "eof" /\ es' = <<>> /\ scopes' = <<>> /\ fs' = <<>> /\ cur' = 0
  /\ UNCHANGED program

(* Error: longjmp out of the parser. *)
Error == Stop("error")

CountIn(s, S) == Cardinality({i \in DOMAIN s : s[i] \in S})
Depth(s) == CountIn(s, {"EndScope", "EndForEach", "Else", "LeaveFunction"}) - CountIn(s, {"EndTry"})

(* Bound: a program that is nested too deeply is given up like a wrong one. *)
TooDeep(s) ==
  \/ Depth(s) > MaxDepth
  \/ CountIn(s, {"Semicolon"}) > MaxDepth + 1
  \/ CountIn(s, {"Postfix"}) > MaxNest + 1

Become(s) ==
  IF TooDeep(s \o Tail(todo)) THEN Error ELSE Rewrite(s) /\ UNCHANGED <<tok, es, scopes, fs, cur, phase, program>>

(* All that may follow and does not. *)
Pass ==
  /\ todo # <<>> /\ Head(todo) \in Optional /\ Ready /\ Idle(Head(todo))
  /\ LET n == SelectInSeq(todo, LAMBDA item : ~Idle(item)) IN
     todo' = IF n = 0 THEN <<>> ELSE SubSeq(todo, n, Len(todo))
  /\ UNCHANGED <<tok, es, scopes, fs, cur, phase, program>>

ExpandChoice ==
  /\ todo # <<>> /\ Head(todo) \in DOMAIN Choice /\ Ready /\ ~Idle(Head(todo))
  /\ LET c == Choice[Head(todo)] IN Become(IF tok \in c[1] THEN c[2] ELSE c[3])

Statement ==
  /\ Is("Statement")
  /\ Become(IF tok \in DOMAIN StatementRule THEN StatementRule[tok] ELSE CommaExpr \o <<"PopTarget">>)

Factor == Is("Factor") /\ IF tok \in DOMAIN FactorRule THEN Become(FactorRule[tok]) ELSE Error

Read ==
  /\ phase = "parse" /\ todo # <<>> /\ ~Ready
  /\ tok' \in NextTokens
  /\ UNCHANGED <<todo, es, scopes, fs, cur, phase, program>>

Advance == Rewrite(<<>>) /\ tok' = "unread" /\ UNCHANGED <<es, scopes, fs, cur, phase, program>>

Lex == Is("Lex") /\ Advance
Expect == todo # <<>> /\ Head(todo) \in AllTokens /\ Ready /\ IF tok = Head(todo) THEN Advance ELSE Error

(* OptionalSemicolon is not called after a statement that ends in one. *)
Semicolon == Is("Semicolon") /\ (Become(<<>>) \/ (tok = ";" /\ Become(<<"Lex">>)))

(* IsEndOfStatement, which a new line may be too. *)
ReturnValue ==
  /\ Is("ReturnValue")
  /\ Become(<<>>) \/ (tok \notin {"eof", "}", ";"} /\ Become(CommaExpr \o <<"PopTarget">>))

(* A binary operator of lower precedence ends the expression. *)
BinEnd == Is("BinMore") /\ tok = "binary" /\ Become(<<>>)
-----------------------------------------------------------------------------
(* The operations of SQFuncState. *)
Update(f) ==
  IF Len(f.named) > MaxRegs THEN Error
  ELSE Rewrite(<<>>) /\ fs' = [fs EXCEPT ![cur] = f] /\ UNCHANGED <<tok, es, scopes, cur, phase, program>>

IsLocal(f, reg) == reg < Len(f.named) /\ f.named[reg + 1]

WithTarget(f) == [f EXCEPT !.named = Append(@, FALSE), !.targets = Append(@, Len(f.named))]
WithRegister(f, reg) == [f EXCEPT !.targets = Append(@, reg)]
WithLocal(f) == [f EXCEPT !.named = Append(@, TRUE)]

(* What pops targets, and how many of them. *)
Pops == ("PopTarget" :> 1) @@ ("Move" :> 1) @@ ("Emit2ArgsOP" :> 2) @@ ("EmitDerefOp" :> 3)

Top(f, k) == f.targets[Len(f.targets) - k]
Unnamed(f, n) == Cardinality({k \in 0 .. n - 1 : ~IsLocal(f, Top(f, k))})

(* The assertion of PopTarget, each of n times.  Of an empty stack of      *)
(* targets the last is read too.                                           *)
CanPop(f, n) == n <= Len(f.targets) /\ \A k \in 0 .. n - 1 : Top(f, k) < Len(f.named) - Unnamed(f, k)

(* Mutant: the register is given up even if it is a variable. *)
MutWithoutTargets(f, n) ==
  [f EXCEPT !.targets = SubSeq(@, 1, Len(@) - n), !.named = SubSeq(@, 1, Len(@) - n)]
WithoutTargets(f, n) ==
  [f EXCEPT !.targets = SubSeq(@, 1, Len(@) - n), !.named = SubSeq(@, 1, Len(@) - Unnamed(f, n))]

PushTarget == Is("PushTarget") /\ Update(WithTarget(FS))
PushThis == Is("PushThis") /\ Update(WithRegister(FS, 0))
PushLocal == Is("PushLocal") /\ Update(WithLocal(FS))

PopTarget ==
  /\ todo # <<>> /\ Head(todo) \in DOMAIN Pops /\ Ready
  /\ LET f == WithoutTargets(FS, Pops[Head(todo)]) IN
     IF ~CanPop(FS, Pops[Head(todo)]) THEN Stop("broken")
     ELSE Update(IF Is("PopTarget") THEN f ELSE WithTarget(f))

(* MoveIfCurrentTargetIsLocal: an argument of a call must be in a register  *)
(* of its own.                                                             *)
MoveIfLocal ==
  Is("MoveIfLocal") /\ Become(IF IsLocal(FS, Last(FS.targets)) THEN <<"Move">> ELSE <<>>)

(* Mutant: one register too many. *)
MutSetStackSize(f, n) == [f EXCEPT !.named = SubSeq(@, 1, IF n <= Len(@) THEN n - 1 ELSE Len(@))]
SetStackSize(f, n) == [f EXCEPT !.named = SubSeq(@, 1, IF n < Len(@) THEN n ELSE Len(@))]

BeginScope ==
  /\ Is("BeginScope")
  /\ Rewrite(<<>>)
  /\ scopes' = Append(scopes, [size |-> Len(FS.named), of |-> cur])
  /\ UNCHANGED <<tok, es, fs, cur, phase, program>>

CloseScope(f) ==
  /\ Rewrite(<<>>)
  /\ fs' = [fs EXCEPT ![cur] = SetStackSize(f, Last(scopes).size)]
  /\ scopes' = Front(scopes)
  /\ UNCHANGED <<tok, es, cur, phase, program>>

EndScope == Is("EndScope") /\ CloseScope(FS)

(* The end of foreach: the container's target is popped, which takes away  *)
(* the topmost register, and its scope is left.                            *)
EndForEach == Is("EndForEach") /\ IF CanPop(FS, 1) THEN CloseScope(WithoutTargets(FS, 1)) ELSE Stop("broken")
-----------------------------------------------------------------------------
(* Jumps and exception traps. *)
(* Mutant: all unresolved jumps of the function are taken for this block's. *)
MutOpened(f, switch) ==
  [f EXCEPT !.blocks = Append(@, [switch |-> switch, nbreaks |-> 0, ncontinues |-> 0]),
            !.breaks = Append(@, 0), !.continues = IF switch THEN @ ELSE Append(@, 0)]
Opened(f, switch) ==
  [f EXCEPT !.blocks = Append(@, [switch |-> switch, nbreaks |-> Len(f.ubreaks), ncontinues |-> Len(f.ucontinues)]),
            !.breaks = Append(@, 0), !.continues = IF switch THEN @ ELSE Append(@, 0)]

BeginLoop == Is("BeginLoop") /\ Update(Opened(FS, FALSE))
BeginSwitch == Is("BeginSwitch") /\ Update(Opened(FS, TRUE))

(* ResolveBreaks and ResolveContinues take the jumps since the block began. *)
Closed(f, switch) ==
  LET b == Last(f.blocks) IN
  [f EXCEPT !.blocks = Front(@), !.breaks = Front(@), !.ubreaks = SubSeq(@, 1, b.nbreaks),
            !.continues = IF switch THEN @ ELSE Front(@),
            !.ucontinues = IF switch THEN @ ELSE SubSeq(@, 1, b.ncontinues)]

EndLoop == Is("EndLoop") /\ Update(Closed(FS, FALSE))
EndSwitch == Is("EndSwitch") /\ Update(Closed(FS, TRUE))

Add(s, n) == IF s = <<>> THEN s ELSE Append(Front(s), Last(s) + n)

(* Mutant: the trap is not counted for continue. *)
MutTrapped(f, n) == [f EXCEPT !.traps = @ + n, !.breaks = Add(@, n)]

Trapped(f, n) ==
  [f EXCEPT !.traps = @ + n, !.breaks = Add(@, n), !.continues = Add(@, n)]

BeginTry == Is("BeginTry") /\ Update(Trapped(FS, 1))
EndTry == Is("EndTry") /\ Update(Trapped(FS, -1))

Innermost(f, S) == CHOOSE k \in S : \A j \in S : j <= k
Loops(f) == {k \in DOMAIN f.blocks : ~f.blocks[k].switch}

(* break leaves the innermost loop or switch, continue goes on with the    *)
(* innermost loop.                                                         *)
Break ==
  /\ Is("Break")
  /\ IF FS.breaks = <<>> \/ Len(FS.ubreaks) = MaxJumps THEN Error
     ELSE Update([FS EXCEPT !.ubreaks = Append(@, Len(FS.blocks))])

Continue ==
  /\ Is("Continue")
  /\ IF FS.continues = <<>> \/ Len(FS.ucontinues) = MaxJumps THEN Error
     ELSE Update([FS EXCEPT !.ucontinues = Append(@, Innermost(FS, Loops(FS)))])
-----------------------------------------------------------------------------
(* Functions: the parameters are parsed while _fs is still the enclosing   *)
(* function, in whose registers the default values are.                    *)
NewChild ==
  /\ Is("NewChild")
  /\ Rewrite(<<>>)
  /\ fs' = Append(fs, NewState(cur, 1))
  /\ UNCHANGED <<tok, es, scopes, cur, phase, program>>

AddParameter ==
  /\ Is("AddParameter")
  /\ IF Len(fs[NF].named) = MaxRegs THEN Error
     ELSE /\ Rewrite(<<>>)
          /\ fs' = [fs EXCEPT ![NF] = WithLocal(@)]
          /\ UNCHANGED <<tok, es, scopes, cur, phase, program>>

EnterFunction ==
  /\ Is("EnterFunction")
  /\ Rewrite(<<>>)
  /\ cur' = NF
  /\ UNCHANGED <<tok, es, scopes, fs, phase, program>>

LeaveFunction ==
  /\ Is("LeaveFunction")
  /\ Rewrite(<<>>)
  /\ cur' = FS.parent
  /\ fs' = Front(fs)
  /\ UNCHANGED <<tok, es, scopes, phase, program>>

(* local function f[env]() ...: the target of env is never popped. *)
LocalFunction ==
  /\ Is("LocalFunction")
  /\ IF tok # "[" THEN Become(<<"(">> \o CreateFunction(<<>>))
     ELSE IF "env" \notin Odd THEN Error
     ELSE Become(<<"Lex">> \o Expression \o <<"]", "(">> \o CreateFunction(<<>>))
-----------------------------------------------------------------------------
(* Expressions: _es says what the last one was, so that its place can be   *)
(* assigned to.                                                            *)
SetES(s) == Rewrite(<<>>) /\ es' = s /\ UNCHANGED <<tok, scopes, fs, cur, phase, program>>
WithType(e) == Append(Front(es), [ES EXCEPT !.etype = e])

SaveES(e) == IF Len(es) > MaxNest THEN Error ELSE SetES(Append(es, e))

Save == Is("Save") /\ SaveES([etype |-> "EXPR", donot_get |-> FALSE])
SaveNoGet == Is("SaveNoGet") /\ SaveES([ES EXCEPT !.donot_get = TRUE])
Restore == Is("Restore") /\ SetES(Front(es))
IsExpr == Is("IsExpr") /\ SetES(WithType("EXPR"))
IsBase == Is("IsBase") /\ SetES(WithType("BASE"))

(* ::x is parsed as .x of the root table. *)
RootTable ==
  /\ Is("RootTable")
  /\ Rewrite(<<>>)
  /\ tok' = "." /\ es' = WithType("OBJECT")
  /\ UNCHANGED <<scopes, fs, cur, phase, program>>

NeedGet ==
  /\ tok \notin AssignTokens \union {"(", "++"}
  /\ ES.donot_get => tok \in {".", "["}

(* An operation on the place of an expression continues with s. *)
Go(s, e) == Rewrite(s) /\ es' = WithType(e) /\ UNCHANGED <<tok, scopes, fs, cur, phase, program>>

(* A name is a local variable, one of an enclosing function, a constant,   *)
(* that of an enumeration or a field of this.  Of the local variables the  *)
(* last stands for all: it is the first to go out of scope.                *)
Misplaced ==
  LET n == SelectInSeq(Tail(todo), LAMBDA item : ~Idle(item))
  IN "=" \notin Odd /\ todo[n + 1] \notin {"Assign", "Postfix", "IncDec", "Delete", "ClassPlace"}
LastLocal(f) == SelectLastInSeq(f.named, LAMBDA named : named) - 1

Identifier ==
  /\ Is("Identifier")
  /\ \/ /\ Rewrite(<<>>) /\ es' = WithType("LOCAL")
        /\ fs' = [fs EXCEPT ![cur] = WithRegister(FS, LastLocal(FS))]
        /\ UNCHANGED <<tok, scopes, cur, phase, program>>
     \/ FS.parent # 0 /\ NeedGet /\ Go(<<"PushTarget">>, ES.etype)
     \/ FS.parent # 0 /\ ~NeedGet /\ IF Misplaced THEN Error ELSE Go(<<>>, "OUTER")
     \/ Go(<<"PushTarget">>, "EXPR")
     \/ Go(<<".", "id", "PushTarget">>, "EXPR")
     \/ Go(<<"PushThis", "PushTarget">> \o (IF NeedGet THEN <<"Emit2ArgsOP">> ELSE <<>>), "OBJECT")

(* x.y and x[y]; the value is got unless it is about to be changed. *)
Deref ==
  /\ Is("Deref")
  /\ \/ ES.etype \in {"BASE", "UNSET"} /\ Go(<<"Emit2ArgsOP">>, "EXPR")
     \/ ES.etype # "BASE" /\ Go(IF NeedGet THEN <<"Emit2ArgsOP">> ELSE <<>>, "OBJECT")

(* What of a call is on the target stack before the arguments: the closure *)
(* and this.                                                               *)
PrepareCall ==
  CASE ES.etype = "OBJECT" -> <<"Emit2ArgsOP", "PushTarget">>
    [] ES.etype = "OUTER" -> <<"PushTarget", "PushTarget">>
    [] OTHER -> <<"PushTarget">>

(* On a new line "[" is refused, for a comma is missing before it. *)
Postfix ==
  /\ Is("Postfix") /\ ~Idle("Postfix")
  /\ CASE tok = "." -> Become(<<"Lex", "id", "PushTarget", "Deref", "Postfix">>)
       [] tok = "[" -> Error \/ Become(<<"Lex">> \o Expression \o <<"]", "Deref", "Postfix">>)
       [] tok = "++" -> Become(<<"Lex", "PostIncDec">>)
       [] tok = "(" -> Go(PrepareCall \o <<"Lex">> \o CallArgs \o <<"Postfix">>, "EXPR")

(* x++ leaves _es as it is, so that it can be taken for a place again. *)
PostIncDec ==
  /\ Is("PostIncDec")
  /\ IF \/ ES.etype = "EXPR"
        \/ ES.etype \in {"OBJECT", "BASE"} /\ ES.donot_get
        \/ ES.etype = "BASE" /\ "base" \notin Odd
        \/ (tok \in AssignTokens \/ ES.donot_get) /\ "++" \notin Odd
     THEN Error
     ELSE Become(CASE ES.etype = "LOCAL" -> <<"Move">>
                   [] ES.etype = "OUTER" -> <<"PushTarget", "PushTarget", "PopTarget">>
                   [] OTHER -> <<"Emit2ArgsOP">>)

NotAPlace == ES.etype = "EXPR" \/ (ES.etype = "BASE" /\ "base" \notin Odd)

IncDec ==
  /\ Is("IncDec")
  /\ IF NotAPlace THEN Error
     ELSE Become(CASE ES.etype = "LOCAL" -> <<>>
                   [] ES.etype = "OUTER" -> <<"PushTarget">>
                   [] OTHER -> <<"Emit2ArgsOP">>)

Delete == Is("Delete") /\ IF NotAPlace \/ ES.etype \in {"LOCAL", "OUTER"} THEN Error ELSE Become(<<"Emit2ArgsOP">>)
ClassPlace == Is("ClassPlace") /\ IF NotAPlace \/ ES.etype \in {"LOCAL", "OUTER"} THEN Error ELSE Become(<<>>)

AssignRule ==
  CASE tok = "=" /\ ES.etype = "LOCAL" -> <<"PopTarget">>
    [] tok = "=" /\ ES.etype = "OUTER" -> <<"Move">>
    [] tok = "+=" /\ ES.etype = "LOCAL" -> <<"PopTarget">>
    [] tok = "+=" /\ ES.etype = "OUTER" -> <<"PushTarget", "Emit2ArgsOP">>
    [] OTHER -> <<"EmitDerefOp">>

Ternary == <<"Lex", "Move">> \o Expression \o <<"PopTarget", ":">> \o Expression \o <<"PopTarget">>

Assign ==
  /\ Is("Assign") /\ ~Idle("Assign")
  /\ IF tok = "?" THEN Become(Ternary)
     ELSE IF ES.etype \in {"EXPR", "BASE"} \/ (tok = "<-" /\ ES.etype # "OBJECT") THEN Error
     ELSE Become(<<"Lex">> \o Expression \o AssignRule)

(* f(a, ) is an error, and rawcall has two arguments at least. *)
ArgFollows == Is("ArgFollows") /\ IF tok = ")" THEN Error ELSE Become(<<>>)
RawArg ==
  Is("RawArg") /\ IF tok = ")" THEN Error ELSE Become(Expression \o <<"MoveIfLocal", "ArgSep">>)

(* The assertion of ParseTableOrClass that the attributes are in the       *)
(* register before the key, where _OP_NEWSLOTA looks for them.             *)
AttrsBelowKey ==
  /\ Is("AttrsBelowKey")
  /\ LET n == Len(FS.targets) IN
     IF n > 1 /\ FS.targets[n - 1] = FS.targets[n] - 1 THEN Become(<<>>)
     ELSE IF "key" \in Odd THEN Stop("broken") ELSE Error
-----------------------------------------------------------------------------
Finish == phase = "parse" /\ todo = <<>> /\ Stop("done")
Finished == phase # "parse" /\ UNCHANGED vars

Parse == Read \/ Pass \/ ExpandChoice \/ Statement \/ Factor \/ Lex \/ Expect \/ Semicolon \/ ReturnValue \/ BinEnd
Emit ==
  \/ PushTarget \/ PushThis \/ PushLocal \/ PopTarget \/ MoveIfLocal \/ BeginScope \/ EndScope \/ EndForEach
  \/ BeginLoop \/ EndLoop \/ BeginSwitch \/ EndSwitch \/ BeginTry \/ EndTry \/ Break \/ Continue
  \/ NewChild \/ AddParameter \/ EnterFunction \/ LeaveFunction \/ LocalFunction
Express ==
  \/ Save \/ SaveNoGet \/ Restore \/ IsExpr \/ IsBase \/ RootTable \/ Identifier \/ Deref \/ Postfix
  \/ PostIncDec \/ IncDec \/ Delete \/ ClassPlace \/ Assign \/ ArgFollows \/ RawArg \/ AttrsBelowKey

Next == Parse \/ Emit \/ Express \/ Finish \/ Finished

Spec == Init /\ [][Next]_vars
-----------------------------------------------------------------------------
(* What the parser has still to do in the current function: up to the end  *)
(* of it, past those of the functions whose parameters are being parsed.   *)
Mine ==
  LET leaves == {i \in DOMAIN todo : todo[i] = "LeaveFunction"}
      ends == {i \in leaves : Cardinality({j \in leaves : j <= i}) = NF - cur + 1}
  IN SubSeq(todo, 1, IF ends = {} THEN Len(todo) ELSE CHOOSE i \in ends : TRUE)

Before(s, S) == SelectInSeq(s, LAMBDA item : item \in S)
Inside(S) == LET n == Before(Mine, S) IN SubSeq(Mine, 1, IF n = 0 THEN Len(Mine) ELSE n)

(* The assertion of PopTarget, and that of ParseTableOrClass: code is never *)
(* emitted for a target that is not there.                                 *)
AssertsHold == phase # "broken"

(* Between statements the stack of targets holds what the statements       *)
(* around need and nothing else: every expression has left one target and  *)
(* each has been popped, whatever was a place, a value or a call.          *)
StatementsBalanced ==
  phase = "parse" /\ todo # <<>> /\ Head(todo) \in {"Statement", "Statements", "Cases"}
    => Len(FS.targets) = CountIn(Mine, {"EndForEach", "EndSwitch"})

(* The registers without a name are those of the targets, in their order,  *)
(* so that PopTarget, which takes away the topmost register, takes away    *)
(* its own, and no variable or operand shares its register; and what is    *)
(* popped is there.                                                        *)
TempsNest ==
  \A i \in DOMAIN fs :
    LET f == fs[i] IN
    /\ SelectSeq(f.targets, LAMBDA reg : ~IsLocal(f, reg))
         = SelectSeq([r \in 1 .. Len(f.named) |-> r - 1], LAMBDA reg : ~IsLocal(f, reg))
    /\ i = cur /\ todo # <<>> /\ Head(todo) \in DOMAIN Pops =>
         /\ Pops[Head(todo)] <= Len(f.targets)
         /\ \A k \in 0 .. Pops[Head(todo)] - 1 :
              IsLocal(f, Top(f, k)) \/ Top(f, k) = Len(f.named) - Unnamed(f, k) - 1

(* What return, break and continue pop is what they leave: the try blocks  *)
(* of the function, those in the innermost loop or switch, and those in    *)
(* the innermost loop.                                                     *)
TrapsExact ==
  phase = "parse" /\ todo # <<>> /\ Head(todo) \in {"Statement", "ReturnValue", "Break", "Continue"} =>
    /\ FS.traps = CountIn(Mine, {"EndTry"})
    /\ FS.breaks # <<>> => Last(FS.breaks) = CountIn(Inside({"EndLoop", "EndSwitch"}), {"EndTry"})
    /\ FS.continues # <<>> => Last(FS.continues) = CountIn(Inside({"EndLoop"}), {"EndTry"})

(* A jump that waits for its target will be resolved by the loop or switch *)
(* that it leaves and by no other.                                         *)
JumpsResolved ==
  \A f \in Range(fs) :
    /\ \A i \in DOMAIN f.ubreaks :
         LET k == f.ubreaks[i] IN
         /\ k \in DOMAIN f.blocks /\ f.blocks[k].nbreaks < i
         /\ \A j \in k + 1 .. Len(f.blocks) : i <= f.blocks[j].nbreaks
    /\ \A i \in DOMAIN f.ucontinues :
         LET k == f.ucontinues[i] IN
         /\ k \in Loops(f) /\ f.blocks[k].ncontinues < i
         /\ \A j \in Loops(f) : j > k => i <= f.blocks[j].ncontinues

(* _scope belongs to the compiler and not to the function: yet whenever it *)
(* is used it is that of the function that is compiled, and inside it.     *)
ScopesMine ==
  phase = "parse" /\ todo # <<>> /\ Head(todo) \in {"Break", "Continue", "EndScope", "EndForEach"}
    => \/ Head(todo) \in {"Break", "Continue"} /\ FS.breaks = <<>>
       \/ Last(scopes).of = cur /\ Last(scopes).size <= Len(FS.named)
=============================================================================

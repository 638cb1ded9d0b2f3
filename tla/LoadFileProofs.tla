--------------------------- MODULE LoadFileProofs ---------------------------
(* Theorems on the lexer, on the loading of scripts around it, on files    *)
(* and on blobs.                                                           *)
EXTENDS LoadFile, FiniteSetTheorems, SequenceTheorems, TLAPS

(* The fields of the lexer and of the history. *)
Fields ==
  /\ lexer = [cur |-> lexer.cur, at |-> lexer.at, text |-> lexer.text, len |-> lexer.len, more |-> lexer.more,
              token |-> lexer.token, curtoken |-> lexer.curtoken, prevtoken |-> lexer.prevtoken, line |-> lexer.line]
  /\ between = [token |-> between.token, newline |-> between.newline] /\ between.newline \in BOOLEAN

Lines == lexer.line \in Nat /\ newlines \in Nat /\ LinesCounted

(* Within a string text is what has opened it: never a newline. *)
Delimited == lexer.at \in {"string", "quote", "escape", "hexx", "hexu"} => lexer.text \in {"@"} \union Quote

(* Within Lex _curtoken is what has been passed last, a token or a newline; *)
(* between two calls it is what the compiler got.                          *)
CurTokenRight ==
  /\ lexer.at \notin {"off", "idle", "failed"} =>
       lexer.curtoken = IF between.newline THEN "\n" ELSE between.token
  /\ lexer.at = "idle" /\ lexer.token # EOB => lexer.curtoken = lexer.token

Tokens == Fields /\ Delimited /\ CurTokenRight /\ PrevTokenRight
LexInv == Tokens /\ Lines

USE DEF At, Cur, EOB

(* The line and the count of newlines go on together. *)
NewLine == Cur({"\n"})
Advance(n) == IF NewLine THEN n + 1 ELSE n

LEMMA LinesAdvance ==
  ASSUME Lines, lexer'.line = Advance(lexer.line), newlines' = Advance(newlines)
  PROVE Lines'
<1>1. CASE NewLine BY <1>1 DEF Advance, Lines, LinesCounted
<1>2. CASE ~NewLine BY <1>2 DEF Advance, Lines, LinesCounted
<1>3. QED BY <1>1, <1>2

LEMMA NextAdvances ==
  ASSUME NEW c, NEW lex, NEXT(c, lex)
  PROVE newlines' = Advance(newlines)
BY DEF NEXT, Advance, NewLine

LEMMA LexReadInv ==
  ASSUME LexInv, NEW c, LexRead(c)
  PROVE LexInv'
<1> USE DEF LexInv, Fields, Delimited, CurTokenRight, PrevTokenRight, NEXT, Goto, Reading, Token, Quote
<1>1. CASE Skip(c)
  <2>1. Tokens' BY <1>1 DEF Tokens, Skip
  <2>2. lexer'.line = Advance(lexer.line) BY <1>1 DEF Tokens, Advance, NewLine, Skip
  <2>3. newlines' = Advance(newlines) BY <1>1, NextAdvances DEF Skip
  <2>4. QED BY <2>1, <2>2, <2>3, LinesAdvance
<1>2. CASE StartToken(c)
  <2>1. Tokens'
    <3>0. /\ lexer.at = "lex"
          /\ \/ \E t : \E a \in {"op", "number", "id"} : NEXT(c, Reading(a, t))
             \/ lexer.cur \in Quote /\ NEXT(c, Reading("string", lexer.cur))
             \/ NEXT(c, Goto("failed")) \/ NEXT(c, Token(lexer, lexer.cur))
      <4> HIDE DEF NEXT, Reading, Goto, Token, Quote
      <4>1. CASE Cur(Quote) /\ NEXT(c, IF c = EOB THEN Goto("failed") ELSE Reading("string", lexer.cur))
        BY <1>2, <4>1, Zenon DEF StartToken
      <4>2. CASE ~(Cur(Quote) /\ NEXT(c, IF c = EOB THEN Goto("failed") ELSE Reading("string", lexer.cur)))
        BY <1>2, <4>2, Zenon DEF StartToken
      <4>3. QED BY <4>1, <4>2
    <3>n. lexer.cur # "\n" BY <1>2 DEF StartToken, Starts, Digit, Alpha
    <3>1. Fields' BY <3>0 DEF Tokens
    <3>2. Delimited' BY <3>0 DEF Tokens
    <3>3. CurTokenRight'
      <4>1. CASE \E t : \E a \in {"op", "number", "id"} : NEXT(c, Reading(a, t))
        <5>1. PICK t : \E a \in {"op", "number", "id"} : NEXT(c, Reading(a, t)) BY <4>1
        <5>2. PICK a \in {"op", "number", "id"} : NEXT(c, Reading(a, t)) BY <5>1
        <5>3. QED BY <3>0, <3>n, <5>2 DEF Tokens
      <4>2. CASE NEXT(c, Reading("string", lexer.cur)) BY <3>0, <3>n, <4>2 DEF Tokens
      <4>3. CASE NEXT(c, Goto("failed")) BY <4>3 DEF Tokens
      <4>4. CASE NEXT(c, Token(lexer, lexer.cur)) BY <4>4 DEF Tokens
      <4>5. QED BY <3>0, <4>1, <4>2, <4>3, <4>4, Zenon
    <3>4. PrevTokenRight' BY <3>0, <3>n DEF Tokens
    <3>5. QED BY <3>1, <3>2, <3>3, <3>4 DEF Tokens
  <2>2. lexer'.line = Advance(lexer.line) BY <1>2 DEF Tokens, Advance, NewLine, StartToken, Starts, Digit, Alpha
  <2>3. newlines' = Advance(newlines) BY <1>2, NextAdvances DEF StartToken, Starts, Digit, Alpha
  <2>4. QED BY <2>1, <2>2, <2>3, LinesAdvance
<1>3. CASE Operator(c)
  <2>1. Tokens' BY <1>3 DEF Tokens, Operator, Follow
  <2>2. lexer'.line = Advance(lexer.line)
    <3>1. ~NewLine BY <1>3 DEF NewLine, Operator, Follow
    <3>2. \A t : NEXT(c, [lexer EXCEPT !.text = t]) => lexer'.line = lexer.line BY DEF Tokens
    <3>3. \A a, t : NEXT(c, Reading(a, t)) => lexer'.line = lexer.line BY DEF Tokens
    <3>4. lexer'.line = lexer.line
      <4> HIDE DEF NEXT, Reading
      <4>1. QED BY <1>3, <3>2, <3>3, Zenon DEF Operator
    <3>5. QED BY <3>1, <3>4 DEF Advance
  <2>3. newlines' = Advance(newlines)
    <3> HIDE DEF NEXT, Reading
    <3>1. QED BY <1>3, NextAdvances, Zenon DEF Operator
  <2>4. QED BY <2>1, <2>2, <2>3, LinesAdvance
<1>4. CASE LexLineComment(c)
  <2>1. Tokens' BY <1>4 DEF Tokens, LexLineComment
  <2>2. lexer'.line = Advance(lexer.line) BY <1>4 DEF Tokens, Advance, NewLine, LexLineComment
  <2>3. newlines' = Advance(newlines) BY <1>4, NextAdvances DEF LexLineComment
  <2>4. QED BY <2>1, <2>2, <2>3, LinesAdvance
<1>5. CASE LexBlockComment(c)
  <2>1. Tokens' BY <1>5 DEF Tokens, LexBlockComment
  <2>2. lexer'.line = Advance(lexer.line) BY <1>5 DEF Tokens, Advance, NewLine, LexBlockComment
  <2>3. newlines' = Advance(newlines) BY <1>5, NextAdvances DEF LexBlockComment
  <2>4. QED BY <2>1, <2>2, <2>3, LinesAdvance
<1>6. CASE ReadString(c)
  <2>1. Tokens' BY <1>6 DEF Tokens, ReadString, Append1, ndelim, verbatim
  <2>2. lexer'.line = Advance(lexer.line) BY <1>6 DEF Tokens, Advance, NewLine, ReadString, Append1, ndelim, verbatim
  <2>3. newlines' = Advance(newlines) BY <1>6, NextAdvances DEF ReadString, Append1, ndelim, verbatim
  <2>4. QED BY <2>1, <2>2, <2>3, LinesAdvance
<1>7. CASE DoubleQuote(c)
  <2>1. Tokens' BY <1>7 DEF Tokens, DoubleQuote, Append1
  <2>2. lexer'.line = Advance(lexer.line) BY <1>7 DEF Tokens, Advance, NewLine, DoubleQuote, Append1
  <2>3. newlines' = Advance(newlines) BY <1>7, NextAdvances DEF DoubleQuote, Append1
  <2>4. QED BY <2>1, <2>2, <2>3, LinesAdvance
<1>8. CASE Escape(c)
  <2>1. Tokens' BY <1>8 DEF Tokens, Escape, HexEscape, Append1
  <2>2. lexer'.line = Advance(lexer.line) BY <1>8 DEF Tokens, Advance, NewLine, Escape, HexEscape, Append1
  <2>3. newlines' = Advance(newlines) BY <1>8, NextAdvances DEF Escape, HexEscape, Append1
  <2>4. QED BY <2>1, <2>2, <2>3, LinesAdvance
<1>9. CASE Digits(c)
  <2>1. Tokens' BY <1>9 DEF Tokens, Digits, Hex, Digit
  <2>2. lexer'.line = Advance(lexer.line) BY <1>9 DEF Tokens, Advance, NewLine, Digits, Hex, Digit
  <2>3. newlines' = Advance(newlines) BY <1>9, NextAdvances DEF Digits, Hex, Digit
  <2>4. QED BY <2>1, <2>2, <2>3, LinesAdvance
<1>10. CASE Number(c)
  <2>1. Tokens'
    <3> USE <1>10 DEF Tokens, Number, Octal, Hex, Digit
    <3>1. Fields' OBVIOUS
    <3>2. Delimited' OBVIOUS
    <3>3. CurTokenRight' OBVIOUS
    <3>4. PrevTokenRight' OBVIOUS
    <3>5. QED BY <3>1, <3>2, <3>3, <3>4
  <2>2. lexer'.line = Advance(lexer.line) BY <1>10 DEF Tokens, Advance, NewLine, Number, Octal, Hex, Digit
  <2>3. newlines' = Advance(newlines) BY <1>10, NextAdvances DEF Number, Octal, Hex, Digit
  <2>4. QED BY <2>1, <2>2, <2>3, LinesAdvance
<1>11. CASE ReadID(c)
  <2>1. Tokens' BY <1>11 DEF Tokens, ReadID, Alpha, Digit
  <2>2. lexer'.line = Advance(lexer.line) BY <1>11 DEF Tokens, Advance, NewLine, ReadID, Alpha, Digit
  <2>3. newlines' = Advance(newlines) BY <1>11, NextAdvances DEF ReadID, Alpha, Digit
  <2>4. QED BY <2>1, <2>2, <2>3, LinesAdvance
<1>12. QED BY <1>1, <1>2, <1>3, <1>4, <1>5, <1>6, <1>7, <1>8, <1>9, <1>10, <1>11 DEF LexRead

LEMMA LexStayInv ==
  ASSUME LexInv, LexStay
  PROVE LexInv'
<1> USE DEF LexInv, Fields, Delimited, CurTokenRight, PrevTokenRight, Stay, Goto, Error, Token, Quote
<1>1. CASE EndOfText
  <2>1. Tokens' BY <1>1 DEF Tokens, EndOfText
  <2>2. lexer'.line = lexer.line /\ newlines' = newlines BY <1>1 DEF Tokens, EndOfText
  <2>3. QED BY <2>1, <2>2 DEF Lines, LinesCounted
<1>2. CASE ControlCharacter
  <2>1. Tokens' BY <1>2 DEF Tokens, ControlCharacter
  <2>2. lexer'.line = lexer.line /\ newlines' = newlines BY <1>2 DEF Tokens, ControlCharacter
  <2>3. QED BY <2>1, <2>2 DEF Lines, LinesCounted
<1>3. CASE OperatorEnds
  <2>1. Tokens' BY <1>3 DEF Tokens, OperatorEnds
  <2>2. lexer'.line = lexer.line /\ newlines' = newlines BY <1>3 DEF Tokens, OperatorEnds
  <2>3. QED BY <2>1, <2>2 DEF Lines, LinesCounted
<1>4. CASE LineCommentEnds
  <2>1. Tokens' BY <1>4 DEF Tokens, LineCommentEnds
  <2>2. lexer'.line = lexer.line /\ newlines' = newlines BY <1>4 DEF Tokens, LineCommentEnds
  <2>3. QED BY <2>1, <2>2 DEF Lines, LinesCounted
<1>5. CASE BlockCommentGoesOn
  <2>1. Tokens' BY <1>5 DEF Tokens, BlockCommentGoesOn
  <2>2. lexer'.line = lexer.line /\ newlines' = newlines BY <1>5 DEF Tokens, BlockCommentGoesOn
  <2>3. QED BY <2>1, <2>2 DEF Lines, LinesCounted
<1>6. CASE StringFails
  <2>1. Tokens' BY <1>6 DEF Tokens, StringFails, verbatim
  <2>2. lexer'.line = lexer.line /\ newlines' = newlines BY <1>6 DEF Tokens, StringFails, verbatim
  <2>3. QED BY <2>1, <2>2 DEF Lines, LinesCounted
<1>7. CASE StringEnds
  <2>1. Tokens'
    <3> USE <1>7 DEF Tokens, StringEnds, ndelim, verbatim
    <3>1. Fields' OBVIOUS
    <3>2. Delimited' OBVIOUS
    <3>3. CurTokenRight' OBVIOUS
    <3>4. PrevTokenRight' OBVIOUS
    <3>5. QED BY <3>1, <3>2, <3>3, <3>4
  <2>2. lexer'.line = lexer.line /\ newlines' = newlines BY <1>7 DEF Tokens, StringEnds, ndelim, verbatim
  <2>3. QED BY <2>1, <2>2 DEF Lines, LinesCounted
<1>8. CASE EscapeFails
  <2>1. Tokens' BY <1>8 DEF Tokens, EscapeFails
  <2>2. lexer'.line = lexer.line /\ newlines' = newlines BY <1>8 DEF Tokens, EscapeFails
  <2>3. QED BY <2>1, <2>2 DEF Lines, LinesCounted
<1>9. CASE DigitsEnd
  <2>1. Tokens' BY <1>9 DEF Tokens, DigitsEnd, Append1
  <2>2. lexer'.line = lexer.line /\ newlines' = newlines BY <1>9 DEF Tokens, DigitsEnd, Append1
  <2>3. QED BY <2>1, <2>2 DEF Lines, LinesCounted
<1>10. CASE NumberEnds
  <2>1. Tokens' BY <1>10 DEF Tokens, NumberEnds
  <2>2. lexer'.line = lexer.line /\ newlines' = newlines BY <1>10 DEF Tokens, NumberEnds
  <2>3. QED BY <2>1, <2>2 DEF Lines, LinesCounted
<1>11. CASE IDEnds
  <2>1. Tokens' BY <1>11 DEF Tokens, IDEnds
  <2>2. lexer'.line = lexer.line /\ newlines' = newlines BY <1>11 DEF Tokens, IDEnds
  <2>3. QED BY <2>1, <2>2 DEF Lines, LinesCounted
<1>12. QED BY <1>1, <1>2, <1>3, <1>4, <1>5, <1>6, <1>7, <1>8, <1>9, <1>10, <1>11 DEF LexStay

(* The lexer before its first token, and when there is none. *)
Starting ==
  /\ lexer = Off \/ \E c : lexer = [Off EXCEPT !.cur = c, !.at = "idle"]
  /\ newlines = 0 /\ between = [token |-> "none", newline |-> FALSE]

LEMMA LexOffInv == Starting => LexInv
<1> SUFFICES ASSUME Starting PROVE LexInv OBVIOUS
<1>1. newlines = 0 /\ between = [token |-> "none", newline |-> FALSE] BY DEF Starting
<1>2. Fields BY DEF Fields, Off, Starting
<1>3. lexer.at \in {"off", "idle"} /\ lexer.token = "none" /\ lexer.curtoken = "none"
  <2>1. CASE lexer = Off BY <2>1 DEF Off
  <2>2. CASE \E c : lexer = [Off EXCEPT !.cur = c, !.at = "idle"] BY <2>2 DEF Off
  <2>3. QED BY <2>1, <2>2 DEF Starting
<1>4. lexer.line = 1
  <2>1. Off.line = 1 BY DEF Off
  <2>2. \A c : [Off EXCEPT !.cur = c, !.at = "idle"].line = 1 BY DEF Off
  <2>3. QED BY <2>1, <2>2 DEF Starting
<1>5. Delimited BY <1>3 DEF Delimited
<1>6. CurTokenRight BY <1>1, <1>3 DEF CurTokenRight
<1>7. PrevTokenRight BY <1>1, <1>3 DEF PrevTokenRight
<1>8. Lines BY <1>1, <1>4 DEF Lines, LinesCounted
<1>9. QED BY <1>2, <1>5, <1>6, <1>7, <1>8 DEF LexInv, Tokens

(* What the lexer is after each step of the load. *)
LEMMA LexerStepInv ==
  ASSUME LexInv, [LoadNext \/ StreamNext]_allVars
  PROVE LexInv'
<1>1. CASE \E c : LexerInit(c)
  <2>1. Starting' BY <1>1 DEF LexerInit, Starting
  <2>2. QED BY <2>1, LexOffInv, PTL
<1>2. CASE \E c : LexRead(c) BY <1>2, LexReadInv
<1>3. CASE LexStay BY <1>3, LexStayInv
<1>4. CASE Lex
  <2>1. Tokens' BY <1>4 DEF Lex, LexInv, Tokens, Fields, Delimited, CurTokenRight, PrevTokenRight, Goto
  <2>2. lexer'.line = lexer.line /\ newlines' = newlines BY <1>4 DEF LexInv, Lex, Tokens, Fields, Goto
  <2>3. QED BY <2>1, <2>2 DEF LexInv, Lines, LinesCounted
<1>5. CASE CompileEnds
  <2>1. Starting' BY <1>5 DEF CompileEnds, Starting
  <2>2. QED BY <2>1, LexOffInv, PTL
<1>6. CASE UNCHANGED <<lexer, newlines, between>>
  BY <1>6 DEF LexInv, Tokens, Fields, Delimited, CurTokenRight, PrevTokenRight, Lines, LinesCounted
<1>7. QED
  <2> HIDE DEF At, Cur, EOB
  <2>1. LoadNext => \/ (\E c : LexerInit(c)) \/ (\E c : LexRead(c)) \/ LexStay \/ Lex \/ CompileEnds \/ UNCHANGED <<lexer, newlines, between>>
    BY Zenon DEF LoadNext, sqstd_loadfile, Tag, ThirdByte, ReadClosure, StartCompile, CompileReads, CompileSteps, LoadEnds
  <2>2. StreamNext \/ UNCHANGED allVars => UNCHANGED <<lexer, newlines, between>>
    BY Zenon DEF StreamNext, loadVars, allVars
  <2>3. QED BY <1>1, <1>2, <1>3, <1>4, <1>5, <1>6, <2>1, <2>2

LEMMA LexerInvariant == Spec => []LexInv
<1>1. LoadInit => LexInv BY LexOffInv DEF LoadInit, LexerOff, Starting
<1>2. LexInv /\ [LoadNext \/ StreamNext]_allVars => LexInv' BY LexerStepInv
<1>3. QED BY <1>1, <1>2, PTL DEF Spec

(* Whatever the text, the line that the compiler reports is the line of the *)
(* character that the lexer has (NEXT and _currentline of SQLexer::Lex):   *)
(* every newline passed counts once, in comments and verbatim strings too. *)
THEOREM LinesAlwaysCounted == Spec => []LinesCounted
<1>1. LexInv => LinesCounted BY DEF LexInv, Lines
<1>2. QED BY <1>1, LexerInvariant, PTL

(* Whatever the text, _prevtoken says newline exactly when a line ended     *)
(* between the last two tokens outside comments (RETURN_TOKEN and the      *)
(* newline case of Lex): what IsEndOfStatement relies on.                  *)
THEOREM PrevTokenAlwaysRight == Spec => []PrevTokenRight
<1>1. LexInv => PrevTokenRight BY DEF LexInv, Tokens
<1>2. QED BY <1>1, LexerInvariant, PTL
-----------------------------------------------------------------------------
(* While no text is compiled the lexer is off. *)
LoadInv ==
  /\ load = [at |-> load.at, handle |-> load.handle, chars |-> load.chars, left |-> load.left, size |-> load.size, ptr |-> load.ptr]
  /\ load.at # "plain" => lexer.at = "off"

LEMMA LoadInvStep ==
  ASSUME LoadInv, [LoadNext \/ StreamNext]_allVars
  PROVE LoadInv'
<1> USE DEF LoadInv
<1>1. CASE sqstd_loadfile BY <1>1 DEF sqstd_loadfile, NoLoad
<1>2. CASE Tag BY <1>2 DEF Tag
<1>3. CASE ThirdByte BY <1>3 DEF ThirdByte
<1>4. CASE ReadClosure BY <1>4 DEF ReadClosure
<1>5. CASE load.at = "plain" /\ \E c : _read_byte(c) BY <1>5 DEF _read_byte
<1>6. CASE CompileSteps BY <1>6 DEF CompileSteps
<1>7. CASE CompileEnds BY <1>7 DEF CompileEnds, Off
<1>8. CASE LoadEnds BY <1>8 DEF LoadEnds, NoLoad
<1>9. CASE UNCHANGED loadVars BY <1>9 DEF loadVars
<1>10. QED
  <2> HIDE DEF At, Cur, EOB, LoadInv
  <2>1. StartCompile \/ CompileReads => load.at = "plain" /\ \E c : _read_byte(c) BY Zenon DEF StartCompile, CompileReads
  <2>2. StreamNext \/ UNCHANGED allVars => UNCHANGED loadVars BY Zenon DEF StreamNext, allVars
  <2>3. QED BY <1>1, <1>2, <1>3, <1>4, <1>5, <1>6, <1>7, <1>8, <1>9, <2>1, <2>2, Zenon DEF LoadNext

LEMMA LoadInvariant == Spec => []LoadInv
<1>1. LoadInit => LoadInv
  <2>1. NoLoad = [at |-> NoLoad.at, handle |-> NoLoad.handle, chars |-> NoLoad.chars, left |-> NoLoad.left,
                  size |-> NoLoad.size, ptr |-> NoLoad.ptr] BY DEF NoLoad
  <2>2. Off.at = "off" BY DEF Off
  <2>3. QED BY <2>1, <2>2 DEF LoadInit, LexerOff, LoadInv
<1>2. LoadInv /\ [LoadNext \/ StreamNext]_allVars => LoadInv' BY LoadInvStep
<1>3. QED BY <1>1, <1>2, PTL DEF Spec

(* No part of Lex goes on to the next character at the end. *)
LEMMA NothingAfterEnd ==
  ASSUME Delimited, lexer.cur = EOB, NEW c, LexRead(c)
  PROVE FALSE
<1>1. CASE Skip(c) BY <1>1 DEF Skip
<1>2. CASE StartToken(c) BY <1>2 DEF StartToken, Starts, Quote, Digit, Alpha
<1>3. CASE Operator(c) BY <1>3 DEF Operator, Follow
<1>4. CASE LexLineComment(c) BY <1>4 DEF LexLineComment
<1>5. CASE LexBlockComment(c) BY <1>5 DEF LexBlockComment
<1>6. CASE ReadString(c) BY <1>6 DEF ReadString, ndelim, verbatim, Delimited, Quote
<1>7. CASE DoubleQuote(c) BY <1>7 DEF DoubleQuote
<1>8. CASE Escape(c) BY <1>8 DEF Escape, Quote
<1>9. CASE Digits(c) BY <1>9 DEF Digits, Hex, Digit
<1>10. CASE Number(c) BY <1>10 DEF Number, Octal, Hex, Digit
<1>11. CASE ReadID(c) BY <1>11 DEF ReadID, Alpha, Digit
<1>12. QED BY <1>1, <1>2, <1>3, <1>4, <1>5, <1>6, <1>7, <1>8, <1>9, <1>10, <1>11 DEF LexRead

(* A step that reads nothing keeps the character. *)
LEMMA StayKeepsCharacter ==
  ASSUME Fields, Lex \/ LexStay
  PROVE lexer'.cur = lexer.cur
<1> USE DEF Stay, Goto, Error, Token, Fields
<1>1. CASE Lex BY <1>1 DEF Lex
<1>2. CASE EndOfText BY <1>2 DEF EndOfText
<1>3. CASE ControlCharacter BY <1>3 DEF ControlCharacter
<1>4. CASE OperatorEnds BY <1>4 DEF OperatorEnds
<1>5. CASE LineCommentEnds BY <1>5 DEF LineCommentEnds
<1>6. CASE BlockCommentGoesOn BY <1>6 DEF BlockCommentGoesOn
<1>7. CASE StringFails BY <1>7 DEF StringFails
<1>8. CASE StringEnds BY <1>8 DEF StringEnds
<1>9. CASE EscapeFails BY <1>9 DEF EscapeFails
<1>10. CASE DigitsEnd BY <1>10 DEF DigitsEnd, Append1
<1>11. CASE NumberEnds BY <1>11 DEF NumberEnds
<1>12. CASE IDEnds BY <1>12 DEF IDEnds
<1>13. QED BY <1>1, <1>2, <1>3, <1>4, <1>5, <1>6, <1>7, <1>8, <1>9, <1>10, <1>11, <1>12 DEF LexStay

(* Once the reader has given the end, a zero byte or the end of the file,   *)
(* the lexer asks for no more (the loops of sqlexer.cpp over IS_EOB): the  *)
(* character stays and the buffer of _read_byte is not moved on.           *)
THEOREM EndAlwaysStays == Spec => EndStays
<1>1. ASSUME LexInv, LoadInv, [LoadNext \/ StreamNext]_allVars, lexer.cur = EOB, lexer.at # "off"
      PROVE lexer'.cur = EOB /\ load'.ptr = load.ptr
  <2>1. load.at = "plain" BY <1>1 DEF LoadInv
  <2>2. CASE StartCompile BY <1>1, <2>2 DEF StartCompile
  <2>3. CASE CompileReads
    <3>1. PICK c : LexRead(c) BY <2>3 DEF CompileReads
    <3>2. QED BY <1>1, <3>1, NothingAfterEnd DEF LexInv, Tokens
  <2>4. CASE CompileSteps
    <3>1. Lex \/ LexStay BY <2>4 DEF CompileSteps
    <3>2. load' = load BY <2>4 DEF CompileSteps
    <3>3. lexer'.cur = lexer.cur BY <1>1, <3>1, StayKeepsCharacter DEF LexInv, Tokens
    <3>4. QED BY <1>1, <3>2, <3>3
  <2>5. CASE CompileEnds BY <1>1, <2>5 DEF CompileEnds, LoadInv, Off
  <2>6. CASE UNCHANGED loadVars BY <1>1, <2>6 DEF loadVars
  <2>7. ~(sqstd_loadfile \/ Tag \/ ThirdByte \/ ReadClosure \/ LoadEnds)
    BY <2>1 DEF sqstd_loadfile, Tag, ThirdByte, ReadClosure, LoadEnds
  <2>8. StreamNext \/ UNCHANGED allVars => UNCHANGED loadVars BY DEF StreamNext, allVars
  <2>9. QED
    <3> HIDE DEF At, Cur, EOB
    <3>1. QED BY <1>1, <2>2, <2>3, <2>4, <2>5, <2>6, <2>7, <2>8, Zenon DEF LoadNext
<1>2. LexInv /\ LoadInv /\ [LoadNext \/ StreamNext]_allVars
        => [lexer.cur = EOB /\ lexer.at # "off" => lexer'.cur = EOB /\ load'.ptr = load.ptr]_allVars
  BY <1>1
<1>3. QED BY <1>2, LexerInvariant, LoadInvariant, PTL DEF Spec, EndStays
-----------------------------------------------------------------------------
(* The life of a file's handle. *)
IsBlobRecord(b) == b.kind = "blob" /\ b = [kind |-> b.kind, size |-> b.size, ptr |-> b.ptr, buf |-> b.buf]

LEMMA BlobRecords ==
  /\ \A n : IsBlobRecord(SQBlob(n))
  /\ \A b, n : IsBlobRecord(b) => IsBlobRecord(Resize(b, n))
  /\ \A b, bytes : IsBlobRecord(b) => IsBlobRecord(Write(b, bytes))
  /\ \A b, n, origin : IsBlobRecord(b) => IsBlobRecord(Seek(b, n, origin))
  /\ \A b, n : IsBlobRecord(b) => IsBlobRecord(SwapWords(b, n))
  /\ \A b, buf : IsBlobRecord(b) => IsBlobRecord([b EXCEPT !.buf = buf])
  /\ \A b, n : IsBlobRecord(b) => IsBlobRecord([b EXCEPT !.ptr = n])
<1> USE DEF IsBlobRecord
<1>1. \A n : IsBlobRecord(SQBlob(n)) BY DEF SQBlob
<1>2. \A b, n : IsBlobRecord(b) => IsBlobRecord(Resize(b, n)) BY DEF Resize
<1>3. \A b, n : IsBlobRecord(b) => IsBlobRecord([b EXCEPT !.size = n]) OBVIOUS
<1>4. \A b, buf : IsBlobRecord(b) => IsBlobRecord([b EXCEPT !.buf = buf]) OBVIOUS
<1>5. \A b, n : IsBlobRecord(b) => IsBlobRecord([b EXCEPT !.ptr = n]) OBVIOUS
<1>6. \A b, n : IsBlobRecord(b) => IsBlobRecord(GrowBufOf(b, n))
  <2> TAKE b, n
  <2> HAVE IsBlobRecord(b)
  <2> DEFINE grown == IF b.size + n <= _allocated(b) THEN b
                      ELSE IF b.size + n > b.size * 2 THEN Resize(b, b.size + n) ELSE Resize(b, b.size * 2)
  <2>1. IsBlobRecord(grown) BY <1>2, Zenon
  <2>2. GrowBufOf(b, n) = [grown EXCEPT !.size = b.size + n] BY Zenon DEF GrowBufOf
  <2> HIDE DEF IsBlobRecord, grown
  <2>3. QED BY <2>1, <2>2, <1>3, Zenon
<1>7. \A b, bytes : IsBlobRecord(b) => IsBlobRecord(Write(b, bytes))
  <2> TAKE b, bytes
  <2> HAVE IsBlobRecord(b)
  <2> DEFINE grown == IF CanAdvance(b, Len(bytes)) THEN b ELSE GrowBufOf(b, b.ptr + Len(bytes) - b.size)
             buf == [i \in DOMAIN grown.buf |-> IF i \in b.ptr + 1 .. b.ptr + Len(bytes) THEN bytes[i - b.ptr] ELSE grown.buf[i]]
             filled == [grown EXCEPT !.buf = buf]
  <2>1. IsBlobRecord(grown) BY <1>6, Zenon
  <2>2. Write(b, bytes) = [filled EXCEPT !.ptr = grown.ptr + Len(bytes)] BY Zenon DEF Write
  <2> HIDE DEF IsBlobRecord, grown, buf
  <2>3. IsBlobRecord(filled) BY <2>1, <1>4, Zenon
  <2> HIDE DEF filled
  <2>4. QED BY <2>2, <2>3, <1>5, Zenon
<1>8. \A b, n, origin : IsBlobRecord(b) => IsBlobRecord(Seek(b, n, origin))
  <2> TAKE b, n, origin
  <2> HAVE IsBlobRecord(b)
  <2>1. Seek(b, n, origin) = b \/ \E ptr : Seek(b, n, origin) = [b EXCEPT !.ptr = ptr] BY Zenon DEF Seek
  <2> HIDE DEF IsBlobRecord
  <2>2. QED BY <2>1, <1>5, Zenon
<1>9. \A b, n : IsBlobRecord(b) => IsBlobRecord(SwapWords(b, n)) BY DEF SwapWords
<1>10. QED BY <1>1, <1>2, <1>4, <1>5, <1>7, <1>8, <1>9

Refers(objs, o, h) == objs[o].kind = "file" /\ objs[o].handle = h
Owns(objs, o, h) == Refers(objs, o, h) /\ objs[o].owns

OwnFile(h) == SQFile(h, TRUE)
LentFile(h) == SQFile(h, FALSE)

IsObject(b) ==
  \/ b \in {None, NULL} \/ IsBlobRecord(b)
  \/ \E h \in Handle : b = OwnFile(h) \/ b = LentFile(h)
  \/ b = LentFile(NoHandle)

LEMMA FileRecords ==
  /\ None.kind = "none" /\ NULL.kind = "null"
  /\ \A h : OwnFile(h).kind = "file" /\ OwnFile(h).handle = h /\ OwnFile(h).owns
  /\ \A h : LentFile(h).kind = "file" /\ LentFile(h).handle = h /\ ~LentFile(h).owns
BY DEF None, NULL, OwnFile, LentFile, SQFile

FileTypes ==
  /\ objects = [o \in Object |-> objects[o]]
  /\ \A o \in Object : IsObject(objects[o])
  /\ handles \in [Handle -> {"new", "open", "closed"}] /\ host \subseteq Handle /\ load.handle \in Handle \union {NoHandle}

(* A file is held by one instance, or else by the host or the load, exactly *)
(* as long as it is open; an instance that does not own its file has one of*)
(* the host.                                                               *)
OneOwner == \A h \in Handle : \A o, p \in Object : Owns(objects, o, h) /\ Owns(objects, p, h) => o = p
OwnersAlone == \A h \in Handle : h \in host \union {load.handle} => \A o \in Object : ~Owns(objects, o, h)
OpenIsHeld ==
  \A h \in Handle : handles[h] = "open" <=> h \in host \union {load.handle} \/ \E o \in Object : Owns(objects, o, h)
Lent == \A h \in Handle : \A o \in Object : Refers(objects, o, h) /\ ~Owns(objects, o, h) => h \in host
LoadAlone ==
  /\ load.at = "no" <=> load.handle = NoHandle
  /\ load.at # "no" => host = {} /\ \A o \in Object : Free(o)

FileInv == FileTypes /\ OneOwner /\ OwnersAlone /\ OpenIsHeld /\ Lent /\ LoadAlone /\ ~misused

(* What a step that has to do with no file leaves as it is. *)
SameFiles ==
  \A o \in Object : \A h : (Refers(objects', o, h) <=> Refers(objects, o, h)) /\ (Owns(objects', o, h) <=> Owns(objects, o, h))

LEMMA SameFilesInv ==
  ASSUME FileInv, SameFiles, load.at = "no", UNCHANGED <<handles, host, misused, load>>, FileTypes'
  PROVE FileInv'
BY DEF FileInv, SameFiles, OneOwner, OwnersAlone, OpenIsHeld, Lent, LoadAlone

(* An instance becomes what is no file. *)
LEMMA BecomeInv ==
  ASSUME FileInv, load.at = "no", UNCHANGED load, NEW o \in Object, NEW b, Become(o, b), ~IsFile(o), b.kind # "file", IsObject(b)
  PROVE FileInv'
<1> USE DEF FileInv, Become
<1>1. FileTypes' BY DEF FileTypes
<1>2. SameFiles BY DEF FileTypes, SameFiles, Owns, Refers, IsFile
<1>3. QED BY <1>1, <1>2, SameFilesInv

LEMMA BlobStepInv ==
  ASSUME FileInv, load.at = "no", UNCHANGED load, NEW o \in Object, BlobStep(o)
  PROVE FileInv'
<1>0. \A q \in Object : IsBlob(q) => IsBlobRecord(objects[q])
  <2>1. \A q \in Object : IsObject(objects[q]) BY DEF FileInv, FileTypes
  <2>2. QED BY FileRecords, <2>1 DEF IsObject, IsBlob
<1>1. \A q \in Object : objects[q] = NULL \/ IsBlob(q) \/ Free(q) => ~IsFile(q) BY DEF IsBlob, IsFile, NULL, Free
<1>2. \A b : IsBlobRecord(b) => b.kind # "file" /\ IsObject(b) BY DEF IsBlobRecord, IsObject
<1> HIDE DEF Cur, At, EOB
<1>3. ASSUME NEW b, Become(o, b), IsBlobRecord(b), objects[o] = NULL \/ IsBlob(o) \/ Free(o) PROVE FileInv'
  BY <1>1, <1>2, <1>3, BecomeInv
<1>4. CASE _blob_constructor(o) BY <1>3, <1>4, BlobRecords DEF _blob_constructor
<1>5. CASE _blob__cloned(o) BY <1>3, <1>5, BlobRecords DEF _blob__cloned
<1>6. CASE _blob_resize(o) BY <1>0, <1>3, <1>6, BlobRecords DEF _blob_resize
<1>7. CASE _blob__set(o) BY <1>0, <1>3, <1>7, BlobRecords DEF _blob__set
<1>8. CASE _blob_swap2(o) BY <1>0, <1>3, <1>8, BlobRecords DEF _blob_swap2
<1>9. CASE _blob_swap4(o) BY <1>0, <1>3, <1>9, BlobRecords DEF _blob_swap4
<1>10. CASE _stream_readn(o) BY <1>0, <1>3, <1>10, BlobRecords DEF _stream_readn
<1>11. CASE _stream_writen(o) BY <1>0, <1>3, <1>11, BlobRecords DEF _stream_writen
<1>12. CASE _stream_writeblob(o) BY <1>0, <1>3, <1>12, BlobRecords DEF _stream_writeblob
<1>13. CASE _stream_seek(o) BY <1>0, <1>3, <1>13, BlobRecords DEF _stream_seek
<1>14. CASE _stream_readblob(o)
  <2>1. CASE UNCHANGED vars
    BY <2>1 DEF vars, FileInv, FileTypes, OneOwner, OwnersAlone, OpenIsHeld, Lent, LoadAlone, Free
  <2>2. CASE \E b, c : \E p \in Object :
               /\ IsBlobRecord(b) /\ IsBlobRecord(c) /\ Free(p)
               /\ objects' = [objects EXCEPT ![o] = b, ![p] = c] /\ UNCHANGED <<handles, host, misused>>
    <3>1. FileTypes' BY <2>2, <1>2 DEF FileInv, FileTypes
    <3>2. SameFiles BY <2>2, <1>1, <1>2, <1>14 DEF FileInv, FileTypes, SameFiles, Owns, Refers, IsFile, _stream_readblob
    <3>3. QED BY <2>2, <3>1, <3>2, SameFilesInv
  <2>3. QED
    <3>1. PICK n \in 1 .. MaxSize :
            LET size == Smaller(n, objects[o].size)
                res == Readable(objects[o], size)
                read == [objects[o] EXCEPT !.ptr = @ + res]
            IN IF res = 0 THEN UNCHANGED vars
               ELSE \E p \in Object :
                      /\ Free(p)
                      /\ objects' = [objects EXCEPT ![o] = read,
                           ![p] = [SQBlob(res) EXCEPT !.buf = SubSeq(objects[o].buf, objects[o].ptr + 1, objects[o].ptr + res)]]
                      /\ UNCHANGED <<handles, host, misused>>
      BY <1>14, Zenon DEF _stream_readblob
    <3> DEFINE res == Readable(objects[o], Smaller(n, objects[o].size))
               read == [objects[o] EXCEPT !.ptr = @ + res]
               blob == [SQBlob(res) EXCEPT !.buf = SubSeq(objects[o].buf, objects[o].ptr + 1, objects[o].ptr + res)]
    <3>2. IsBlobRecord(read) /\ IsBlobRecord(blob)
      <4> HIDE DEF res
      <4>1. QED BY <1>0, <1>14, BlobRecords DEF _stream_readblob
    <3>3. UNCHANGED vars \/ \E p \in Object :
            Free(p) /\ objects' = [objects EXCEPT ![o] = read, ![p] = blob] /\ UNCHANGED <<handles, host, misused>>
      BY <3>1, Zenon
    <3> HIDE DEF read, blob
    <3>4. QED BY <2>1, <2>2, <3>2, <3>3, Zenon
<1>15. QED
  BY <1>4, <1>5, <1>6, <1>7, <1>8, <1>9, <1>10, <1>11, <1>12, <1>13, <1>14 DEF BlobStep

LEMMA Unchanged ==
  ASSUME FileInv, UNCHANGED <<objects, handles, host, load>>, ~misused'
  PROVE FileInv'
BY DEF FileInv, FileTypes, OneOwner, OwnersAlone, OpenIsHeld, Lent, LoadAlone, Free

(* What the constructor makes of file h. *)
Made(o, h, file) ==
  /\ objects[o] = NULL /\ objects' = [objects EXCEPT ![o] = file] /\ UNCHANGED misused
  /\ \/ file.owns /\ handles[h] = "new" /\ handles' = [handles EXCEPT ![h] = "open"] /\ UNCHANGED host
     \/ /\ h \in host /\ (file.owns => ~Referred(h)) /\ UNCHANGED handles
        /\ host' = (IF file.owns THEN host \ {h} ELSE host)

LEMMA StreamNextInv ==
  ASSUME FileInv, StreamNext
  PROVE FileInv'
<1> USE DEF StreamNext, loadVars
<1>a. ASSUME NEW o \in Object, NEW b, objects' = [objects EXCEPT ![o] = b]
      PROVE /\ objects'[o] = b /\ \A q \in Object \ {o} : objects'[q] = objects[q]
            /\ objects' = [q \in Object |-> objects'[q]]
  BY <1>a DEF FileInv, FileTypes
<1>b. load' = load /\ load.at = "no" /\ load.handle = NoHandle /\ NoHandle \notin Handle /\ host \subseteq Handle /\ ~misused
  BY HandleAssumption DEF FileInv, FileTypes, LoadAlone
<1>c. handles \in [Handle -> {"new", "open", "closed"}]
      /\ \A h \in Handle : handles[h] = "open" <=> h \in host \/ \E o \in Object : Owns(objects, o, h)
  BY <1>b DEF FileInv, FileTypes, OpenIsHeld
<1>d. ASSUME host' \subseteq Handle,
             \A h \in Handle : handles'[h] = "open" <=> h \in host' \/ \E o \in Object : Owns(objects', o, h)
      PROVE OpenIsHeld'
  BY <1>b, <1>d DEF OpenIsHeld
<1>e. LoadAlone' BY <1>b DEF FileInv, LoadAlone
<1>1. CASE HostOpens
  <2>1. PICK h \in Handle : handles[h] = "new" /\ handles' = [handles EXCEPT ![h] = "open"] /\ host' = host \union {h}
                            /\ UNCHANGED <<objects, misused>>
    BY <1>1 DEF HostOpens, sqstd_fopen
  <2>2. \A o \in Object : ~Owns(objects, o, h) BY <1>c, <2>1
  <2>3. FileTypes' BY <1>b, <1>c, <2>1 DEF FileInv, FileTypes
  <2>4. OneOwner' /\ Lent' BY <2>1 DEF FileInv, OneOwner, Lent
  <2>5. OwnersAlone' BY <1>b, <2>1, <2>2 DEF FileInv, OwnersAlone
  <2>6. OpenIsHeld' BY <1>b, <1>c, <1>d, <2>1
  <2>7. QED BY <1>b, <1>e, <2>1, <2>3, <2>4, <2>5, <2>6 DEF FileInv
<1>2. CASE HostCloses
  <2>1. PICK h \in host : ~Referred(h) /\ sqstd_fclose(h) /\ host' = host \ {h} /\ UNCHANGED objects
    BY <1>2 DEF HostCloses
  <2>2. \A o \in Object : ~Refers(objects, o, h) BY <2>1 DEF Referred, Refers, IsFile
  <2>3. handles[h] = "open" BY <2>1 DEF FileInv, FileTypes, OpenIsHeld
  <2>4. handles' = [handles EXCEPT ![h] = "closed"] /\ ~misused' BY <1>b, <2>1, <2>3 DEF sqstd_fclose
  <2>5. FileTypes' BY <1>b, <1>c, <2>1, <2>4 DEF FileInv, FileTypes
  <2>6. OneOwner' /\ OwnersAlone' BY <1>b, <2>1 DEF FileInv, OneOwner, OwnersAlone
  <2>7. Lent' BY <2>1, <2>2 DEF FileInv, Lent
  <2>8. OpenIsHeld' BY <1>b, <1>c, <1>d, <2>1, <2>2, <2>4 DEF Owns
  <2>9. QED BY <1>b, <1>e, <2>1, <2>4, <2>5, <2>6, <2>7, <2>8 DEF FileInv
<1>3. CASE \E o \in Object : BlobStep(o) BY <1>3, BlobStepInv
<1>4. CASE \E o \in Object : NewInstance(o) BY FileRecords, <1>4, BecomeInv DEF NewInstance, Free, IsFile, IsObject
<1>5. ASSUME NEW o \in Object, NEW after \in {None, LentFile(NoHandle)}, Close(o, after), UNCHANGED host
      PROVE FileInv'
  <2>0. objects' = [objects EXCEPT ![o] = after] BY <1>5 DEF Close
  <2>a. /\ objects'[o] = after /\ \A q \in Object \ {o} : objects'[q] = objects[q]
        /\ objects' = [q \in Object |-> objects'[q]]
    BY <1>a, <2>0
  <2>1. \A q \in Object, h \in Handle : Refers(objects', q, h) <=> q # o /\ Refers(objects, q, h)
    <3>1. after.kind = "file" => after.handle = NoHandle BY FileRecords, <1>5
    <3>2. QED BY <1>b, <2>a, <3>1 DEF Refers
  <2>2. \A q \in Object, h \in Handle : Owns(objects', q, h) <=> q # o /\ Owns(objects, q, h)
    BY <2>a, <2>1 DEF Owns
  <2>3. handles' \in [Handle -> {"new", "open", "closed"}] BY <1>c, <1>5 DEF Close, sqstd_fclose
  <2>4. FileTypes'
    <3>1. IsObject(after) BY <1>5 DEF IsObject
    <3>2. \A q \in Object : IsObject(objects'[q]) BY <2>a, <3>1 DEF FileInv, FileTypes
    <3>3. QED BY <1>b, <1>5, <2>a, <2>3, <3>2 DEF FileTypes
  <2>5. OneOwner' /\ OwnersAlone' BY <1>b, <1>5, <2>2 DEF FileInv, OneOwner, OwnersAlone
  <2>6. Lent' BY <1>5, <2>1, <2>2 DEF FileInv, Lent
  <2>7. CASE IsOpen(o) /\ objects[o].owns
    <3>1. IsObject(objects[o]) BY DEF FileInv, FileTypes
    <3>2. PICK h \in Handle : Owns(objects, o, h) /\ objects[o].handle = h
      BY FileRecords, <2>7, <3>1 DEF IsObject, IsOpen, IsFile, Owns, Refers, IsBlobRecord
    <3>3. handles[h] = "open" BY <1>c, <3>2
    <3>4. handles' = [handles EXCEPT ![h] = "closed"] /\ ~misused' BY <1>b, <1>5, <2>7, <3>2, <3>3 DEF Close, sqstd_fclose
    <3>5. \A g \in Handle : handles'[g] = "open" <=> g # h /\ handles[g] = "open" BY <1>c, <3>2, <3>4
    <3>6. h \notin host /\ \A q \in Object : Owns(objects, q, h) => q = o BY <1>b, <3>2 DEF FileInv, OwnersAlone, OneOwner
    <3>7. \A g \in Handle : Owns(objects, o, g) => g = h BY <3>2 DEF Owns, Refers
    <3>8. OpenIsHeld' BY <1>b, <1>c, <1>d, <1>5, <2>2, <3>2, <3>5, <3>6, <3>7
    <3>9. QED BY <1>e, <2>4, <2>5, <2>6, <3>4, <3>8 DEF FileInv
  <2>8. CASE ~(IsOpen(o) /\ objects[o].owns)
    <3>1. UNCHANGED <<handles, misused>> BY <1>5, <2>8 DEF Close
    <3>2. \A h \in Handle : ~Owns(objects, o, h) BY <2>8, <1>b DEF Owns, Refers, IsOpen, IsFile
    <3>3. OpenIsHeld' BY <1>b, <1>c, <1>d, <1>5, <2>2, <3>1, <3>2
    <3>4. QED BY <1>b, <1>e, <2>4, <2>5, <2>6, <3>1, <3>3 DEF FileInv
  <2>9. QED BY <2>7, <2>8
<1>6. CASE \E o \in Object : Release(o) BY <1>5, <1>6 DEF Release
<1>7. CASE \E o \in Object : _file_close(o)
  <2>1. PICK o \in Object : IsFile(o) /\ UNCHANGED host /\ Close(o, IF objects[o].owns THEN LentFile(NoHandle) ELSE objects[o])
    BY <1>7, Zenon DEF _file_close, LentFile
  <2>2. CASE objects[o].owns BY <1>5, <2>1, <2>2
  <2>3. CASE ~objects[o].owns
    <3>1. objects' = [objects EXCEPT ![o] = objects[o]] /\ UNCHANGED <<handles, host, misused, load>> BY <2>1, <2>3 DEF Close
    <3>2. objects' = objects BY <3>1 DEF FileInv, FileTypes
    <3>3. QED BY <1>b, <3>1, <3>2, Unchanged
  <2>4. QED BY <2>2, <2>3
<1>8. CASE \E o \in Object : UseFile(o)
  <2>1. PICK o \in Object : UseFile(o) BY <1>8
  <2>2. PICK h \in Handle : objects[o].handle = h /\ Refers(objects, o, h)
    <3>1. IsObject(objects[o]) BY DEF FileInv, FileTypes
    <3>2. QED BY FileRecords, <2>1, <3>1 DEF UseFile, IsObject, IsOpen, IsFile, Refers, IsBlobRecord
  <2>3. handles[h] = "open" BY <2>2 DEF FileInv, OpenIsHeld, Lent
  <2>4. ~misused' BY <1>b, <2>1, <2>2, <2>3, Zenon DEF UseFile
  <2>5. UNCHANGED <<objects, handles, host, load>> BY <1>b, <2>1 DEF UseFile
  <2>6. QED BY <2>4, <2>5, Unchanged
<1>9. CASE \E o \in Object : _file_constructor(o)
  <2>0. PICK o \in Object : _file_constructor(o) BY <1>9
  <2>p. \E h \in Handle : \E file \in {OwnFile(h), LentFile(h)} : Made(o, h, file)
    <3> USE DEF Made
    <3> USE <2>0 DEF _file_constructor, sqstd_fopen
    <3>1. CASE \E h \in Handle :
                 sqstd_fopen(h) /\ objects' = [objects EXCEPT ![o] = SQFile(h, TRUE)] /\ UNCHANGED <<host, misused>>
      BY <3>1, FileRecords DEF OwnFile
    <3>2. CASE \E h \in Handle : \E owns \in BOOLEAN :
            /\ h \in host /\ (owns => ~Referred(h))
            /\ host' = (IF owns THEN host \ {h} ELSE host)
            /\ objects' = [objects EXCEPT ![o] = SQFile(h, owns)]
            /\ UNCHANGED <<handles, misused>>
      <4>1. PICK h \in Handle : \E owns \in BOOLEAN :
            /\ h \in host /\ (owns => ~Referred(h))
            /\ host' = (IF owns THEN host \ {h} ELSE host)
            /\ objects' = [objects EXCEPT ![o] = SQFile(h, owns)]
            /\ UNCHANGED <<handles, misused>>
        BY <3>2
      <4>2. \/ /\ ~Referred(h) /\ host' = host \ {h} /\ objects' = [objects EXCEPT ![o] = OwnFile(h)]
            \/ host' = host /\ objects' = [objects EXCEPT ![o] = LentFile(h)]
        BY <4>1, Zenon DEF OwnFile, LentFile
      <4>3. QED BY <4>1, <4>2, FileRecords
    <3>3. QED BY <3>1, <3>2, Zenon
  <2>q. PICK h \in Handle : \E file \in {OwnFile(h), LentFile(h)} : Made(o, h, file) BY <2>p
  <2>1. PICK file \in {OwnFile(h), LentFile(h)} : Made(o, h, file) BY <2>q
  <2> USE DEF Made
  <2>r. /\ objects'[o] = file /\ \A q \in Object \ {o} : objects'[q] = objects[q]
        /\ objects' = [q \in Object |-> objects'[q]]
    BY <1>a, <2>1
  <2>2. \A q \in Object, g \in Handle : Refers(objects', q, g) <=> (q = o /\ g = h) \/ (q # o /\ Refers(objects, q, g))
    BY FileRecords, <2>r DEF Refers
  <2>3. \A q \in Object, g \in Handle : Owns(objects', q, g) <=> (q = o /\ g = h /\ file.owns) \/ (q # o /\ Owns(objects, q, g))
    BY FileRecords, <2>r, <2>2 DEF Owns
  <2>4. \A g \in Handle : ~Refers(objects, o, g) /\ ~Owns(objects, o, g) BY FileRecords, <2>1 DEF Owns, Refers
  <2>5. FileTypes'
    <3>1. IsObject(file) BY DEF IsObject
    <3>2. host' \subseteq Handle /\ handles' \in [Handle -> {"new", "open", "closed"}] BY <1>b, <1>c, <2>1
    <3>3. \A q \in Object : IsObject(objects'[q]) BY <2>r, <3>1 DEF FileInv, FileTypes
    <3>4. QED BY <1>b, <2>r, <3>2, <3>3 DEF FileTypes
  <2>7. \A q \in Object : file.owns /\ handles[h] # "new" => ~Refers(objects, q, h)
    BY <2>1 DEF Referred, Refers, IsFile
  <2>8. \A q \in Object : handles[h] = "new" => ~Owns(objects, q, h) /\ h \notin host BY <1>c
  <2>9. h \in host => handles[h] = "open" /\ \A q \in Object : ~Owns(objects, q, h) BY <1>b, <1>c DEF FileInv, OwnersAlone
  <2>10. OneOwner' BY <2>1, <2>3, <2>4, <2>8, <2>9 DEF FileInv, OneOwner
  <2>11. OwnersAlone' BY <1>b, <2>1, <2>3, <2>8 DEF FileInv, OwnersAlone
  <2>12. OpenIsHeld'
    <3>1. CASE handles[h] = "new" /\ handles' = [handles EXCEPT ![h] = "open"] /\ UNCHANGED host /\ file.owns
      BY <1>b, <1>c, <1>d, <2>3, <2>4, <3>1
    <3>2. CASE h \in host /\ host' = (IF file.owns THEN host \ {h} ELSE host) /\ UNCHANGED handles
      BY <1>b, <1>c, <1>d, <2>3, <2>4, <2>9, <3>2
    <3>3. QED BY <2>1, <3>1, <3>2
  <2>13. Lent'
    <3>1. h \in host /\ ~file.owns => host' = host BY <2>1, <2>8
    <3>2. ~file.owns => h \in host BY <2>1
    <3>3. \A g \in Handle : g # h /\ g \in host => g \in host' BY <2>1
    <3>4. \A q \in Object : Refers(objects, q, h) /\ h \in host => h \in host' BY <2>1, <2>7, <2>8
    <3>5. \A q \in Object, g \in Handle : Refers(objects, q, g) /\ ~Owns(objects, q, g) => g \in host BY DEF FileInv, Lent
    <3>6. ASSUME NEW q \in Object, NEW g \in Handle, Refers(objects', q, g), ~Owns(objects', q, g) PROVE g \in host'
      BY <2>2, <2>3, <3>1, <3>2, <3>3, <3>4, <3>5, <3>6
    <3>7. QED BY <3>6 DEF Lent
  <2>14. QED BY <1>b, <1>e, <2>1, <2>5, <2>10, <2>11, <2>12, <2>13 DEF FileInv
<1>10. QED BY <1>1, <1>2, <1>3, <1>4, <1>6, <1>7, <1>8, <1>9, Zenon DEF Next, FileStep

(* While a file is loaded no instance is there and the host has no file. *)
LEMMA LoadNextInv ==
  ASSUME FileInv, LoadInv, LoadNext
  PROVE FileInv'
<1>a. NoLoad.at = "no" /\ NoLoad.handle = NoHandle BY DEF NoLoad
<1>b. /\ handles \in [Handle -> {"new", "open", "closed"}] /\ host \subseteq Handle /\ NoHandle \notin Handle /\ ~misused
      /\ load.handle \in Handle \union {NoHandle}
  BY HandleAssumption DEF FileInv, FileTypes
<1>c. ASSUME \A o \in Object : Free(o) PROVE \A o \in Object : \A h : ~Refers(objects, o, h) /\ ~Owns(objects, o, h)
  BY <1>c DEF Free, Refers, Owns
<1>1. ASSUME Opened, load.at # "no", load'.at # "no", load'.handle = load.handle PROVE FileInv'
  BY <1>1 DEF Opened, FileInv, FileTypes, OneOwner, OwnersAlone, OpenIsHeld, Lent, LoadAlone, Free
<1>2. CASE sqstd_loadfile
  <2>1. PICK h \in Handle : sqstd_fopen(h) /\ load'.handle = h /\ load'.at = "tag"
    BY <1>2 DEF sqstd_loadfile, NoLoad
  <2>2. /\ load.handle = NoHandle /\ host = {} /\ \A o \in Object : Free(o)
        /\ UNCHANGED <<objects, host, misused>>
    BY <1>2 DEF sqstd_loadfile, FileInv, LoadAlone
  <2>3. FileTypes' BY <1>b, <2>1, <2>2 DEF FileInv, FileTypes, sqstd_fopen
  <2>4. OneOwner' /\ OwnersAlone' /\ Lent' BY <1>c, <2>2 DEF OneOwner, OwnersAlone, Lent
  <2>5. OpenIsHeld' BY <1>b, <1>c, <2>1, <2>2 DEF FileInv, OpenIsHeld, sqstd_fopen
  <2>6. LoadAlone' BY <1>b, <2>1, <2>2 DEF LoadAlone, Free
  <2>7. QED BY <1>b, <2>2, <2>3, <2>4, <2>5, <2>6 DEF FileInv
<1>3. CASE Tag BY <1>1, <1>3 DEF Tag, LoadInv
<1>4. CASE ThirdByte BY <1>1, <1>4 DEF ThirdByte, LoadInv
<1>5. CASE ReadClosure BY <1>1, <1>5 DEF ReadClosure, LoadInv
<1>6. CASE load.at = "plain" /\ Opened /\ \E c : _read_byte(c)
  <2>1. load'.at = "plain" /\ load'.handle = load.handle BY <1>6 DEF _read_byte, LoadInv
  <2>2. QED BY <1>1, <1>6, <2>1
<1>7. CASE CompileSteps BY <1>1, <1>7 DEF CompileSteps
<1>8. CASE CompileEnds BY <1>1, <1>8 DEF CompileEnds, LoadInv
<1>9. CASE LoadEnds
  <2>1. PICK h \in Handle : load.handle = h BY <1>b, <1>9 DEF LoadEnds, FileInv, LoadAlone
  <2>2. /\ host = {} /\ \A o \in Object : Free(o)
        /\ UNCHANGED <<objects, host>>
        /\ load'.handle = NoHandle /\ load'.at = "no"
    BY <1>a, <1>9 DEF LoadEnds, FileInv, LoadAlone
  <2>3. handles[h] = "open" BY <2>1 DEF FileInv, OpenIsHeld
  <2>4. handles' = [handles EXCEPT ![h] = "closed"] /\ ~misused' BY <1>b, <1>9, <2>1, <2>3, Zenon DEF LoadEnds, sqstd_fclose
  <2>a. handles' \in [Handle -> {"new", "open", "closed"}] /\ \A g \in Handle : handles'[g] = "open" <=> g # h /\ handles[g] = "open"
    BY <1>b, <2>4
  <2>5. FileTypes' BY <2>a, <2>2 DEF FileInv, FileTypes
  <2>6. OneOwner' /\ OwnersAlone' /\ Lent' BY <1>c, <2>2 DEF OneOwner, OwnersAlone, Lent
  <2>7. OpenIsHeld' BY <1>b, <1>c, <2>1, <2>2, <2>a DEF FileInv, OpenIsHeld
  <2>8. LoadAlone' BY <2>2 DEF LoadAlone
  <2>9. QED BY <2>4, <2>5, <2>6, <2>7, <2>8 DEF FileInv
<1>10. QED
  <2> HIDE DEF Cur, At, EOB
  <2>1. StartCompile \/ CompileReads => load.at = "plain" /\ Opened /\ \E c : _read_byte(c)
    BY Zenon DEF StartCompile, CompileReads
  <2>2. QED BY <1>2, <1>3, <1>4, <1>5, <1>6, <1>7, <1>8, <1>9, <2>1, Zenon DEF LoadNext

LEMMA FileInvariant == Spec => []FileInv
<1>1. LoadInit => FileInv
  <2> SUFFICES ASSUME LoadInit PROVE FileInv OBVIOUS
  <2>1. /\ load.at = "no" /\ load.handle = NoHandle /\ host = {} /\ ~misused /\ handles = [h \in Handle |-> "new"]
        /\ objects = [o \in Object |-> None] /\ NoHandle \notin Handle
    BY HandleAssumption DEF LoadInit, Init, NoLoad
  <2>2. \A o \in Object : \A h : ~Refers(objects, o, h) /\ ~Owns(objects, o, h) BY <2>1, FileRecords DEF Refers, Owns
  <2>3. FileTypes BY <2>1 DEF FileTypes, IsObject
  <2>4. OneOwner /\ OwnersAlone /\ Lent /\ LoadAlone BY <2>1, <2>2 DEF OneOwner, OwnersAlone, Lent, LoadAlone
  <2>5. OpenIsHeld BY <2>1, <2>2 DEF OpenIsHeld
  <2>6. QED BY <2>1, <2>3, <2>4, <2>5 DEF FileInv
<1>2. FileInv /\ LoadInv /\ [LoadNext \/ StreamNext]_allVars => FileInv'
  <2> SUFFICES ASSUME FileInv, LoadInv, [LoadNext \/ StreamNext]_allVars PROVE FileInv' OBVIOUS
  <2>1. CASE UNCHANGED allVars
    <3>1. UNCHANGED <<objects, handles, host, misused, load>> BY <2>1 DEF allVars, vars, loadVars
    <3>2. ~misused' BY <3>1 DEF FileInv
    <3>3. QED BY <3>1, <3>2, Unchanged
  <2>2. QED BY <2>1, LoadNextInv, StreamNextInv
<1>3. QED BY <1>1, <1>2, LoadInvariant, PTL DEF Spec

(* A file is closed as soon as nobody holds it, is held by one only, and is *)
(* never used or closed afterwards: SQFile::Close and its _owns, the handle*)
(* that sqstd_getfile lends, and every end of sqstd_loadfile.              *)
THEOREM FilesAlwaysOnce == Spec => []FilesOnce
<1>1. ASSUME FileInv PROVE FilesOnce
  <2>1. SUFFICES ASSUME NEW h \in Handle
                 PROVE LET owners == {o \in Object : IsOpen(o) /\ objects[o].handle = h /\ objects[o].owns}
                       IN (handles[h] = "open")
                            = (Cardinality(owners) + Cardinality({h} \intersect (host \union {load.handle})) = 1)
    BY <1>1 DEF FileInv, FilesOnce
  <2> DEFINE owners == {o \in Object : IsOpen(o) /\ objects[o].handle = h /\ objects[o].owns}
             others == {h} \intersect (host \union {load.handle})
  <2>2. \A o \in Object : o \in owners <=> Owns(objects, o, h)
    BY HandleAssumption DEF IsOpen, IsFile, Owns, Refers
  <2>3. owners = {} \/ \E o : owners = {o}
    BY <1>1, <2>2 DEF FileInv, OneOwner
  <2>4. Cardinality(owners) = IF owners = {} THEN 0 ELSE 1
    <3> HIDE DEF owners
    <3>1. QED BY <2>3, FS_EmptySet, FS_Singleton
  <2>5. others = IF h \in host \union {load.handle} THEN {h} ELSE {} OBVIOUS
  <2>6. Cardinality(others) = IF h \in host \union {load.handle} THEN 1 ELSE 0
    <3> HIDE DEF others
    <3>1. QED BY <2>5, FS_EmptySet, FS_Singleton
  <2>7. h \in host \union {load.handle} => owners = {}
    BY <1>1, <2>2 DEF FileInv, OwnersAlone
  <2>8. handles[h] = "open" <=> h \in host \union {load.handle} \/ owners # {}
    BY <1>1, <2>2 DEF FileInv, OpenIsHeld
  <2> HIDE DEF owners, others
  <2>9. (Cardinality(owners) + Cardinality(others) = 1) <=> (owners # {} \/ h \in host \union {load.handle})
    BY <2>4, <2>6, <2>7
  <2>10. (handles[h] = "open") = (Cardinality(owners) + Cardinality(others) = 1)
    BY <2>8, <2>9
  <2>11. QED BY <2>10 DEF owners, others
<1>2. QED BY <1>1, FileInvariant, PTL

-----------------------------------------------------------------------------
(* The blobs.  Sound is what the functions of sqstdblobimpl.h keep: the    *)
(* position is within the size, and the size within the buffer.  ByteStep  *)
(* is a step of ByteStreams on the bytes that a script can see.            *)
HIDE DEF At, Cur, EOB

(* SQBlob, whose buffer may be longer than its bytes.                      *)
BlobSet == [kind : {"blob"}, size : Nat, ptr : Nat, buf : Seq(Byte)]
Within(b) == b \in BlobSet /\ b.size <= Len(b.buf) /\ b.ptr <= b.size
Sound(b) == Within(b) /\ b.size <= MaxSize

LEMMA BlobFields ==
  ASSUME NEW b \in BlobSet
  PROVE /\ b.kind = "blob" /\ b.size \in Nat /\ b.ptr \in Nat /\ b.buf \in Seq(Byte) /\ Len(b.buf) \in Nat
        /\ DOMAIN b.buf = 1 .. Len(b.buf)
BY DEF BlobSet

LEMMA BlobMade ==
  ASSUME NEW n \in Nat, NEW p \in Nat, NEW s \in Seq(Byte), NEW b, b = [kind |-> "blob", size |-> n, ptr |-> p, buf |-> s]
  PROVE b \in BlobSet /\ b.kind = "blob" /\ b.size = n /\ b.ptr = p /\ b.buf = s
BY DEF BlobSet

LEMMA BlobSize ==
  ASSUME NEW b \in BlobSet, NEW n \in Nat
  PROVE \E c \in BlobSet : c = [b EXCEPT !.size = n] /\ c.size = n /\ c.ptr = b.ptr /\ c.buf = b.buf
<1>1. b.size \in Nat /\ b.ptr \in Nat /\ b.buf \in Seq(Byte)
  BY BlobFields
<1>2. b = [kind |-> "blob", size |-> b.size, ptr |-> b.ptr, buf |-> b.buf]
  BY DEF BlobSet
<1>3. PICK c : c = [kind |-> "blob", size |-> n, ptr |-> b.ptr, buf |-> b.buf]
  OBVIOUS
<1>4. c = [b EXCEPT !.size = n]
  BY <1>2, <1>3
<1>5. c \in BlobSet /\ c.size = n /\ c.ptr = b.ptr /\ c.buf = b.buf
  BY <1>1, <1>3, BlobMade
<1> QED
  BY <1>4, <1>5

LEMMA BlobPtr ==
  ASSUME NEW b \in BlobSet, NEW n \in Nat
  PROVE \E c \in BlobSet : c = [b EXCEPT !.ptr = n] /\ c.size = b.size /\ c.ptr = n /\ c.buf = b.buf
<1>1. b.size \in Nat /\ b.ptr \in Nat /\ b.buf \in Seq(Byte)
  BY BlobFields
<1>2. b = [kind |-> "blob", size |-> b.size, ptr |-> b.ptr, buf |-> b.buf]
  BY DEF BlobSet
<1>3. PICK c : c = [kind |-> "blob", size |-> b.size, ptr |-> n, buf |-> b.buf]
  OBVIOUS
<1>4. c = [b EXCEPT !.ptr = n]
  BY <1>2, <1>3
<1>5. c \in BlobSet /\ c.size = b.size /\ c.ptr = n /\ c.buf = b.buf
  BY <1>1, <1>3, BlobMade
<1> QED
  BY <1>4, <1>5

LEMMA BlobBuf ==
  ASSUME NEW b \in BlobSet, NEW s \in Seq(Byte)
  PROVE \E c \in BlobSet : c = [b EXCEPT !.buf = s] /\ c.size = b.size /\ c.ptr = b.ptr /\ c.buf = s
<1>1. b.size \in Nat /\ b.ptr \in Nat /\ b.buf \in Seq(Byte)
  BY BlobFields
<1>2. b = [kind |-> "blob", size |-> b.size, ptr |-> b.ptr, buf |-> b.buf]
  BY DEF BlobSet
<1>3. PICK c : c = [kind |-> "blob", size |-> b.size, ptr |-> b.ptr, buf |-> s]
  OBVIOUS
<1>4. c = [b EXCEPT !.buf = s]
  BY <1>2, <1>3
<1>5. c \in BlobSet /\ c.size = b.size /\ c.ptr = b.ptr /\ c.buf = s
  BY <1>1, <1>3, BlobMade
<1> QED
  BY <1>4, <1>5

LEMMA SmallerIs ==
  ASSUME NEW a \in Nat, NEW b \in Nat
  PROVE Smaller(a, b) \in Nat /\ Smaller(a, b) <= a /\ Smaller(a, b) <= b /\ (a <= b => Smaller(a, b) = a) /\ (b <= a => Smaller(a, b) = b)
BY DEF Smaller

LEMMA BytesOf ==
  ASSUME NEW b, Within(b)
  PROVE Bytes(b) \in Seq(Byte) /\ Len(Bytes(b)) = b.size /\ \A i \in 1 .. b.size : Bytes(b)[i] = b.buf[i]
<1>1. b.size \in Nat /\ b.buf \in Seq(Byte) /\ Len(b.buf) \in Nat /\ b.size <= Len(b.buf)
  BY BlobFields DEF Within
<1>2. \A i \in 1 .. b.size : b.buf[i] \in Byte
  BY <1>1
<1>3. /\ SubSeq(b.buf, 1, b.size) \in Seq(Byte)
      /\ Len(SubSeq(b.buf, 1, b.size)) = IF 1 <= b.size THEN b.size - 1 + 1 ELSE 0
      /\ \A i \in 1 .. b.size - 1 + 1 : SubSeq(b.buf, 1, b.size)[i] = b.buf[1 + i - 1]
  BY <1>1, <1>2, SubSeqProperties
<1>4. b.size - 1 + 1 = b.size /\ \A i \in 1 .. b.size : 1 + i - 1 = i
  BY <1>1
<1>5. Len(SubSeq(b.buf, 1, b.size)) = b.size
  BY <1>1, <1>3
<1>6. ASSUME NEW i \in 1 .. b.size
      PROVE SubSeq(b.buf, 1, b.size)[i] = b.buf[i]
  <2>1. i \in 1 .. b.size - 1 + 1 /\ 1 + i - 1 = i
    BY <1>4
  <2> QED
    BY <1>3, <2>1
<1> QED
  BY <1>3, <1>5, <1>6 DEF Bytes

LEMMA FunIsSeq ==
  ASSUME NEW S, NEW n \in Nat, NEW f \in [1 .. n -> S]
  PROVE f \in Seq(S) /\ Len(f) = n
<1>1. f \in Seq(S)
  BY SeqDef
<1> QED
  BY <1>1, LenProperties

LEMMA ZerosSeq ==
  ASSUME NEW n \in Nat
  PROVE Zeros(n) \in Seq(Byte) /\ Len(Zeros(n)) = n /\ \A i \in 1 .. n : Zeros(n)[i] = 0
<1>1. PICK f : f = Zeros(n)
  OBVIOUS
<1>2. f \in [1 .. n -> Byte] /\ \A i \in 1 .. n : f[i] = 0
  BY <1>1, StreamAssumption DEF Zeros
<1>3. f \in Seq(Byte) /\ Len(f) = n
  BY <1>2, FunIsSeq
<1> QED
  BY <1>1, <1>2, <1>3

(* The first bytes of a buffer, which the rest of it does not change. *)
LEMMA FirstBytes ==
  ASSUME NEW s \in Seq(Byte), NEW n \in 0 .. Len(s)
  PROVE SubSeq(s, 1, n) \in Seq(Byte) /\ Len(SubSeq(s, 1, n)) = n /\ \A i \in 1 .. n : SubSeq(s, 1, n)[i] = s[i]
<1>1. PICK b : b = [kind |-> "blob", size |-> n, ptr |-> 0, buf |-> s]
  OBVIOUS
<1>2. Within(b) /\ b.size = n /\ b.buf = s
  <2>1. n \in Nat /\ 0 \in Nat
    OBVIOUS
  <2> QED
    BY <1>1, <2>1, BlobMade DEF Within
<1>3. Bytes(b) = SubSeq(s, 1, n)
  BY <1>2 DEF Bytes
<1> QED
  BY <1>2, <1>3, BytesOf

LEMMA ResizeIs ==
  ASSUME NEW b, Within(b), NEW n \in Nat
  PROVE \E c : /\ c = Resize(b, n) /\ Within(c) /\ Len(c.buf) = n
               /\ c.size = Smaller(b.size, n) /\ c.ptr = Smaller(b.ptr, n)
               /\ \A i \in 1 .. c.size : c.buf[i] = b.buf[i]
<1>1. b \in BlobSet /\ b.size \in Nat /\ b.ptr \in Nat /\ b.buf \in Seq(Byte) /\ Len(b.buf) \in Nat
      /\ b.size <= Len(b.buf) /\ b.ptr <= b.size
  BY BlobFields DEF Within
<1>2. CASE n = Len(b.buf)
  <2>1. Resize(b, n) = b
    BY <1>2 DEF Resize, _allocated
  <2>2. Smaller(b.size, n) = b.size /\ Smaller(b.ptr, n) = b.ptr
    <3>1. b.size <= n /\ b.ptr <= n
      BY <1>1, <1>2
    <3> QED
      BY <1>1, <3>1, SmallerIs
  <2> QED
    BY <1>2, <2>1, <2>2
<1>3. CASE n # Len(b.buf)
  <2>1. PICK m \in Nat : m = Smaller(b.size, n) /\ m <= n /\ m <= b.size
    BY <1>1, SmallerIs
  <2>2. PICK p \in Nat : p = Smaller(b.ptr, n) /\ p <= m
    BY <1>1, <2>1 DEF Smaller
  <2>3. PICK s \in Seq(Byte) : s = SubSeq(Bytes(b), 1, m) /\ Len(s) = m /\ \A i \in 1 .. m : s[i] = b.buf[i]
    <3>1. Bytes(b) \in Seq(Byte) /\ Len(Bytes(b)) = b.size /\ \A i \in 1 .. b.size : Bytes(b)[i] = b.buf[i]
      BY BytesOf
    <3>2. m \in 0 .. Len(Bytes(b))
      BY <1>1, <2>1, <3>1
    <3>3. SubSeq(Bytes(b), 1, m) \in Seq(Byte) /\ Len(SubSeq(Bytes(b), 1, m)) = m
          /\ \A i \in 1 .. m : SubSeq(Bytes(b), 1, m)[i] = Bytes(b)[i]
      BY <3>1, <3>2, FirstBytes
    <3>4. \A i \in 1 .. m : i \in 1 .. b.size
      BY <1>1, <2>1
    <3> QED
      BY <3>1, <3>3, <3>4
  <2>4. PICK z \in Seq(Byte) : z = Zeros(n - m) /\ Len(z) = n - m
    <3>1. n - m \in Nat
      BY <2>1
    <3> QED
      BY <3>1, ZerosSeq
  <2>5. PICK t \in Seq(Byte) : t = s \o z /\ Len(t) = n /\ \A i \in 1 .. m : t[i] = b.buf[i]
    <3>1. s \o z \in Seq(Byte) /\ Len(s \o z) = Len(s) + Len(z)
          /\ \A i \in 1 .. Len(s) + Len(z) : (s \o z)[i] = IF i <= Len(s) THEN s[i] ELSE z[i - Len(s)]
      BY ConcatProperties
    <3>2. \A i \in 1 .. m : i \in 1 .. Len(s) + Len(z) /\ i <= Len(s)
      BY <2>1, <2>3, <2>4
    <3>3. ASSUME NEW i \in 1 .. m
          PROVE (s \o z)[i] = b.buf[i]
      <4>1. (s \o z)[i] = s[i]
        BY <3>1, <3>2
      <4> QED
        BY <2>3, <4>1
    <3>4. Len(s) + Len(z) = n
      BY <2>1, <2>3, <2>4
    <3> QED
      BY <3>1, <3>3, <3>4
  <2>6. PICK d \in BlobSet : d = [b EXCEPT !.buf = t] /\ d.size = b.size /\ d.ptr = b.ptr /\ d.buf = t
    BY <1>1, <2>5, BlobBuf
  <2>7. PICK e \in BlobSet : e = [d EXCEPT !.size = m] /\ e.size = m /\ e.ptr = d.ptr /\ e.buf = d.buf
    BY <2>1, <2>6, BlobSize
  <2>8. PICK c \in BlobSet : c = [e EXCEPT !.ptr = p] /\ c.size = e.size /\ c.ptr = p /\ c.buf = e.buf
    BY <2>2, <2>7, BlobPtr
  <2>9. Resize(b, n) = [b EXCEPT !.buf = t, !.size = m, !.ptr = p]
    BY <1>3, <2>1, <2>2, <2>3, <2>4, <2>5 DEF Resize, _allocated
  <2>10. [b EXCEPT !.buf = t, !.size = m, !.ptr = p] = c
    BY <2>6, <2>7, <2>8
  <2>11. c.size = m /\ c.ptr = p /\ c.buf = t
    BY <2>6, <2>7, <2>8
  <2>12. Within(c) /\ Len(c.buf) = n
    BY <2>1, <2>2, <2>5, <2>11 DEF Within
  <2>13. \A i \in 1 .. c.size : c.buf[i] = b.buf[i]
    BY <2>5, <2>11
  <2>14. c = Resize(b, n)
    BY <2>9, <2>10
  <2> QED
    BY <2>1, <2>2, <2>12, <2>13, <2>14, <2>11
<1> QED
  BY <1>2, <1>3

LEMMA GrowBufOfIs ==
  ASSUME NEW b, Within(b), NEW n \in Nat
  PROVE \E c : /\ c = GrowBufOf(b, n) /\ c \in BlobSet /\ b.size + n <= Len(c.buf)
               /\ c.size = b.size + n /\ c.ptr = b.ptr
               /\ \A i \in 1 .. b.size : c.buf[i] = b.buf[i]
<1>1. b \in BlobSet /\ b.size \in Nat /\ b.ptr \in Nat /\ b.buf \in Seq(Byte) /\ Len(b.buf) \in Nat
      /\ b.size <= Len(b.buf) /\ b.ptr <= b.size
  BY BlobFields DEF Within
<1>2. ASSUME NEW k \in Nat, b.size + n <= k
      PROVE \E d : /\ d = Resize(b, k) /\ d \in BlobSet /\ b.size + n <= Len(d.buf) /\ d.size = b.size /\ d.ptr = b.ptr
                   /\ \A i \in 1 .. b.size : d.buf[i] = b.buf[i]
  <2>1. PICK d : /\ d = Resize(b, k) /\ Within(d) /\ Len(d.buf) = k
                 /\ d.size = Smaller(b.size, k) /\ d.ptr = Smaller(b.ptr, k)
                 /\ \A i \in 1 .. d.size : d.buf[i] = b.buf[i]
    BY ResizeIs
  <2>2. Smaller(b.size, k) = b.size /\ Smaller(b.ptr, k) = b.ptr
    <3>1. b.size <= k /\ b.ptr <= k
      BY <1>1, <1>2
    <3> QED
      BY <1>1, <3>1, SmallerIs
  <2>3. d \in BlobSet
    BY <2>1 DEF Within
  <2> QED
    BY <1>2, <2>1, <2>2, <2>3
<1>3. PICK g : /\ g = (IF b.size + n <= _allocated(b) THEN b
                       ELSE IF b.size + n > b.size * 2 THEN Resize(b, b.size + n)
                       ELSE Resize(b, b.size * 2))
               /\ g \in BlobSet /\ b.size + n <= Len(g.buf) /\ g.size = b.size /\ g.ptr = b.ptr
               /\ \A i \in 1 .. b.size : g.buf[i] = b.buf[i]
  <2>1. CASE b.size + n <= _allocated(b)
    BY <1>1, <2>1 DEF _allocated
  <2>2. CASE b.size + n > _allocated(b) /\ b.size + n > b.size * 2
    <3>1. PICK k \in Nat : k = b.size + n
      BY <1>1
    <3> QED
      BY <1>1, <1>2, <2>2, <3>1 DEF _allocated
  <2>3. CASE b.size + n > _allocated(b) /\ ~(b.size + n > b.size * 2)
    <3>1. PICK k \in Nat : k = b.size * 2 /\ b.size + n <= k
      BY <1>1, <2>3
    <3> QED
      BY <1>1, <1>2, <2>3, <3>1 DEF _allocated
  <2> QED
    BY <1>1, <2>1, <2>2, <2>3 DEF _allocated
<1>4. GrowBufOf(b, n) = [g EXCEPT !.size = b.size + n]
  BY <1>3 DEF GrowBufOf
<1>5. PICK m \in Nat : m = b.size + n
  BY <1>1
<1>6. PICK c \in BlobSet : c = [g EXCEPT !.size = m] /\ c.size = m /\ c.ptr = g.ptr /\ c.buf = g.buf
  BY <1>3, BlobSize
<1>7. c = GrowBufOf(b, n)
  BY <1>4, <1>5, <1>6
<1>8. c.size = b.size + n /\ c.ptr = b.ptr /\ c.buf = g.buf
  BY <1>3, <1>5, <1>6
<1> QED
  BY <1>3, <1>7, <1>8

(* What a blob holds at i after bytes were written at p. *)
Overwritten(s, bytes, p, i) == IF i \in p + 1 .. p + Len(bytes) THEN bytes[i - p] ELSE s[i]

LEMMA WriteIs ==
  ASSUME NEW b, Sound(b), NEW bytes \in Seq(Byte), b.ptr + Len(bytes) <= MaxSize
  PROVE \E c : /\ c = Write(b, bytes) /\ Sound(c) /\ c.ptr = b.ptr + Len(bytes)
               /\ c.size = IF b.ptr + Len(bytes) <= b.size THEN b.size ELSE b.ptr + Len(bytes)
               /\ \A i \in 1 .. c.size : c.buf[i] = Overwritten(b.buf, bytes, b.ptr, i)
<1>1. b \in BlobSet /\ b.size \in Nat /\ b.ptr \in Nat /\ b.buf \in Seq(Byte) /\ Len(b.buf) \in Nat
      /\ b.size <= Len(b.buf) /\ b.ptr <= b.size /\ b.size <= MaxSize /\ Within(b)
  BY BlobFields DEF Within, Sound
<1>2. PICK k \in Nat : k = Len(bytes)
  OBVIOUS
<1>3. PICK g : /\ g = (IF CanAdvance(b, Len(bytes)) THEN b ELSE GrowBufOf(b, b.ptr + Len(bytes) - b.size))
               /\ g \in BlobSet /\ g.ptr = b.ptr /\ g.size <= Len(g.buf) /\ b.ptr + k <= g.size
               /\ g.size = (IF b.ptr + Len(bytes) <= b.size THEN b.size ELSE b.ptr + Len(bytes))
               /\ \A i \in 1 .. b.size : g.buf[i] = b.buf[i]
  <2>1. CASE b.ptr + k <= b.size
    BY <1>1, <1>2, <2>1 DEF CanAdvance
  <2>2. CASE b.ptr + k > b.size
    <3>1. PICK n \in Nat : n = b.ptr + Len(bytes) - b.size /\ b.size + n = b.ptr + k
      <4>1. b.ptr + Len(bytes) - b.size \in Nat
        BY <1>1, <1>2, <2>2
      <4>2. b.size + (b.ptr + Len(bytes) - b.size) = b.ptr + k
        BY <1>1, <1>2
      <4> QED
        BY <4>1, <4>2
    <3>2. PICK c : /\ c = GrowBufOf(b, n) /\ c \in BlobSet /\ b.size + n <= Len(c.buf)
                   /\ c.size = b.size + n /\ c.ptr = b.ptr
                   /\ \A i \in 1 .. b.size : c.buf[i] = b.buf[i]
      BY <1>1, GrowBufOfIs
    <3> QED
      BY <1>1, <1>2, <2>2, <3>1, <3>2 DEF CanAdvance
  <2> QED
    BY <1>1, <2>1, <2>2
<1>4. g.buf \in Seq(Byte) /\ DOMAIN g.buf = 1 .. Len(g.buf) /\ Len(g.buf) \in Nat /\ g.size \in Nat
  BY <1>3, BlobFields
<1>5. PICK s : s = [i \in DOMAIN g.buf |-> IF i \in b.ptr + 1 .. b.ptr + Len(bytes) THEN bytes[i - b.ptr] ELSE g.buf[i]]
  OBVIOUS
<1>6. s \in Seq(Byte) /\ Len(s) = Len(g.buf)
  <2>1. ASSUME NEW i \in 1 .. Len(g.buf)
        PROVE s[i] \in Byte
    <3>1. CASE i \in b.ptr + 1 .. b.ptr + Len(bytes)
      <4>1. i - b.ptr \in 1 .. Len(bytes)
        BY <1>1, <1>2, <3>1
      <4>2. bytes[i - b.ptr] \in Byte
        BY <4>1, ElementOfSeq
      <4> QED
        BY <1>4, <1>5, <3>1, <4>2
    <3>2. CASE i \notin b.ptr + 1 .. b.ptr + Len(bytes)
      BY <1>4, <1>5, <3>2
    <3> QED
      BY <3>1, <3>2
  <2>2. s \in [1 .. Len(g.buf) -> Byte]
    BY <1>4, <1>5, <2>1
  <2> QED
    BY <1>4, <2>2, FunIsSeq
<1>7. PICK c \in BlobSet : c = [g EXCEPT !.buf = s, !.ptr = b.ptr + k] /\ c.size = g.size /\ c.ptr = b.ptr + k /\ c.buf = s
  <2>1. b.ptr + k \in Nat
    BY <1>1
  <2>2. PICK d \in BlobSet : d = [g EXCEPT !.buf = s] /\ d.size = g.size /\ d.ptr = g.ptr /\ d.buf = s
    BY <1>3, <1>6, BlobBuf
  <2>3. PICK c \in BlobSet : c = [d EXCEPT !.ptr = b.ptr + k] /\ c.size = d.size /\ c.ptr = b.ptr + k /\ c.buf = d.buf
    BY <2>1, BlobPtr
  <2>4. [d EXCEPT !.ptr = b.ptr + k] = [g EXCEPT !.buf = s, !.ptr = b.ptr + k]
    BY <2>2
  <2> QED
    BY <2>2, <2>3, <2>4
<1>8. Write(b, bytes) = [g EXCEPT !.buf = s, !.ptr = b.ptr + k]
  BY <1>2, <1>3, <1>5 DEF Write
<1>9. \A i \in 1 .. c.size : c.buf[i] = Overwritten(b.buf, bytes, b.ptr, i)
  <2>1. SUFFICES ASSUME NEW i \in 1 .. g.size PROVE s[i] = Overwritten(b.buf, bytes, b.ptr, i)
    BY <1>7
  <2>2. i \in DOMAIN g.buf
    BY <1>3, <1>4
  <2>3. i \notin b.ptr + 1 .. b.ptr + Len(bytes) => i \in 1 .. b.size
    BY <1>1, <1>2, <1>3, <1>4
  <2> QED
    BY <1>3, <1>5, <2>2, <2>3 DEF Overwritten
<1>10. Sound(c)
  BY <1>1, <1>2, <1>3, <1>4, <1>6, <1>7 DEF Sound, Within
<1>11. c = Write(b, bytes)
  BY <1>7, <1>8
<1>12. c.ptr = b.ptr + Len(bytes) /\ c.size = IF b.ptr + Len(bytes) <= b.size THEN b.size ELSE b.ptr + Len(bytes)
  BY <1>2, <1>3, <1>7
<1> QED
  BY <1>9, <1>10, <1>11, <1>12

(* What an instance is for ByteStreams. *)
St(data, pos) == <<[data |-> data, pos |-> pos]>>
View(b) == IF b.kind = "blob" THEN St(Bytes(b), b.ptr) ELSE <<>>
Mapped == [o \in Object |-> IF IsBlob(o) THEN <<[data |-> Bytes(objects[o]), pos |-> objects[o].ptr]>> ELSE <<>>]
ByteStep == [Abstract!Next]_Mapped
Becomes(o, s) == Mapped' = [Mapped EXCEPT ![o] = s]

LEMMA StFields ==
  ASSUME NEW d, NEW p
  PROVE St(d, p) # <<>> /\ St(d, p)[1].data = d /\ St(d, p)[1].pos = p /\ St(d, p) = Abstract!Stream(d, p)
BY DEF St, Abstract!Stream

LEMMA OneChanged ==
  ASSUME NEW r, NEW t
  PROVE [<<r>> EXCEPT ![1] = t] = <<t>>
<1>1. <<r>> \in Seq({r, t}) /\ <<t>> \in Seq({r, t}) /\ 1 \in 1 .. Len(<<r>>) /\ t \in {r, t}
      /\ Len(<<r>>) = 1 /\ Len(<<t>>) = 1 /\ <<t>>[1] = t
  OBVIOUS
<1>2. /\ [<<r>> EXCEPT ![1] = t] \in Seq({r, t}) /\ Len([<<r>> EXCEPT ![1] = t]) = Len(<<r>>)
      /\ \A j \in 1 .. Len(<<r>>) : [<<r>> EXCEPT ![1] = t][j] = IF j = 1 THEN t ELSE <<r>>[j]
  BY <1>1, ExceptSeq
<1>3. PICK u \in Seq({r, t}) : u = [<<r>> EXCEPT ![1] = t] /\ Len(u) = 1 /\ u[1] = t
  BY <1>1, <1>2
<1>4. PICK v \in Seq({r, t}) : v = <<t>> /\ Len(v) = 1 /\ v[1] = t
  BY <1>1
<1>5. \A j \in 1 .. Len(u) : u[j] = v[j]
  BY <1>3, <1>4
<1>6. u = v
  BY <1>3, <1>4, <1>5, SeqEqual
<1> QED
  BY <1>3, <1>4, <1>6

LEMMA StChanged ==
  ASSUME NEW d, NEW x
  PROVE /\ \A y : [St(d, x) EXCEPT ![1] = [St(d, x)[1] EXCEPT !.pos = y]] = St(d, y)
        /\ \A e : [St(d, x) EXCEPT ![1] = [St(d, x)[1] EXCEPT !.data = e]] = St(e, x)
<1>1. PICK r : r = [data |-> d, pos |-> x]
  OBVIOUS
<1>2. St(d, x) = <<r>> /\ St(d, x)[1] = r
  BY <1>1 DEF St
<1>3. ASSUME NEW y
      PROVE [St(d, x) EXCEPT ![1] = [St(d, x)[1] EXCEPT !.pos = y]] = St(d, y)
  <2>1. PICK t : t = [data |-> d, pos |-> y] /\ t = [r EXCEPT !.pos = y]
    <3>1. [data |-> d, pos |-> y] = [[data |-> d, pos |-> x] EXCEPT !.pos = y]
      OBVIOUS
    <3> QED
      BY <1>1, <3>1
  <2>2. [<<r>> EXCEPT ![1] = t] = <<t>>
    BY OneChanged
  <2> QED
    BY <1>2, <2>1, <2>2 DEF St
<1>4. ASSUME NEW e
      PROVE [St(d, x) EXCEPT ![1] = [St(d, x)[1] EXCEPT !.data = e]] = St(e, x)
  <2>1. PICK t : t = [data |-> e, pos |-> x] /\ t = [r EXCEPT !.data = e]
    <3>1. [data |-> e, pos |-> x] = [[data |-> d, pos |-> x] EXCEPT !.data = e]
      OBVIOUS
    <3> QED
      BY <1>1, <3>1
  <2>2. [<<r>> EXCEPT ![1] = t] = <<t>>
    BY OneChanged
  <2> QED
    BY <1>2, <2>1, <2>2 DEF St
<1> QED
  BY <1>3, <1>4

LEMMA MappedIs ==
  /\ \A o \in Object : Mapped[o] = View(objects[o])
  /\ DOMAIN Mapped = Object
BY DEF Mapped, View, St, IsBlob

LEMMA BecomeView ==
  ASSUME objects = [q \in Object |-> objects[q]], NEW o \in Object, NEW b, objects' = [objects EXCEPT ![o] = b]
  PROVE Becomes(o, View(b))
<1>1. objects'[o] = b /\ \A q \in Object : q # o => objects'[q] = objects[q]
  OBVIOUS
<1>2. /\ Mapped' = [q \in Object |-> Mapped'[q]] /\ Mapped = [q \in Object |-> Mapped[q]]
  BY DEF Mapped
<1>3. \A q \in Object : Mapped'[q] = View(objects'[q]) /\ Mapped[q] = View(objects[q])
  BY DEF Mapped, View, St, IsBlob
<1>4. \A q \in Object : Mapped'[q] = IF q = o THEN View(b) ELSE Mapped[q]
  BY <1>1, <1>3
<1> QED
  BY <1>2, <1>4 DEF Becomes

LEMMA DoNothing ==
  ASSUME Mapped' = Mapped
  PROVE ByteStep
BY DEF ByteStep

LEMMA DoCreate ==
  ASSUME NEW o \in Object, Mapped[o] = <<>>, NEW n \in 0 .. MaxSize, Becomes(o, St(Zeros(n), 0))
  PROVE ByteStep
<1>1. Abstract!Create(o)
  BY DEF Abstract!Create, Abstract!Stream, Abstract!Zeros, Zeros, St, Becomes, Mapped
<1> QED
  BY <1>1 DEF ByteStep, Abstract!Next

LEMMA DoClone ==
  ASSUME NEW o \in Object, Mapped[o] = <<>>, NEW p \in Object, NEW d, NEW x, Mapped[p] = St(d, x), Becomes(o, St(d, 0))
  PROVE ByteStep
<1>1. Mapped[p] # <<>> /\ Mapped' = [Mapped EXCEPT ![o] = Abstract!Stream(Mapped[p][1].data, 0)]
  <2>1. Mapped[p] # <<>> /\ Mapped[p][1].data = d
    BY StFields
  <2>2. St(d, 0) = Abstract!Stream(d, 0)
    BY StFields
  <2> QED
    BY <2>1, <2>2 DEF Becomes
<1>2. Abstract!Create(o)
  BY <1>1 DEF Abstract!Create, Mapped
<1> QED
  BY <1>2 DEF ByteStep, Abstract!Next

LEMMA DoResize ==
  ASSUME NEW o \in Object, NEW d, NEW x, Mapped[o] = St(d, x), NEW n \in 0 .. MaxSize,
         Becomes(o, St(SubSeq(d, 1, Smaller(n, Len(d))), Smaller(n, x)))
  PROVE ByteStep
<1>1. Abstract!Truncated(Mapped[o][1], n) = St(SubSeq(d, 1, Smaller(n, Len(d))), Smaller(n, x))
  BY StFields DEF Abstract!Truncated, Abstract!Smaller, Smaller
<1>2. Mapped' = [Mapped EXCEPT ![o] = Abstract!Truncated(Mapped[o][1], n)]
  BY <1>1 DEF Becomes
<1>3. Abstract!Resize(o)
  BY <1>2 DEF Abstract!Resize, Mapped
<1> QED
  BY <1>3, StFields DEF ByteStep, Abstract!Next, Mapped

LEMMA DoReadBlob ==
  ASSUME NEW o \in Object, NEW p \in Object, NEW d, NEW x, Mapped[o] = St(d, x), NEW n \in 1 .. MaxSize,
         Mapped[p] = <<>>, x + Smaller(n, Len(d) - x) > x,
         Mapped' = [Mapped EXCEPT ![o] = St(d, x + Smaller(n, Len(d) - x)),
                                  ![p] = St(SubSeq(d, x + 1, x + Smaller(n, Len(d) - x)), 0)]
  PROVE ByteStep
<1>1. PICK r : r = Mapped[o][1] /\ r.data = d /\ r.pos = x
  BY StFields
<1>2. PICK end : end = r.pos + Abstract!Smaller(n, Len(r.data) - r.pos) /\ end = x + Smaller(n, Len(d) - x)
  BY <1>1 DEF Abstract!Smaller, Smaller
<1>3. St(d, end) = Abstract!Stream(d, end) /\ St(SubSeq(d, x + 1, end), 0) = Abstract!Stream(SubSeq(d, x + 1, end), 0)
  BY StFields
<1>4. Mapped' = [Mapped EXCEPT ![o] = Abstract!Stream(Mapped[o][1].data, end),
                               ![p] = Abstract!Stream(SubSeq(Mapped[o][1].data, Mapped[o][1].pos + 1, end), 0)]
  BY <1>1, <1>2, <1>3
<1>5. Mapped[p] = <<>> /\ end > Mapped[o][1].pos
  BY <1>1, <1>2
<1>6. end = Mapped[o][1].pos + Abstract!Smaller(n, Len(Mapped[o][1].data) - Mapped[o][1].pos)
  BY <1>1, <1>2
<1>7. LET s == Mapped[o][1]
          e == s.pos + Abstract!Smaller(n, Len(s.data) - s.pos)
      IN \E q \in Object :
           /\ Mapped[q] = <<>> /\ e > s.pos
           /\ Mapped' = [Mapped EXCEPT ![o] = Abstract!Stream(s.data, e), ![q] = Abstract!Stream(SubSeq(s.data, s.pos + 1, e), 0)]
  BY <1>4, <1>5, <1>6
<1>8. Abstract!Read(o)
  BY <1>7, Zenon DEF Abstract!Read, Mapped
<1> QED
  BY <1>8, StFields DEF ByteStep, Abstract!Next, Mapped

LEMMA DoWrite ==
  ASSUME NEW o \in Object, NEW d, NEW x, Mapped[o] = St(d, x), NEW bytes,
         \/ \E n \in Byte : bytes = <<n>> \/ bytes = <<n, 0>>
         \/ \E p \in Object : \E y : Mapped[p] = St(bytes, y),
         Becomes(o, Abstract!Written(St(d, x)[1], bytes))
  PROVE ByteStep
<1>1. Abstract!Write(o)
  BY StFields DEF Abstract!Write, Becomes, Mapped
<1> QED
  BY <1>1, StFields DEF ByteStep, Abstract!Next, Mapped

LEMMA DoSeek ==
  ASSUME NEW o \in Object, NEW d, NEW x, Mapped[o] = St(d, x), NEW y \in 0 .. Len(d), Becomes(o, St(d, y))
  PROVE ByteStep
<1>1. [Mapped[o] EXCEPT ![1] = [Mapped[o][1] EXCEPT !.pos = y]] = St(d, y)
  BY StChanged
<1>2. Mapped' = [Mapped EXCEPT ![o] = [Mapped[o] EXCEPT ![1] = [Mapped[o][1] EXCEPT !.pos = y]]]
  BY <1>1 DEF Becomes
<1>3. y \in 0 .. Len(Mapped[o][1].data)
  BY StFields
<1>4. Abstract!Seek(o)
  BY <1>2, <1>3 DEF Abstract!Seek, Mapped
<1> QED
  BY <1>4, StFields DEF ByteStep, Abstract!Next, Mapped

LEMMA DoSetByte ==
  ASSUME NEW o \in Object, NEW d, NEW x, Mapped[o] = St(d, x), NEW i \in DOMAIN d, NEW v \in Byte,
         Becomes(o, St([d EXCEPT ![i] = v], x))
  PROVE ByteStep
<1>1. [Mapped[o] EXCEPT ![1] = [Mapped[o][1] EXCEPT !.data = [d EXCEPT ![i] = v]]] = St([d EXCEPT ![i] = v], x)
  BY StChanged
<1>2. Mapped[o][1].data = d
  BY StFields
<1>3. Mapped' = [Mapped EXCEPT ![o] = [Mapped[o] EXCEPT ![1] = [Mapped[o][1] EXCEPT !.data = [Mapped[o][1].data EXCEPT ![i] = v]]]]
  BY <1>1, <1>2 DEF Becomes
<1>4. i \in DOMAIN Mapped[o][1].data
  BY <1>2
<1>5. Abstract!SetByte(o)
  BY <1>3, <1>4 DEF Abstract!SetByte, Mapped
<1> QED
  BY <1>5, StFields DEF ByteStep, Abstract!Next, Mapped

LEMMA DoDrop ==
  ASSUME NEW o \in Object, NEW d, NEW x, Mapped[o] = St(d, x), Becomes(o, <<>>)
  PROVE ByteStep
<1>1. Abstract!Drop(o)
  BY DEF Abstract!Drop, Becomes, Mapped
<1> QED
  BY <1>1, StFields DEF ByteStep, Abstract!Next, Mapped

Swapped(d, width) ==
  [i \in DOMAIN d |->
    LET word == (i - 1) \div width
    IN IF (word + 1) * width <= Len(d) THEN d[word * width + width - ((i - 1) % width)] ELSE d[i]]

LEMMA DoSwap ==
  ASSUME NEW o \in Object, NEW d, NEW x, Mapped[o] = St(d, x), NEW width \in {2, 4}, Becomes(o, St(Swapped(d, width), x))
  PROVE ByteStep
<1>1. Mapped[o][1].data = d
  BY StFields
<1>2. [Mapped[o] EXCEPT ![1] = [Mapped[o][1] EXCEPT !.data = Swapped(Mapped[o][1].data, width)]] = St(Swapped(d, width), x)
  BY <1>1, StChanged
<1>3. Mapped' = [Mapped EXCEPT ![o] = [Mapped[o] EXCEPT ![1] = [Mapped[o][1] EXCEPT !.data = Swapped(Mapped[o][1].data, width)]]]
  BY <1>2 DEF Becomes
<1>4. Abstract!Swap(o)
  BY <1>3 DEF Abstract!Swap, Mapped, Swapped
<1> QED
  BY <1>4, StFields DEF ByteStep, Abstract!Next, Mapped

(* What the functions of a blob do to its bytes. *)
LEMMA SoundFields ==
  ASSUME NEW b, Sound(b)
  PROVE /\ Within(b) /\ b \in BlobSet /\ b.kind = "blob" /\ b.size \in Nat /\ b.ptr \in Nat /\ b.buf \in Seq(Byte)
        /\ Len(b.buf) \in Nat /\ b.size <= Len(b.buf) /\ b.ptr <= b.size /\ b.size <= MaxSize
        /\ View(b) = St(Bytes(b), b.ptr) /\ Len(Bytes(b)) = b.size /\ Bytes(b) \in Seq(Byte)
        /\ \A i \in 1 .. b.size : Bytes(b)[i] = b.buf[i]
BY BlobFields, BytesOf DEF Sound, Within, View

LEMMA BytesAre ==
  ASSUME NEW c, Within(c), NEW s \in Seq(Byte), Len(s) = c.size, \A i \in 1 .. c.size : c.buf[i] = s[i]
  PROVE Bytes(c) = s
<1>1. PICK t \in Seq(Byte) : t = Bytes(c) /\ Len(t) = c.size /\ \A i \in 1 .. c.size : t[i] = c.buf[i]
  BY BytesOf
<1>2. Len(t) = Len(s) /\ \A i \in 1 .. Len(t) : t[i] = s[i]
  BY <1>1
<1>3. t = s
  BY <1>2, SeqEqual
<1> QED
  BY <1>1, <1>3

LEMMA NewBlob ==
  ASSUME NEW n \in 0 .. MaxSize, NEW s \in Seq(Byte), Len(s) = n
  PROVE \E c : c = [SQBlob(n) EXCEPT !.buf = s] /\ Sound(c) /\ View(c) = St(s, 0)
<1>1. PICK z \in Seq(Byte) : z = Zeros(n)
  BY ZerosSeq
<1>2. PICK b : b = [kind |-> "blob", size |-> n, ptr |-> 0, buf |-> z]
  OBVIOUS
<1>3. b = SQBlob(n)
  BY <1>1, <1>2 DEF SQBlob
<1>4. b \in BlobSet /\ b.size = n /\ b.ptr = 0
  BY <1>2, BlobMade
<1>5. PICK c \in BlobSet : c = [b EXCEPT !.buf = s] /\ c.size = b.size /\ c.ptr = b.ptr /\ c.buf = s
  BY <1>4, BlobBuf
<1>6. Sound(c)
  BY <1>4, <1>5 DEF Sound, Within
<1>7. Bytes(c) = s
  BY <1>4, <1>5, <1>6, BytesAre DEF Sound
<1>8. View(c) = St(s, 0)
  BY <1>4, <1>5, <1>6, <1>7, SoundFields
<1> QED
  BY <1>3, <1>5, <1>6, <1>8

LEMMA EmptyBlob ==
  ASSUME NEW n \in 0 .. MaxSize
  PROVE Sound(SQBlob(n)) /\ View(SQBlob(n)) = St(Zeros(n), 0)
<1>1. PICK z \in Seq(Byte) : z = Zeros(n) /\ Len(z) = n
  BY ZerosSeq
<1>2. PICK c : c = [SQBlob(n) EXCEPT !.buf = z] /\ Sound(c) /\ View(c) = St(z, 0)
  BY <1>1, NewBlob
<1>3. [SQBlob(n) EXCEPT !.buf = z] = SQBlob(n)
  BY <1>1 DEF SQBlob
<1> QED
  BY <1>1, <1>2, <1>3

LEMMA ResizeBytes ==
  ASSUME NEW b, Sound(b), NEW n \in 0 .. MaxSize
  PROVE \E c : /\ c = Resize(b, n) /\ Sound(c)
               /\ View(c) = St(SubSeq(Bytes(b), 1, Smaller(n, Len(Bytes(b)))), Smaller(n, b.ptr))
<1>0. n \in Nat /\ n <= MaxSize /\ Within(b)
  BY StreamAssumption, SoundFields
<1>1. PICK c : /\ c = Resize(b, n) /\ Within(c) /\ c.size = Smaller(b.size, n) /\ c.ptr = Smaller(b.ptr, n)
               /\ \A i \in 1 .. c.size : c.buf[i] = b.buf[i]
  <2>1. PICK k \in Nat : k = n
    BY <1>0
  <2>2. \E c : /\ c = Resize(b, k) /\ Within(c) /\ Len(c.buf) = k
               /\ c.size = Smaller(b.size, k) /\ c.ptr = Smaller(b.ptr, k)
               /\ \A i \in 1 .. c.size : c.buf[i] = b.buf[i]
    BY <1>0, ResizeIs
  <2> QED
    BY <2>1, <2>2
<1>2. PICK m \in Nat : m = c.size /\ m = Smaller(n, b.size) /\ m <= b.size /\ m <= MaxSize
  BY <1>0, <1>1, SoundFields DEF Smaller
<1>3. c.ptr = Smaller(n, b.ptr)
  BY <1>1, SoundFields DEF Smaller
<1>4. m \in 0 .. Len(Bytes(b)) /\ Bytes(b) \in Seq(Byte) /\ Len(Bytes(b)) = b.size
  BY <1>2, SoundFields
<1>5. PICK s \in Seq(Byte) : s = SubSeq(Bytes(b), 1, m) /\ Len(s) = m /\ \A i \in 1 .. m : s[i] = Bytes(b)[i]
  BY <1>4, FirstBytes
<1>6. ASSUME NEW i \in 1 .. c.size
      PROVE c.buf[i] = s[i]
  <2>1. i \in 1 .. m /\ i \in 1 .. b.size
    BY <1>2, SoundFields
  <2>2. c.buf[i] = b.buf[i] /\ Bytes(b)[i] = b.buf[i]
    BY <1>1, <2>1, SoundFields
  <2> QED
    BY <1>5, <2>1, <2>2
<1>7. Bytes(c) = s
  BY <1>1, <1>2, <1>5, <1>6, BytesAre
<1>8. Sound(c)
  BY <1>1, <1>2 DEF Sound
<1>9. View(c) = St(s, c.ptr)
  BY <1>7, <1>8, SoundFields
<1> QED
  BY <1>1, <1>2, <1>3, <1>4, <1>5, <1>8, <1>9

LEMMA BytesKept ==
  ASSUME NEW b, Sound(b), NEW x \in 0 .. b.size
  PROVE \E c : c = [b EXCEPT !.ptr = x] /\ Sound(c) /\ View(c) = St(Bytes(b), x)
<1>1. x \in Nat /\ b \in BlobSet
  BY SoundFields
<1>2. PICK c \in BlobSet : c = [b EXCEPT !.ptr = x] /\ c.size = b.size /\ c.ptr = x /\ c.buf = b.buf
  BY <1>1, BlobPtr
<1>3. Sound(c)
  BY <1>1, <1>2, SoundFields DEF Sound, Within
<1>4. Bytes(c) = Bytes(b)
  BY <1>2 DEF Bytes
<1> QED
  BY <1>2, <1>3, <1>4, SoundFields

IsByteSet(s, a, i, v) ==
  /\ s = [a EXCEPT ![i] = v] /\ Len(s) = Len(a)
  /\ \A j \in 1 .. Len(a) : s[j] = IF j = i THEN v ELSE a[j]

LEMMA ByteSet ==
  ASSUME NEW a \in Seq(Byte), NEW i \in 1 .. Len(a), NEW v \in Byte
  PROVE \E s \in Seq(Byte) : IsByteSet(s, a, i, v)
<1>1. /\ [a EXCEPT ![i] = v] \in Seq(Byte) /\ Len([a EXCEPT ![i] = v]) = Len(a)
      /\ \A j \in 1 .. Len(a) : [a EXCEPT ![i] = v][j] = IF j = i THEN v ELSE a[j]
  BY ExceptSeq
<1> QED
  BY <1>1 DEF IsByteSet

LEMMA SetBytes ==
  ASSUME NEW b, Sound(b), NEW i \in 1 .. b.size, NEW v \in Byte
  PROVE \E c : c = [b EXCEPT !.buf[i] = v] /\ Sound(c) /\ View(c) = St([Bytes(b) EXCEPT ![i] = v], b.ptr)
<1>1. b.buf \in Seq(Byte) /\ i \in 1 .. Len(b.buf) /\ Bytes(b) \in Seq(Byte) /\ i \in 1 .. Len(Bytes(b)) /\ b \in BlobSet
  BY SoundFields
<1>2. PICK s \in Seq(Byte) : s = [b.buf EXCEPT ![i] = v] /\ Len(s) = Len(b.buf) /\ \A j \in 1 .. Len(b.buf) : s[j] = IF j = i THEN v ELSE b.buf[j]
  <2>1. PICK a \in Seq(Byte) : a = b.buf /\ i \in 1 .. Len(a)
    BY <1>1
  <2>2. \E z \in Seq(Byte) : IsByteSet(z, a, i, v)
    BY <2>1, ByteSet
  <2> QED
    BY <2>1, <2>2 DEF IsByteSet
<1>3. PICK t \in Seq(Byte) : t = [Bytes(b) EXCEPT ![i] = v] /\ Len(t) = Len(Bytes(b)) /\ \A j \in 1 .. Len(Bytes(b)) : t[j] = IF j = i THEN v ELSE Bytes(b)[j]
  <2>1. PICK a \in Seq(Byte) : a = Bytes(b) /\ i \in 1 .. Len(a)
    BY <1>1
  <2>2. \E z \in Seq(Byte) : IsByteSet(z, a, i, v)
    BY <2>1, ByteSet
  <2> QED
    BY <2>1, <2>2 DEF IsByteSet
<1>4. PICK c \in BlobSet : c = [b EXCEPT !.buf = s] /\ c.size = b.size /\ c.ptr = b.ptr /\ c.buf = s
  BY <1>1, BlobBuf
<1>5. Sound(c)
  BY <1>2, <1>4, SoundFields DEF Sound, Within
<1>6. Len(t) = c.size /\ \A j \in 1 .. c.size : c.buf[j] = t[j]
  <2>1. Len(t) = c.size /\ c.size = b.size
    BY <1>3, <1>4, SoundFields
  <2>2. ASSUME NEW j \in 1 .. c.size
        PROVE c.buf[j] = t[j]
    <3>1. j \in 1 .. b.size /\ j \in 1 .. Len(b.buf) /\ j \in 1 .. Len(Bytes(b)) /\ Bytes(b)[j] = b.buf[j]
      BY <2>1, SoundFields
    <3> QED
      BY <1>2, <1>3, <1>4, <3>1
  <2> QED
    BY <2>1, <2>2
<1>7. Bytes(c) = t
  BY <1>5, <1>6, BytesAre DEF Sound
<1>8. View(c) = St(t, b.ptr)
  BY <1>4, <1>5, <1>7, SoundFields
<1>9. [b EXCEPT !.buf = s] = [b EXCEPT !.buf[i] = v]
  BY <1>2
<1> QED
  BY <1>3, <1>4, <1>5, <1>8, <1>9

LEMMA ReadableIs ==
  ASSUME NEW b, Sound(b), NEW n \in Nat
  PROVE Readable(b, n) = Smaller(n, b.size - b.ptr) /\ Readable(b, n) \in Nat /\ b.ptr + Readable(b, n) \in 0 .. b.size
BY SoundFields DEF Readable, CanAdvance, Smaller

LEMMA BytesAfter ==
  ASSUME NEW d \in Seq(Byte), NEW q \in Nat
  PROVE \E r \in Seq(Byte) : /\ r = SubSeq(d, q + 1, Len(d)) /\ Len(r) = (IF q <= Len(d) THEN Len(d) - q ELSE 0)
                             /\ \A i \in 1 .. Len(r) : r[i] = d[q + i]
<1>1. PICK n \in Nat : n = Len(d)
  OBVIOUS
<1>2. PICK m \in Nat : m = q + 1
  OBVIOUS
<1>3. \A i \in m .. n : d[i] \in Byte
  BY <1>1, <1>2, ElementOfSeq
<1>4. /\ SubSeq(d, m, n) \in Seq(Byte) /\ Len(SubSeq(d, m, n)) = (IF m <= n THEN n - m + 1 ELSE 0)
      /\ \A i \in 1 .. n - m + 1 : SubSeq(d, m, n)[i] = d[m + i - 1]
  BY <1>3, SubSeqProperties
<1>5. PICK r \in Seq(Byte) : r = SubSeq(d, m, n) /\ Len(r) = (IF m <= n THEN n - m + 1 ELSE 0) /\ \A i \in 1 .. n - m + 1 : r[i] = d[m + i - 1]
  BY <1>4
<1>6. Len(r) = (IF q <= n THEN n - q ELSE 0)
  BY <1>2, <1>5
<1>7. ASSUME NEW i \in 1 .. Len(r)
      PROVE r[i] = d[q + i]
  <2>1. i \in 1 .. n - m + 1 /\ m + i - 1 = q + i
    BY <1>2, <1>6
  <2> QED
    BY <1>5, <2>1
<1> QED
  BY <1>1, <1>2, <1>5, <1>6, <1>7

LEMMA MiddleBytes ==
  ASSUME NEW e \in Seq(Byte), NEW q \in Nat, NEW y \in 0 .. Len(e), q <= y
  PROVE \E s \in Seq(Byte) : s = SubSeq(e, q + 1, y) /\ Len(s) = y - q /\ \A i \in 1 .. y - q : s[i] = e[q + i]
<1>1. PICK m \in Nat : m = q + 1
  OBVIOUS
<1>2. \A i \in m .. y : e[i] \in Byte
  <2>1. \A i \in m .. y : i \in 1 .. Len(e)
    BY <1>1
  <2> QED
    BY <2>1, ElementOfSeq
<1>3. y \in Nat
  OBVIOUS
<1>4. /\ SubSeq(e, m, y) \in Seq(Byte) /\ Len(SubSeq(e, m, y)) = (IF m <= y THEN y - m + 1 ELSE 0)
      /\ \A i \in 1 .. y - m + 1 : SubSeq(e, m, y)[i] = e[m + i - 1]
  BY <1>2, <1>3, SubSeqProperties
<1>5. PICK s \in Seq(Byte) : s = SubSeq(e, m, y) /\ Len(s) = (IF m <= y THEN y - m + 1 ELSE 0) /\ \A i \in 1 .. y - m + 1 : s[i] = e[m + i - 1]
  BY <1>4
<1>6. Len(s) = y - q
  BY <1>1, <1>3, <1>5
<1>7. ASSUME NEW i \in 1 .. y - q
      PROVE s[i] = e[q + i]
  <2>1. i \in 1 .. y - m + 1 /\ m + i - 1 = q + i
    BY <1>1, <1>3
  <2> QED
    BY <1>5, <2>1
<1> QED
  BY <1>1, <1>5, <1>6, <1>7

LEMMA Joined ==
  ASSUME NEW s \in Seq(Byte), NEW t \in Seq(Byte)
  PROVE \E u \in Seq(Byte) : /\ u = s \o t /\ Len(u) = Len(s) + Len(t)
                             /\ \A i \in 1 .. Len(s) : u[i] = s[i]
                             /\ \A i \in Nat : i > Len(s) /\ i <= Len(s) + Len(t) => u[i] = t[i - Len(s)]
<1>1. /\ s \o t \in Seq(Byte) /\ Len(s \o t) = Len(s) + Len(t)
      /\ \A i \in 1 .. Len(s) + Len(t) : (s \o t)[i] = IF i <= Len(s) THEN s[i] ELSE t[i - Len(s)]
  BY ConcatProperties
<1>2. PICK u \in Seq(Byte) : u = s \o t /\ Len(u) = Len(s) + Len(t)
      /\ \A i \in 1 .. Len(s) + Len(t) : u[i] = IF i <= Len(s) THEN s[i] ELSE t[i - Len(s)]
  BY <1>1
<1>3. Len(s) \in Nat /\ Len(t) \in Nat
  OBVIOUS
<1>4. \A i \in 1 .. Len(s) : i \in 1 .. Len(s) + Len(t) /\ i <= Len(s)
  BY <1>3
<1>5. \A i \in Nat : i > Len(s) /\ i <= Len(s) + Len(t) => i \in 1 .. Len(s) + Len(t) /\ ~(i <= Len(s))
  BY <1>3
<1> QED
  BY <1>2, <1>4, <1>5

(* Bytes written over a sequence, at each index. *)
LEMMA Spliced ==
  ASSUME NEW d \in Seq(Byte), NEW e \in Seq(Byte), NEW p \in Nat, p <= Len(d)
  PROVE \E w \in Seq(Byte) :
          /\ w = SubSeq(d, 1, p) \o e \o SubSeq(d, p + Len(e) + 1, Len(d))
          /\ Len(w) = (IF p + Len(e) <= Len(d) THEN Len(d) ELSE p + Len(e))
          /\ \A i \in 1 .. Len(w) : w[i] = Overwritten(d, e, p, i)
<1>1. PICK n \in Nat : n = Len(d)
  OBVIOUS
<1>2. PICK k \in Nat : k = Len(e)
  OBVIOUS
<1>3. p \in 0 .. Len(d) /\ p <= n
  BY <1>1
<1>4. PICK s \in Seq(Byte) : s = SubSeq(d, 1, p) /\ Len(s) = p /\ \A i \in 1 .. p : s[i] = d[i]
  BY <1>3, FirstBytes
<1>5. PICK q \in Nat : q = p + k
  OBVIOUS
<1>6. PICK r \in Seq(Byte) : /\ r = SubSeq(d, q + 1, Len(d)) /\ Len(r) = (IF q <= Len(d) THEN Len(d) - q ELSE 0)
                             /\ \A i \in 1 .. Len(r) : r[i] = d[q + i]
  BY BytesAfter
<1>7. PICK u \in Seq(Byte) : /\ u = s \o e /\ Len(u) = Len(s) + Len(e)
                             /\ \A i \in 1 .. Len(s) : u[i] = s[i]
                             /\ \A i \in Nat : i > Len(s) /\ i <= Len(s) + Len(e) => u[i] = e[i - Len(s)]
  BY Joined
<1>8. PICK w \in Seq(Byte) : /\ w = u \o r /\ Len(w) = Len(u) + Len(r)
                             /\ \A i \in 1 .. Len(u) : w[i] = u[i]
                             /\ \A i \in Nat : i > Len(u) /\ i <= Len(u) + Len(r) => w[i] = r[i - Len(u)]
  BY Joined
<1>9. PICK m \in Nat : m = Len(r) /\ m = (IF q <= n THEN n - q ELSE 0)
  <2>1. PICK m \in Nat : m = Len(r)
    OBVIOUS
  <2> QED
    BY <1>1, <1>6, <2>1
<1>10. Len(s) = p /\ Len(u) = q /\ Len(w) = q + m
  BY <1>2, <1>4, <1>5, <1>7, <1>8, <1>9
<1>11. Len(w) = (IF p + Len(e) <= Len(d) THEN Len(d) ELSE p + Len(e))
  <2>1. Len(w) = IF q <= n THEN n ELSE q
    BY <1>9, <1>10
  <2> QED
    BY <1>1, <1>2, <1>5, <2>1
<1>12. ASSUME NEW i \in 1 .. Len(w)
       PROVE w[i] = Overwritten(d, e, p, i)
  <2>1. i \in Nat /\ i >= 1 /\ i <= q + m
    BY <1>10
  <2>2. Overwritten(d, e, p, i) = IF i \in p + 1 .. q THEN e[i - p] ELSE d[i]
    BY <1>2, <1>5 DEF Overwritten
  <2>3. CASE i <= p
    <3>1. i \in 1 .. p /\ i \in 1 .. q /\ i \notin p + 1 .. q
      BY <1>5, <2>1, <2>3
    <3>2. w[i] = u[i]
      BY <1>8, <1>10, <3>1
    <3>3. u[i] = s[i]
      BY <1>7, <1>10, <3>1
    <3> QED
      BY <1>4, <2>2, <3>1, <3>2, <3>3
  <2>4. CASE i > p /\ i <= q
    <3>1. i \in 1 .. q /\ i \in p + 1 .. q /\ i > Len(s) /\ i <= Len(s) + Len(e)
      BY <1>2, <1>5, <1>10, <2>1, <2>4
    <3>2. w[i] = u[i]
      BY <1>8, <1>10, <3>1
    <3>3. u[i] = e[i - p]
      BY <1>7, <1>10, <2>1, <3>1
    <3> QED
      BY <2>2, <3>1, <3>2, <3>3
  <2>5. CASE i > q
    <3>1. i \notin p + 1 .. q /\ i > Len(u) /\ i <= Len(u) + Len(r)
      BY <1>9, <1>10, <2>1, <2>5
    <3>2. w[i] = r[i - q]
      BY <1>8, <1>10, <2>1, <3>1
    <3>3. i - q \in 1 .. Len(r) /\ q + (i - q) = i
      BY <1>9, <2>1, <2>5
    <3>4. PICK j \in 1 .. Len(r) : j = i - q /\ q + j = i
      BY <3>3
    <3>5. r[j] = d[i]
      BY <1>6, <3>4
    <3> QED
      BY <2>2, <3>1, <3>2, <3>4, <3>5
  <2> QED
    BY <2>1, <2>3, <2>4, <2>5
<1>13. w = SubSeq(d, 1, p) \o e \o SubSeq(d, p + Len(e) + 1, Len(d))
  BY <1>2, <1>4, <1>5, <1>6, <1>7, <1>8
<1> QED
  BY <1>11, <1>12, <1>13

LEMMA WriteBytes ==
  ASSUME NEW b, Sound(b), NEW bytes \in Seq(Byte), b.ptr + Len(bytes) <= MaxSize
  PROVE \E c : c = Write(b, bytes) /\ Sound(c) /\ View(c) = Abstract!Written(St(Bytes(b), b.ptr)[1], bytes)
<1>1. PICK c : /\ c = Write(b, bytes) /\ Sound(c) /\ c.ptr = b.ptr + Len(bytes)
               /\ c.size = IF b.ptr + Len(bytes) <= b.size THEN b.size ELSE b.ptr + Len(bytes)
               /\ \A i \in 1 .. c.size : c.buf[i] = Overwritten(b.buf, bytes, b.ptr, i)
  BY WriteIs
<1>2. PICK d \in Seq(Byte) : d = Bytes(b) /\ Len(d) = b.size /\ \A i \in 1 .. b.size : d[i] = b.buf[i]
  BY SoundFields
<1>3. PICK p \in Nat : p = b.ptr /\ p <= b.size /\ b.size \in Nat
  BY SoundFields
<1>4. PICK w \in Seq(Byte) :
          /\ w = SubSeq(d, 1, p) \o bytes \o SubSeq(d, p + Len(bytes) + 1, Len(d))
          /\ Len(w) = (IF p + Len(bytes) <= Len(d) THEN Len(d) ELSE p + Len(bytes))
          /\ \A i \in 1 .. Len(w) : w[i] = Overwritten(d, bytes, p, i)
  BY <1>2, <1>3, Spliced
<1>5. Len(w) = c.size
  BY <1>1, <1>2, <1>3, <1>4
<1>6. ASSUME NEW i \in 1 .. c.size
      PROVE c.buf[i] = w[i]
  <2>1. c.buf[i] = Overwritten(b.buf, bytes, p, i) /\ w[i] = Overwritten(d, bytes, p, i)
    BY <1>1, <1>3, <1>4, <1>5
  <2>2. ASSUME i \notin p + 1 .. p + Len(bytes)
        PROVE d[i] = b.buf[i]
    <3>1. i \in 1 .. b.size
      <4>1. PICK k \in Nat : k = Len(bytes)
        OBVIOUS
      <4>2. c.size = IF p + k <= b.size THEN b.size ELSE p + k
        BY <1>1, <1>3, <4>1
      <4> QED
        BY <1>3, <2>2, <4>1, <4>2
    <3> QED
      BY <1>2, <3>1
  <2> QED
    BY <2>1, <2>2 DEF Overwritten
<1>7. Within(c)
  BY <1>1 DEF Sound
<1>8. Bytes(c) = w
  BY <1>4, <1>5, <1>6, <1>7, BytesAre
<1>9. View(c) = St(w, p + Len(bytes))
  BY <1>1, <1>3, <1>8, SoundFields
<1>10. PICK x : x = St(d, p)[1] /\ x.data = d /\ x.pos = p
  BY StFields
<1>11. Abstract!Written(x, bytes) = Abstract!Stream(w, p + Len(bytes))
  BY <1>4, <1>10 DEF Abstract!Written, Abstract!Before
<1>12. Abstract!Written(x, bytes) = St(w, p + Len(bytes))
  BY <1>11, StFields
<1> QED
  BY <1>1, <1>2, <1>3, <1>9, <1>10, <1>12

(* Of n bytes, i is in a whole word of two or four or in what is left over. *)
LEMMA WordWithin ==
  ASSUME NEW n \in Nat, NEW i \in Nat, i >= 1, NEW width \in {2, 4}
  PROVE LET num == (n - (n % width)) \div width
            w == (i - 1) \div width
            j == w * width + width - ((i - 1) % width)
        IN IF i > num * width THEN ~((w + 1) * width <= n) \/ i > n ELSE (w + 1) * width <= n /\ j \in 1 .. n
<1>1. CASE width = 2
  <2>1. PICK q \in Nat : q = i - 1
    OBVIOUS
  <2>2. PICK num \in Nat, e \in Nat : num = (n - (n % 2)) \div 2 /\ e < 2 /\ n = num * 2 + e
    OBVIOUS
  <2>3. PICK w \in Nat, r \in Nat : w = q \div 2 /\ r = q % 2 /\ r < 2 /\ q = w * 2 + r
    OBVIOUS
  <2>4. IF i > num * 2 THEN ~((w + 1) * 2 <= n) \/ i > n ELSE (w + 1) * 2 <= n /\ w * 2 + 2 - r \in 1 .. n
    BY <2>1, <2>2, <2>3
  <2> QED
    BY <1>1, <2>1, <2>2, <2>3, <2>4
<1>2. CASE width = 4
  <2>1. PICK q \in Nat : q = i - 1
    OBVIOUS
  <2>2. PICK num \in Nat, e \in Nat : num = (n - (n % 4)) \div 4 /\ e < 4 /\ n = num * 4 + e
    OBVIOUS
  <2>3. PICK w \in Nat, r \in Nat : w = q \div 4 /\ r = q % 4 /\ r < 4 /\ q = w * 4 + r
    OBVIOUS
  <2>4. IF i > num * 4 THEN ~((w + 1) * 4 <= n) \/ i > n ELSE (w + 1) * 4 <= n /\ w * 4 + 4 - r \in 1 .. n
    BY <2>1, <2>2, <2>3
  <2> QED
    BY <1>2, <2>1, <2>2, <2>3, <2>4
<1> QED
  BY <1>1, <1>2

LEMMA SwapBytes ==
  ASSUME NEW b, Sound(b), NEW width \in {2, 4}
  PROVE \E c : c = SwapWords(b, width) /\ Sound(c) /\ View(c) = St(Swapped(Bytes(b), width), b.ptr)
<1>1. PICK d \in Seq(Byte) : d = Bytes(b) /\ Len(d) = b.size /\ \A i \in 1 .. b.size : d[i] = b.buf[i]
  BY SoundFields
<1>2. PICK n \in Nat, num \in Nat : n = b.size /\ num = (n - (n % width)) \div width /\ n <= Len(b.buf) /\ num * width <= n
  <2>1. b.size \in Nat /\ b.size <= Len(b.buf)
    BY SoundFields
  <2>2. CASE width = 2
    BY <2>1, <2>2
  <2>3. CASE width = 4
    BY <2>1, <2>3
  <2> QED
    BY <2>2, <2>3
<1>3. PICK s : s = [i \in DOMAIN b.buf |->
                IF i > num * width THEN b.buf[i] ELSE b.buf[((i - 1) \div width) * width + width - ((i - 1) % width)]]
  OBVIOUS
<1>4. DOMAIN b.buf = 1 .. Len(b.buf) /\ b.buf \in Seq(Byte) /\ Len(b.buf) \in Nat /\ b \in BlobSet
  BY SoundFields, BlobFields
<1>5. ASSUME NEW i \in 1 .. Len(b.buf), ~(i > num * width)
      PROVE /\ ((i - 1) \div width) * width + width - ((i - 1) % width) \in 1 .. n
            /\ (((i - 1) \div width) + 1) * width <= n
  <2>1. i \in Nat /\ i >= 1
    BY <1>4
  <2> QED
    BY <1>2, <1>5, <2>1, WordWithin
<1>6. ASSUME NEW i \in 1 .. n, i > num * width
      PROVE ~((((i - 1) \div width) + 1) * width <= n)
  <2>1. i \in Nat /\ i >= 1 /\ ~(i > n)
    OBVIOUS
  <2> QED
    BY <1>2, <1>6, <2>1, WordWithin
<1>7. s \in Seq(Byte) /\ Len(s) = Len(b.buf)
  <2>1. ASSUME NEW i \in 1 .. Len(b.buf)
        PROVE s[i] \in Byte
    <3>1. CASE i > num * width
      BY <1>3, <1>4, <3>1
    <3>2. CASE ~(i > num * width)
      <4>1. PICK j \in 1 .. n : j = ((i - 1) \div width) * width + width - ((i - 1) % width)
        BY <1>5, <3>2
      <4>2. b.buf[j] \in Byte
        BY <1>2, <1>4
      <4> QED
        BY <1>3, <1>4, <3>2, <4>1, <4>2
    <3> QED
      BY <3>1, <3>2
  <2>2. s \in [1 .. Len(b.buf) -> Byte]
    BY <1>3, <1>4, <2>1
  <2> QED
    BY <1>4, <2>2, FunIsSeq
<1>8. PICK c \in BlobSet : c = [b EXCEPT !.buf = s] /\ c.size = b.size /\ c.ptr = b.ptr /\ c.buf = s
  BY <1>4, <1>7, BlobBuf
<1>9. c = SwapWords(b, width)
  BY <1>2, <1>3, <1>8 DEF SwapWords
<1>10. Sound(c)
  BY <1>7, <1>8, SoundFields DEF Sound, Within
<1>11. PICK t : t = Swapped(d, width)
  OBVIOUS
<1>12. ASSUME NEW i \in 1 .. n
       PROVE s[i] = t[i] /\ t[i] \in Byte
  <2>1. i \in 1 .. Len(b.buf) /\ i \in DOMAIN d
    BY <1>1, <1>2, <1>4
  <2>2. t[i] = IF (((i - 1) \div width) + 1) * width <= n THEN d[((i - 1) \div width) * width + width - ((i - 1) % width)] ELSE d[i]
    BY <1>1, <1>2, <1>11, <2>1 DEF Swapped
  <2>3. CASE i > num * width
    <3>1. t[i] = d[i]
      BY <1>6, <2>2, <2>3
    <3>2. s[i] = b.buf[i]
      BY <1>3, <1>4, <2>1, <2>3
    <3>3. d[i] = b.buf[i] /\ d[i] \in Byte
      BY <1>1, <1>2
    <3> QED
      BY <3>1, <3>2, <3>3
  <2>4. CASE ~(i > num * width)
    <3>1. PICK j \in 1 .. n : j = ((i - 1) \div width) * width + width - ((i - 1) % width)
      BY <1>5, <2>1, <2>4
    <3>2. t[i] = d[j] /\ s[i] = b.buf[j]
      BY <1>3, <1>4, <1>5, <2>1, <2>2, <2>4, <3>1
    <3>3. d[j] = b.buf[j] /\ d[j] \in Byte
      BY <1>1, <1>2
    <3> QED
      BY <3>2, <3>3
  <2> QED
    BY <2>3, <2>4
<1>13. t \in Seq(Byte) /\ Len(t) = n
  <2>1. t \in [1 .. n -> Byte]
    <3>1. DOMAIN d = 1 .. n
      BY <1>1, <1>2
    <3>2. t = [i \in 1 .. n |-> t[i]]
      BY <1>11, <3>1 DEF Swapped
    <3> QED
      BY <1>12, <3>2
  <2> QED
    BY <2>1, FunIsSeq
<1>14. Bytes(c) = t
  BY <1>2, <1>8, <1>10, <1>12, <1>13, BytesAre DEF Sound
<1> QED
  BY <1>1, <1>8, <1>9, <1>10, <1>11, <1>14, SoundFields

(* Every blob, at every step. *)
BlobInv == \A o \in Object : IsBlob(o) => Sound(objects[o])

LEMMA BlobOf ==
  ASSUME BlobInv, NEW o \in Object, IsBlob(o)
  PROVE Sound(objects[o]) /\ Mapped[o] = St(Bytes(objects[o]), objects[o].ptr)
<1>1. Sound(objects[o])
  BY DEF BlobInv
<1>2. PICK b : b = objects[o] /\ Sound(b)
  BY <1>1
<1>3. View(b) = St(Bytes(b), b.ptr)
  BY <1>2, SoundFields
<1> QED
  BY <1>2, <1>3, MappedIs

LEMMA NoBlob ==
  ASSUME NEW o \in Object, ~IsBlob(o)
  PROVE Mapped[o] = <<>>
BY MappedIs DEF IsBlob, View

LEMMA ToBlob ==
  ASSUME FileTypes, BlobInv, NEW o \in Object, NEW b, objects' = [objects EXCEPT ![o] = b], Sound(b)
  PROVE BlobInv' /\ Becomes(o, View(b))
<1>1. objects = [q \in Object |-> objects[q]]
  BY DEF FileTypes
<1>2. Becomes(o, View(b))
  BY <1>1, BecomeView
<1>3. \A q \in Object : objects'[q] = IF q = o THEN b ELSE objects[q]
  BY <1>1
<1>4. BlobInv'
  BY <1>3 DEF BlobInv, IsBlob
<1> QED
  BY <1>2, <1>4

LEMMA ToOther ==
  ASSUME FileTypes, BlobInv, NEW o \in Object, NEW b, objects' = [objects EXCEPT ![o] = b], b.kind # "blob"
  PROVE BlobInv' /\ ByteStep
<1>1. objects = [q \in Object |-> objects[q]]
  BY DEF FileTypes
<1>2. \A q \in Object : objects'[q] = IF q = o THEN b ELSE objects[q]
  BY <1>1
<1>3. BlobInv'
  BY <1>2 DEF BlobInv, IsBlob
<1>4. Becomes(o, View(b)) /\ View(b) = <<>>
  BY <1>1, BecomeView DEF View
<1>5. CASE IsBlob(o)
  <2>1. Becomes(o, <<>>)
    BY <1>4
  <2>2. PICK d, x : Mapped[o] = St(d, x)
    BY <1>5, BlobOf
  <2>3. ByteStep
    BY <2>1, <2>2, DoDrop
  <2> QED
    BY <1>3, <2>3
<1>6. CASE ~IsBlob(o)
  <2>1. Mapped = [q \in Object |-> Mapped[q]] /\ Mapped[o] = <<>>
    BY <1>6, NoBlob DEF Mapped
  <2>2. Mapped' = Mapped
    BY <1>4, <2>1 DEF Becomes
  <2> QED
    BY <1>3, <2>2, DoNothing
<1> QED
  BY <1>3, <1>5, <1>6

LEMMA SameObjects ==
  ASSUME BlobInv, UNCHANGED objects
  PROVE BlobInv' /\ ByteStep
<1>1. BlobInv'
  BY DEF BlobInv, IsBlob
<1>2. Mapped' = Mapped
  BY DEF Mapped, IsBlob
<1> QED
  BY <1>1, <1>2, DoNothing

LEMMA NotBlobs == None.kind = "none" /\ NULL.kind = "null" /\ \A h, owns : SQFile(h, owns).kind = "file"
BY DEF None, NULL, SQFile

LEMMA ConstructorStep ==
  ASSUME FileTypes, BlobInv, NEW o \in Object, _blob_constructor(o)
  PROVE BlobInv' /\ ByteStep
<1>1. PICK n \in 0 .. MaxSize : objects' = [objects EXCEPT ![o] = SQBlob(n)]
  BY DEF _blob_constructor, Become
<1>2. PICK b : b = SQBlob(n)
  OBVIOUS
<1>3. Sound(b) /\ View(b) = St(Zeros(n), 0)
  BY <1>2, EmptyBlob
<1>4. BlobInv' /\ Becomes(o, View(b))
  BY <1>1, <1>2, <1>3, ToBlob
<1>5. Mapped[o] = <<>>
  BY NotBlobs, NoBlob DEF _blob_constructor, IsBlob
<1>6. Becomes(o, St(Zeros(n), 0))
  BY <1>3, <1>4
<1> QED
  BY <1>4, <1>5, <1>6, DoCreate

LEMMA ClonedStep ==
  ASSUME FileTypes, BlobInv, NEW o \in Object, _blob__cloned(o)
  PROVE BlobInv' /\ ByteStep
<1>1. PICK p \in Object : IsBlob(p) /\ objects' = [objects EXCEPT ![o] = [SQBlob(objects[p].size) EXCEPT !.buf = Bytes(objects[p])]]
  BY DEF _blob__cloned, Become
<1>2. PICK b : b = objects[p] /\ Sound(b) /\ Mapped[p] = St(Bytes(b), b.ptr)
  BY <1>1, BlobOf
<1>3. PICK n \in 0 .. MaxSize, s \in Seq(Byte) : n = b.size /\ s = Bytes(b) /\ Len(s) = n
  <2>1. b.size \in Nat /\ b.size <= MaxSize /\ Bytes(b) \in Seq(Byte) /\ Len(Bytes(b)) = b.size
    BY <1>2, SoundFields
  <2>2. b.size \in 0 .. MaxSize
    BY <2>1, StreamAssumption
  <2> QED
    BY <2>1, <2>2
<1>4. PICK c : c = [SQBlob(n) EXCEPT !.buf = s] /\ Sound(c) /\ View(c) = St(s, 0)
  BY <1>3, NewBlob
<1>5. objects' = [objects EXCEPT ![o] = c]
  BY <1>1, <1>2, <1>3, <1>4
<1>6. BlobInv' /\ Becomes(o, View(c))
  BY <1>4, <1>5, ToBlob
<1>7. Mapped[o] = <<>>
  BY NoBlob DEF _blob__cloned, IsBlob, Free
<1>8. Becomes(o, St(s, 0)) /\ Mapped[p] = St(s, b.ptr)
  BY <1>2, <1>3, <1>4, <1>6
<1> QED
  BY <1>6, <1>7, <1>8, DoClone

LEMMA ResizeStep ==
  ASSUME FileTypes, BlobInv, NEW o \in Object, _blob_resize(o)
  PROVE BlobInv' /\ ByteStep
<1>1. PICK n \in 0 .. MaxSize : IsBlob(o) /\ objects' = [objects EXCEPT ![o] = Resize(objects[o], n)]
  BY DEF _blob_resize, Become
<1>2. PICK b : b = objects[o] /\ Sound(b) /\ Mapped[o] = St(Bytes(b), b.ptr)
  BY <1>1, BlobOf
<1>3. PICK c : /\ c = Resize(b, n) /\ Sound(c)
               /\ View(c) = St(SubSeq(Bytes(b), 1, Smaller(n, Len(Bytes(b)))), Smaller(n, b.ptr))
  BY <1>2, ResizeBytes
<1>4. BlobInv' /\ Becomes(o, View(c))
  BY <1>1, <1>2, <1>3, ToBlob
<1>5. PICK d, x : d = Bytes(b) /\ x = b.ptr
  OBVIOUS
<1>6. Mapped[o] = St(d, x) /\ Becomes(o, St(SubSeq(d, 1, Smaller(n, Len(d))), Smaller(n, x)))
  BY <1>2, <1>3, <1>4, <1>5
<1> QED
  BY <1>4, <1>6, DoResize

LEMMA SetStep ==
  ASSUME FileTypes, BlobInv, NEW o \in Object, _blob__set(o)
  PROVE BlobInv' /\ ByteStep
<1>1. PICK idx \in 0 .. objects[o].size - 1, v \in Byte :
        IsBlob(o) /\ objects' = [objects EXCEPT ![o] = [objects[o] EXCEPT !.buf[idx + 1] = v]]
  BY DEF _blob__set, Become
<1>2. PICK b : b = objects[o] /\ Sound(b) /\ Mapped[o] = St(Bytes(b), b.ptr)
  BY <1>1, BlobOf
<1>3. PICK i \in 1 .. b.size : i = idx + 1
  <2>1. b.size \in Nat /\ idx \in 0 .. b.size - 1
    BY <1>2, SoundFields
  <2> QED
    BY <2>1
<1>4. PICK c : c = [b EXCEPT !.buf[i] = v] /\ Sound(c) /\ View(c) = St([Bytes(b) EXCEPT ![i] = v], b.ptr)
  BY <1>2, SetBytes
<1>5. BlobInv' /\ Becomes(o, View(c))
  BY <1>1, <1>2, <1>3, <1>4, ToBlob
<1>6. PICK d, x : d = Bytes(b) /\ x = b.ptr
  OBVIOUS
<1>7. Mapped[o] = St(d, x) /\ Becomes(o, St([d EXCEPT ![i] = v], x))
  BY <1>2, <1>4, <1>5, <1>6
<1>8. i \in DOMAIN d
  <2>1. d \in Seq(Byte) /\ Len(d) = b.size
    BY <1>2, <1>6, SoundFields
  <2> QED
    BY <2>1
<1> QED
  BY <1>5, <1>7, <1>8, DoSetByte

LEMMA SwapStep ==
  ASSUME FileTypes, BlobInv, NEW o \in Object, _blob_swap2(o) \/ _blob_swap4(o)
  PROVE BlobInv' /\ ByteStep
<1>1. PICK width \in {2, 4} : IsBlob(o) /\ objects' = [objects EXCEPT ![o] = SwapWords(objects[o], width)]
  BY DEF _blob_swap2, _blob_swap4, Become
<1>2. PICK b : b = objects[o] /\ Sound(b) /\ Mapped[o] = St(Bytes(b), b.ptr)
  BY <1>1, BlobOf
<1>3. PICK c : c = SwapWords(b, width) /\ Sound(c) /\ View(c) = St(Swapped(Bytes(b), width), b.ptr)
  BY <1>2, SwapBytes
<1>4. BlobInv' /\ Becomes(o, View(c))
  BY <1>1, <1>2, <1>3, ToBlob
<1>5. PICK d, x : d = Bytes(b) /\ x = b.ptr
  OBVIOUS
<1>6. Mapped[o] = St(d, x) /\ Becomes(o, St(Swapped(d, width), x))
  BY <1>2, <1>3, <1>4, <1>5
<1> QED
  BY <1>4, <1>6, DoSwap

(* The position alone moves. *)
LEMMA MoveStep ==
  ASSUME FileTypes, BlobInv, NEW o \in Object, IsBlob(o), NEW y \in 0 .. objects[o].size,
         objects' = [objects EXCEPT ![o] = [objects[o] EXCEPT !.ptr = y]]
  PROVE BlobInv' /\ ByteStep
<1>2. PICK b : b = objects[o] /\ Sound(b) /\ Mapped[o] = St(Bytes(b), b.ptr)
  BY BlobOf
<1>3. y \in 0 .. b.size
  BY <1>2
<1>4. PICK c : c = [b EXCEPT !.ptr = y] /\ Sound(c) /\ View(c) = St(Bytes(b), y)
  BY <1>2, <1>3, BytesKept
<1>5. BlobInv' /\ Becomes(o, View(c))
  BY <1>2, <1>4, ToBlob
<1>6. PICK d, x : d = Bytes(b) /\ x = b.ptr
  OBVIOUS
<1>7. Mapped[o] = St(d, x) /\ Becomes(o, St(d, y))
  BY <1>2, <1>4, <1>5, <1>6
<1>8. y \in 0 .. Len(d)
  BY <1>2, <1>3, <1>6, SoundFields
<1> QED
  BY <1>5, <1>7, <1>8, DoSeek

LEMMA ReadnStep ==
  ASSUME FileTypes, BlobInv, NEW o \in Object, _stream_readn(o)
  PROVE BlobInv' /\ ByteStep
<1>1. PICK n \in {1, 2} : IsBlob(o) /\ objects' = [objects EXCEPT ![o] = [objects[o] EXCEPT !.ptr = @ + Readable(objects[o], n)]]
  BY DEF _stream_readn, Become
<1>2. PICK b : b = objects[o] /\ Sound(b)
  BY <1>1, BlobOf
<1>3. n \in Nat
  OBVIOUS
<1>4. PICK y \in 0 .. b.size : y = b.ptr + Readable(b, n)
  BY <1>2, <1>3, ReadableIs
<1>5. objects' = [objects EXCEPT ![o] = [objects[o] EXCEPT !.ptr = y]] /\ y \in 0 .. objects[o].size
  BY <1>1, <1>2, <1>4
<1> QED
  BY <1>1, <1>5, MoveStep

LEMMA SeekStep ==
  ASSUME FileTypes, BlobInv, NEW o \in Object, _stream_seek(o)
  PROVE BlobInv' /\ ByteStep
<1>1. PICK offset \in -1 .. 1, origin \in {"b", "c", "e"} : IsBlob(o) /\ objects' = [objects EXCEPT ![o] = Seek(objects[o], offset, origin)]
  BY DEF _stream_seek, Become
<1>2. PICK b : b = objects[o] /\ Sound(b)
  BY <1>1, BlobOf
<1>3. b.size \in Nat /\ b.ptr \in Nat
  BY <1>2, SoundFields
<1>4. PICK base \in Nat : base = CASE origin = "b" -> 0 [] origin = "c" -> b.ptr [] origin = "e" -> b.size
  BY <1>3
<1>5. Seek(b, offset, origin) = IF base + offset > b.size \/ base + offset < 0 THEN b ELSE [b EXCEPT !.ptr = base + offset]
  BY <1>4 DEF Seek
<1>6. CASE base + offset > b.size \/ base + offset < 0
  <2>1. objects' = [objects EXCEPT ![o] = objects[o]]
    BY <1>1, <1>2, <1>5, <1>6
  <2>2. UNCHANGED objects
    BY <2>1 DEF FileTypes
  <2> QED
    BY <2>2, SameObjects
<1>7. CASE ~(base + offset > b.size \/ base + offset < 0)
  <2>1. PICK y \in 0 .. b.size : y = base + offset
    BY <1>3, <1>4, <1>7
  <2>2. objects' = [objects EXCEPT ![o] = [objects[o] EXCEPT !.ptr = y]] /\ y \in 0 .. objects[o].size
    BY <1>1, <1>2, <1>5, <1>7, <2>1
  <2> QED
    BY <1>1, <2>2, MoveStep
<1> QED
  BY <1>6, <1>7

LEMMA WriteStep ==
  ASSUME FileTypes, BlobInv, NEW o \in Object, IsBlob(o), NEW bytes \in Seq(Byte), Fits(objects[o], Len(bytes)),
         \/ \E n \in Byte : bytes = <<n>> \/ bytes = <<n, 0>>
         \/ \E p \in Object : \E y : Mapped[p] = St(bytes, y),
         objects' = [objects EXCEPT ![o] = Write(objects[o], bytes)]
  PROVE BlobInv' /\ ByteStep
<1>1. PICK b : b = objects[o] /\ Sound(b) /\ Mapped[o] = St(Bytes(b), b.ptr)
  BY BlobOf
<1>2. b.ptr + Len(bytes) <= MaxSize
  BY <1>1 DEF Fits
<1>3. PICK c : c = Write(b, bytes) /\ Sound(c) /\ View(c) = Abstract!Written(St(Bytes(b), b.ptr)[1], bytes)
  BY <1>1, <1>2, WriteBytes
<1>4. BlobInv' /\ Becomes(o, View(c))
  BY <1>1, <1>3, ToBlob
<1>5. PICK d, x : d = Bytes(b) /\ x = b.ptr
  OBVIOUS
<1>6. Mapped[o] = St(d, x) /\ Becomes(o, Abstract!Written(St(d, x)[1], bytes))
  BY <1>1, <1>3, <1>4, <1>5
<1>7. ByteStep
  BY <1>6, DoWrite
<1> QED
  BY <1>4, <1>7

LEMMA WritenStep ==
  ASSUME FileTypes, BlobInv, NEW o \in Object, _stream_writen(o)
  PROVE BlobInv' /\ ByteStep
<1>1. PICK n \in Byte : \E bytes \in {<<n>>, <<n, 0>>} :
        IsBlob(o) /\ Fits(objects[o], Len(bytes)) /\ objects' = [objects EXCEPT ![o] = Write(objects[o], bytes)]
  BY DEF _stream_writen, Become
<1>2. PICK bytes \in {<<n>>, <<n, 0>>} :
        IsBlob(o) /\ Fits(objects[o], Len(bytes)) /\ objects' = [objects EXCEPT ![o] = Write(objects[o], bytes)]
  BY <1>1
<1>3. bytes \in Seq(Byte)
  <2>1. 0 \in Byte /\ n \in Byte
    BY StreamAssumption
  <2>2. <<n>> \in Seq(Byte) /\ <<n, 0>> \in Seq(Byte)
    BY <2>1
  <2> QED
    BY <2>2
<1>4. \E m \in Byte : bytes = <<m>> \/ bytes = <<m, 0>>
  OBVIOUS
<1> QED
  BY <1>2, <1>3, <1>4, WriteStep

LEMMA WriteblobStep ==
  ASSUME FileTypes, BlobInv, NEW o \in Object, _stream_writeblob(o)
  PROVE BlobInv' /\ ByteStep
<1>1. PICK p \in Object : /\ IsBlob(o) /\ IsBlob(p) /\ Fits(objects[o], objects[p].size)
                          /\ objects' = [objects EXCEPT ![o] = Write(objects[o], Bytes(objects[p]))]
  BY DEF _stream_writeblob, Become
<1>2. PICK b : b = objects[p] /\ Sound(b) /\ Mapped[p] = St(Bytes(b), b.ptr)
  BY <1>1, BlobOf
<1>3. PICK bytes \in Seq(Byte) : bytes = Bytes(b) /\ Len(bytes) = b.size
  BY <1>2, SoundFields
<1>4. Fits(objects[o], Len(bytes)) /\ objects' = [objects EXCEPT ![o] = Write(objects[o], bytes)]
  BY <1>1, <1>2, <1>3
<1>5. \E q \in Object : \E y : Mapped[q] = St(bytes, y)
  BY <1>2, <1>3
<1> QED
  BY <1>1, <1>4, <1>5, WriteStep

LEMMA ReadblobStep ==
  ASSUME FileTypes, BlobInv, NEW o \in Object, _stream_readblob(o)
  PROVE BlobInv' /\ ByteStep
<1>1. PICK b : b = objects[o] /\ Sound(b) /\ Mapped[o] = St(Bytes(b), b.ptr) /\ IsBlob(o)
  BY BlobOf DEF _stream_readblob
<1>2. PICK n \in 1 .. MaxSize :
         LET res == Readable(b, Smaller(n, b.size))
         IN IF res = 0 THEN UNCHANGED vars
            ELSE \E p \in Object :
                   /\ Free(p)
                   /\ objects' = [objects EXCEPT ![o] = [b EXCEPT !.ptr = @ + res],
                        ![p] = [SQBlob(res) EXCEPT !.buf = SubSeq(b.buf, b.ptr + 1, b.ptr + res)]]
  BY <1>1, Zenon DEF _stream_readblob
<1>3. n \in Nat /\ b.size \in Nat /\ b.ptr \in Nat /\ b.ptr <= b.size /\ b.size <= MaxSize /\ Len(Bytes(b)) = b.size
      /\ b.buf \in Seq(Byte) /\ b.size <= Len(b.buf) /\ Len(b.buf) \in Nat
  BY <1>1, SoundFields
<1>4. PICK m \in Nat : m = Smaller(n, b.size)
  BY <1>3 DEF Smaller
<1>5. PICK res \in Nat : res = Readable(b, m) /\ res = Smaller(m, b.size - b.ptr) /\ b.ptr + res \in 0 .. b.size
  BY <1>1, ReadableIs
<1>6. res = Smaller(n, b.size - b.ptr)
  BY <1>3, <1>4, <1>5 DEF Smaller
<1>7. CASE res = 0
  <2>1. UNCHANGED objects
    BY <1>2, <1>4, <1>5, <1>7 DEF vars
  <2> QED
    BY <2>1, SameObjects
<1>8. CASE res # 0
  <2>1. PICK p \in Object :
          /\ Free(p)
          /\ objects' = [objects EXCEPT ![o] = [b EXCEPT !.ptr = @ + res],
               ![p] = [SQBlob(res) EXCEPT !.buf = SubSeq(b.buf, b.ptr + 1, b.ptr + res)]]
    BY <1>2, <1>4, <1>5, <1>8
  <2>2. PICK y \in 0 .. b.size : y = b.ptr + res
    BY <1>5
  <2>3. PICK c : c = [b EXCEPT !.ptr = y] /\ Sound(c) /\ View(c) = St(Bytes(b), y)
    BY <1>1, BytesKept
  <2>4. PICK k \in 0 .. MaxSize : k = res
    BY <1>3, <1>5, StreamAssumption
  <2>5. PICK s \in Seq(Byte) : s = SubSeq(b.buf, b.ptr + 1, y) /\ s = SubSeq(Bytes(b), b.ptr + 1, y) /\ Len(s) = k
    <3>1. PICK d \in Seq(Byte) : d = Bytes(b) /\ Len(d) = b.size /\ \A i \in 1 .. b.size : d[i] = b.buf[i]
      BY <1>1, SoundFields
    <3>2. PICK e \in Seq(Byte) : e = b.buf /\ b.size <= Len(e)
      BY <1>3
    <3>3. PICK q \in Nat : q = b.ptr /\ q <= y /\ y - q = k
      BY <1>3, <2>2, <2>4
    <3>a. q \in Nat /\ y \in Nat /\ q <= y /\ y \in 0 .. Len(e) /\ y \in 0 .. Len(d)
      BY <1>3, <3>1, <3>2, <3>3
    <3>4. PICK s \in Seq(Byte) : s = SubSeq(e, q + 1, y) /\ Len(s) = y - q /\ \A i \in 1 .. y - q : s[i] = e[q + i]
      BY <3>a, MiddleBytes
    <3>5. PICK t \in Seq(Byte) : t = SubSeq(d, q + 1, y) /\ Len(t) = y - q /\ \A i \in 1 .. y - q : t[i] = d[q + i]
      BY <3>a, MiddleBytes
    <3>6. ASSUME NEW i \in 1 .. Len(s)
          PROVE s[i] = t[i]
      <4>1. i \in 1 .. y - q /\ q + i \in 1 .. b.size
        <5>1. y <= b.size /\ b.size \in Nat
          BY <1>3
        <5>2. i \in 1 .. y - q
          BY <3>4
        <5> QED
          BY <3>a, <5>1, <5>2
      <4> QED
        BY <3>1, <3>2, <3>4, <3>5, <4>1
    <3>7. s = t
      BY <3>4, <3>5, <3>6, SeqEqual
    <3> QED
      BY <3>1, <3>2, <3>3, <3>4, <3>5, <3>7
  <2>6. PICK f : f = [SQBlob(k) EXCEPT !.buf = s] /\ Sound(f) /\ View(f) = St(s, 0)
    BY <2>5, NewBlob
  <2>7. objects' = [objects EXCEPT ![o] = c, ![p] = f]
    BY <2>1, <2>2, <2>3, <2>4, <2>5, <2>6
  <2>8. p # o /\ ~IsBlob(p)
    BY <1>1, <2>1 DEF Free, IsBlob
  <2>9. \A q \in Object : objects'[q] = IF q = p THEN f ELSE IF q = o THEN c ELSE objects[q]
    BY <2>7, <2>8 DEF FileTypes
  <2>10. BlobInv'
    BY <2>3, <2>6, <2>9 DEF BlobInv, IsBlob
  <2>11. \A q \in Object : Mapped'[q] = IF q = p THEN View(f) ELSE IF q = o THEN View(c) ELSE Mapped[q]
    <3>1. \A q \in Object : Mapped'[q] = View(objects'[q]) /\ Mapped[q] = View(objects[q])
      BY DEF Mapped, View, St, IsBlob
    <3> QED
      BY <2>9, <3>1
  <2>12. Mapped' = [Mapped EXCEPT ![o] = View(c), ![p] = View(f)]
    <3>1. Mapped' = [q \in Object |-> Mapped'[q]] /\ Mapped = [q \in Object |-> Mapped[q]]
      BY DEF Mapped
    <3>2. PICK g, h : g = View(c) /\ h = View(f)
      OBVIOUS
    <3>3. \A q \in Object : Mapped'[q] = IF q = p THEN h ELSE IF q = o THEN g ELSE Mapped[q]
      BY <2>11, <3>2
    <3>4. Mapped' = [Mapped EXCEPT ![o] = g, ![p] = h]
      BY <2>8, <3>1, <3>3
    <3> QED
      BY <3>2, <3>4
  <2>13. PICK d, x : d = Bytes(b) /\ x = b.ptr
    OBVIOUS
  <2>14. PICK r \in Nat : r = Smaller(n, Len(d) - x) /\ y = x + r /\ x + r > x
    BY <1>3, <1>5, <1>6, <1>8, <2>2, <2>13
  <2>15. Mapped' = [Mapped EXCEPT ![o] = St(d, x + Smaller(n, Len(d) - x)),
                                  ![p] = St(SubSeq(d, x + 1, x + Smaller(n, Len(d) - x)), 0)]
    BY <2>3, <2>5, <2>6, <2>12, <2>13, <2>14
  <2>16. Mapped[o] = St(d, x) /\ Mapped[p] = <<>>
    BY <1>1, <2>8, <2>13, NoBlob
  <2>17. x + Smaller(n, Len(d) - x) > x
    BY <2>14
  <2>18. ByteStep
    BY <2>15, <2>16, <2>17, DoReadBlob
  <2> QED
    BY <2>10, <2>18
<1> QED
  BY <1>7, <1>8

LEMMA NextByteStep ==
  ASSUME FileTypes, BlobInv, [LoadNext \/ StreamNext]_allVars
  PROVE BlobInv' /\ ByteStep
<1> HIDE DEF Cur, At, EOB
<1>1. CASE LoadNext \/ UNCHANGED allVars
  <2>1. UNCHANGED objects
    BY <1>1 DEF LoadNext, sqstd_loadfile, Tag, ThirdByte, ReadClosure, StartCompile, CompileReads, CompileSteps, CompileEnds,
                LoadEnds, Opened, allVars, vars
  <2> QED
    BY <2>1, SameObjects
<1>2. CASE Next
  <2>1. CASE HostOpens \/ HostCloses
    BY <2>1, SameObjects DEF HostOpens, HostCloses
  <2>2. ASSUME NEW o \in Object, BlobStep(o)
        PROVE BlobInv' /\ ByteStep
    BY <2>2, ConstructorStep, ClonedStep, ResizeStep, SetStep, SwapStep, ReadnStep, WritenStep, ReadblobStep, WriteblobStep,
       SeekStep DEF BlobStep
  <2>3. ASSUME NEW o \in Object, NEW b, objects' = [objects EXCEPT ![o] = b], b.kind # "blob"
        PROVE BlobInv' /\ ByteStep
    BY <2>3, ToOther
  <2>4. ASSUME NEW o \in Object, FileStep(o)
        PROVE BlobInv' /\ ByteStep
    <3>1. CASE _file_constructor(o)
      <4>1. PICK h \in Handle, owns \in BOOLEAN : objects' = [objects EXCEPT ![o] = SQFile(h, owns)]
        BY <3>1 DEF _file_constructor
      <4>2. PICK b : b = SQFile(h, owns) /\ b.kind # "blob"
        BY NotBlobs
      <4> QED
        BY <2>3, <4>1, <4>2
    <3>2. CASE _file_close(o)
      <4>1. IsFile(o) /\ objects' = [objects EXCEPT ![o] = IF objects[o].owns THEN SQFile(NoHandle, FALSE) ELSE objects[o]]
        BY <3>2 DEF _file_close, Close
      <4>2. PICK b : b = (IF objects[o].owns THEN SQFile(NoHandle, FALSE) ELSE objects[o]) /\ b.kind # "blob"
        BY <4>1, NotBlobs DEF IsFile
      <4> QED
        BY <2>3, <4>1, <4>2
    <3>3. CASE UseFile(o)
      BY <3>3, SameObjects DEF UseFile
    <3> QED
      BY <2>4, <3>1, <3>2, <3>3 DEF FileStep
  <2>5. ASSUME NEW o \in Object, NewInstance(o) \/ Release(o)
        PROVE BlobInv' /\ ByteStep
    <3>1. PICK b \in {NULL, None} : objects' = [objects EXCEPT ![o] = b]
      BY <2>5 DEF NewInstance, Release, Become, Close
    <3>2. b.kind # "blob"
      BY NotBlobs
    <3> QED
      BY <2>3, <3>1, <3>2
  <2> QED
    BY <1>2, <2>1, <2>2, <2>4, <2>5 DEF Next
<1> QED
  BY <1>1, <1>2 DEF StreamNext

LEMMA InitByteStreams == LoadInit => BlobInv /\ Abstract!Init
<1>1. SUFFICES ASSUME LoadInit
             PROVE BlobInv /\ Abstract!Init
  OBVIOUS
<1>2. \A o \in Object : objects[o] = None
  BY <1>1 DEF LoadInit, Init
<1>3. \A o \in Object : ~IsBlob(o)
  BY <1>2, NotBlobs DEF IsBlob
<1>4. BlobInv
  BY <1>3 DEF BlobInv
<1>5. Abstract!Init
  BY <1>3 DEF Abstract!Init
<1> QED
  BY <1>4, <1>5

(* No function of sqstdblobimpl.h leaves the position beyond the size or   *)
(* the size beyond what is allocated, on which the memcpy of Read and      *)
(* Write rely to stay within the buffer.                                   *)
THEOREM BlobsStayWithin == Spec => []BlobInv
<1>1. FileInv /\ BlobInv /\ [LoadNext \/ StreamNext]_allVars => BlobInv'
  BY NextByteStep DEF FileInv
<1> QED
  BY <1>1, InitByteStreams, FileInvariant, PTL DEF Spec

(* Blobs are strings of bytes with a position: what Write, Resize and      *)
(* GrowBufOf do to the buffer loses nothing that was written, and a blob   *)
(* that is made of another, read or cloned, has its bytes.                 *)
THEOREM BlobsAreByteStreams == Spec => ImplementsByteStreams
<1>1. FileInv /\ BlobInv /\ [LoadNext \/ StreamNext]_allVars => BlobInv' /\ ByteStep
  BY NextByteStep DEF FileInv
<1> QED
  BY <1>1, InitByteStreams, FileInvariant, PTL DEF Spec, ImplementsByteStreams, Abstract!Spec, ByteStep, Mapped
=============================================================================

------------------------------- MODULE SQLexer -------------------------------
(***************************************************************************)
(* The lexer (sqlexer.cpp), one character at a time: what Lex does with the*)
(* character it has and when it takes the next one from the reader.        *)
(* A character stands for its class: "blank" for tabs, returns and spaces, *)
(* "{" for all that are tokens of their own, "0", "7" and "9" for digits,  *)
(* "a", "e", "x", "u" and "z" for letters and the underscore.              *)
(***************************************************************************)
EXTENDS Naturals, Sequences, FiniteSets, TLC

CONSTANT MAX_HEX_DIGITS

EOB == "eob"             \* SQUIRREL_EOB: what the reader returns at the end, or a zero byte
Digit == {"0", "7", "9"}
Octal == {"0", "7"}
Hex == Digit \union {"a", "e"}
Alpha == {"a", "e", "x", "u", "z"}
Quote == {"'", "\""}

VARIABLES
  lexer,      \* the SQLexer
  newlines,   \* history: how many newlines have been passed
  between     \* history: what has been passed since the last token

(* at: where Lex is between two characters.  text: the operator, the type  *)
(* of number or the delimiter that has been read.  len: length of _longstr *)
(* up to 2, or digits read.  more: digits that may still follow.  token: the compiler's _token, what Lex gave.  *)
Off ==
  [cur |-> EOB, at |-> "off", text |-> "", len |-> 0, more |-> 0, token |-> "none", curtoken |-> "none", prevtoken |-> "none",
   line |-> 1]

LexerOff == lexer = Off /\ newlines = 0 /\ between = [token |-> "none", newline |-> FALSE]

(* Init reads the first character. *)
LexerInit(c) ==
  /\ lexer' = [Off EXCEPT !.cur = c, !.at = "idle"]
  /\ newlines' = 0 /\ between' = [token |-> "none", newline |-> FALSE]

At(place) == lexer.at = place
Cur(chars) == lexer.cur \in chars
Longer == IF lexer.len < 2 THEN lexer.len + 1 ELSE 2

(* NEXT: c follows, and lex is the lexer apart from that. *)
NEXT(c, lex) ==
  /\ lexer' = [lex EXCEPT !.cur = c]
  /\ newlines' = IF Cur({"\n"}) THEN newlines + 1 ELSE newlines
  /\ between' = [between EXCEPT !.newline = @ \/ (Cur({"\n"}) /\ lexer.at \notin {"block", "star", "string"})]

Stay(lex) == lexer' = lex /\ UNCHANGED <<newlines, between>>
Goto(place) == [lexer EXCEPT !.at = place]
Reading(place, text) == [lexer EXCEPT !.at = place, !.text = text, !.len = 0]

(* RETURN_TOKEN *)
Token(lex, t) == [lex EXCEPT !.at = "idle", !.prevtoken = lex.curtoken, !.curtoken = t, !.token = t, !.text = "", !.len = 0]

Error == Stay([Goto("failed") EXCEPT !.text = ""])

(* The compiler asks for a token. *)
Lex ==
  /\ At("idle") /\ lexer.token # EOB
  /\ lexer' = Goto("lex") /\ between' = [token |-> lexer.token, newline |-> FALSE] /\ UNCHANGED newlines
-----------------------------------------------------------------------------
(* The operators: what may follow what has been read of one. *)
Starts == {"/", "=", "<", ">", "!", "@", ".", "&", "|", ":", "*", "%", "-", "+"}

Follow(text) ==
  CASE text \in {"=", "!", "*", "%"} -> {"="}
    [] text = "<" -> {"=", "-", "<", "/"}
    [] text \in {"<=", ">>"} -> {">"}
    [] text = ">" -> {"=", ">"}
    [] text = "/" -> {"=", ">"}
    [] text \in {".", ".."} -> {"."}
    [] text \in {"&", "|", ":"} -> {text}
    [] text = "-" -> {"=", "-"}
    [] text = "+" -> {"=", "+"}
    [] OTHER -> {}

Operator(c) ==
  /\ At("op")
  /\ \/ Cur(Follow(lexer.text)) /\ NEXT(c, [lexer EXCEPT !.text = @ \o lexer.cur])
     \/ lexer.text = "/" /\ Cur({"*"}) /\ NEXT(c, Reading("block", ""))
     \/ lexer.text = "/" /\ Cur({"/"}) /\ NEXT(c, Reading("line", ""))
     \/ /\ lexer.text = "@" /\ Cur({"\""})
        /\ IF c = EOB THEN NEXT(c, Reading("failed", "")) ELSE NEXT(c, Reading("string", "@"))

OperatorEnds ==
  /\ At("op") /\ ~Cur(Follow(lexer.text))
  /\ ~(lexer.text = "/" /\ Cur({"*", "/"})) /\ ~(lexer.text = "@" /\ Cur({"\""}))
  /\ IF lexer.text = ".." THEN Error ELSE Stay(Token(lexer, lexer.text))

(* Mutant: a line comment takes its newline along. *)
MutLexLineComment(c) == At("line") /\ ~Cur({EOB}) /\ NEXT(c, IF Cur({"\n"}) THEN Goto("lex") ELSE lexer)

(* Mutant: the end of the text does not end a line comment. *)
MutLineCommentEnd(c) == At("line") /\ ~Cur({"\n"}) /\ NEXT(c, lexer)

LexLineComment(c) == At("line") /\ ~Cur({"\n", EOB}) /\ NEXT(c, lexer)
LineCommentEnds == At("line") /\ Cur({"\n", EOB}) /\ Stay(Goto("lex"))

(* Mutant: lines of a comment are not counted. *)
MutLexBlockComment(c) ==
  \/ At("block") /\ ~Cur({EOB}) /\ NEXT(c, IF Cur({"*"}) THEN Goto("star") ELSE lexer)
  \/ At("star") /\ Cur({"/"}) /\ NEXT(c, Goto("lex"))

LexBlockComment(c) ==
  \/ At("block") /\ Cur({"*"}) /\ NEXT(c, Goto("star"))
  \/ At("block") /\ Cur({"\n"}) /\ NEXT(c, [lexer EXCEPT !.line = @ + 1])
  \/ At("block") /\ ~Cur({"*", "\n", EOB}) /\ NEXT(c, lexer)
  \/ At("star") /\ Cur({"/"}) /\ NEXT(c, Goto("lex"))

BlockCommentGoesOn ==
  \/ At("block") /\ Cur({EOB}) /\ Error
  \/ At("star") /\ ~Cur({"/"}) /\ Stay(Goto("block"))
-----------------------------------------------------------------------------
(* ReadString.  text is the delimiter, "@" for that of a verbatim string,  *)
(* which a doubled quote does not end.                                     *)
verbatim == lexer.text = "@"
ndelim == IF verbatim THEN "\"" ELSE lexer.text
Append1 == [lexer EXCEPT !.len = Longer]

ReadString(c) ==
  /\ At("string")
  /\ \/ Cur({ndelim}) /\ NEXT(c, Goto("quote"))
     \/ Cur({"\n"}) /\ verbatim /\ NEXT(c, [Append1 EXCEPT !.line = @ + 1])
     \/ Cur({"\\"}) /\ ~verbatim /\ NEXT(c, Goto("escape"))
     \/ ~Cur({ndelim, EOB, "\n"}) /\ ~(Cur({"\\"}) /\ ~verbatim) /\ NEXT(c, Append1)

StringFails == At("string") /\ (Cur({EOB}) \/ (Cur({"\n"}) /\ ~verbatim)) /\ Error

DoubleQuote(c) == At("quote") /\ verbatim /\ Cur({"\""}) /\ NEXT(c, [Append1 EXCEPT !.at = "string"])

StringEnds ==
  /\ At("quote") /\ ~(verbatim /\ Cur({"\""}))
  /\ IF ndelim = "'" THEN IF lexer.len = 1 THEN Stay(Token(lexer, "integer")) ELSE Error
     ELSE Stay(Token(lexer, "string"))

(* Of the other escape letters, "a" and "0" stand for all. *)
HexEscape(letter) ==
  [lexer EXCEPT !.at = IF letter = "x" THEN "hexx" ELSE "hexu", !.more = IF letter = "x" THEN 2 ELSE 4]

Escape(c) ==
  /\ At("escape")
  /\ \/ Cur({"a", "0", "\\"} \union Quote) /\ NEXT(c, [Append1 EXCEPT !.at = "string"])
     \/ Cur({"x", "u"}) /\ NEXT(c, IF c \in Hex THEN HexEscape(lexer.cur) ELSE Goto("failed"))

EscapeFails == At("escape") /\ ~Cur({"a", "0", "\\", "x", "u"} \union Quote) /\ Error

(* ProcessStringHexEscape: the first digit must be there, more may follow. *)
(* AddUTF8 appends the bytes of the character, or none if it is none.      *)
Digits(c) == (At("hexx") \/ At("hexu")) /\ Cur(Hex) /\ lexer.more > 0 /\ NEXT(c, [lexer EXCEPT !.more = @ - 1])

DigitsEnd ==
  /\ ~Cur(Hex) \/ lexer.more = 0
  /\ \/ At("hexx") /\ Stay([Append1 EXCEPT !.at = "string", !.more = 0])
     \/ At("hexu") /\ \E n \in lexer.len .. 2 : Stay([lexer EXCEPT !.at = "string", !.len = n, !.more = 0])
-----------------------------------------------------------------------------
(* ReadNumber: text is the type.  The test of the type at an exponent is   *)
(* never true, so that 1e2e3 and 1.2.3 are numbers.                        *)
Number(c) ==
  \/ /\ At("number")
     /\ \/ lexer.text = "0" /\ Cur(Octal) /\ NEXT(c, Reading("octal", ""))
        \/ lexer.text = "0" /\ Cur({"x"}) /\ NEXT(c, Reading("hexnumber", ""))
        \/ ~(lexer.text = "0" /\ Cur(Octal \union {"x"})) /\ Cur(Digit) /\ NEXT(c, Reading("decimal", "integer"))
        \/ Cur({"."}) /\ NEXT(c, Reading("decimal", "float"))
        \/ Cur({"e"}) /\ NEXT(c, Reading("exponent", "float"))
  \/ At("octal") /\ Cur(Octal) /\ NEXT(c, lexer)
  \/ At("hexnumber") /\ Cur(Hex) /\ NEXT(c, [lexer EXCEPT !.len = IF @ > MAX_HEX_DIGITS THEN @ ELSE @ + 1])
  \/ At("decimal") /\ Cur(Digit) /\ NEXT(c, lexer)
  \/ At("decimal") /\ Cur({"."}) /\ NEXT(c, [lexer EXCEPT !.text = "float"])
  \/ At("decimal") /\ Cur({"e"}) /\ NEXT(c, Reading("exponent", "float"))
  \/ At("exponent") /\ Cur({"+", "-"}) /\ NEXT(c, Goto("digit"))
  \/ (At("exponent") \/ At("digit")) /\ Cur(Digit) /\ NEXT(c, Goto("decimal"))

NumberEnds ==
  \/ At("number") /\ ~Cur(Digit \union {".", "e"}) /\ ~(lexer.text = "0" /\ Cur({"x"})) /\ Stay(Token(lexer, "integer"))
  \/ At("octal") /\ ~Cur(Octal) /\ IF Cur(Digit) THEN Error ELSE Stay(Token(lexer, "integer"))
  \/ At("hexnumber") /\ ~Cur(Hex) /\ IF lexer.len > MAX_HEX_DIGITS THEN Error ELSE Stay(Token(lexer, "integer"))
  \/ At("decimal") /\ ~Cur(Digit \union {".", "e"}) /\ Stay(Token(lexer, lexer.text))
  \/ At("exponent") /\ ~Cur(Digit \union {"+", "-"}) /\ Error
  \/ At("digit") /\ ~Cur(Digit) /\ Error

ReadID(c) == At("id") /\ Cur(Alpha \union Digit) /\ NEXT(c, lexer)

(* GetIDType: the keywords are in a table. *)
IDEnds == At("id") /\ ~Cur(Alpha \union Digit) /\ \E t \in {"identifier", "keyword"} : Stay(Token(lexer, t))
-----------------------------------------------------------------------------
(* The loop of Lex. *)
Skip(c) ==
  /\ At("lex")
  /\ \/ Cur({"blank"}) /\ NEXT(c, lexer)
     \/ Cur({"\n"}) /\ NEXT(c, [lexer EXCEPT !.line = @ + 1, !.prevtoken = lexer.curtoken, !.curtoken = "\n"])
     \/ Cur({"#"}) /\ NEXT(c, Goto("line"))

StartToken(c) ==
  /\ At("lex")
  /\ \/ Cur(Starts) /\ NEXT(c, Reading("op", lexer.cur))
     \/ Cur(Quote) /\ NEXT(c, IF c = EOB THEN Goto("failed") ELSE Reading("string", lexer.cur))
     \/ Cur({"{", "\\"}) /\ NEXT(c, Token(lexer, lexer.cur))
     \/ Cur(Digit) /\ NEXT(c, Reading("number", lexer.cur))
     \/ Cur(Alpha) /\ NEXT(c, Reading("id", ""))

(* At the end of the text the tokens stay what they were. *)
EndOfText == At("lex") /\ Cur({EOB}) /\ Stay([lexer EXCEPT !.at = "idle", !.token = EOB])
ControlCharacter == At("lex") /\ Cur({"control"}) /\ Error

LexRead(c) ==
  \/ Skip(c) \/ StartToken(c) \/ Operator(c) \/ LexLineComment(c) \/ LexBlockComment(c)
  \/ ReadString(c) \/ DoubleQuote(c) \/ Escape(c) \/ Digits(c) \/ Number(c) \/ ReadID(c)

LexStay ==
  \/ EndOfText \/ ControlCharacter \/ OperatorEnds \/ LineCommentEnds \/ BlockCommentGoesOn
  \/ StringFails \/ StringEnds \/ EscapeFails \/ DigitsEnd \/ NumberEnds \/ IDEnds
-----------------------------------------------------------------------------
(* Lines of errors and of debug information: a newline counts wherever it  *)
(* stands, in comments and verbatim strings too, and counts once.          *)
LinesCounted == lexer.line = 1 + newlines

(* IsEndOfStatement and the check for a call or an index at the start of a *)
(* line ask _prevtoken: it says newline exactly when one stands between the*)
(* last two tokens outside comments, else it is the last token but one.    *)
PrevTokenRight ==
  At("idle") /\ lexer.token \notin {"none", EOB} =>
    lexer.prevtoken = IF between.newline THEN "\n" ELSE between.token
=============================================================================

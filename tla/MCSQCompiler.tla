---------------------------- MODULE MCSQCompiler ----------------------------
(* SQCompiler on small grammars: each has the tokens of some statements and *)
(* expressions, so that those nest in each other.                          *)
EXTENDS SQCompiler

Statements ==
  [tokens |-> {";", "{", "}", "while", "for", "foreach", "return", "switch", "case", "const", "enum", "default",
               "function", ")", "break", "continue", "try", "literal", "eof"},
   odd |-> {}, depth |-> 2, nest |-> 1, regs |-> 6, jumps |-> 1]

Jumps ==
  [tokens |-> {";", "while", "do", "for", "foreach", "switch", "case", "break", "continue", "try", "throw", "catch", "(", ")", "eof"},
   odd |-> {}, depth |-> 3, nest |-> 1, regs |-> 6, jumps |-> 2]

Assignments ==
  [tokens |-> {"id", "base", "[", "]", ".", "++", "unary", "delete", "binary", "=", ",", "function", ")", "eof"},
   odd |-> {}, depth |-> 1, nest |-> 2, regs |-> 5, jumps |-> 0]

Calls ==
  [tokens |-> {"id", "(", ")", "[", ".", "||", "rawcall", "+=", "?", ",", "++", "eof"},
   odd |-> {}, depth |-> 1, nest |-> 2, regs |-> 5, jumps |-> 0]

Tables ==
  [tokens |-> {"id", "[", "{", "}", ")", "=", "function", "class", "</", "/>", "eof"},
   odd |-> {}, depth |-> 1, nest |-> 2, regs |-> 5, jumps |-> 0]

Declarations ==
  [tokens |-> {"id", "[", "{", "}", ")", "=", "function", "class", "local", "if", "else", ";", "::", "eof"},
   odd |-> {}, depth |-> 1, nest |-> 1, regs |-> 5, jumps |-> 0]

Doubtful ==
  [tokens |-> {"id", "base", ".", "++", "binary", "=", "(", ")", "{", "}", "function", "delete", "eof"},
   odd |-> OddConstructs, depth |-> 1, nest |-> 2, regs |-> 5, jumps |-> 0]

MCGrammars == {Statements, Jumps, Assignments, Calls, Tables, Declarations}
MCDoubtful == {Doubtful}
=============================================================================

------------------------------ MODULE LoadFile ------------------------------
(***************************************************************************)
(* Files of scripts (sqstdio.cpp): sqstd_loadfile opens a file, looks at   *)
(* its first bytes, and feeds what follows to the lexer of a compiler      *)
(* through a buffer.  It shares the files with the streams of Streams.     *)
(***************************************************************************)
EXTENDS Streams, SQLexer

CONSTANTS
  IO_BUFFER_SIZE,
  Texts         \* bound: the kinds of files, with their characters and the longest length

VARIABLES
  load          \* the file that is being loaded, how it goes on and its IOBuffer

loadVars == <<load, lexer, newlines, between>>
allVars == <<vars, loadVars>>

NoLoad == [at |-> "no", handle |-> NoHandle, chars |-> {}, left |-> 0, size |-> 0, ptr |-> 0]

LoadInit == Init /\ LexerOff /\ load = NoLoad

(* Bound: a file is loaded when the script has no streams and the host no files. *)
sqstd_loadfile ==
  /\ load.at = "no" /\ host = {} /\ \A o \in Object : Free(o)
  /\ \E h \in Handle, text \in Texts : \E n \in 0 .. text.longest :
       sqstd_fopen(h) /\ load' = [NoLoad EXCEPT !.at = "tag", !.handle = h, !.chars = text.chars, !.left = n]
  /\ UNCHANGED <<objects, host, misused, lexer, newlines, between>>

Opened == UNCHANGED <<objects, handles, host, misused>>

(* The first two bytes: of compiled code, of UTF-8, or of a plain text.    *)
Tag ==
  /\ load.at = "tag" /\ Opened /\ UNCHANGED <<lexer, newlines, between>>
  /\ \/ load.left >= 2 /\ load' = [load EXCEPT !.at = "bytecode"]
     \/ load.left >= 2 /\ load' = [load EXCEPT !.at = "utf8", !.left = @ - 2]
     \/ load' = [load EXCEPT !.at = "plain"]

(* A third byte that is missing or is not the one of UTF-8 ends the load. *)
ThirdByte ==
  /\ load.at = "utf8" /\ Opened /\ UNCHANGED <<lexer, newlines, between>>
  /\ \/ load.left = 0 /\ load' = [load EXCEPT !.at = "close"]
     \/ load.left > 0 /\ \E at \in {"plain", "close"} : load' = [load EXCEPT !.at = at, !.left = @ - 1]

(* sq_readclosure calls file_read; whatever it makes of the file. *)
ReadClosure == load.at = "bytecode" /\ load' = [load EXCEPT !.at = "close"] /\ Opened /\ UNCHANGED <<lexer, newlines, between>>

(* What may be read: a zero byte of the file is an end too.               *)
Fed == load.chars \union {EOB}

(* The next character is c: at the end of the buffer the next part of the  *)
(* file is read, and at the end of the file the end of the text.           *)
_read_byte(c) ==
  IF load.ptr < load.size
  THEN c \in Fed /\ load' = [load EXCEPT !.ptr = @ + 1]
  ELSE LET size == Smaller(load.left, IO_BUFFER_SIZE)
       IN IF size > 0
          THEN c \in Fed /\ load' = [load EXCEPT !.size = size, !.ptr = 1, !.left = @ - size]
          ELSE c = EOB /\ load' = [load EXCEPT !.size = 0]

(* SQCompiler: the lexer is set up with the first character, then tokens   *)
(* are asked for until the last one or an error of lexer or compiler.      *)
StartCompile == load.at = "plain" /\ At("off") /\ Opened /\ \E c \in Fed : _read_byte(c) /\ LexerInit(c)
CompileReads == load.at = "plain" /\ Opened /\ \E c \in Fed : _read_byte(c) /\ LexRead(c)
CompileSteps == load.at = "plain" /\ (Lex \/ LexStay) /\ Opened /\ UNCHANGED load
CompileEnds ==
  /\ load.at = "plain" /\ (At("failed") \/ At("idle"))
  /\ load' = [load EXCEPT !.at = "close"] /\ lexer' = Off /\ newlines' = 0
  /\ between' = [token |-> "none", newline |-> FALSE] /\ Opened

LoadEnds ==
  load.at = "close" /\ sqstd_fclose(load.handle) /\ load' = NoLoad /\ UNCHANGED <<objects, host, lexer, newlines, between>>

LoadNext ==
  \/ sqstd_loadfile \/ Tag \/ ThirdByte \/ ReadClosure \/ StartCompile \/ CompileReads \/ CompileSteps
  \/ CompileEnds \/ LoadEnds

(* Scripts and the host do nothing while a file is loaded. *)
StreamNext == load.at = "no" /\ Next /\ UNCHANGED loadVars

Spec == LoadInit /\ [][LoadNext \/ StreamNext]_allVars
-----------------------------------------------------------------------------
(* Nobody uses a file that is closed or closes it twice; a file is closed  *)
(* as soon as neither the host, nor an instance that owns it, nor the load *)
(* of a script is left, whichever way that ends.                           *)
FilesOnce ==
  /\ ~misused
  /\ \A h \in Handle :
       LET owners == {o \in Object : IsOpen(o) /\ objects[o].handle = h /\ objects[o].owns}
       IN (handles[h] = "open")
            = (Cardinality(owners) + Cardinality({h} \intersect (host \union {load.handle})) = 1)

(* The lexer never asks its reader for more once it has given the end: the *)
(* text after a zero byte stays unread, and comments and strings that are  *)
(* not closed end.                                                         *)
EndStays == [][lexer.cur = EOB /\ lexer.at # "off" => lexer'.cur = EOB /\ load'.ptr = load.ptr]_allVars

Symmetry == Permutations(Object) \union Permutations(Handle)
=============================================================================

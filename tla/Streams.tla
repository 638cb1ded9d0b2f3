------------------------------- MODULE Streams -------------------------------
(***************************************************************************)
(* Streams (sqstdstream.cpp, sqstdblob.cpp, sqstdblobimpl.h, sqstdio.cpp): *)
(* the buffer of a blob, the functions that both kinds of streams share and*)
(* the life of a file's handle, between scripts, the host and the release  *)
(* of the object.                                                          *)
(***************************************************************************)
EXTENDS Integers, Sequences, FiniteSets, SequencesExt

CONSTANTS
  Object,    \* instances of blob and file that scripts have at the same time
  Handle,    \* files of the C library; each is opened once
  NoHandle,
  Byte,      \* the bytes that are written
  MaxSize    \* bound: the longest blob

ASSUME StreamAssumption == 0 \in Byte /\ MaxSize \in Nat \ {0}
ASSUME HandleAssumption == NoHandle \notin Handle

NULL == [kind |-> "null"]   \* an instance whose constructor has not run
None == [kind |-> "none"]   \* no instance

VARIABLES
  objects,   \* the user pointer of each instance
  handles,   \* of each file: closed, open, or never opened
  host,      \* the handles that the host has opened and must close itself
  misused    \* a handle has been used, or closed again, after it was closed

vars == <<objects, handles, host, misused>>

Init ==
  /\ objects = [o \in Object |-> None]
  /\ handles = [h \in Handle |-> "new"] /\ host = {} /\ misused = FALSE
-----------------------------------------------------------------------------
(* SQBlob: _size, _ptr and _buf, whose length is _allocated. *)
Zeros(n) == [i \in 1 .. n |-> 0]
Smaller(a, b) == IF a < b THEN a ELSE b
_allocated(b) == Len(b.buf)
Bytes(b) == SubSeq(b.buf, 1, b.size)

SQBlob(size) == [kind |-> "blob", size |-> size, ptr |-> 0, buf |-> Zeros(size)]

Resize(b, n) ==
  IF n = _allocated(b) THEN b
  ELSE [b EXCEPT !.buf = SubSeq(Bytes(b), 1, Smaller(b.size, n)) \o Zeros(n - Smaller(b.size, n)),
                 !.size = Smaller(@, n), !.ptr = Smaller(@, n)]

GrowBufOf(b, n) ==
  [(IF b.size + n <= _allocated(b) THEN b
    ELSE IF b.size + n > b.size * 2 THEN Resize(b, b.size + n)
    ELSE Resize(b, b.size * 2)) EXCEPT !.size = b.size + n]

CanAdvance(b, n) == b.ptr + n <= b.size

(* Mutant: the buffer grows by all that is written, wherever it is written. *)
MutWrite(b, bytes) ==
  LET grown == IF CanAdvance(b, Len(bytes)) THEN b ELSE GrowBufOf(b, Len(bytes))
  IN [grown EXCEPT !.buf = [i \in DOMAIN @ |-> IF i \in b.ptr + 1 .. b.ptr + Len(bytes) THEN bytes[i - b.ptr] ELSE @[i]],
                   !.ptr = @ + Len(bytes)]

Write(b, bytes) ==
  LET grown == IF CanAdvance(b, Len(bytes)) THEN b ELSE GrowBufOf(b, b.ptr + Len(bytes) - b.size)
  IN [grown EXCEPT !.buf = [i \in DOMAIN @ |-> IF i \in b.ptr + 1 .. b.ptr + Len(bytes) THEN bytes[i - b.ptr] ELSE @[i]],
                   !.ptr = @ + Len(bytes)]

(* How many bytes a Read of n gets. *)
Readable(b, n) ==
  IF CanAdvance(b, n) THEN n ELSE IF b.size - b.ptr > 0 THEN b.size - b.ptr ELSE 0

Seek(b, offset, origin) ==
  LET base == CASE origin = "b" -> 0 [] origin = "c" -> b.ptr [] origin = "e" -> b.size
  IN IF base + offset > b.size \/ base + offset < 0 THEN b ELSE [b EXCEPT !.ptr = base + offset]
-----------------------------------------------------------------------------
(* The functions of scripts.  SETUP_STREAM refuses an instance that has no *)
(* stream, and one whose file has been closed.                             *)
IsBlob(o) == objects[o].kind = "blob"
Free(o) == objects[o].kind = "none"
Become(o, b) == objects' = [objects EXCEPT ![o] = b] /\ UNCHANGED <<handles, host, misused>>

(* sq_getinteger reads the size, and a constructor refuses a negative one. *)
_blob_constructor(o) ==
  /\ objects[o] = NULL
  /\ \E size \in 0 .. MaxSize : Become(o, SQBlob(size))

_blob__cloned(o) ==
  /\ Free(o)
  /\ \E other \in Object :
       IsBlob(other) /\ Become(o, [SQBlob(objects[other].size) EXCEPT !.buf = Bytes(objects[other])])

_blob_resize(o) == IsBlob(o) /\ \E n \in 0 .. MaxSize : Become(o, Resize(objects[o], n))

_blob__set(o) ==
  IsBlob(o) /\ \E idx \in 0 .. objects[o].size - 1, val \in Byte : Become(o, [objects[o] EXCEPT !.buf[idx + 1] = val])

(* Bytes that do not fill a word stay where they are. *)
SwapWords(b, width) ==
  LET num == (b.size - (b.size % width)) \div width
  IN [b EXCEPT !.buf = [i \in DOMAIN @ |->
        IF i > num * width THEN @[i] ELSE @[((i - 1) \div width) * width + width - ((i - 1) % width)]]]

_blob_swap2(o) == IsBlob(o) /\ Become(o, SwapWords(objects[o], 2))
_blob_swap4(o) == IsBlob(o) /\ Become(o, SwapWords(objects[o], 4))

(* The value is lost when not all of its bytes are there. *)
_stream_readn(o) ==
  IsBlob(o) /\ \E n \in {1, 2} : Become(o, [objects[o] EXCEPT !.ptr = @ + Readable(objects[o], n)])

Fits(b, n) == b.ptr + n <= MaxSize

(* A small number in one byte or, the low one first, in two. *)
_stream_writen(o) ==
  IsBlob(o) /\ \E n \in Byte : \E bytes \in {<<n>>, <<n, 0>>} : Fits(objects[o], Len(bytes)) /\ Become(o, Write(objects[o], bytes))

(* sqstd_createblob makes the blob of what has been read. *)
_stream_readblob(o) ==
  /\ IsBlob(o)
  /\ \E n \in 1 .. MaxSize :
       LET size == Smaller(n, objects[o].size)
           res == Readable(objects[o], size)
           read == [objects[o] EXCEPT !.ptr = @ + res]
       IN IF res = 0 THEN UNCHANGED vars
          ELSE \E p \in Object :
                 /\ Free(p)
                 /\ objects' = [objects EXCEPT ![o] = read,
                      ![p] = [SQBlob(res) EXCEPT !.buf = SubSeq(objects[o].buf, objects[o].ptr + 1, objects[o].ptr + res)]]
                 /\ UNCHANGED <<handles, host, misused>>

(* The buffer of the other blob is taken before the write: it must not be  *)
(* the one that the write reallocates or overwrites.                       *)
_stream_writeblob(o) ==
  /\ IsBlob(o)
  /\ \E p \in Object :
       /\ IsBlob(p) /\ Fits(objects[o], objects[p].size)
       /\ p = o => objects[o].ptr = objects[o].size /\ 2 * objects[o].size <= _allocated(objects[o])
       /\ Become(o, Write(objects[o], Bytes(objects[p])))

_stream_seek(o) ==
  IsBlob(o) /\ \E offset \in -1 .. 1, origin \in {"b", "c", "e"} : Become(o, Seek(objects[o], offset, origin))

-----------------------------------------------------------------------------
(* SQFile: a file that the script opens is its own, one that the host      *)
(* passes is if the host says so.                                          *)
SQFile(h, owns) == [kind |-> "file", handle |-> h, owns |-> owns]
IsFile(o) == objects[o].kind = "file"
IsOpen(o) == IsFile(o) /\ objects[o].handle # NoHandle

(* The C library closes a handle, or is given one that is closed already. *)
sqstd_fclose(h) == handles' = [handles EXCEPT ![h] = "closed"] /\ misused' = (misused \/ handles[h] # "open")
sqstd_fopen(h) == handles[h] = "new" /\ handles' = [handles EXCEPT ![h] = "open"]

(* The host gives a file away only when no instance refers to it. *)
Referred(h) == \E o \in Object : IsFile(o) /\ objects[o].handle = h

_file_constructor(o) ==
  /\ objects[o] = NULL
  /\ \E h \in Handle :
       \/ sqstd_fopen(h) /\ objects' = [objects EXCEPT ![o] = SQFile(h, TRUE)] /\ UNCHANGED <<host, misused>>
       \/ \E owns \in BOOLEAN :
            /\ h \in host /\ (owns => ~Referred(h))
            /\ host' = IF owns THEN host \ {h} ELSE host
            /\ objects' = [objects EXCEPT ![o] = SQFile(h, owns)]
            /\ UNCHANGED <<handles, misused>>

(* Mutant: a file that is not its own is closed too. *)
MutClose(o, after) ==
  /\ objects' = [objects EXCEPT ![o] = after]
  /\ IF IsOpen(o) THEN sqstd_fclose(objects[o].handle) ELSE UNCHANGED <<handles, misused>>

(* SQFile::Close; after: what becomes of the instance. *)
Close(o, after) ==
  /\ objects' = [objects EXCEPT ![o] = after]
  /\ IF IsOpen(o) /\ objects[o].owns THEN sqstd_fclose(objects[o].handle) ELSE UNCHANGED <<handles, misused>>

_file_close(o) ==
  /\ IsFile(o) /\ UNCHANGED host
  /\ Close(o, IF objects[o].owns THEN SQFile(NoHandle, FALSE) ELSE objects[o])

(* Every function of a stream, on a file that SETUP_STREAM lets through. *)
UseFile(o) ==
  /\ IsOpen(o)
  /\ misused' = (misused \/ handles[objects[o].handle] # "open")
  /\ UNCHANGED <<objects, handles, host>>

(* The host opens files of its own, gets those of scripts through          *)
(* sqstd_getfile, and closes its own when no instance refers to them.      *)
HostOpens == \E h \in Handle : sqstd_fopen(h) /\ host' = host \union {h} /\ UNCHANGED <<objects, misused>>
HostCloses ==
  \E h \in host :
    /\ ~Referred(h)
    /\ sqstd_fclose(h) /\ host' = host \ {h} /\ UNCHANGED objects

(* An instance is made, its constructor runs or, in a derived class, does  *)
(* not; when nothing refers to it its release hook is called.              *)
NewInstance(o) == Free(o) /\ Become(o, NULL)
Release(o) == ~Free(o) /\ Close(o, None) /\ UNCHANGED host

BlobStep(o) ==
  \/ _blob_constructor(o) \/ _blob__cloned(o) \/ _blob_resize(o) \/ _blob__set(o) \/ _blob_swap2(o) \/ _blob_swap4(o)
  \/ _stream_readn(o) \/ _stream_writen(o) \/ _stream_readblob(o) \/ _stream_writeblob(o) \/ _stream_seek(o)

FileStep(o) == _file_constructor(o) \/ _file_close(o) \/ UseFile(o)

Next == HostOpens \/ HostCloses \/ \E o \in Object : BlobStep(o) \/ FileStep(o) \/ NewInstance(o) \/ Release(o)

-----------------------------------------------------------------------------
(* The buffer, its growth and its copies implement strings of bytes with a *)
(* position: nothing that is written is lost when the buffer is replaced.  *)
Abstract ==
  INSTANCE ByteStreams WITH streams <- [o \in Object |->
    IF IsBlob(o) THEN <<[data |-> Bytes(objects[o]), pos |-> objects[o].ptr]>> ELSE <<>>]
ImplementsByteStreams == Abstract!Spec

=============================================================================

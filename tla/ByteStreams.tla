----------------------------- MODULE ByteStreams -----------------------------
(* What blobs promise: each is a string of bytes with a position, which    *)
(* reading and writing move, and which never leaves the bytes.             *)
EXTENDS Integers, Sequences, SequencesExt

CONSTANTS Object, Byte, MaxSize
VARIABLE streams   \* of each object: <<>>, it is no blob, or <<[data, pos]>>

Stream(data, pos) == <<[data |-> data, pos |-> pos]>>
Zeros(n) == [i \in 1 .. n |-> 0]
Rest(s) == SubSeq(s.data, s.pos + 1, Len(s.data))
Before(s) == SubSeq(s.data, 1, s.pos)
Smaller(a, b) == IF a < b THEN a ELSE b

Written(s, bytes) ==
  Stream(Before(s) \o bytes \o SubSeq(s.data, s.pos + Len(bytes) + 1, Len(s.data)), s.pos + Len(bytes))

Truncated(s, n) == Stream(SubSeq(s.data, 1, Smaller(n, Len(s.data))), Smaller(n, s.pos))

Init == streams = [o \in Object |-> <<>>]

Create(o) ==
  /\ streams[o] = <<>>
  /\ \/ \E n \in 0 .. MaxSize : streams' = [streams EXCEPT ![o] = Stream(Zeros(n), 0)]
     \/ \E p \in Object : streams[p] # <<>> /\ streams' = [streams EXCEPT ![o] = Stream(streams[p][1].data, 0)]

(* Reading takes what there is: a value that is not there is lost too. *)
Read(o) ==
  \E n \in 1 .. MaxSize :
    LET s == streams[o][1]
        end == s.pos + Smaller(n, Len(s.data) - s.pos)
    IN \/ streams' = [streams EXCEPT ![o] = Stream(s.data, end)]
       \/ \E p \in Object :
            /\ streams[p] = <<>> /\ end > s.pos
            /\ streams' = [streams EXCEPT ![o] = Stream(s.data, end), ![p] = Stream(SubSeq(s.data, s.pos + 1, end), 0)]

Write(o) ==
  \/ \E n \in Byte : \E bytes \in {<<n>>, <<n, 0>>} : streams' = [streams EXCEPT ![o] = Written(streams[o][1], bytes)]
  \/ \E p \in Object : streams[p] # <<>> /\ streams' = [streams EXCEPT ![o] = Written(streams[o][1], streams[p][1].data)]

Seek(o) == \E pos \in 0 .. Len(streams[o][1].data) : streams' = [streams EXCEPT ![o][1].pos = pos]
SetByte(o) ==
  \E i \in DOMAIN streams[o][1].data, b \in Byte : streams' = [streams EXCEPT ![o][1].data[i] = b]
Swap(o) ==
  \E width \in {2, 4} :
    streams' = [streams EXCEPT ![o][1].data = [i \in DOMAIN @ |->
      LET word == (i - 1) \div width
      IN IF (word + 1) * width <= Len(@) THEN @[word * width + width - ((i - 1) % width)] ELSE @[i]]]
Resize(o) == \E n \in 0 .. MaxSize : streams' = [streams EXCEPT ![o] = Truncated(streams[o][1], n)]
Drop(o) == streams' = [streams EXCEPT ![o] = <<>>]

Next ==
  \E o \in Object :
    \/ Create(o)
    \/ streams[o] # <<>> /\ (Read(o) \/ Write(o) \/ Seek(o) \/ SetByte(o) \/ Swap(o) \/ Resize(o) \/ Drop(o))

Spec == Init /\ [][Next]_streams
=============================================================================

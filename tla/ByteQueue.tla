----------------------------- MODULE ByteQueue -----------------------------
(***************************************************************************)
(* What a Buffer promises to its connection: bytes come out as they went   *)
(* in, in order, none lost, none twice.  Where they lie is the business of *)
(* Buffer.                                                                 *)
(***************************************************************************)
EXTENDS Naturals, Sequences

CONSTANTS
  Bytes,            \* what a byte can be
  Chunks            \* what can be put at once

VARIABLES
  queue,            \* the bytes put and not yet taken, oldest first
  taken             \* what the last Take returned

vars == <<queue, taken>>

Init == queue = << >> /\ taken = << >>

Put(data) == queue' = queue \o data /\ taken' = taken

Drop(n) == queue' = SubSeq(queue, n + 1, Len(queue)) /\ taken' = taken

Take(n) ==
  /\ taken' = SubSeq(queue, 1, n)
  /\ queue' = SubSeq(queue, n + 1, Len(queue))

Next ==
  \/ \E data \in Chunks : Put(data)
  \/ \E n \in 0 .. Len(queue) : Drop(n) \/ Take(n)

Spec == Init /\ [][Next]_vars
=============================================================================

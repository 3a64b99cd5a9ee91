------------------------------- MODULE Buffer -------------------------------
(***************************************************************************)
(* The Buffer of a connection: one vector of bytes, of which those between *)
(* readerIndex_ and writerIndex_ are readable (Buffer.h, Buffer.cc).       *)
(*                                                                         *)
(* Indices are the code's, counted from 0: byte i of buffer_ is memory[i + *)
(* 1].  A buffer is used by one thread, so each method is one step.        *)
(***************************************************************************)
EXTENDS Integers, Sequences

CONSTANTS
  Bytes,            \* what a byte can be
  Zero,             \* the byte of fresh memory
  Chunks,           \* what can be appended, or arrive, at once
  kCheapPrepend,    \* the bytes kept free in front, 8
  kInitialSize,     \* what a new buffer can take, 1024
  ExtraSize,        \* sizeof extrabuf, 65535
  MaxReadable       \* no more readable bytes than this (a bound)

ASSUME BufferAssumption ==
  /\ Zero \in Bytes
  /\ Chunks \subseteq Seq(Bytes)
  /\ {kCheapPrepend, kInitialSize, ExtraSize, MaxReadable} \subseteq Nat

VARIABLES
  buf,              \* buffer_, readerIndex_ and writerIndex_
  taken             \* history: what the last retriveAsString returned

vars == <<buf, taken>>

Fresh(n) == [i \in 1 .. n |-> Zero]

Init ==
  /\ buf = [memory |-> Fresh(kCheapPrepend + kInitialSize),
            reader |-> kCheapPrepend, writer |-> kCheapPrepend]
  /\ taken = << >>

-----------------------------------------------------------------------------
(* The methods that ask.                                                   *)

ReadableBytes(b) == b.writer - b.reader
WritableBytes(b) == Len(b.memory) - b.writer
PrependableBytes(b) == b.reader

(* The n bytes from peek() on.                                             *)
Peek(b, n) == [i \in 1 .. n |-> b.memory[b.reader + i]]

Readable(b) == Peek(b, ReadableBytes(b))

-----------------------------------------------------------------------------
(* The methods that write.                                                 *)

(* std::copy of data to byte at and what follows, inside the memory.       *)
Overwrite(memory, at, data) ==
  [i \in 1 .. Len(memory) |->
     IF i - at \in 1 .. Len(data) THEN data[i - at] ELSE memory[i]]

(* vector::resize to a size not smaller.                                   *)
Resize(memory, n) ==
  [i \in 1 .. n |-> IF i <= Len(memory) THEN memory[i] ELSE Zero]

Grown(b, len) == [b EXCEPT !.memory = Resize(b.memory, b.writer + len)]

Compacted(b) ==
  [memory |-> Overwrite(b.memory, kCheapPrepend, Readable(b)),
   reader |-> kCheapPrepend,
   writer |-> kCheapPrepend + ReadableBytes(b)]

(* Faulty variant: the bytes kept free in front are counted as room.       *)
MakeSpaceTight(b, len) ==
  IF WritableBytes(b) + PrependableBytes(b) < len
  THEN Grown(b, len) ELSE Compacted(b)

(* Faulty variant: the room in front is never used again.                  *)
MakeSpaceGrow(b, len) == Grown(b, len)

MakeSpace(b, len) ==
  IF WritableBytes(b) + PrependableBytes(b) < len + kCheapPrepend
  THEN Grown(b, len) ELSE Compacted(b)

EnsureWritableBytes(b, len) ==
  IF WritableBytes(b) < len THEN MakeSpace(b, len) ELSE b

Written(b, data) ==
  [memory |-> Overwrite(b.memory, b.writer, data),
   reader |-> b.reader,
   writer |-> b.writer + Len(data)]

Appended(b, data) == Written(EnsureWritableBytes(b, Len(data)), data)

(* readv fills the free memory first, and extrabuf, unless the free memory *)
(* alone is as large; what came into extrabuf is appended.                 *)
Capacity(b) ==
  IF WritableBytes(b) < ExtraSize
  THEN WritableBytes(b) + ExtraSize ELSE WritableBytes(b)

(* Faulty variant: what spilled is appended where the data began.          *)
ReceivedUnmoved(b, data) ==
  IF Len(data) <= WritableBytes(b)
  THEN Written(b, data)
  ELSE Appended([Written(b, SubSeq(data, 1, WritableBytes(b)))
                   EXCEPT !.writer = b.writer],
                SubSeq(data, WritableBytes(b) + 1, Len(data)))

Received(b, data) ==
  IF Len(data) <= WritableBytes(b)
  THEN Written(b, data)
  ELSE Appended(Written(b, SubSeq(data, 1, WritableBytes(b))),
                SubSeq(data, WritableBytes(b) + 1, Len(data)))

Fits(data) == ReadableBytes(buf) + Len(data) <= MaxReadable

Put(data) ==
  /\ Fits(data)
  /\ buf' = Appended(buf, data)
  /\ UNCHANGED taken

ReadFd(data) ==
  /\ Fits(data)
  /\ Len(data) <= Capacity(buf)
  /\ buf' = Received(buf, data)
  /\ UNCHANGED taken

-----------------------------------------------------------------------------
(* The methods that take.                                                  *)

RetrivedAll(b) ==
  [memory |-> b.memory, reader |-> kCheapPrepend, writer |-> kCheapPrepend]

Retrived(b, len) ==
  IF len < ReadableBytes(b) THEN [b EXCEPT !.reader = @ + len]
                            ELSE RetrivedAll(b)

(* After a writeFd of len bytes, or by the user.                           *)
Retrive(len) ==
  /\ buf' = Retrived(buf, len)
  /\ UNCHANGED taken

(* The callers keep len within the readable bytes; nothing here does.      *)
RetriveAsString(len) ==
  /\ taken' = Peek(buf, len)
  /\ buf' = Retrived(buf, len)

RetriveAll ==
  /\ buf' = RetrivedAll(buf)
  /\ UNCHANGED taken

-----------------------------------------------------------------------------
Next ==
  \/ \E data \in Chunks : Put(data) \/ ReadFd(data)
  \/ \E len \in 0 .. ReadableBytes(buf) : Retrive(len) \/ RetriveAsString(len)
  \/ RetriveAll

Spec == Init /\ [][Next]_vars

-----------------------------------------------------------------------------
(* Safety *)

(* The indices are in order, and kCheapPrepend bytes stay free in front,   *)
(* through every mixture of growing, compacting and partial reads.         *)
IndicesOrdered ==
  /\ kCheapPrepend <= buf.reader
  /\ buf.reader <= buf.writer
  /\ buf.writer <= Len(buf.memory)

(* The inductive invariant: what is where, and of what type.               *)
IndInv ==
  /\ buf \in [memory : Seq(Bytes), reader : Nat, writer : Nat]
  /\ taken \in Seq(Bytes)
  /\ IndicesOrdered

(* The buffer grows only if what it must hold does not fit in the memory   *)
(* it has: freed bytes are used again.                                     *)
GrowsOnlyWhenFull ==
  [][Len(buf'.memory) > Len(buf.memory) =>
       kCheapPrepend + ReadableBytes(buf') > Len(buf.memory)]_vars

Queue == INSTANCE ByteQueue WITH queue <- Readable(buf)

(* The readable bytes are the bytes put and not yet taken: none is lost or *)
(* overwritten when the memory grows, is compacted, or fills in two parts. *)
ImplementsByteQueue == Queue!Spec
=============================================================================
